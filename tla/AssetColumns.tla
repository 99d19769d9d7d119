---------------------------- MODULE AssetColumns ----------------------------
(***************************************************************************)
(* asset_upserts.rs: the row of asset for an account-based asset.  Its        *)
(* columns come from three accounts (token account, mint, metadata), each      *)
(* group with the slot of the account it was copied from.                      *)
(***************************************************************************)
EXTENDS Integers

CONSTANT None      \* SQL NULL, or no row

\* The defaults of the schema.
NoAsset == [owner |-> None, slotTA |-> None, supply |-> 1, slotMint |-> None,
            ownerType |-> "single", class |-> None, slotMeta |-> None,
            slot |-> None, burnt |-> FALSE, agent |-> None, slotAgent |-> None]

\* excluded.slot >= row.slot OR row.slot IS NULL
NotOlder(s, t) == t = None \/ s >= t

GREATEST(s, t) == IF s = None \/ t > s THEN t ELSE s

\* The insert leaves slot_updated NULL.
upsert_assets_token_account_columns(row, owner, s) ==
    IF row = None THEN [NoAsset EXCEPT !.owner = owner, !.slotTA = s]
    ELSE IF NotOlder(s, row.slotTA)
         THEN [row EXCEPT !.owner = owner, !.slotTA = s, !.slot = GREATEST(@, s)]
         ELSE row

\* Mutant: the copy of a mint's row is written without a guard.
MintColumnsUnguarded(row, supply, s) ==
    IF row = None
    THEN [NoAsset EXCEPT !.supply = supply, !.slotMint = s, !.slot = s,
                         !.class = "fungible", !.ownerType = "token"]
    ELSE [row EXCEPT !.supply = supply, !.slotMint = s, !.slot = GREATEST(@, s)]

\* Class and type of owner are set by the insert only.
upsert_assets_mint_account_columns(row, supply, s) ==
    IF row = None
    THEN [NoAsset EXCEPT !.supply = supply, !.slotMint = s, !.slot = s,
                         !.class = "fungible", !.ownerType = "token"]
    ELSE IF NotOlder(s, row.slotMint)
         THEN [row EXCEPT !.supply = supply, !.slotMint = s, !.slot = GREATEST(@, s)]
         ELSE row

upsert_assets_metadata_account_columns(row, class, type, s) ==
    LET set(r, slot) == [r EXCEPT !.class = class, !.ownerType = type, !.slotMeta = s,
                                  !.burnt = FALSE, !.slot = slot] IN
    IF row = None THEN set(NoAsset, None)
    ELSE IF NotOlder(s, row.slotMeta) THEN set(row, GREATEST(row.slot, s)) ELSE row
=============================================================================
