------------------------------ MODULE AssetRows ------------------------------
(***************************************************************************)
(* The rows of one compressed asset and the upserts that Bubblegum           *)
(* instructions make on them (program_transformers/src/bubblegum/db.rs).    *)
(*                                                                          *)
(* A group of columns that is always written together is one cell: who      *)
(* wrote it and with which sequence number.  A row that does not exist is   *)
(* the row whose columns all are NULL or have their default, which is what  *)
(* ON CONFLICT ... WHERE makes of it.                                       *)
(***************************************************************************)
EXTENDS Integers, FiniteSetsExt

CONSTANTS
    Null,
    SlotOf,          \* slot of each writer of a row
    CreatorCount,    \* how many creators each writer lists
    MaxCreators      \* bound on CreatorCount

Positions == 0..(MaxCreators - 1)

Unset == [by |-> Null, seq |-> Null]

NoAsset == [seq |-> Null, leaf |-> Unset, owner |-> Unset, base |-> Unset,
            compression |-> Null, burnt |-> FALSE, slot_updated |-> Null]

NoCreators == [p \in Positions |-> Unset]

-----------------------------------------------------------------------------
(* The WHERE clauses.  A comparison with NULL is not true in SQL, hence the *)
(* IS NULL alternatives.                                                    *)

\* Mutant: the upserts of the table asset do not look at decompression.
TakenAsCompressed(a) == TRUE

\* asset.seq = 0: the asset was decompressed.
Compressed(a) == a.seq # 0

\* Mutant: an instruction that comes late overwrites a newer one.
AnyOrder(old, seq) == TRUE

NotOlder(old, seq) == old = Null \/ seq >= old

NotOlderNorDecompressed(old, seq) == old = Null \/ (old # 0 /\ seq >= old)

-----------------------------------------------------------------------------
(* Table asset *)

upsert_asset_with_leaf_info(a, by, seq) ==
    IF Compressed(a) /\ NotOlder(a.leaf.seq, seq)
    THEN [a EXCEPT !.leaf = [by |-> by, seq |-> seq]] ELSE a

upsert_asset_with_owner_and_delegate_info(a, by, seq) ==
    IF Compressed(a) /\ NotOlder(a.owner.seq, seq)
    THEN [a EXCEPT !.owner = [by |-> by, seq |-> seq]] ELSE a

upsert_asset_with_compression_info(a, by) ==
    IF Compressed(a) THEN [a EXCEPT !.compression = by] ELSE a

upsert_asset_with_seq(a, seq) ==
    IF NotOlderNorDecompressed(a.seq, seq) THEN [a EXCEPT !.seq = seq] ELSE a

Greatest(s, t) == IF s # Null /\ s > t THEN s ELSE t

\* slot_updated is set when the row exists already: the INSERT leaves it out.
upsert_asset_base_info(a, by, seq) ==
    IF Compressed(a) /\ NotOlder(a.base.seq, seq)
    THEN [a EXCEPT !.base = [by |-> by, seq |-> seq],
                   !.slot_updated = IF a = NoAsset THEN Null
                                    ELSE Greatest(@, SlotOf[by])]
    ELSE a

\* Column burnt of the table, set without a guard (burn.rs).
set_burnt(a) == [a EXCEPT !.burnt = TRUE]

-----------------------------------------------------------------------------
(* Tables asset_data, asset_grouping, asset_authority, asset_creators *)

UpsertBySeq(cell, by, seq) ==
    IF NotOlderNorDecompressed(cell.seq, seq) THEN [by |-> by, seq |-> seq] ELSE cell

upsert_asset_data(cell, by, seq) == UpsertBySeq(cell, by, seq)

upsert_collection_info(cell, by, seq) == UpsertBySeq(cell, by, seq)

upsert_asset_authority(authority, by) == IF authority = Null THEN by ELSE authority

\* An empty list of creators is written as one empty creator at position 0.
upsert_asset_creators(creators, by, seq) ==
    [p \in Positions |-> IF p < CreatorCount[by] \/ p = 0
                         THEN UpsertBySeq(creators[p], by, seq) ELSE creators[p]]

-----------------------------------------------------------------------------
(* Reading the creators back (digital_asset_types, dao/scopes/asset.rs) *)

\* Mutant: rows of the newest slot are all taken as current.
KeepSlotOnly(creators) ==
    LET rows == {p \in Positions : creators[p] # Unset}
        slot(p) == SlotOf[creators[p].by]
    IN  IF rows = {} \/ CreatorCount[creators[Min(rows)].by] = 0 THEN {}
        ELSE {p \in rows : \A q \in rows : slot(q) <= slot(p)}

\* The positions get_by_id keeps.
filter_out_stale_creators(creators) ==
    LET rows == {p \in Positions : creators[p] # Unset}
        slot(p) == SlotOf[creators[p].by]
        fresh == {p \in rows : \A q \in rows : slot(q) <= slot(p)}
        seqs == {creators[p].seq : p \in fresh}
        seq == IF 0 \in seqs THEN 0 ELSE Max(seqs)
    IN  IF rows = {} \/ CreatorCount[creators[Min(rows)].by] = 0 THEN {}
        ELSE {p \in fresh : creators[p].seq = seq}
=============================================================================
