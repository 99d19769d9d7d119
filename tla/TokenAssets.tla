----------------------------- MODULE TokenAssets -----------------------------
(***************************************************************************)
(* How program_transformers indexes the accounts of one token: its mint and  *)
(* token accounts (token, token_extensions), its metadata and edition         *)
(* accounts (token_metadata), its inscription, and the close instruction.     *)
(* Handlers of different accounts run at the same time, statement by          *)
(* statement; updates arrive in any order and any number of times.            *)
(***************************************************************************)
EXTENDS AssetColumns, FiniteSets

CONSTANTS
    Histories,     \* what may happen to the mint: [updates, indexed, workers], the account
                   \* updates [kind, key, slot, ..] and close instructions, the updates handled
                   \* before, one at a time, and the handlers that run at the same time
    Accounts,      \* token accounts of the mint
    Faults,        \* TRUE: a statement may fail
    Empty          \* the empty uri

Positions == 1..2

\* Every update of some history.
Versions == UNION {h.updates \cup h.indexed : h \in Histories}

VersionsOf(kind) == {u \in Versions : u.kind = kind}

\* What was indexed before is a mint without metadata of its own.  The slot tells the
\* versions of a metadata account, and those of an edition account, apart: the statements
\* compare nothing else.
ASSUME HistoryAssumption ==
    /\ \A u \in Versions : u.slot \in Nat
    /\ \A u \in VersionsOf("mint") : u.supply \in Nat
    /\ \A u \in VersionsOf("account") : u.key \in Accounts /\ u.amount \in Nat
    /\ \A u \in VersionsOf("metadata") : DOMAIN u.creators \subseteq Positions
    /\ \A h \in Histories :
          /\ \A u, v \in h.indexed : u.kind = "mint" /\ u.uri = None /\ u = v
          /\ \A u, v \in h.updates :
                u.kind = v.kind /\ u.kind \in {"metadata", "edition"} /\ u.slot = v.slot => u = v

Opt(S) == S \cup {None}

Owners == {u.owner : u \in VersionsOf("account")}
Uris == {u.uri : u \in VersionsOf("mint") \cup VersionsOf("metadata")}
Classes == {None, "fungible", "unknown"} \cup {u.standard : u \in VersionsOf("metadata")}

Creators == UNION {{u.creators[p] : p \in DOMAIN u.creators} : u \in VersionsOf("metadata")}

TokenRow == [supply : Nat, slot : Nat]
AccountRow == [owner : Owners, amount : Nat, slot : Nat]
AssetRow ==
    [owner : Opt(Owners), slotTA : Opt(Nat), supply : Nat, slotMint : Opt(Nat),
     ownerType : {"single", "token", "unknown"}, class : Classes, slotMeta : Opt(Nat),
     slot : Opt(Nat), burnt : BOOLEAN, agent : {None}, slotAgent : {None}]
AttachmentRow ==
    [type : {"MasterEditionV2", "TokenInscription"} \cup {u.type : u \in VersionsOf("edition")},
     data : Opt(Nat), slot : Nat, asset : BOOLEAN]
DataRow == [uri : Uris, slot : Nat]
AuthorityRow == [who : {u.authority : u \in VersionsOf("metadata")}, slot : Nat]
CollectionRow == [value : {u.collection : u \in VersionsOf("metadata")}, slot : Nat]
CreatorRow == [who : Creators, slot : Nat]

ASSUME SentinelAssumption ==
    /\ None \notin Nat /\ None \notin TokenRow /\ None \notin AssetRow
    /\ None \notin AttachmentRow /\ None \notin DataRow /\ None \notin CollectionRow
    /\ None \notin CreatorRow

VARIABLES
    history,         \* a member of Histories
    tokens,          \* the mint's row of tokens
    token_accounts,  \* [Accounts -> row]
    asset,           \* rows of asset: the mint's, and one with the metadata account's key
    asset_data, authority, collection,
    creators,        \* [position -> row]
    attachments,     \* rows of asset_v1_account_attachments: edition, inscription
    requested,       \* uris handed to the metadata downloader
    worker,          \* [history.workers -> None or a handler in progress]
    handled          \* updates some handler completed

vars == <<history, tokens, token_accounts, asset, asset_data, authority, collection, creators,
          attachments, requested, worker, handled>>

Updates == history.updates
Indexed == history.indexed
Workers == history.workers

\* token_extensions: only the slot.
upsert_assets_metadata_cols(row, s) ==
    IF row = None THEN [NoAsset EXCEPT !.slotMeta = s]
    ELSE IF NotOlder(s, row.slotMeta) THEN [row EXCEPT !.slotMeta = s] ELSE row

-----------------------------------------------------------------------------
(* Handlers *)

At(w, kind, pc) == worker[w] # None /\ worker[w].u.kind = kind /\ worker[w].pc = pc

Goto(w, pc) == worker' = [worker EXCEPT ![w].pc = pc] /\ UNCHANGED handled

Return(w) == worker' = [worker EXCEPT ![w] = None] /\ handled' = handled \cup {worker[w].u}

\* The handler returns Some(DownloadMetadataInfo) unless the uri is empty.
ReturnInfo(w) ==
    /\ requested' = requested \cup ({worker[w].u.uri} \ {Empty})
    /\ Return(w)

Begin(w, u) ==
    /\ worker[w] = None
    /\ worker' = [worker EXCEPT ![w] = [u |-> u, pc |-> "start", token |-> None, account |-> None]]
    /\ UNCHANGED <<history, tokens, token_accounts, asset, asset_data, authority, collection,
                   creators, attachments, requested, handled>>

\* A statement fails: the rest of the handler does not run.
Fail(w) ==
    /\ Faults /\ worker[w] # None
    /\ worker' = [worker EXCEPT ![w] = None]
    /\ UNCHANGED <<history, tokens, token_accounts, asset, asset_data, authority, collection,
                   creators, attachments, requested, handled>>

\* TokenAccount: the account's row, ...
UpsertTokenAccount(w) ==
    /\ At(w, "account", "start")
    /\ LET u == worker[w].u  row == token_accounts[u.key] IN
       token_accounts' = IF row = None \/ u.slot > row.slot
          THEN [token_accounts EXCEPT ![u.key] =
                    [owner |-> u.owner, amount |-> u.amount, slot |-> u.slot]]
          ELSE token_accounts
    /\ Goto(w, "token")
    /\ UNCHANGED <<history, tokens, asset, asset_data, authority, collection, creators, attachments,
                   requested>>

\* ... is the token non-fungible (decimals are 0 in this model), ...
FindToken(w) ==
    /\ At(w, "account", "token")
    /\ IF tokens # None /\ tokens.supply = 1 THEN Goto(w, "owner") ELSE Return(w)
    /\ UNCHANGED <<history, tokens, token_accounts, asset, asset_data, authority, collection,
                   creators, attachments, requested>>

\* ... then its owner is the asset's.
UpsertOwner(w) ==
    /\ At(w, "account", "owner")
    /\ asset' = [asset EXCEPT !["mint"] = upsert_assets_token_account_columns(@,
                    worker[w].u.owner, worker[w].u.slot)]
    /\ Return(w)
    /\ UNCHANGED <<history, tokens, token_accounts, asset_data, authority, collection, creators,
                   attachments, requested>>

UpsertToken(w) ==
    /\ At(w, "mint", "start")
    /\ LET u == worker[w].u IN
       tokens' = IF tokens = None \/ u.slot >= tokens.slot
                 THEN [supply |-> u.supply, slot |-> u.slot] ELSE tokens
    /\ Goto(w, "asset")
    /\ UNCHANGED <<history, token_accounts, asset, asset_data, authority, collection, creators,
                   attachments, requested>>

\* Only a Token-2022 mint carries its metadata.
UpsertMint(w) ==
    /\ At(w, "mint", "asset")
    /\ LET u == worker[w].u IN
       /\ asset' = [asset EXCEPT !["mint"] =
                        upsert_assets_mint_account_columns(@, u.supply, u.slot)]
       /\ IF u.uri = None THEN Return(w) ELSE Goto(w, "data")
    /\ UNCHANGED <<history, tokens, token_accounts, asset_data, authority, collection, creators,
                   attachments, requested>>

\* token_extensions::upsert_asset_data: two statements, then the download is requested.
UpsertExtensionData(w) ==
    /\ At(w, "mint", "data")
    /\ LET u == worker[w].u IN
       asset_data' = IF asset_data = None \/ u.slot >= asset_data.slot
                     THEN [uri |-> u.uri, slot |-> u.slot] ELSE asset_data
    /\ Goto(w, "meta")
    /\ UNCHANGED <<history, tokens, token_accounts, asset, authority, collection, creators,
                   attachments, requested>>

UpsertExtensionSlot(w) ==
    /\ At(w, "mint", "meta")
    /\ asset' = [asset EXCEPT !["mint"] = upsert_assets_metadata_cols(@, worker[w].u.slot)]
    /\ ReturnInfo(w)
    /\ UNCHANGED <<history, tokens, token_accounts, asset_data, authority, collection, creators,
                   attachments>>

-----------------------------------------------------------------------------
(* token_metadata: save_v1_asset *)

\* index_and_fetch_mint_data: find_model_with_retry gives up after three looks.
FindMint(w) ==
    /\ At(w, "metadata", "start")
    /\ worker' = [worker EXCEPT ![w].token = tokens,
                      ![w].pc = IF tokens = None THEN "owner" ELSE "mint"]
    /\ UNCHANGED <<history, tokens, token_accounts, asset, asset_data, authority, collection,
                   creators, attachments, requested, handled>>

CopyMint(w) ==
    /\ At(w, "metadata", "mint")
    /\ asset' = [asset EXCEPT !["mint"] = upsert_assets_mint_account_columns(@,
                    worker[w].token.supply, worker[w].token.slot)]
    /\ Goto(w, "owner")
    /\ UNCHANGED <<history, tokens, token_accounts, asset_data, authority, collection, creators,
                   attachments, requested>>

\* The class and the type of owner, by the token standard, else by the supply.
Supply(token) == IF token = None THEN 1 ELSE token.supply

Class(standard, token) ==
    IF standard # None THEN standard ELSE IF Supply(token) > 1 THEN "fungible" ELSE "unknown"

OwnerType(standard, token) ==
    CASE standard \in {"nft", "pnft"} -> "single"
      [] standard \in {"fungible", "fungible_asset"} -> "token"
      [] OTHER -> IF Supply(token) = 1 THEN "single"
                  ELSE IF Supply(token) > 1 THEN "token" ELSE "unknown"

\* index_token_account_data: the account with a balance that changed last.
FindAccount(w) ==
    /\ At(w, "metadata", "owner")
    /\ IF OwnerType(worker[w].u.standard, worker[w].token) = "token" THEN Goto(w, "txn")
       ELSE LET held == {a \in Accounts : token_accounts[a] # None /\ token_accounts[a].amount > 0} IN
            /\ UNCHANGED handled
            /\ IF held = {} THEN worker' = [worker EXCEPT ![w].pc = "txn"]
               ELSE \E a \in held :
                  /\ \A b \in held : token_accounts[a].slot >= token_accounts[b].slot
                  /\ worker' = [worker EXCEPT ![w].pc = "account",
                                              ![w].account = token_accounts[a]]
    /\ UNCHANGED <<history, tokens, token_accounts, asset, asset_data, authority, collection,
                   creators, attachments, requested>>

\* Mutant: the owner is copied with the slot of the metadata account.
CopyAccountLater(w) ==
    /\ At(w, "metadata", "account")
    /\ asset' = [asset EXCEPT !["mint"] = upsert_assets_token_account_columns(@,
                    worker[w].account.owner, worker[w].u.slot)]
    /\ Goto(w, "txn")
    /\ UNCHANGED <<history, tokens, token_accounts, asset_data, authority, collection, creators,
                   attachments, requested>>

CopyAccount(w) ==
    /\ At(w, "metadata", "account")
    /\ asset' = [asset EXCEPT !["mint"] = upsert_assets_token_account_columns(@,
                    worker[w].account.owner, worker[w].account.slot)]
    /\ Goto(w, "txn")
    /\ UNCHANGED <<history, tokens, token_accounts, asset_data, authority, collection, creators,
                   attachments, requested>>

\* Written only when the authority differs as well: its slot is that of its last change.
SaveAuthority(u) ==
    authority' = IF authority = None \/ (u.slot > authority.slot /\ u.authority # authority.who)
                 THEN [who |-> u.authority, slot |-> u.slot] ELSE authority

\* Mutant: an account without a collection leaves the row alone.
SaveKnownCollection(u) ==
    collection' = IF collection = None \/ (u.collection # None /\ u.slot >= collection.slot)
                  THEN [value |-> u.collection, slot |-> u.slot] ELSE collection

\* Written even when there is no collection.
SaveCollection(u) ==
    collection' = IF collection = None \/ u.slot >= collection.slot
                  THEN [value |-> u.collection, slot |-> u.slot] ELSE collection

SaveCreators(u) ==
    creators' = [p \in Positions |->
        IF p \in DOMAIN u.creators /\ (creators[p] = None \/ u.slot >= creators[p].slot)
        THEN [who |-> u.creators[p], slot |-> u.slot] ELSE creators[p]]

\* The transaction.
SaveMetadata(w) ==
    /\ At(w, "metadata", "txn")
    /\ LET u == worker[w].u IN
       /\ asset_data' = IF asset_data = None \/ u.slot > asset_data.slot
                        THEN [uri |-> u.uri, slot |-> u.slot] ELSE asset_data
       /\ asset' = [asset EXCEPT !["mint"] = upsert_assets_metadata_account_columns(@,
                       Class(u.standard, worker[w].token),
                       OwnerType(u.standard, worker[w].token), u.slot)]
       /\ attachments' = IF attachments["edition"] # None THEN attachments
             ELSE [attachments EXCEPT !["edition"] =
                      [type |-> "MasterEditionV2", data |-> None, slot |-> u.slot, asset |-> FALSE]]
       /\ SaveAuthority(u) /\ SaveCollection(u) /\ SaveCreators(u)
       /\ IF u.standard \in {"nft", "pnft"} THEN Goto(w, "attach") /\ UNCHANGED requested
          ELSE ReturnInfo(w)
    /\ UNCHANGED <<history, tokens, token_accounts>>

\* Mutant: the conflict clause writes every column of the model.
AttachAnew(w) ==
    /\ At(w, "metadata", "attach")
    /\ attachments' = [attachments EXCEPT !["edition"] =
          [type |-> "MasterEditionV2", data |-> None, slot |-> worker[w].u.slot, asset |-> TRUE]]
    /\ ReturnInfo(w)
    /\ UNCHANGED <<history, tokens, token_accounts, asset, asset_data, authority, collection, creators>>

\* upsert_asset_v1_account_attachments: the edition's row names the asset.
Attach(w) ==
    /\ At(w, "metadata", "attach")
    /\ attachments' = [attachments EXCEPT !["edition"].asset = TRUE]
    /\ ReturnInfo(w)
    /\ UNCHANGED <<history, tokens, token_accounts, asset, asset_data, authority, collection, creators>>

\* An empty metadata account: the row written is the one with the account's own key.
burn_v1_asset(w) ==
    /\ At(w, "empty", "start")
    /\ LET s == worker[w].u.slot  row == asset["metadata"] IN
       asset' = IF row = None
                THEN [asset EXCEPT !["metadata"] = [NoAsset EXCEPT !.slot = s, !.burnt = TRUE]]
                ELSE IF row.slot # None /\ s > row.slot
                THEN [asset EXCEPT !["metadata"].slot = s, !["metadata"].burnt = TRUE]
                ELSE asset
    /\ Return(w)
    /\ UNCHANGED <<history, tokens, token_accounts, asset_data, authority, collection, creators,
                   attachments, requested>>

\* save_master_edition and save_edition.
SaveEdition(w) ==
    /\ At(w, "edition", "start")
    /\ LET u == worker[w].u  row == attachments["edition"] IN
       attachments' = IF row # None /\ u.slot < row.slot THEN attachments
          ELSE [attachments EXCEPT !["edition"] =
                   [type |-> u.type, data |-> u.slot, slot |-> u.slot,
                    asset |-> row # None /\ row.asset]]
    /\ Return(w)
    /\ UNCHANGED <<history, tokens, token_accounts, asset, asset_data, authority, collection,
                   creators, requested>>

handle_token_inscription_program_update(w) ==
    /\ At(w, "inscription", "start")
    /\ LET u == worker[w].u  row == attachments["inscription"] IN
       attachments' = IF row # None /\ u.slot <= row.slot THEN attachments
          ELSE [attachments EXCEPT !["inscription"] =
                   [type |-> "TokenInscription", data |-> u.slot, slot |-> u.slot, asset |-> TRUE]]
    /\ Return(w)
    /\ UNCHANGED <<history, tokens, token_accounts, asset, asset_data, authority, collection,
                   creators, requested>>

-----------------------------------------------------------------------------
(* handle_token_program_close_ix: no slot is compared, and errors are only logged. *)

CloseFind(w) ==
    /\ At(w, "close", "start")
    /\ Goto(w, IF worker[w].u.key = "mint" /\ tokens # None THEN "both" ELSE "account")
    /\ UNCHANGED <<history, tokens, token_accounts, asset, asset_data, authority, collection,
                   creators, attachments, requested>>

DeleteToken(w) ==
    /\ At(w, "close", "both") \/ At(w, "close", "delete")
    /\ tokens' = None \/ (Faults /\ UNCHANGED tokens)
    /\ IF worker[w].pc = "both" THEN Goto(w, "burn") ELSE Return(w)
    /\ UNCHANGED <<history, token_accounts, asset, asset_data, authority, collection, creators,
                   attachments, requested>>

SetBurnt(w) ==
    /\ At(w, "close", "both") \/ At(w, "close", "burn")
    /\ \/ asset' = IF asset["mint"] = None THEN asset ELSE [asset EXCEPT !["mint"].burnt = TRUE]
       \/ Faults /\ UNCHANGED asset
    /\ IF worker[w].pc = "both" THEN Goto(w, "delete") ELSE Return(w)
    /\ UNCHANGED <<history, tokens, token_accounts, asset_data, authority, collection, creators,
                   attachments, requested>>

DeleteAccount(w) ==
    /\ At(w, "close", "account")
    /\ LET k == worker[w].u.key IN
       \/ token_accounts' = IF k \in Accounts THEN [token_accounts EXCEPT ![k] = None]
                            ELSE token_accounts
       \/ Faults /\ UNCHANGED token_accounts
    /\ Return(w)
    /\ UNCHANGED <<history, tokens, asset, asset_data, authority, collection, creators, attachments,
                   requested>>

-----------------------------------------------------------------------------
\* A mint and its token accounts that were indexed before.
Init ==
    /\ history \in Histories
    /\ LET mint == CHOOSE u \in Indexed : u.kind = "mint" IN
       /\ tokens = IF Indexed = {} THEN None ELSE [supply |-> mint.supply, slot |-> mint.slot]
       /\ asset = [k \in {"mint", "metadata"} |->
                     IF k = "metadata" \/ Indexed = {} THEN None
                     ELSE upsert_assets_mint_account_columns(None, mint.supply, mint.slot)]
    /\ token_accounts = [a \in Accounts |-> None]
    /\ asset_data = None /\ authority = None /\ collection = None
    /\ creators = [p \in Positions |-> None]
    /\ attachments = [k \in {"edition", "inscription"} |-> None]
    /\ requested = {} /\ handled = Indexed
    /\ worker = [w \in Workers |-> None]

Step(w) ==
    \/ UpsertTokenAccount(w) \/ FindToken(w) \/ UpsertOwner(w)
    \/ UpsertToken(w) \/ UpsertMint(w) \/ UpsertExtensionData(w) \/ UpsertExtensionSlot(w)
    \/ FindMint(w) \/ CopyMint(w) \/ FindAccount(w) \/ CopyAccount(w) \/ SaveMetadata(w)
    \/ Attach(w) \/ burn_v1_asset(w) \/ SaveEdition(w)
    \/ handle_token_inscription_program_update(w)
    \/ CloseFind(w) \/ DeleteToken(w) \/ SetBurnt(w) \/ DeleteAccount(w)

Next == \E w \in Workers : Step(w) \/ Fail(w) \/ \E u \in Updates : Begin(w, u)

Spec == Init /\ [][Next]_vars

-----------------------------------------------------------------------------
\* Every update was handled and none is being handled.
Settled == handled = Updates \cup Indexed /\ \A w \in Workers : worker[w] = None

Of(kind) == {u \in handled : u.kind = kind}

Pcs == {"start", "token", "owner", "asset", "data", "meta", "mint", "account", "txn", "attach",
        "both", "burn", "delete"}

Handler == [u : Updates, pc : Pcs, token : Opt(TokenRow), account : Opt(AccountRow)]

TypeOK ==
    /\ history \in Histories
    /\ tokens \in Opt(TokenRow) /\ token_accounts \in [Accounts -> Opt(AccountRow)]
    /\ asset \in [{"mint", "metadata"} -> Opt(AssetRow)]
    /\ asset_data \in Opt(DataRow) /\ authority \in Opt(AuthorityRow)
    /\ collection \in Opt(CollectionRow) /\ creators \in [Positions -> Opt(CreatorRow)]
    /\ attachments \in [{"edition", "inscription"} -> Opt(AttachmentRow)]
    /\ requested \subseteq Uris
    /\ worker \in [Workers -> Opt(Handler)]
    /\ handled \subseteq Updates \cup Indexed

\* The rows a metadata account is spread over are of one version of it, not older than any
\* that was handled: uri, collection ("a NULL row at a higher slot prevents a stale
\* collection value from a lower slot from being accepted") and creators.  (A mint of
\* Token-2022 with metadata of its own writes asset_data too.  A version without creators
\* writes none and leaves the rows of an earlier one, so of those nothing is said.)
MetadataIsNewest ==
    Of("metadata") # {} /\ (\A u \in Updates : u.kind = "mint" => u.uri = None) =>
        \E v \in Updates :
            /\ v.kind = "metadata" /\ \A u \in Of("metadata") : u.slot <= v.slot
            /\ asset_data = [uri |-> v.uri, slot |-> v.slot]
            /\ asset["mint"] # None /\ asset["mint"].slotMeta = v.slot
            /\ collection = [value |-> v.collection, slot |-> v.slot]
            /\ \A p \in DOMAIN v.creators : creators[p] = [who |-> v.creators[p], slot |-> v.slot]

\* An NFT whose mint was indexed first and is not closed, and whose supply stays 1.
KnownNft ==
    /\ Indexed # {}
    /\ \A u \in Updates \cup Indexed : u.kind # "close" /\ (u.kind = "mint" => u.supply = 1)

\* The owner of an NFT is that of a version of one of its token accounts which is not older
\* than any that was handled, whichever of the two handlers that copy it wrote last.  (The
\* handler of an account asks the row in tokens what it is: a mint that comes later, or is
\* closed, leaves the asset without the owner.  The two accounts of a transfer have versions
\* of the same slot, and either may be the one.)
OwnerIsNewest ==
    KnownNft /\ Of("account") # {} =>
        \E v \in Updates :
            /\ v.kind = "account" /\ \A u \in Of("account") : u.slot <= v.slot
            /\ asset["mint"] # None /\ asset["mint"].slotTA = v.slot
            /\ asset["mint"].owner = v.owner

\* The supply is that of a version of the mint which is not older than any that was handled,
\* although the handler of the metadata account copies a version it read earlier.
SupplyIsNewest ==
    Of("mint") # {} =>
        \E v \in Updates \cup Indexed :
            /\ v.kind = "mint" /\ \A u \in Of("mint") : u.slot <= v.slot
            /\ asset["mint"] # None /\ asset["mint"].slotMint = v.slot
            /\ asset["mint"].supply = v.supply

\* The asset has metadata of an NFT, and its edition account is not older than those.
HasEdition ==
    /\ \E u \in Updates : u.kind = "metadata" /\ u.standard \in {"nft", "pnft"}
    /\ \A u, v \in Updates : u.kind = "metadata" /\ v.kind = "edition" => u.slot <= v.slot

\* Once every update is handled, the uri that the asset has was handed to the downloader,
\* and the row of an NFT's edition holds the newest version of the edition account and
\* names the asset, although the handler of the metadata account writes the same row.  (An
\* edition that is older than the metadata handled before it is not stored.)
SettledIsComplete ==
    Settled =>
        /\ asset_data # None => asset_data.uri \in requested \cup {Empty}
        /\ HasEdition /\ Of("edition") # {} =>
              \E v \in Updates :
                  /\ v.kind = "edition" /\ \A u \in Of("edition") : u.slot <= v.slot
                  /\ attachments["edition"] =
                        [type |-> v.type, data |-> v.slot, slot |-> v.slot, asset |-> TRUE]
=============================================================================
