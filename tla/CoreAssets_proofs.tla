-------------------------- MODULE CoreAssets_proofs --------------------------
(***************************************************************************)
(* Proofs about CoreAssets for every set of histories that satisfies         *)
(* ChainAssumption: any versions of the accounts of MPL Core, handled in any *)
(* order and any number of times by any number of workers, with statements   *)
(* that fail.  Zenon is named where a step needs no arithmetic.              *)
(***************************************************************************)
EXTENDS CoreAssets, TLAPS

\* The values of the rows that save_v1_asset writes for the groups of u.
Values(u) == IF u.groups = {} THEN {None} ELSE u.groups

\* The collection that u is in.
Parent(u) == IF u.by.type = "collection" THEN u.by.at ELSE None

\* Nothing was saved under i; a burn may have inserted the row of asset.
Unsaved(i) ==
    /\ asset_data[i] = None /\ collection[i] = None
    /\ \A g \in Groups \cup {None} : groups[i][g] = None
    /\ asset[i] # None => asset[i].slotTA = None
    /\ Of(Saved, i) = {}

\* The rows under i are those of the version v; groups that v is not in are older.
SavedAs(i, v) ==
    /\ v.kind \in Saved /\ v.key = i /\ v \in handled
    /\ asset_data[i] = [uri |-> v.uri, slot |-> v.slot]
    /\ collection[i] # None /\ collection[i].slot = v.slot /\ collection[i].value = Parent(v)
    /\ \A g \in Groups \cup {None} :
          /\ groups[i][g] # None => groups[i][g] <= v.slot
          /\ groups[i][g] = v.slot <=> g \in Values(v)
    /\ asset[i] # None /\ asset[i].slotTA = v.slot
    /\ v.kind = "asset" => asset[i].owner = v.owner
    /\ \A u \in Of(Saved, i) : u.slot <= v.slot

RowsSound == \A i \in Ids : Unsaved(i) \/ \E v \in Updates : SavedAs(i, v)

\* A handler is one for its kind of account and has what it is about to write.
Ready(h, table) ==
    /\ h.pc \in {"read", "txn", "commit"} => h.u.kind \in Saved
    /\ h.pc \in {"txn", "commit"} => h.auth \in Authorities
    /\ h.pc = "burn" => h.u.kind = "empty"
    /\ h.pc \in {"find", "agent"} => h.u.kind = "registry"
    /\ h.pc = "agent" => table[h.u.key] # None

WorkersSound == \A w \in Workers : worker[w] # None => Ready(worker[w], asset)

\* The agent token is that of a version of the registry's account.
AgentOf(i) ==
    asset[i] # None /\ asset[i].slotAgent # None =>
        \E v \in Updates : /\ v.kind = "registry" /\ v.key = i
                           /\ asset[i].slotAgent = v.slot /\ asset[i].agent = v.token

AgentCopied(u, table) ==
    /\ table[u.key] # None /\ table[u.key].slotAgent # None
    /\ u.slot <= table[u.key].slotAgent

\* The row of a decorated asset is there when the registry's handler asks for it, so that
\* no update of the registry is dropped.
AgentSound ==
    Order = "handled" => \A i \in Ids : Decorated(i) =>
        /\ asset[i] # None => ~asset[i].burnt /\ asset[i].class = "MplCoreAsset"
        /\ \A w \in Workers :
              worker[w] # None /\ worker[w].u.key = i /\ worker[w].u.kind = "registry" =>
                  asset[i] # None
        /\ \A u \in Of({"registry"}, i) : AgentCopied(u, asset)

AgentsSound == \A i \in Ids : AgentOf(i)

IInv == TypeOK /\ RowsSound /\ WorkersSound /\ AgentsSound /\ AgentSound

-----------------------------------------------------------------------------
(* Facts about the histories and about the columns of asset *)

\* What ChainAssumption says of the updates of this behaviour.
LEMMA UpdateFacts ==
    ASSUME ChainAssumption, TypeOK
    PROVE  /\ \A u \in Updates : u \in Versions /\ u.slot \in Nat /\ u.slot # None /\ u.key \in Ids
           /\ \A u \in Updates : u.kind \in Saved \cup {"registry", "empty"}
           /\ \A u \in Updates : u.kind \in Saved =>
                 /\ u \in SavedVersions /\ u.owner \in Owners /\ u.uri \in Uris
                 /\ Values(u) \subseteq Groups \cup {None} /\ None \notin u.groups
                 /\ u.groups \subseteq Groups
           /\ \A u, v \in Updates : u.kind \in Saved /\ v.kind \in Saved /\ u.key = v.key
                                    /\ u.slot = v.slot => u = v
    <1>1. Updates \subseteq Versions
        BY Zenon DEF TypeOK, Versions, Updates
    <1>2. \A u \in Updates : u.kind \in Saved => u \in SavedVersions
        BY Zenon, <1>1 DEF SavedVersions
    <1>3. \A u \in Updates : u.kind \in Saved => u.groups \subseteq Groups
        BY Zenon DEF Groups
    <1>4. \A u \in Updates : u.kind \in Saved =>
             Values(u) \subseteq Groups \cup {None} /\ None \notin u.groups
        BY Zenon, <1>2, <1>3 DEF Values, ChainAssumption
    <1>5. \A u \in Updates : u.slot \in Nat /\ u.slot # None /\ u.key \in Ids
        BY Zenon, <1>1 DEF ChainAssumption
    <1>6. \A u \in Updates : u.kind \in Saved \cup {"registry", "empty"}
        BY Zenon, <1>1 DEF ChainAssumption
    <1>7. \A u, v \in Updates : u.kind \in Saved /\ v.kind \in Saved /\ u.key = v.key
                                    /\ u.slot = v.slot => u = v
        BY Zenon DEF ChainAssumption, TypeOK, Updates
    <1> QED  BY Zenon, <1>1, <1>2, <1>3, <1>4, <1>5, <1>6, <1>7 DEF Owners, Uris

\* The row of asset after the three upserts of save_v1_asset.
Columns(row, class, owner, s) ==
    upsert_assets_token_account_columns(
        upsert_assets_mint_account_columns(
            upsert_assets_metadata_account_columns(row, class, "single", s), 1, s), owner, s)

Classes == {"MplCoreAsset", "MplCoreCollection", "MplCoreGroup"}

\* The class and type of owner, if they are newer; the row is there afterwards.
LEMMA MetadataColumns ==
    ASSUME NEW row \in Opt(AssetRow), NEW class \in Classes, NEW s \in Nat
    PROVE  LET new == upsert_assets_metadata_account_columns(row, class, "single", s) IN
           /\ new \in AssetRow
           /\ row = None => /\ new.slotTA = None /\ new.slot = None /\ new.class = class
                            /\ ~new.burnt /\ new.slotAgent = None /\ new.slotMint = None
           /\ row # None => /\ new.slotTA = row.slotTA /\ new.owner = row.owner
                            /\ new.class \in {class, row.class} /\ (new.burnt => row.burnt)
                            /\ new.agent = row.agent /\ new.slotAgent = row.slotAgent
                            /\ (row.slot # None /\ None \notin Nat => new.slot # None)
    <1>2. CASE row = None
        <2> DEFINE new == upsert_assets_metadata_account_columns(row, class, "single", s)
        <2>1. new = [NoAsset EXCEPT !.class = class, !.ownerType = "single", !.slotMeta = s,
                                    !.burnt = FALSE, !.slot = None]
            BY Zenon, <1>2 DEF upsert_assets_metadata_account_columns
        <2>2. new = [owner |-> None, slotTA |-> None, supply |-> 1, slotMint |-> None,
                     ownerType |-> "single", class |-> class, slotMeta |-> s,
                     slot |-> None, burnt |-> FALSE, agent |-> None, slotAgent |-> None]
            BY ZenonT(40), <2>1 DEF NoAsset
        <2> HIDE DEF new
        <2>3. new \in AssetRow
            BY <2>2 DEF AssetRow, Opt, Classes
        <2> QED  BY <1>2, <2>2, <2>3 DEF new
    <1>3. CASE row # None /\ NotOlder(s, row.slotMeta)
        <2>1. GREATEST(row.slot, s) \in Opt(Nat)
              /\ (row.slot # None /\ None \notin Nat => GREATEST(row.slot, s) # None)
            BY Zenon, <1>3 DEF GREATEST, Opt, AssetRow
        <2> QED  BY ZenonT(40), <1>3, <2>1
                    DEF upsert_assets_metadata_account_columns, AssetRow, Opt, Classes
    <1>4. CASE row # None /\ ~NotOlder(s, row.slotMeta)
        <2>1. upsert_assets_metadata_account_columns(row, class, "single", s) = row
            BY Zenon, <1>4 DEF upsert_assets_metadata_account_columns
        <2> QED  BY Zenon, <1>4, <2>1 DEF Opt
    <1> QED  BY Zenon, <1>2, <1>3, <1>4

\* Supply and slot of a row that is there; the rest is left alone.
LEMMA MintColumns ==
    ASSUME NEW row \in AssetRow, row # None, NEW n \in Nat, NEW s \in Nat, None \notin Nat
    PROVE  LET new == upsert_assets_mint_account_columns(row, n, s) IN
           /\ new \in AssetRow
           /\ new.slotTA = row.slotTA /\ new.owner = row.owner /\ new.class = row.class
           /\ new.burnt = row.burnt /\ new.agent = row.agent /\ new.slotAgent = row.slotAgent
           /\ row.slot # None \/ row.slotMint = None => new.slot # None
    <1>1. GREATEST(row.slot, s) \in Nat /\ GREATEST(row.slot, s) # None
        BY Zenon DEF GREATEST, Opt, AssetRow
    <1>2. CASE NotOlder(s, row.slotMint)
        <2>1. upsert_assets_mint_account_columns(row, n, s) =
                 [row EXCEPT !.supply = n, !.slotMint = s, !.slot = GREATEST(row.slot, s)]
            BY Zenon, <1>2 DEF upsert_assets_mint_account_columns, AssetRow
        <2>2. upsert_assets_mint_account_columns(row, n, s) \in AssetRow
            BY Zenon, <1>1, <2>1 DEF AssetRow, Opt
        <2> QED  BY Zenon, <1>1, <2>1, <2>2 DEF AssetRow
    <1>3. CASE ~NotOlder(s, row.slotMint)
        <2>1. upsert_assets_mint_account_columns(row, n, s) = row
            BY Zenon, <1>3 DEF upsert_assets_mint_account_columns
        <2> QED  BY <1>3, <2>1 DEF NotOlder
    <1> QED  BY Zenon, <1>2, <1>3

\* The owner, if the account is not older.
LEMMA OwnerColumns ==
    ASSUME NEW row \in AssetRow, row # None, NEW o \in Owners \cup Authorities, NEW s \in Nat,
           None \notin Nat
    PROVE  LET new == upsert_assets_token_account_columns(row, o, s) IN
           /\ new \in AssetRow
           /\ NotOlder(s, row.slotTA) => new.slotTA = s /\ new.owner = o
           /\ ~NotOlder(s, row.slotTA) => new.slotTA = row.slotTA /\ new.owner = row.owner
           /\ new.class = row.class
           /\ new.burnt = row.burnt /\ new.agent = row.agent /\ new.slotAgent = row.slotAgent
           /\ row.slot # None => new.slot # None
    <1>1. GREATEST(row.slot, s) \in Nat /\ GREATEST(row.slot, s) # None
        BY Zenon DEF GREATEST, Opt, AssetRow
    <1>2. CASE NotOlder(s, row.slotTA)
        <2>1. upsert_assets_token_account_columns(row, o, s) =
                 [row EXCEPT !.owner = o, !.slotTA = s, !.slot = GREATEST(row.slot, s)]
            BY Zenon, <1>2 DEF upsert_assets_token_account_columns, AssetRow
        <2> QED  BY ZenonT(40), <1>1, <1>2, <2>1 DEF AssetRow, Opt
    <1>3. CASE ~NotOlder(s, row.slotTA)
        <2>1. upsert_assets_token_account_columns(row, o, s) = row
            BY Zenon, <1>3 DEF upsert_assets_token_account_columns
        <2> QED  BY Zenon, <1>3, <2>1
    <1> QED  BY Zenon, <1>2, <1>3

\* What the three upserts together make of the row.
LEMMA SavedColumns ==
    ASSUME ChainAssumption, NEW row \in Opt(AssetRow), NEW class \in Classes,
           NEW o \in Owners \cup Authorities, NEW s \in Nat,
           row # None => row.slot # None
    PROVE  LET new == Columns(row, class, o, s) IN
           /\ new \in AssetRow /\ new # None /\ new.slot # None
           /\ row = None \/ row.slotTA = None => new.slotTA = s /\ new.owner = o
           /\ row # None /\ row.slotTA # None =>
                 IF s >= row.slotTA THEN new.slotTA = s /\ new.owner = o
                 ELSE new.slotTA = row.slotTA /\ new.owner = row.owner
           /\ new.class = class \/ (row # None /\ new.class = row.class)
           /\ new.burnt => row # None /\ row.burnt
           /\ row = None => new.slotAgent = None
           /\ row # None => new.agent = row.agent /\ new.slotAgent = row.slotAgent
    <1> DEFINE meta == upsert_assets_metadata_account_columns(row, class, "single", s)
               mint == upsert_assets_mint_account_columns(meta, 1, s)
               new == upsert_assets_token_account_columns(mint, o, s)
    <1>1. None \notin Nat /\ None \notin AssetRow
        BY Zenon DEF ChainAssumption
    <1>2. /\ meta \in AssetRow
          /\ row = None => /\ meta.slotTA = None /\ meta.slot = None /\ meta.class = class
                           /\ ~meta.burnt /\ meta.slotAgent = None /\ meta.slotMint = None
          /\ row # None => /\ meta.slotTA = row.slotTA /\ meta.owner = row.owner
                           /\ meta.class \in {class, row.class} /\ (meta.burnt => row.burnt)
                           /\ meta.agent = row.agent /\ meta.slotAgent = row.slotAgent
                           /\ meta.slot # None
        <2>1. /\ meta \in AssetRow
              /\ row = None => /\ meta.slotTA = None /\ meta.slot = None /\ meta.class = class
                               /\ ~meta.burnt /\ meta.slotAgent = None /\ meta.slotMint = None
              /\ row # None => /\ meta.slotTA = row.slotTA /\ meta.owner = row.owner
                               /\ meta.class \in {class, row.class} /\ (meta.burnt => row.burnt)
                               /\ meta.agent = row.agent /\ meta.slotAgent = row.slotAgent
                               /\ (row.slot # None /\ None \notin Nat => meta.slot # None)
            BY Zenon, MetadataColumns
        <2> HIDE DEF meta
        <2>2. row # None => meta.slot # None
            BY Zenon, <1>1, <2>1
        <2> QED  BY Zenon, <2>1, <2>2
    <1> HIDE DEF meta
    <1>3. /\ mint \in AssetRow
          /\ mint.slotTA = meta.slotTA /\ mint.owner = meta.owner /\ mint.class = meta.class
          /\ mint.burnt = meta.burnt /\ mint.agent = meta.agent /\ mint.slotAgent = meta.slotAgent
          /\ meta.slot # None \/ meta.slotMint = None => mint.slot # None
        <2>1. 1 \in Nat
            OBVIOUS
        <2> QED  BY Zenon, <1>1, <1>2, <2>1, MintColumns
    <1> HIDE DEF mint
    <1>4. /\ new \in AssetRow
          /\ NotOlder(s, mint.slotTA) => new.slotTA = s /\ new.owner = o
          /\ ~NotOlder(s, mint.slotTA) => new.slotTA = mint.slotTA /\ new.owner = mint.owner
          /\ new.class = mint.class
          /\ new.burnt = mint.burnt /\ new.agent = mint.agent /\ new.slotAgent = mint.slotAgent
          /\ mint.slot # None => new.slot # None
        BY Zenon, <1>1, <1>3, OwnerColumns
    <1> HIDE DEF new
    <1>5. new = Columns(row, class, o, s)
        BY Zenon DEF new, mint, meta, Columns
    <1>6. new # None /\ new.slot # None
        BY Zenon, <1>1, <1>2, <1>3, <1>4
    <1>7. CASE row = None
        BY Zenon, <1>2, <1>3, <1>4, <1>5, <1>6, <1>7 DEF NotOlder
    <1>8. CASE row # None
        BY Zenon, <1>2, <1>3, <1>4, <1>5, <1>6, <1>8 DEF NotOlder
    <1> QED  BY Zenon, <1>7, <1>8

-----------------------------------------------------------------------------
(* What a step leaves alone *)

\* What is derived from the history of the chain is the same after every step.
LEMMA SameHistory ==
    ASSUME UNCHANGED history
    PROVE  /\ Updates' = Updates /\ Order' = Order /\ Groups' = Groups /\ Handler' = Handler
           /\ \A i : Decorated(i)' = Decorated(i)
    BY Zenon DEF Updates, Order, Groups, Handler, Decorated

\* A row keeps its owner, and its agent token.
SameOwner(old, new) ==
    /\ old # None => new # None /\ new.slotTA = old.slotTA /\ new.owner = old.owner
    /\ old = None /\ new # None => new.slotTA = None

SameAgent(old, new) ==
    /\ old # None => new # None /\ new.slotAgent = old.slotAgent /\ new.agent = old.agent
    /\ old = None /\ new # None => new.slotAgent = None

\* One worker goes on to h, with rows that do not vanish.
LEMMA WorkerMoved ==
    ASSUME TypeOK, WorkersSound, UNCHANGED history, NEW w \in Workers, NEW h \in Opt(Handler),
           worker' = [worker EXCEPT ![w] = h], h # None => Ready(h, asset'),
           \A i \in Ids : asset[i] # None => asset'[i] # None, ChainAssumption
    PROVE  worker' \in [Workers -> Opt(Handler')] /\ WorkersSound'
    <1>1. worker' \in [Workers -> Opt(Handler)]
        BY Zenon DEF TypeOK
    <1>2. \A x \in Workers : worker'[x] = IF x = w THEN h ELSE worker[x]
        BY Zenon DEF TypeOK
    <1>3. \A x \in Workers : worker[x] # None => worker[x].u.key \in Ids
        BY Zenon, UpdateFacts DEF TypeOK, Handler, Opt
    <1>4. WorkersSound'
        BY ZenonT(40), <1>2, <1>3 DEF WorkersSound, Ready
    <1> QED  BY Zenon, <1>1, <1>4, SameHistory

\* What a handler saves stays newest while nothing is saved.
LEMMA RowsKept ==
    ASSUME RowsSound, UNCHANGED <<history, asset_data, collection, groups>>,
           \A i \in Ids : SameOwner(asset[i], asset'[i]), handled \subseteq handled',
           \A u \in handled' : u \in handled \/ u.kind \notin Saved
    PROVE  RowsSound'
    <1>1. \A i \in Ids : Of(Saved, i)' \subseteq Of(Saved, i)
        BY Zenon DEF Of
    <1>2. ASSUME NEW i \in Ids, Unsaved(i)
          PROVE  Unsaved(i)'
        BY Zenon, <1>1, <1>2, SameHistory DEF Unsaved, SameOwner
    <1>3. ASSUME NEW i \in Ids, NEW v \in Updates, SavedAs(i, v)
          PROVE  SavedAs(i, v)'
        BY Zenon, <1>1, <1>3, SameHistory DEF SavedAs, SameOwner
    <1> QED  BY Zenon, <1>2, <1>3, SameHistory DEF RowsSound

\* The agent tokens stay sound while no handler of the registry writes one.
LEMMA AgentsKept ==
    ASSUME AgentsSound, UNCHANGED history, \A i \in Ids : SameAgent(asset[i], asset'[i])
    PROVE  AgentsSound'
    <1>1. \A i \in Ids : AgentOf(i) => AgentOf(i)'
        BY Zenon, SameHistory DEF AgentOf, SameAgent
    <1> QED  BY Zenon, <1>1 DEF AgentsSound

\* A decorated asset stays one.
Intact(i) == asset[i] # None => ~asset[i].burnt /\ asset[i].class = "MplCoreAsset"

\* Nothing changes for decorated assets but what is asked for.
LEMMA AgentKept ==
    ASSUME AgentSound, UNCHANGED history, NEW w \in Workers,
           \A i \in Ids : asset[i] # None => asset'[i] # None,
           \A i \in Ids : Order = "handled" /\ Decorated(i) => Intact(i)',
           \A u \in handled : u.kind = "registry" /\ AgentCopied(u, asset) => AgentCopied(u, asset'),
           \A u \in handled' : u \in handled \/ u.kind # "registry"
               \/ (Order = "handled" /\ Decorated(u.key) => AgentCopied(u, asset')),
           \A x \in Workers : x # w => worker'[x] = worker[x],
           worker'[w] = None \/ worker'[w].u.kind # "registry"
               \/ (worker[w] # None /\ worker'[w].u = worker[w].u)
               \/ (Order = "handled" /\ Decorated(worker'[w].u.key) =>
                      asset'[worker'[w].u.key] # None)
    PROVE  AgentSound'
    <1> SUFFICES ASSUME Order = "handled", NEW i \in Ids, Decorated(i)
                 PROVE  /\ Intact(i)'
                        /\ \A x \in Workers :
                              worker'[x] # None /\ worker'[x].u.key = i /\ worker'[x].u.kind = "registry" =>
                                  asset'[i] # None
                        /\ \A u \in Of({"registry"}, i)' : AgentCopied(u, asset')
        BY Zenon, SameHistory DEF AgentSound, Intact
    <1>1. Intact(i)'
        BY Zenon
    <1>2. \A x \in Workers :
              worker'[x] # None /\ worker'[x].u.key = i /\ worker'[x].u.kind = "registry" =>
                  asset'[i] # None
        <2>1. \A x \in Workers :
                 worker[x] # None /\ worker[x].u.key = i /\ worker[x].u.kind = "registry" =>
                     asset'[i] # None
            BY Zenon DEF AgentSound
        <2>2. ASSUME worker'[w] # None, worker'[w].u.key = i, worker'[w].u.kind = "registry"
              PROVE  asset'[i] # None
            BY Zenon, <2>1, <2>2
        <2> QED  BY Zenon, <2>1, <2>2
    <1>3. \A u \in Of({"registry"}, i)' : AgentCopied(u, asset')
        BY Zenon DEF AgentSound, Of
    <1> QED  BY Zenon, <1>1, <1>2, <1>3

\* The tables keep their types while no statement writes.
LEMMA TypeKept ==
    ASSUME TypeOK, UNCHANGED <<history, rows>>, worker' \in [Workers -> Opt(Handler')],
           handled' \subseteq Updates
    PROVE  TypeOK'
    <1>1. UNCHANGED <<asset, asset_data, authority, collection, groups, creators, requested>>
        BY Zenon DEF rows
    <1> QED  BY Zenon, <1>1, SameHistory DEF TypeOK

\* A step that moves one worker and writes nothing.
LEMMA ReadKeeps ==
    ASSUME ChainAssumption, IInv, UNCHANGED <<history, rows>>, NEW w \in Workers,
           NEW h \in Opt(Handler), worker' = [worker EXCEPT ![w] = h],
           h # None => Ready(h, asset),
           h = None \/ h.u.kind # "registry" \/ (worker[w] # None /\ h.u = worker[w].u)
               \/ (Order = "handled" /\ Decorated(h.u.key) => asset[h.u.key] # None),
           handled \subseteq handled',
           \A u \in handled' : u \in handled \/ (u \in Updates /\ u.kind = "registry"
               /\ ~(Order = "handled" /\ Decorated(u.key)))
    PROVE  IInv'
    <1>1. UNCHANGED <<asset, asset_data, authority, collection, groups, creators, requested>>
        BY Zenon DEF rows
    <1>2. worker' \in [Workers -> Opt(Handler')] /\ WorkersSound'
        BY Zenon, <1>1, WorkerMoved DEF IInv
    <1>3. TypeOK'
        BY Zenon, <1>2, TypeKept DEF IInv, TypeOK
    <1>4. \A u \in handled' : u \in handled \/ u.kind \notin Saved
        BY Zenon DEF Saved
    <1>5. RowsSound'
        BY Zenon, <1>1, <1>4, RowsKept DEF IInv, SameOwner, RowsSound, Unsaved
    <1>6. AgentsSound'
        BY Zenon, <1>1, AgentsKept DEF IInv, SameAgent
    <1>7. AgentSound'
        <2>1. worker'[w] = h /\ \A x \in Workers : x # w => worker'[x] = worker[x]
            BY Zenon DEF IInv, TypeOK
        <2>2. \A i \in Ids : Order = "handled" /\ Decorated(i) => Intact(i)'
            BY Zenon, <1>1 DEF IInv, AgentSound, Intact
        <2>3. \A u \in handled : u.kind = "registry" /\ AgentCopied(u, asset) => AgentCopied(u, asset')
            BY Zenon, <1>1 DEF AgentCopied
        <2> QED  BY Zenon, <1>1, <2>1, <2>2, <2>3, AgentKept DEF IInv
    <1> QED  BY Zenon, <1>2, <1>3, <1>5, <1>6, <1>7 DEF IInv

\* What was saved has a row.
LEMMA SavedHasRow ==
    ASSUME RowsSound, NEW i \in Ids, Of(Saved, i) # {}
    PROVE  asset[i] # None
    BY Zenon DEF RowsSound, Unsaved, SavedAs

\* An update is received.  One of the registry comes after the asset was saved.
LEMMA BeginKeeps ==
    ASSUME ChainAssumption, IInv, NEW w \in Workers, NEW u \in Updates, Begin(w, u)
    PROVE  IInv'
    <1> DEFINE pc == CASE u.kind = "empty" -> "burn" [] u.kind = "registry" -> "find"
                       [] OTHER -> "read"
               h == [u |-> u, auth |-> None, pc |-> pc]
    <1>1. pc \in Pcs /\ h \in Handler
        BY Zenon DEF Handler, Pcs, Opt
    <1>2. worker' = [worker EXCEPT ![w] = h] /\ UNCHANGED <<history, rows>> /\ handled' = handled
        BY Zenon DEF Begin
    <1>3. Ready(h, asset)
        BY UpdateFacts DEF IInv, Ready, Saved
    <1>4. ASSUME Order = "handled", u.kind = "registry", Decorated(u.key)
          PROVE  asset[u.key] # None
        <2>1. PICK v \in Updates : v.kind = "asset" /\ v.key = u.key /\ v.slot < u.slot
            BY Zenon, <1>4 DEF Decorated
        <2>2. v \in Of(Saved, u.key)
            BY Zenon, <1>4, <2>1 DEF Begin, Of, Saved
        <2> QED  BY Zenon, <2>2, SavedHasRow, UpdateFacts DEF IInv
    <1> HIDE DEF h
    <1>5. h.u = u
        BY Zenon DEF h
    <1>6. h \in Opt(Handler)
        BY Zenon, <1>1 DEF Opt
    <1> QED  BY Zenon, <1>2, <1>3, <1>4, <1>5, <1>6, ReadKeeps

\* A statement fails: the handler gives up, what it wrote stays.
LEMMA FailKeeps ==
    ASSUME ChainAssumption, IInv, NEW w \in Workers, Fail(w)
    PROVE  IInv'
    <1>1. worker' = [worker EXCEPT ![w] = None] /\ UNCHANGED <<history, rows>> /\ handled' = handled
        BY Zenon DEF Fail
    <1>2. None \in Opt(Handler)
        BY Zenon DEF Opt
    <1> QED  BY Zenon, <1>1, <1>2, ReadKeeps

-----------------------------------------------------------------------------
(* The statements before the transaction *)

\* A handler that is not idle has an update of the history.
LEMMA Busy ==
    ASSUME ChainAssumption, IInv, NEW w \in Workers, worker[w] # None
    PROVE  /\ worker[w] \in Handler /\ worker[w].u \in Updates /\ worker[w].u.key \in Ids
           /\ Ready(worker[w], asset)
    BY Zenon, UpdateFacts DEF IInv, TypeOK, Opt, Handler, WorkersSound

\* The authority that is looked up is an address, the default one or blank.
LEMMA ResolveType ==
    ASSUME ChainAssumption, IInv, NEW u \in Updates, u.kind \in Saved
    PROVE  Resolve(u.by) \in Authorities
    <1>1. u \in SavedVersions /\ u.by.type \in {"address", "none", "collection"}
          /\ (u.by.type = "collection" => u.by.at \in Ids)
        BY Zenon, UpdateFacts DEF IInv, ChainAssumption
    <1>2. CASE u.by.type = "address"
        BY Zenon, <1>1, <1>2 DEF Resolve, Authorities
    <1>3. CASE u.by.type = "none"
        BY <1>3 DEF Resolve, Authorities
    <1>4. CASE u.by.type = "collection"
        <2>1. authority[u.by.at] # None => authority[u.by.at].who \in Authorities
            BY Zenon, <1>1, <1>4 DEF IInv, TypeOK, Opt, AuthorityRow
        <2>2. Blank \in Authorities
            BY Zenon DEF Authorities
        <2>3. Resolve(u.by) = IF authority[u.by.at] = None THEN Blank ELSE authority[u.by.at].who
            BY <1>4 DEF Resolve
        <2> QED  BY Zenon, <2>1, <2>2, <2>3
    <1> QED  BY Zenon, <1>1, <1>2, <1>3, <1>4

\* The collection's authority is looked up.
LEMMA ReadAuthorityKeeps ==
    ASSUME ChainAssumption, IInv, NEW w \in Workers, ReadAuthority(w)
    PROVE  IInv'
    <1> DEFINE who == Resolve(worker[w].u.by)
               h == [worker[w] EXCEPT !.auth = who, !.pc = "txn"]
    <1>1. worker[w] # None /\ worker[w].pc = "read"
        BY Zenon DEF ReadAuthority, At
    <1>2. worker[w] \in Handler /\ worker[w].u \in Updates /\ worker[w].u.kind \in Saved
        BY Zenon, <1>1, Busy DEF Ready
    <1>3. who \in Authorities
        BY Zenon, <1>2, ResolveType
    <1>4. worker' = [worker EXCEPT ![w] = h] /\ UNCHANGED <<history, rows>> /\ handled' = handled
        BY Zenon DEF ReadAuthority
    <1> HIDE DEF who
    <1>5. h \in Handler /\ h.u = worker[w].u /\ h.auth = who /\ h.pc = "txn"
        BY Zenon, <1>2, <1>3 DEF Handler, Opt, Pcs
    <1> HIDE DEF h
    <1>6. h \in Opt(Handler) /\ Ready(h, asset)
        BY <1>2, <1>3, <1>5 DEF Opt, Ready
    <1> QED  BY Zenon, <1>1, <1>4, <1>5, <1>6, ReadKeeps

\* The registry's handler asks for the asset; a decorated one is there.
LEMMA FindAssetKeeps ==
    ASSUME ChainAssumption, IInv, NEW w \in Workers, FindAsset(w)
    PROVE  IInv'
    <1> DEFINE u == worker[w].u
               row == asset[u.key]
               h == [worker[w] EXCEPT !.pc = "agent"]
    <1>1. worker[w] # None /\ worker[w].pc = "find"
        BY Zenon DEF FindAsset, At
    <1>2. worker[w] \in Handler /\ u \in Updates /\ u.kind = "registry" /\ u.key \in Ids
        BY Zenon, <1>1, Busy DEF Ready
    <1>3. CASE row = None \/ row.burnt
        <2>1. worker' = [worker EXCEPT ![w] = None] /\ handled' = handled \cup {u}
              /\ UNCHANGED <<history, rows>>
            BY Zenon, <1>3 DEF FindAsset, Return
        <2>2. ~(Order = "handled" /\ Decorated(u.key))
            BY Zenon, <1>1, <1>2, <1>3 DEF IInv, AgentSound
        <2>3. None \in Opt(Handler)
            BY Zenon DEF Opt
        <2> QED  BY Zenon, <1>2, <2>1, <2>2, <2>3, ReadKeeps
    <1>4. CASE row # None /\ ~row.burnt
        <2>1. worker' = [worker EXCEPT ![w] = h] /\ handled' = handled /\ UNCHANGED <<history, rows>>
            BY Zenon, <1>4 DEF FindAsset
        <2>2. h \in Handler /\ h.u = u /\ h.pc = "agent"
            BY Zenon, <1>2 DEF Handler, Pcs
        <2> HIDE DEF h
        <2>3. h \in Opt(Handler) /\ Ready(h, asset)
            BY <1>2, <1>4, <2>2 DEF Opt, Ready
        <2> QED  BY Zenon, <1>1, <2>1, <2>2, <2>3, ReadKeeps
    <1> QED  BY Zenon, <1>3, <1>4

\* A collection's new authority is written to its members, nothing else.
LEMMA PropagateKeeps ==
    ASSUME ChainAssumption, IInv, NEW w \in Workers, Propagate(w)
    PROVE  IInv'
    <1> DEFINE u == worker[w].u
               who == worker[w].auth
               h == [worker[w] EXCEPT !.pc = "commit"]
    <1>1. worker[w] # None /\ worker[w].pc = "txn"
        BY Zenon DEF Propagate, At
    <1>2. worker[w] \in Handler /\ u \in Updates /\ u.kind \in Saved /\ who \in Authorities
        BY Zenon, <1>1, Busy DEF Ready
    <1>3. /\ worker' = [worker EXCEPT ![w] = h] /\ handled' = handled
          /\ UNCHANGED <<history, asset, asset_data, collection, groups, creators, requested>>
          /\ update_group_asset_authorities(u.key, who, u.slot)
        BY Zenon DEF Propagate
    <1>4. h \in Handler /\ h.u = u /\ h.pc = "commit" /\ h.auth = who
        BY Zenon, <1>2 DEF Handler, Pcs
    <1> HIDE DEF h
    <1>5. h \in Opt(Handler) /\ Ready(h, asset')
        BY <1>2, <1>3, <1>4 DEF Opt, Ready
    <1>6. worker' \in [Workers -> Opt(Handler')] /\ WorkersSound'
        BY Zenon, <1>3, <1>5, WorkerMoved DEF IInv
    <1>7. authority' \in [Ids -> Opt(AuthorityRow)]
        <2>1. [who |-> who, slot |-> u.slot] \in AuthorityRow
            BY Zenon, <1>2, UpdateFacts DEF AuthorityRow, IInv
        <2> HIDE DEF who, u
        <2> QED  BY Zenon, <1>3, <2>1 DEF update_group_asset_authorities, IInv, TypeOK, Opt
    <1>8. TypeOK'
        BY Zenon, <1>3, <1>6, <1>7, SameHistory DEF IInv, TypeOK
    <1>9. RowsSound' /\ AgentsSound'
        BY Zenon, <1>3, RowsKept, AgentsKept DEF IInv, SameOwner, SameAgent
    <1>10. AgentSound'
        <2>1. worker'[w] = h /\ \A x \in Workers : x # w => worker'[x] = worker[x]
            BY Zenon, <1>3 DEF IInv, TypeOK
        <2>2. \A i \in Ids : Order = "handled" /\ Decorated(i) => Intact(i)'
            BY Zenon, <1>3 DEF IInv, AgentSound, Intact
        <2>3. \A v \in handled : v.kind = "registry" /\ AgentCopied(v, asset) => AgentCopied(v, asset')
            BY Zenon, <1>3 DEF AgentCopied
        <2> QED  BY Zenon, <1>1, <1>3, <1>4, <2>1, <2>2, <2>3, AgentKept DEF IInv
    <1> QED  BY Zenon, <1>6, <1>8, <1>9, <1>10 DEF IInv

-----------------------------------------------------------------------------
(* The statements that write the row of asset alone *)

\* What a statement must see to that ends a handler and saves nothing.
LEMMA EndKeeps ==
    ASSUME ChainAssumption, IInv, NEW w \in Workers, worker[w] # None, Return(w),
           worker[w].u.kind \notin Saved,
           UNCHANGED <<history, asset_data, authority, collection, groups, creators, requested>>,
           asset' \in [Ids -> Opt(AssetRow)],
           \A i \in Ids : /\ asset[i] # None => asset'[i] # None
                          /\ asset'[i] # None => asset'[i].slot # None
                          /\ SameOwner(asset[i], asset'[i])
                          /\ Order = "handled" /\ Decorated(i) => Intact(i)',
           AgentsSound',
           \A v \in handled : v.kind = "registry" /\ AgentCopied(v, asset) => AgentCopied(v, asset'),
           worker[w].u.kind # "registry"
               \/ (Order = "handled" /\ Decorated(worker[w].u.key) => AgentCopied(worker[w].u, asset'))
    PROVE  IInv'
    <1>1. worker[w].u \in Updates
        BY Zenon, Busy
    <1>2. worker' = [worker EXCEPT ![w] = None] /\ handled' = handled \cup {worker[w].u}
        BY Zenon DEF Return
    <1>3. worker' \in [Workers -> Opt(Handler')] /\ WorkersSound'
        BY Zenon, <1>2, WorkerMoved DEF IInv, Opt
    <1>4. TypeOK'
        BY Zenon, <1>1, <1>2, <1>3, SameHistory DEF IInv, TypeOK
    <1>5. RowsSound'
        BY Zenon, <1>2, RowsKept DEF IInv
    <1>6. AgentSound'
        <2>1. worker'[w] = None /\ \A x \in Workers : x # w => worker'[x] = worker[x]
            BY Zenon, <1>2 DEF IInv, TypeOK
        <2> DEFINE u == worker[w].u
        <2>2. u.kind # "registry" \/ (Order = "handled" /\ Decorated(u.key) => AgentCopied(u, asset'))
            OBVIOUS
        <2>3. handled' = handled \cup {u}
            BY Zenon, <1>2
        <2> HIDE DEF u
        <2>4. \A v \in handled' : v \in handled \/ v.kind # "registry"
                 \/ (Order = "handled" /\ Decorated(v.key) => AgentCopied(v, asset'))
            BY Zenon, <2>2, <2>3
        <2> QED  BY Zenon, <2>1, <2>4, AgentKept DEF IInv
    <1> QED  BY Zenon, <1>3, <1>4, <1>5, <1>6 DEF IInv

\* The row that a burn inserts.
LEMMA BurntRow ==
    ASSUME NEW s \in Nat
    PROVE  LET new == [NoAsset EXCEPT !.slot = s, !.burnt = TRUE] IN
           /\ new \in AssetRow /\ new.slot = s /\ new.slotTA = None /\ new.slotAgent = None
    <1>1. NoAsset \in AssetRow /\ NoAsset.slotTA = None /\ NoAsset.slotAgent = None
        BY DEF NoAsset, AssetRow, Opt
    <1> QED  BY Zenon, <1>1 DEF AssetRow, Opt

\* An account is closed: no decorated asset's is.
LEMMA BurnKeeps ==
    ASSUME ChainAssumption, IInv, NEW w \in Workers, burn_v1_asset(w)
    PROVE  IInv'
    <1> DEFINE u == worker[w].u
               row == asset[u.key]
               fresh == [NoAsset EXCEPT !.slot = u.slot, !.burnt = TRUE]
               burnt == [row EXCEPT !.slot = u.slot, !.burnt = TRUE]
    <1>1. /\ worker[w] # None /\ u \in Updates /\ u.kind = "empty" /\ u.key \in Ids
          /\ u.slot \in Nat /\ u.slot # None
        BY Zenon, Busy, UpdateFacts DEF burn_v1_asset, At, Ready, IInv
    <1>2. /\ Return(w)
          /\ UNCHANGED <<history, asset_data, authority, collection, groups, creators, requested>>
        BY Zenon DEF burn_v1_asset
    <1>3. asset \in [Ids -> Opt(AssetRow)] /\ row \in Opt(AssetRow)
        BY Zenon, <1>1 DEF IInv, TypeOK
    <1>4. u.kind \notin Saved
        BY <1>1 DEF Saved
    <1>5. ~Decorated(u.key)
        BY <1>1 DEF Decorated
    <1>6. /\ fresh \in AssetRow /\ fresh.slot = u.slot /\ fresh.slotTA = None
          /\ fresh.slotAgent = None
        BY Zenon, <1>1, BurntRow
    <1>7. row # None => /\ burnt \in AssetRow /\ burnt.slot = u.slot
                        /\ burnt.slotTA = row.slotTA /\ burnt.owner = row.owner
                        /\ burnt.slotAgent = row.slotAgent /\ burnt.agent = row.agent
        BY Zenon, <1>1, <1>3 DEF AssetRow, Opt
    <1> HIDE DEF fresh, burnt
    <1>8. PICK new \in Opt(AssetRow) :
             /\ asset' = [asset EXCEPT ![u.key] = new] /\ new # None /\ new.slot # None
             /\ SameOwner(row, new) /\ SameAgent(row, new)
        <2>1. CASE row = None
            <3>1. asset' = [asset EXCEPT ![u.key] = fresh] /\ fresh # None
                BY Zenon, <1>6, <2>1 DEF burn_v1_asset, fresh, ChainAssumption
            <3> QED  BY Zenon, <1>1, <1>6, <2>1, <3>1 DEF SameOwner, SameAgent, Opt
        <2>2. CASE row # None /\ row.slot # None /\ u.slot > row.slot
            <3>1. asset' = [asset EXCEPT ![u.key] = burnt] /\ burnt # None
                BY Zenon, <1>7, <2>2 DEF burn_v1_asset, burnt, ChainAssumption
            <3> QED  BY Zenon, <1>1, <1>7, <2>2, <3>1 DEF SameOwner, SameAgent, Opt
        <2>3. CASE row # None /\ ~(row.slot # None /\ u.slot > row.slot)
            <3>1. asset' = asset
                BY Zenon, <2>3 DEF burn_v1_asset
            <3>2. asset' = [asset EXCEPT ![u.key] = row] /\ row.slot # None
                BY Zenon, <1>1, <1>3, <2>3, <3>1 DEF IInv, TypeOK
            <3> QED  BY Zenon, <1>3, <2>3, <3>2 DEF SameOwner, SameAgent
        <2> QED  BY Zenon, <2>1, <2>2, <2>3
    <1>9. /\ asset' \in [Ids -> Opt(AssetRow)] /\ asset'[u.key] = new
          /\ \A i \in Ids : i # u.key => asset'[i] = asset[i]
        BY Zenon, <1>1, <1>3, <1>8
    <1> HIDE DEF u, row
    <1>10. \A i \in Ids : /\ SameOwner(asset[i], asset'[i]) /\ SameAgent(asset[i], asset'[i])
                          /\ asset[i] # None => asset'[i] # None
                          /\ asset'[i] # None => asset'[i].slot # None
                          /\ Order = "handled" /\ Decorated(i) => Intact(i)'
        <2>1. \A i \in Ids : i # u.key => SameOwner(asset[i], asset[i]) /\ SameAgent(asset[i], asset[i])
            BY Zenon DEF SameOwner, SameAgent
        <2>2. \A i \in Ids : Order = "handled" /\ Decorated(i) => Intact(i)
            BY Zenon DEF IInv, AgentSound, Intact
        <2> QED  BY Zenon, <1>5, <1>8, <1>9, <2>1, <2>2 DEF IInv, TypeOK, Intact, row
    <1>11. AgentsSound'
        BY Zenon, <1>2, <1>10, AgentsKept DEF IInv
    <1>12. \A v \in handled : v.kind = "registry" /\ AgentCopied(v, asset) => AgentCopied(v, asset')
        BY Zenon, <1>10, UpdateFacts DEF AgentCopied, SameAgent, IInv, TypeOK
    <1> QED  BY Zenon, <1>1, <1>2, <1>4, <1>9, <1>10, <1>11, <1>12, EndKeeps DEF u

\* The token of the registry is copied, unless the asset has a newer one.
LEMMA AgentKeeps ==
    ASSUME ChainAssumption, IInv, NEW w \in Workers, SetAgentToken(w)
    PROVE  IInv'
    <1> DEFINE u == worker[w].u
               row == asset[u.key]
               set == ~row.burnt /\ row.class = "MplCoreAsset" /\ NotOlder(u.slot, row.slotAgent)
               top == GREATEST(row.slot, u.slot)
               new == [row EXCEPT !.agent = u.token, !.slotAgent = u.slot, !.slot = top]
    <1>1. /\ worker[w] # None /\ u \in Updates /\ u.kind = "registry" /\ u.key \in Ids
          /\ u.slot \in Nat /\ u.slot # None /\ row # None
        BY Zenon, Busy, UpdateFacts DEF SetAgentToken, At, Ready, IInv
    <1>2. /\ Return(w)
          /\ UNCHANGED <<history, asset_data, authority, collection, groups, creators, requested>>
        BY Zenon DEF SetAgentToken
    <1>3. asset \in [Ids -> Opt(AssetRow)] /\ row \in AssetRow /\ row.slot \in Nat /\ row.slot # None
        BY ZenonT(40), <1>1 DEF IInv, TypeOK, Opt, AssetRow
    <1>4. u.kind \notin Saved
        BY <1>1 DEF Saved
    <1>5. asset' = IF set THEN [asset EXCEPT ![u.key] = new] ELSE asset
        BY Zenon, <1>1, <1>3 DEF SetAgentToken
    <1>6. top \in Nat /\ top # None
        BY Zenon, <1>1, <1>3 DEF GREATEST
    <1>7. u.token \in {v.token : v \in {x \in Versions : x.kind = "registry"}}
        BY Zenon, <1>1, UpdateFacts DEF IInv
    <1> HIDE DEF top
    <1>8. /\ new \in AssetRow /\ new.slot = top /\ new.slotTA = row.slotTA /\ new.owner = row.owner
          /\ new.slotAgent = u.slot /\ new.agent = u.token /\ new.burnt = row.burnt
          /\ new.class = row.class
        BY Zenon, <1>1, <1>3, <1>6, <1>7 DEF AssetRow, Opt
    <1>9. new # None
        BY Zenon, <1>8 DEF ChainAssumption
    <1> HIDE DEF new, set
    <1>10. asset' \in [Ids -> Opt(AssetRow)] /\ \A i \in Ids :
              asset'[i] = IF set /\ i = u.key THEN new ELSE asset[i]
        BY Zenon, <1>3, <1>5, <1>8 DEF Opt
    <1> HIDE DEF u
    <1>11. \A i \in Ids : /\ SameOwner(asset[i], asset'[i])
                          /\ asset[i] # None => asset'[i] # None
                          /\ asset'[i] # None => asset'[i].slot # None
                          /\ Order = "handled" /\ Decorated(i) => Intact(i)'
        <2>1. \A i \in Ids : SameOwner(asset[i], asset[i]) /\ (asset[i] # None => asset[i].slot # None)
            BY Zenon DEF SameOwner, IInv, TypeOK
        <2>2. \A i \in Ids : Order = "handled" /\ Decorated(i) => Intact(i)
            BY Zenon DEF IInv, AgentSound, Intact
        <2>3. SameOwner(row, new) /\ new.slot # None
            BY Zenon, <1>1, <1>6, <1>8, <1>9 DEF SameOwner
        <2> QED  BY Zenon, <1>1, <1>8, <1>9, <1>10, <2>1, <2>2, <2>3 DEF Intact
    <1>12. AgentsSound'
        <2>1. ASSUME NEW i \in Ids
              PROVE  AgentOf(i)'
            <3>1. CASE set /\ i = u.key
                <4>1. asset'[i].slotAgent = u.slot /\ asset'[i].agent = u.token
                    BY Zenon, <1>8, <1>10, <3>1
                <4>2. Updates' = Updates
                    BY Zenon, <1>2, SameHistory
                <4> QED  BY Zenon, <1>1, <3>1, <4>1, <4>2 DEF AgentOf
            <3>2. CASE ~(set /\ i = u.key)
                <4>1. asset'[i] = asset[i]
                    BY Zenon, <1>10, <3>2
                <4>2. Updates' = Updates /\ AgentOf(i)
                    BY Zenon, <1>2, SameHistory DEF IInv, AgentsSound
                <4> QED  BY Zenon, <4>1, <4>2 DEF AgentOf
            <3> QED  BY Zenon, <3>1, <3>2
        <2> QED  BY Zenon, <2>1 DEF AgentsSound
    <1>13. set => row.slotAgent = None \/ row.slotAgent <= u.slot
        BY <1>1, <1>3 DEF set, NotOlder, AssetRow, Opt
    <1>14. \A v \in handled : v.kind = "registry" /\ AgentCopied(v, asset) => AgentCopied(v, asset')
        <2>1. ASSUME NEW v \in handled, AgentCopied(v, asset), v.key = u.key, set
              PROVE  AgentCopied(v, asset')
            <3>1. v.slot \in Nat /\ row.slotAgent \in Opt(Nat)
                BY Zenon, <1>3, UpdateFacts DEF IInv, TypeOK, AssetRow
            <3>2. row.slotAgent # None /\ v.slot <= row.slotAgent
                BY Zenon, <2>1 DEF AgentCopied
            <3>3. v.slot <= u.slot
                BY <1>1, <1>13, <2>1, <3>1, <3>2 DEF Opt
            <3> QED  BY Zenon, <1>1, <1>8, <1>9, <1>10, <2>1, <3>3 DEF AgentCopied
        <2>2. \A v \in handled : v.key \in Ids
            BY Zenon, UpdateFacts DEF IInv, TypeOK
        <2> QED  BY Zenon, <1>10, <2>1, <2>2 DEF AgentCopied
    <1>15. Order = "handled" /\ Decorated(u.key) => AgentCopied(u, asset')
        <2>1. CASE set
            BY <1>1, <1>8, <1>9, <1>10, <2>1 DEF AgentCopied
        <2>2. CASE ~set
            <3> SUFFICES ASSUME Order = "handled", Decorated(u.key)
                         PROVE  AgentCopied(u, asset')
                OBVIOUS
            <3>1. ~row.burnt /\ row.class = "MplCoreAsset"
                BY Zenon, <1>1 DEF IInv, AgentSound
            <3>2. row.slotAgent # None /\ ~(u.slot >= row.slotAgent) /\ row.slotAgent \in Nat
                BY Zenon, <1>3, <2>2, <3>1 DEF set, NotOlder, AssetRow, Opt
            <3>3. u.slot <= row.slotAgent
                BY <1>1, <3>2
            <3> QED  BY Zenon, <1>1, <1>10, <2>2, <3>2, <3>3 DEF AgentCopied
        <2> QED  BY Zenon, <2>1, <2>2
    <1> QED  BY Zenon, <1>1, <1>2, <1>4, <1>10, <1>11, <1>12, <1>14, <1>15, EndKeeps DEF u

-----------------------------------------------------------------------------
(* The transaction of save_v1_asset *)

\* The rows of an account after the transaction for u, column by column.
DataSaved(u) ==
    asset_data' = IF asset_data[u.key] = None \/ u.slot > asset_data[u.key].slot
                  THEN [asset_data EXCEPT ![u.key] = [uri |-> u.uri, slot |-> u.slot]]
                  ELSE asset_data

CollectionSaved(u) ==
    collection' = IF collection[u.key] = None \/ u.slot >= collection[u.key].slot
                  THEN [collection EXCEPT ![u.key] = [value |-> Parent(u), slot |-> u.slot]]
                  ELSE collection

GroupsSaved(u) ==
    groups' = [groups EXCEPT ![u.key] = [g \in Groups \cup {None} |->
        IF g \in Values(u) /\ NotOlder(u.slot, groups[u.key][g]) THEN u.slot ELSE groups[u.key][g]]]

RowSaved(u) == \E class \in Classes, owner \in Owners \cup Authorities :
    /\ u.kind = "asset" => class = "MplCoreAsset" /\ owner = u.owner
    /\ asset' = [asset EXCEPT ![u.key] = Columns(asset[u.key], class, owner, u.slot)]

\* What Save does, statement by statement.
LEMMA SaveStatements ==
    ASSUME ChainAssumption, IInv, NEW w \in Workers, Save(w), NEW u, u = worker[w].u
    PROVE  /\ u \in Updates /\ u.kind \in Saved /\ u.key \in Ids /\ worker[w] # None
           /\ DataSaved(u) /\ CollectionSaved(u) /\ GroupsSaved(u) /\ RowSaved(u)
           /\ authority' \in [Ids -> Opt(AuthorityRow)]
           /\ creators' \in [Ids -> [Positions -> Opt(CreatorRow)]]
           /\ requested' \subseteq Ids \X Uris
           /\ worker' = [worker EXCEPT ![w] = None] /\ handled' = handled \cup {u}
           /\ UNCHANGED history
    <1> DEFINE who == worker[w].auth
    <1>1. worker[w] # None /\ worker[w].pc \in {"txn", "commit"}
        BY Zenon DEF Save, At
    <1>2. u \in Updates /\ u.kind \in Saved /\ u.key \in Ids /\ who \in Authorities
        BY <1>1, Busy DEF Ready
    <1>3. /\ u.slot \in Nat /\ u.uri \in Uris /\ u.owner \in Owners /\ u \in SavedVersions
        BY Zenon, <1>2, UpdateFacts DEF IInv
    <1>4. DataSaved(u)
        BY Zenon DEF Save, SaveRows, DataSaved
    <1>5. CollectionSaved(u)
        BY Zenon DEF Save, CollectionSaved, Parent
    <1>6. GroupsSaved(u)
        BY Zenon DEF Save, SaveGroups, GroupsSaved, Values
    <1>7. RowSaved(u)
        <2> DEFINE class == CASE u.kind = "asset" -> "MplCoreAsset"
                              [] u.kind = "collection" -> "MplCoreCollection"
                              [] OTHER -> "MplCoreGroup"
                   owner == IF u.kind = "asset" THEN u.owner ELSE who
        <2>1. class \in Classes /\ (u.kind = "asset" => class = "MplCoreAsset")
            BY <1>2 DEF Classes
        <2>2. owner \in Owners \cup Authorities /\ (u.kind = "asset" => owner = u.owner)
            BY Zenon, <1>2, <1>3
        <2>3. asset' = [asset EXCEPT ![u.key] = Columns(asset[u.key], class, owner, u.slot)]
            BY Zenon DEF Save, SaveRows, Columns
        <2> HIDE DEF class, owner
        <2> QED  BY Zenon, <2>1, <2>2, <2>3 DEF RowSaved
    <1>8. authority' \in [Ids -> Opt(AuthorityRow)]
        <2>1. [who |-> who, slot |-> u.slot] \in AuthorityRow
            BY Zenon, <1>2, <1>3 DEF AuthorityRow
        <2>2. authority' = authority \/ authority' = [authority EXCEPT ![u.key] = [who |-> who, slot |-> u.slot]]
            BY Zenon DEF Save
        <2> HIDE DEF who
        <2> QED  BY Zenon, <2>1, <2>2 DEF IInv, TypeOK, Opt
    <1>9. creators' \in [Ids -> [Positions -> Opt(CreatorRow)]]
        <2> DEFINE list == [p \in Positions |->
                       IF p \in DOMAIN u.creators
                          /\ (creators[u.key][p] = None \/ u.slot >= creators[u.key][p].slot)
                       THEN [who |-> u.creators[p], slot |-> u.slot] ELSE creators[u.key][p]]
        <2>1. creators' = [creators EXCEPT ![u.key] = list]
            BY Zenon DEF Save, SaveRows
        <2>2. \A p \in DOMAIN u.creators : [who |-> u.creators[p], slot |-> u.slot] \in CreatorRow
            <3> SUFFICES ASSUME NEW p \in DOMAIN u.creators
                         PROVE  [who |-> u.creators[p], slot |-> u.slot] \in CreatorRow
                OBVIOUS
            <3> DEFINE of(v) == {v.creators[q] : q \in DOMAIN v.creators}
            <3>1. u.creators[p] \in of(u)
                BY Zenon
            <3>2. of(u) \in {of(v) : v \in SavedVersions}
                BY Zenon, <1>3
            <3> HIDE DEF of
            <3>3. u.creators[p] \in UNION {of(v) : v \in SavedVersions}
                BY Zenon, <3>1, <3>2
            <3> QED  BY Zenon, <1>3, <3>3 DEF CreatorRow, of
        <2>3. list \in [Positions -> Opt(CreatorRow)]
            BY ZenonT(40), <1>2, <2>2 DEF IInv, TypeOK, Opt
        <2> HIDE DEF list
        <2> QED  BY Zenon, <2>1, <2>3 DEF IInv, TypeOK
    <1>10. requested' \subseteq Ids \X Uris
        <2>1. requested' = requested \/ requested' = requested \cup {<<u.key, u.uri>>}
            BY Zenon DEF Save
        <2>2. <<u.key, u.uri>> \in Ids \X Uris
            BY <1>2, <1>3
        <2>3. requested \subseteq Ids \X Uris
            BY Zenon DEF IInv, TypeOK
        <2> QED  BY Zenon, <2>1, <2>2, <2>3
    <1>11. worker' = [worker EXCEPT ![w] = None] /\ handled' = handled \cup {u} /\ UNCHANGED history
        BY Zenon DEF Save, Return
    <1> QED  BY Zenon, <1>1, <1>2, <1>4, <1>5, <1>6, <1>7, <1>8, <1>9, <1>10, <1>11

\* The row of asset after the transaction.
LEMMA SaveRow ==
    ASSUME ChainAssumption, IInv, NEW u \in Updates, u.kind \in Saved, u.key \in Ids, RowSaved(u)
    PROVE  LET i == u.key  old == asset[u.key]  new == asset'[u.key] IN
           /\ asset' \in [Ids -> Opt(AssetRow)]
           /\ \A j \in Ids : j # i => asset'[j] = asset[j]
           /\ new # None /\ new.slot # None /\ SameAgent(old, new)
           /\ old = None \/ old.slotTA = None =>
                 new.slotTA = u.slot /\ (u.kind = "asset" => new.owner = u.owner)
           /\ old # None /\ old.slotTA # None =>
                 IF u.slot >= old.slotTA
                 THEN new.slotTA = u.slot /\ (u.kind = "asset" => new.owner = u.owner)
                 ELSE new.slotTA = old.slotTA /\ new.owner = old.owner
           /\ u.kind = "asset" /\ Intact(i) => Intact(i)'
    <1> DEFINE i == u.key  old == asset[i]
    <1>1. PICK class \in Classes, owner \in Owners \cup Authorities :
             /\ u.kind = "asset" => class = "MplCoreAsset" /\ owner = u.owner
             /\ asset' = [asset EXCEPT ![i] = Columns(old, class, owner, u.slot)]
        BY Zenon DEF RowSaved
    <1> DEFINE new == Columns(old, class, owner, u.slot)
    <1>2. /\ old \in Opt(AssetRow) /\ (old # None => old.slot # None) /\ u.slot \in Nat
          /\ asset \in [Ids -> Opt(AssetRow)]
        BY Zenon, UpdateFacts DEF IInv, TypeOK
    <1> HIDE DEF old
    <1>3. /\ new \in AssetRow /\ new # None /\ new.slot # None
          /\ old = None \/ old.slotTA = None => new.slotTA = u.slot /\ new.owner = owner
          /\ old # None /\ old.slotTA # None =>
                IF u.slot >= old.slotTA THEN new.slotTA = u.slot /\ new.owner = owner
                ELSE new.slotTA = old.slotTA /\ new.owner = old.owner
          /\ new.class = class \/ (old # None /\ new.class = old.class)
          /\ new.burnt => old # None /\ old.burnt
          /\ old = None => new.slotAgent = None
          /\ old # None => new.agent = old.agent /\ new.slotAgent = old.slotAgent
        BY <1>2, SavedColumns
    <1> HIDE DEF new
    <1>4. asset'[i] = new /\ \A j \in Ids : j # i => asset'[j] = asset[j]
        BY Zenon, <1>1, <1>2 DEF new
    <1>5. asset' \in [Ids -> Opt(AssetRow)]
        BY Zenon, <1>1, <1>2, <1>3 DEF new, Opt
    <1>6. SameAgent(old, new)
        BY Zenon, <1>3 DEF SameAgent
    <1>7. ASSUME u.kind = "asset", Intact(i)
          PROVE  Intact(i)'
        <2>1. (old # None => ~old.burnt /\ old.class = "MplCoreAsset") /\ class = "MplCoreAsset"
            BY Zenon, <1>1, <1>7 DEF Intact, old
        <2>2. ~new.burnt /\ new.class = "MplCoreAsset"
            BY Zenon, <1>3, <2>1
        <2> QED  BY Zenon, <1>4, <2>2 DEF Intact
    <1> QED  BY Zenon, <1>1, <1>3, <1>4, <1>5, <1>6, <1>7 DEF old

\* The other tables after the transaction.
LEMMA SaveTables ==
    ASSUME ChainAssumption, IInv, NEW u \in Updates, u.kind \in Saved, u.key \in Ids,
           DataSaved(u), CollectionSaved(u), GroupsSaved(u)
    PROVE  LET i == u.key IN
           /\ asset_data' \in [Ids -> Opt(DataRow)] /\ collection' \in [Ids -> Opt(CollectionRow)]
           /\ groups' \in [Ids -> [Groups \cup {None} -> Opt(Nat)]]
           /\ \A j \in Ids : j # i => /\ asset_data'[j] = asset_data[j] /\ groups'[j] = groups[j]
                                      /\ collection'[j] = collection[j]
           /\ asset_data'[i] = IF asset_data[i] = None \/ u.slot > asset_data[i].slot
                               THEN [uri |-> u.uri, slot |-> u.slot] ELSE asset_data[i]
           /\ collection'[i] # None
           /\ IF collection[i] = None \/ u.slot >= collection[i].slot
              THEN collection'[i].slot = u.slot /\ collection'[i].value = Parent(u)
              ELSE collection'[i] = collection[i]
           /\ \A g \in Groups \cup {None} : groups'[i][g] =
                 IF g \in Values(u) /\ NotOlder(u.slot, groups[i][g]) THEN u.slot ELSE groups[i][g]
    <1> DEFINE i == u.key
               data == [uri |-> u.uri, slot |-> u.slot]
               list == [g \in Groups \cup {None} |->
                   IF g \in Values(u) /\ NotOlder(u.slot, groups[i][g]) THEN u.slot ELSE groups[i][g]]
    <1>1. u.slot \in Nat /\ u.uri \in Uris
        BY Zenon, UpdateFacts DEF IInv
    <1>2. /\ asset_data \in [Ids -> Opt(DataRow)] /\ collection \in [Ids -> Opt(CollectionRow)]
          /\ groups \in [Ids -> [Groups \cup {None} -> Opt(Nat)]]
        BY Zenon DEF IInv, TypeOK
    <1>3. data \in Opt(DataRow)
        BY Zenon, <1>1 DEF DataRow, Opt
    <1>4. asset_data' = IF asset_data[i] = None \/ u.slot > asset_data[i].slot
                        THEN [asset_data EXCEPT ![i] = data] ELSE asset_data
        BY Zenon DEF DataSaved
    <1>5. /\ asset_data' \in [Ids -> Opt(DataRow)]
          /\ \A j \in Ids : j # i => asset_data'[j] = asset_data[j]
          /\ asset_data'[i] = IF asset_data[i] = None \/ u.slot > asset_data[i].slot
                              THEN data ELSE asset_data[i]
        <2> HIDE DEF data
        <2> QED  BY Zenon, <1>2, <1>3, <1>4
    <1> DEFINE row == [value |-> Parent(u), slot |-> u.slot]
    <1>6. Parent(u) \in Opt(Ids)
        BY Zenon, UpdateFacts DEF IInv, ChainAssumption, Parent, Opt
    <1>7. row \in Opt(CollectionRow) /\ row # None /\ row.slot = u.slot /\ row.value = Parent(u)
        <2>1. row \in CollectionRow /\ row.slot = u.slot /\ row.value = Parent(u)
            BY Zenon, <1>1, <1>6 DEF CollectionRow
        <2> QED  BY Zenon, <2>1 DEF ChainAssumption, Opt
    <1>8. /\ collection' \in [Ids -> Opt(CollectionRow)]
          /\ \A j \in Ids : j # i => collection'[j] = collection[j]
          /\ collection'[i] # None
          /\ IF collection[i] = None \/ u.slot >= collection[i].slot
             THEN collection'[i].slot = u.slot /\ collection'[i].value = Parent(u)
             ELSE collection'[i] = collection[i]
        <2>1. collection' = IF collection[i] = None \/ u.slot >= collection[i].slot
                            THEN [collection EXCEPT ![i] = row] ELSE collection
            BY Zenon DEF CollectionSaved
        <2> HIDE DEF row
        <2> QED  BY Zenon, <1>2, <1>7, <2>1
    <1>9. list \in [Groups \cup {None} -> Opt(Nat)]
        <2>1. \A g \in Groups \cup {None} : groups[i][g] \in Opt(Nat)
            BY Zenon, <1>2
        <2>2. u.slot \in Opt(Nat)
            BY Zenon, <1>1 DEF Opt
        <2> QED  BY Zenon, <2>1, <2>2
    <1>10. groups' = [groups EXCEPT ![i] = list]
        BY Zenon DEF GroupsSaved
    <1>11. /\ groups' \in [Ids -> [Groups \cup {None} -> Opt(Nat)]]
           /\ \A j \in Ids : j # i => groups'[j] = groups[j]
           /\ groups'[i] = list
        <2> HIDE DEF list
        <2> QED  BY Zenon, <1>2, <1>9, <1>10
    <1> QED  BY Zenon, <1>5, <1>8, <1>11

\* The rows of the account are those of the newer of what they were of and u.
LEMMA SaveNewest ==
    ASSUME ChainAssumption, IInv, NEW u \in Updates, u.kind \in Saved, u.key \in Ids,
           DataSaved(u), CollectionSaved(u), GroupsSaved(u), RowSaved(u),
           handled' = handled \cup {u}, UNCHANGED history
    PROVE  RowsSound'
    <1> DEFINE i == u.key
               All == Groups \cup {None}
    <1>1. /\ \A j \in Ids : j # i => /\ asset_data'[j] = asset_data[j] /\ groups'[j] = groups[j]
                                     /\ collection'[j] = collection[j]
          /\ asset_data'[i] = IF asset_data[i] = None \/ u.slot > asset_data[i].slot
                              THEN [uri |-> u.uri, slot |-> u.slot] ELSE asset_data[i]
          /\ collection'[i] # None
          /\ IF collection[i] = None \/ u.slot >= collection[i].slot
             THEN collection'[i].slot = u.slot /\ collection'[i].value = Parent(u)
             ELSE collection'[i] = collection[i]
          /\ \A g \in All : groups'[i][g] =
                IF g \in Values(u) /\ NotOlder(u.slot, groups[i][g]) THEN u.slot ELSE groups[i][g]
        BY Zenon, SaveTables
    <1>2. /\ \A j \in Ids : j # i => asset'[j] = asset[j]
          /\ asset'[i] # None
          /\ asset[i] = None \/ asset[i].slotTA = None =>
                asset'[i].slotTA = u.slot /\ (u.kind = "asset" => asset'[i].owner = u.owner)
          /\ asset[i] # None /\ asset[i].slotTA # None =>
                IF u.slot >= asset[i].slotTA
                THEN asset'[i].slotTA = u.slot /\ (u.kind = "asset" => asset'[i].owner = u.owner)
                ELSE asset'[i].slotTA = asset[i].slotTA /\ asset'[i].owner = asset[i].owner
        BY Zenon, SaveRow
    <1>3. /\ Of(Saved, i)' = Of(Saved, i) \cup {u}
          /\ \A j \in Ids : j # i => Of(Saved, j)' = Of(Saved, j)
        BY Zenon DEF Of
    <1>4. /\ Updates' = Updates /\ Groups' = Groups /\ Values(u) \subseteq All
          /\ u.slot \in Nat /\ None \notin Nat
        BY Zenon, SameHistory, UpdateFacts DEF IInv, ChainAssumption
    <1>5. \A g \in All : groups[i][g] \in Opt(Nat)
        BY Zenon DEF IInv, TypeOK
    <1>6. ASSUME NEW j \in Ids, j # i
          PROVE  (Unsaved(j) \/ \E v \in Updates : SavedAs(j, v))'
        <2>1. Unsaved(j) => Unsaved(j)'
            BY Zenon, <1>1, <1>2, <1>3, <1>4, <1>6 DEF Unsaved
        <2>2. ASSUME NEW v \in Updates, SavedAs(j, v)
              PROVE  SavedAs(j, v)'
            <3>1. /\ asset_data'[j] = asset_data[j] /\ groups'[j] = groups[j] /\ asset'[j] = asset[j]
                  /\ collection'[j] = collection[j] /\ Of(Saved, j)' = Of(Saved, j)
                BY Zenon, <1>1, <1>2, <1>3, <1>6
            <3> QED  BY Zenon, <1>4, <2>2, <3>1 DEF SavedAs
        <2> QED  BY Zenon, <1>4, <2>1, <2>2 DEF IInv, RowsSound
    <1>7. ASSUME Unsaved(i)
          PROVE  SavedAs(i, u)'
        <2>1. /\ asset_data'[i] = [uri |-> u.uri, slot |-> u.slot]
              /\ collection'[i].slot = u.slot /\ collection'[i].value = Parent(u)
              /\ \A g \in All : groups'[i][g] = IF g \in Values(u) THEN u.slot ELSE None
            BY Zenon, <1>1, <1>7 DEF Unsaved, NotOlder
        <2>2. asset'[i].slotTA = u.slot /\ (u.kind = "asset" => asset'[i].owner = u.owner)
            BY Zenon, <1>2, <1>7 DEF Unsaved
        <2>3. Of(Saved, i)' = {u}
            BY Zenon, <1>3, <1>7 DEF Unsaved
        <2>4. \A g \in All : /\ groups'[i][g] # None => groups'[i][g] <= u.slot
                             /\ groups'[i][g] = u.slot <=> g \in Values(u)
            BY <1>4, <2>1
        <2>5. \A x \in Of(Saved, i)' : x.slot <= u.slot
            BY <1>4, <2>3
        <2> QED  BY Zenon, <1>1, <1>2, <1>4, <2>1, <2>2, <2>4, <2>5 DEF SavedAs, Values, Parent
    <1>8. ASSUME NEW v \in Updates, SavedAs(i, v), u.slot >= v.slot
          PROVE  SavedAs(i, u)'
        <2>1. v.slot \in Nat /\ (u.slot = v.slot => u = v)
            BY Zenon, <1>8, UpdateFacts DEF IInv, SavedAs
        <2>2. u = v \/ u.slot > v.slot
            BY <1>4, <1>8, <2>1
        <2>3. /\ asset_data[i] = [uri |-> v.uri, slot |-> v.slot]
              /\ collection[i] # None /\ collection[i].slot = v.slot
              /\ asset[i] # None /\ asset[i].slotTA = v.slot /\ asset[i].slotTA # None
              /\ \A g \in All : /\ groups[i][g] # None => groups[i][g] <= v.slot
                                /\ groups[i][g] = v.slot <=> g \in Values(v)
              /\ \A x \in Of(Saved, i) : x.slot <= v.slot
            BY Zenon, <1>4, <1>8, <2>1 DEF SavedAs
        <2>4. asset_data[i].slot = v.slot
            BY <2>3
        <2>5. asset_data'[i] = [uri |-> u.uri, slot |-> u.slot]
            BY Zenon, <1>1, <2>2, <2>3, <2>4
        <2>6. collection'[i].slot = u.slot /\ collection'[i].value = Parent(u)
            BY Zenon, <1>1, <1>8, <2>3
        <2>7. asset'[i].slotTA = u.slot /\ (u.kind = "asset" => asset'[i].owner = u.owner)
            BY Zenon, <1>2, <1>8, <2>3
        <2>8. \A x \in Of(Saved, i)' : x.slot <= u.slot
            <3>1. \A x \in Of(Saved, i) : x.slot \in Nat
                BY Zenon, UpdateFacts DEF IInv, TypeOK, Of
            <3>2. \A x \in Of(Saved, i) : x.slot <= u.slot
                BY <1>4, <1>8, <2>1, <2>3, <3>1
            <3>3. u.slot <= u.slot
                BY <1>4
            <3> QED  BY Zenon, <1>3, <3>2, <3>3
        <2>9. \A g \in All : /\ groups'[i][g] # None => groups'[i][g] <= u.slot
                             /\ groups'[i][g] = u.slot <=> g \in Values(u)
            <3> SUFFICES ASSUME NEW g \in All
                         PROVE  /\ groups'[i][g] # None => groups'[i][g] <= u.slot
                                /\ groups'[i][g] = u.slot <=> g \in Values(u)
                BY Zenon
            <3> DEFINE old == groups[i][g]  new == groups'[i][g]
            <3>1. /\ new = IF g \in Values(u) /\ NotOlder(u.slot, old) THEN u.slot ELSE old
                  /\ old # None => old <= v.slot /\ old \in Nat
                  /\ old = v.slot <=> g \in Values(v)
                BY Zenon, <1>1, <1>5, <2>3 DEF Opt
            <3> HIDE DEF old, new
            <3>2. NotOlder(u.slot, old)
                BY <1>4, <1>8, <2>1, <3>1 DEF NotOlder
            <3>3. CASE g \in Values(u)
                <4>1. new = u.slot /\ u.slot <= u.slot
                    BY <1>4, <3>1, <3>2, <3>3
                <4> QED  BY Zenon, <3>3, <4>1 DEF new
            <3>4. CASE g \notin Values(u)
                <4>1. new = old
                    BY Zenon, <3>1, <3>4
                <4>2. old # None => old <= u.slot
                    BY <1>4, <1>8, <2>1, <3>1
                <4>3. old # u.slot
                    <5>1. CASE u = v
                        BY Zenon, <3>1, <3>4, <5>1
                    <5>2. CASE u.slot > v.slot
                        BY <1>4, <2>1, <3>1, <5>2
                    <5> QED  BY Zenon, <2>2, <5>1, <5>2
                <4> QED  BY Zenon, <3>4, <4>1, <4>2, <4>3 DEF new
            <3> QED  BY Zenon, <3>3, <3>4
        <2> QED  BY Zenon, <1>1, <1>2, <1>4, <2>5, <2>6, <2>7, <2>8, <2>9 DEF SavedAs, Values, Parent
    <1>9. ASSUME NEW v \in Updates, SavedAs(i, v), ~(u.slot >= v.slot)
          PROVE  SavedAs(i, v)'
        <2>1. v.slot \in Nat /\ v.slot # None
            BY Zenon, UpdateFacts DEF IInv
        <2>2. ~(u.slot > v.slot) /\ u.slot <= v.slot /\ u.slot # v.slot
            BY <1>4, <1>9, <2>1
        <2>3. /\ asset_data[i] = [uri |-> v.uri, slot |-> v.slot] /\ v.kind \in Saved /\ v.key = i
              /\ collection[i] # None /\ collection[i].slot = v.slot /\ collection[i].value = Parent(v)
              /\ asset[i] # None /\ asset[i].slotTA = v.slot /\ asset[i].slotTA # None
              /\ v.kind = "asset" => asset[i].owner = v.owner
              /\ v \in handled'
              /\ \A g \in All : /\ groups[i][g] # None => groups[i][g] <= v.slot
                                /\ groups[i][g] = v.slot <=> g \in Values(v)
              /\ \A x \in Of(Saved, i) : x.slot <= v.slot
            BY Zenon, <1>9, <2>1 DEF SavedAs
        <2>4. asset_data[i].slot = v.slot /\ asset_data[i] # None
            <3>1. asset_data[i].slot = v.slot
                BY <2>3
            <3>2. v.uri \in Uris
                BY Zenon, <2>3, UpdateFacts DEF IInv
            <3>3. asset_data[i] \in DataRow
                BY <2>1, <2>3, <3>2 DEF DataRow
            <3> QED  BY Zenon, <3>1, <3>3 DEF ChainAssumption
        <2>5. asset_data'[i] = [uri |-> v.uri, slot |-> v.slot]
            BY Zenon, <1>1, <2>2, <2>3, <2>4
        <2>6. collection'[i].slot = v.slot /\ collection'[i].value = Parent(v)
            BY Zenon, <1>1, <1>9, <2>3
        <2>7. asset'[i].slotTA = v.slot /\ (v.kind = "asset" => asset'[i].owner = v.owner)
            BY Zenon, <1>2, <1>9, <2>3
        <2>8. \A x \in Of(Saved, i)' : x.slot <= v.slot
            BY Zenon, <1>3, <2>2, <2>3
        <2>9. \A g \in All : /\ groups'[i][g] # None => groups'[i][g] <= v.slot
                             /\ groups'[i][g] = v.slot <=> g \in Values(v)
            <3> SUFFICES ASSUME NEW g \in All
                         PROVE  /\ groups'[i][g] # None => groups'[i][g] <= v.slot
                                /\ groups'[i][g] = v.slot <=> g \in Values(v)
                BY Zenon
            <3> DEFINE old == groups[i][g]  new == groups'[i][g]
            <3>1. /\ new = IF g \in Values(u) /\ NotOlder(u.slot, old) THEN u.slot ELSE old
                  /\ old # None => old <= v.slot
                  /\ old = v.slot <=> g \in Values(v)
                BY Zenon, <1>1, <2>3
            <3> HIDE DEF old, new
            <3>2. NotOlder(u.slot, old) => old # v.slot
                BY Zenon, <1>9, <2>1 DEF NotOlder
            <3>3. /\ new # None => new <= v.slot
                  /\ new = v.slot <=> g \in Values(v)
                BY Zenon, <2>2, <3>1, <3>2
            <3> QED  BY Zenon, <3>3 DEF new
        <2> QED  BY Zenon, <1>1, <1>2, <1>4, <2>3, <2>5, <2>6, <2>7, <2>8, <2>9 DEF SavedAs, Values, Parent
    <1>10. (Unsaved(i) \/ \E v \in Updates : SavedAs(i, v))'
        <2>1. Unsaved(i) \/ \E v \in Updates : SavedAs(i, v)
            BY Zenon DEF IInv, RowsSound
        <2>2. ASSUME NEW v \in Updates, SavedAs(i, v)
              PROVE  (\E x \in Updates : SavedAs(i, x))'
            BY Zenon, <1>4, <1>8, <1>9, <2>2
        <2> QED  BY Zenon, <1>4, <1>7, <2>1, <2>2
    <1> QED  BY Zenon, <1>6, <1>10 DEF RowsSound

\* The transaction of save_v1_asset commits.
LEMMA SaveKeeps ==
    ASSUME ChainAssumption, IInv, NEW w \in Workers, Save(w)
    PROVE  IInv'
    <1>0. PICK u : u = worker[w].u
        OBVIOUS
    <1> DEFINE i == u.key
    <1>1. /\ u \in Updates /\ u.kind \in Saved /\ u.key \in Ids /\ worker[w] # None
          /\ DataSaved(u) /\ CollectionSaved(u) /\ GroupsSaved(u) /\ RowSaved(u)
          /\ authority' \in [Ids -> Opt(AuthorityRow)]
          /\ creators' \in [Ids -> [Positions -> Opt(CreatorRow)]]
          /\ requested' \subseteq Ids \X Uris
          /\ worker' = [worker EXCEPT ![w] = None] /\ handled' = handled \cup {u}
          /\ UNCHANGED history
        BY Zenon, <1>0, SaveStatements
    <1>2. /\ asset' \in [Ids -> Opt(AssetRow)]
          /\ \A j \in Ids : j # i => asset'[j] = asset[j]
          /\ asset'[i] # None /\ asset'[i].slot # None /\ SameAgent(asset[i], asset'[i])
          /\ u.kind = "asset" /\ Intact(i) => Intact(i)'
        BY Zenon, <1>1, SaveRow
    <1>3. /\ asset_data' \in [Ids -> Opt(DataRow)] /\ collection' \in [Ids -> Opt(CollectionRow)]
          /\ groups' \in [Ids -> [Groups \cup {None} -> Opt(Nat)]]
          /\ \A j \in Ids : j # i => asset_data'[j] = asset_data[j]
        BY Zenon, <1>1, SaveTables
    <1>4. \A j \in Ids : asset[j] # None => asset'[j] # None
        BY Zenon, <1>2
    <1>5. worker' \in [Workers -> Opt(Handler')] /\ WorkersSound'
        <2>1. None \in Opt(Handler)
            BY Zenon DEF Opt
        <2> QED  BY Zenon, <1>1, <1>4, <2>1, WorkerMoved DEF IInv
    <1>6. TypeOK'
        <2>1. Groups' = Groups /\ Updates' = Updates
            BY Zenon, <1>1, SameHistory
        <2>2. \A j \in Ids : /\ asset'[j] # None => asset'[j].slot # None
                             /\ asset_data'[j] # None => asset'[j] # None
            BY Zenon, <1>2, <1>3 DEF IInv, TypeOK
        <2>3. history' \in Histories /\ handled' \subseteq Updates
            BY Zenon, <1>1 DEF IInv, TypeOK
        <2> QED  BY Zenon, <1>1, <1>2, <1>3, <1>5, <2>1, <2>2, <2>3 DEF TypeOK
    <1>7. RowsSound'
        BY Zenon, <1>1, SaveNewest
    <1>8. \A j \in Ids : SameAgent(asset[j], asset'[j])
        BY Zenon, <1>2 DEF SameAgent
    <1>9. AgentsSound'
        BY Zenon, <1>1, <1>8, AgentsKept DEF IInv
    <1>10. AgentSound'
        <2>1. worker'[w] = None /\ \A x \in Workers : x # w => worker'[x] = worker[x]
            BY Zenon, <1>1 DEF IInv, TypeOK
        <2>2. ASSUME NEW j \in Ids, Order = "handled", Decorated(j)
              PROVE  Intact(j)'
            <3>1. Intact(j)
                BY Zenon, <2>2 DEF IInv, AgentSound, Intact
            <3>2. CASE j = i
                <4>1. u.kind = "asset"
                    BY <1>1, <2>2, <3>2 DEF Decorated, Saved
                <4> QED  BY Zenon, <1>2, <3>1, <3>2, <4>1
            <3>3. CASE j # i
                BY Zenon, <1>2, <3>1, <3>3 DEF Intact
            <3> QED  BY Zenon, <3>2, <3>3
        <2>3. \A x \in handled : x.kind = "registry" /\ AgentCopied(x, asset) => AgentCopied(x, asset')
            <3>1. \A x \in handled : x.key \in Ids
                BY Zenon, UpdateFacts DEF IInv, TypeOK
            <3> QED  BY Zenon, <1>8, <3>1 DEF AgentCopied, SameAgent
        <2>4. \A x \in handled' : x \in handled \/ x.kind # "registry"
            <3>1. u.kind # "registry"
                BY <1>1 DEF Saved
            <3> QED  BY Zenon, <1>1, <3>1
        <2> QED  BY Zenon, <1>1, <1>4, <2>1, <2>2, <2>3, <2>4, AgentKept DEF IInv
    <1> QED  BY Zenon, <1>5, <1>6, <1>7, <1>9, <1>10 DEF IInv

-----------------------------------------------------------------------------
(* The invariant *)

\* Nothing is stored and nothing was handled at first.
LEMMA InitKeeps ==
    ASSUME ChainAssumption, Init
    PROVE  IInv
    <1>1. /\ asset = [i \in Ids |-> None] /\ asset_data = asset /\ authority = asset
          /\ collection = asset /\ groups = [i \in Ids |-> [g \in Groups \cup {None} |-> None]]
          /\ creators = [i \in Ids |-> [p \in Positions |-> None]]
          /\ requested = {} /\ handled = {} /\ worker = [w \in Workers |-> None]
          /\ history \in Histories
        BY Zenon DEF Init
    <1>2. /\ asset \in [Ids -> Opt(AssetRow)] /\ asset_data \in [Ids -> Opt(DataRow)]
          /\ authority \in [Ids -> Opt(AuthorityRow)] /\ collection \in [Ids -> Opt(CollectionRow)]
        BY Zenon, <1>1 DEF Opt
    <1>3. groups \in [Ids -> [Groups \cup {None} -> Opt(Nat)]]
        BY Zenon, <1>1 DEF Opt
    <1>4. creators \in [Ids -> [Positions -> Opt(CreatorRow)]]
        BY Zenon, <1>1 DEF Opt
    <1>5. worker \in [Workers -> Opt(Handler)]
        BY Zenon, <1>1 DEF Opt
    <1>6. TypeOK
        BY Zenon, <1>1, <1>2, <1>3, <1>4, <1>5 DEF TypeOK
    <1>7. RowsSound
        BY Zenon, <1>1 DEF RowsSound, Unsaved, Of
    <1>8. WorkersSound /\ AgentsSound /\ AgentSound
        BY Zenon, <1>1 DEF WorkersSound, AgentsSound, AgentOf, AgentSound, Of
    <1> QED  BY Zenon, <1>6, <1>7, <1>8 DEF IInv

\* Nothing happens.
LEMMA StutterKeeps ==
    ASSUME IInv, UNCHANGED vars
    PROVE  IInv'
    <1>1. UNCHANGED <<history, asset, asset_data, authority, collection, groups, creators,
                      requested, worker, handled>>
        BY Zenon DEF vars, rows
    <1>2. Updates' = Updates /\ Order' = Order /\ Handler' = Handler /\ UNCHANGED rows
          /\ \A i : Decorated(i)' = Decorated(i)
        BY Zenon, <1>1, SameHistory DEF rows
    <1>3. TypeOK'
        BY Zenon, <1>1, <1>2, TypeKept DEF IInv, TypeOK
    <1>4. RowsSound'
        BY Zenon, <1>1, RowsKept DEF IInv, SameOwner, RowsSound, Unsaved
    <1>5. WorkersSound'
        BY Zenon, <1>1 DEF IInv, WorkersSound, Ready
    <1>6. AgentsSound'
        BY Zenon, <1>1, AgentsKept DEF IInv, SameAgent
    <1>7. AgentSound'
        BY Zenon, <1>1, <1>2 DEF IInv, AgentSound, Of
    <1> QED  BY Zenon, <1>3, <1>4, <1>5, <1>6, <1>7 DEF IInv

\* One step per action.
LEMMA NextKeeps ==
    ASSUME ChainAssumption, IInv, [Next]_vars
    PROVE  IInv'
    <1>1. CASE UNCHANGED vars
        BY Zenon, <1>1, StutterKeeps
    <1>2. ASSUME NEW w \in Workers, NEW u \in Updates, Begin(w, u)
          PROVE  IInv'
        BY Zenon, <1>2, BeginKeeps
    <1>3. ASSUME NEW w \in Workers, Fail(w)
          PROVE  IInv'
        BY Zenon, <1>3, FailKeeps
    <1>4. ASSUME NEW w \in Workers, ReadAuthority(w)
          PROVE  IInv'
        BY Zenon, <1>4, ReadAuthorityKeeps
    <1>5. ASSUME NEW w \in Workers, Propagate(w)
          PROVE  IInv'
        BY Zenon, <1>5, PropagateKeeps
    <1>6. ASSUME NEW w \in Workers, Save(w)
          PROVE  IInv'
        BY Zenon, <1>6, SaveKeeps
    <1>7. ASSUME NEW w \in Workers, burn_v1_asset(w)
          PROVE  IInv'
        BY Zenon, <1>7, BurnKeeps
    <1>8. ASSUME NEW w \in Workers, FindAsset(w)
          PROVE  IInv'
        BY Zenon, <1>8, FindAssetKeeps
    <1>9. ASSUME NEW w \in Workers, SetAgentToken(w)
          PROVE  IInv'
        BY Zenon, <1>9, AgentKeeps
    <1> QED  BY Zenon, <1>1, <1>2, <1>3, <1>4, <1>5, <1>6, <1>7, <1>8, <1>9 DEF Next, Step

\* The invariant the theorems about MPL Core rest on: the rows of an account are those of one
\* version (save_v1_asset), its agent token is that of one version of the registry's account
\* (handle_agent_registry_account), and no handler is about to write anything else.
THEOREM Invariance == ChainAssumption => (Spec => []IInv)
    <1> SUFFICES ASSUME ChainAssumption
                 PROVE  Spec => []IInv
        OBVIOUS
    <1>1. Init => IInv
        BY Zenon, InitKeeps
    <1>2. IInv /\ [Next]_vars => IInv'
        BY Zenon, NextKeeps
    <1> QED  BY <1>1, <1>2, PTL DEF Spec

\* Every statement of save_v1_asset, burn_v1_asset and handle_agent_registry_account leaves
\* rows of the declared types: a row of asset has a slot, and one of asset_data an asset.
THEOREM TypeCorrect == ChainAssumption => (Spec => []TypeOK)
    <1>1. IInv => TypeOK
        BY Zenon DEF IInv
    <1> QED  BY <1>1, Invariance, PTL

\* The rows of the version are what a reader takes for the newest.
LEMMA RowsAreNewest ==
    ASSUME ChainAssumption, IInv
    PROVE  GroupsAreNewest
    <1> SUFFICES ASSUME NEW i \in Ids, Of(Saved, i) # {}
                 PROVE  LET slots == {groups[i][g] : g \in Groups \cup {None}} \ {None} IN
                        \E top \in slots, u \in Updates :
                            /\ \A s \in slots : s <= top
                            /\ u.kind \in Saved /\ u.key = i /\ u.slot = top
                            /\ \A v \in Of(Saved, i) : v.slot <= top
                            /\ {g \in Groups : groups[i][g] = top} = u.groups
                            /\ collection[i].slot = top /\ asset_data[i].slot = top /\ asset_data[i].uri = u.uri
                            /\ asset[i].slotTA = top /\ (u.kind = "asset" => asset[i].owner = u.owner)
        BY Zenon DEF GroupsAreNewest
    <1> DEFINE slots == {groups[i][g] : g \in Groups \cup {None}} \ {None}
    <1>1. PICK u \in Updates : SavedAs(i, u)
        BY Zenon DEF IInv, RowsSound, Unsaved
    <1>2. /\ u.kind \in Saved /\ u.key = i /\ asset[i].slotTA = u.slot
          /\ collection[i].slot = u.slot /\ (u.kind = "asset" => asset[i].owner = u.owner)
          /\ asset_data[i] = [uri |-> u.uri, slot |-> u.slot]
          /\ \A g \in Groups \cup {None} : /\ groups[i][g] # None => groups[i][g] <= u.slot
                                           /\ groups[i][g] = u.slot <=> g \in Values(u)
          /\ \A v \in Of(Saved, i) : v.slot <= u.slot
        BY Zenon, <1>1 DEF SavedAs
    <1>3. asset_data[i].slot = u.slot /\ asset_data[i].uri = u.uri
        BY <1>2
    <1>4. /\ u.slot # None /\ Values(u) \subseteq Groups \cup {None} /\ None \notin u.groups
          /\ u.groups \subseteq Groups /\ None \notin Groups
        <2>1. \A v \in Updates : v.kind \in Saved => None \notin v.groups
            BY Zenon, UpdateFacts DEF IInv
        <2>2. None \notin Groups
            BY Zenon, <2>1 DEF Groups
        <2> QED  BY Zenon, <1>2, <2>2, UpdateFacts DEF IInv
    <1>5. u.slot \in slots
        <2>1. PICK g : g \in Values(u)
            BY Zenon DEF Values
        <2> QED  BY Zenon, <1>2, <1>4, <2>1
    <1>6. \A s \in slots : s <= u.slot
        BY Zenon, <1>2
    <1>7. {g \in Groups : groups[i][g] = u.slot} = u.groups
        <2>1. \A g \in Groups : groups[i][g] = u.slot <=> g \in Values(u)
            BY Zenon, <1>2
        <2>2. \A g \in Groups : g \in Values(u) <=> g \in u.groups
            BY Zenon, <1>4 DEF Values
        <2> QED  BY Zenon, <1>4, <2>1, <2>2
    <1> HIDE DEF slots
    <1>8. \E top \in slots, x \in Updates :
             /\ \A s \in slots : s <= top
             /\ x.kind \in Saved /\ x.key = i /\ x.slot = top
             /\ \A v \in Of(Saved, i) : v.slot <= top
             /\ {g \in Groups : groups[i][g] = top} = x.groups
             /\ collection[i].slot = top /\ asset_data[i].slot = top /\ asset_data[i].uri = x.uri
             /\ asset[i].slotTA = top /\ (x.kind = "asset" => asset[i].owner = x.owner)
        <2> WITNESS u.slot \in slots, u \in Updates
        <2> QED  BY Zenon, <1>2, <1>3, <1>6, <1>7
    <1> QED  BY Zenon, <1>8 DEF slots

\* The token in the row is that of the newest version that was handled.
LEMMA AgentIsNewest ==
    ASSUME IInv
    PROVE  AgentTokenIsNewest
    <1> SUFFICES ASSUME Order = "handled", NEW i \in Ids, Decorated(i), Of({"registry"}, i) # {}
                 PROVE  \E v \in Updates :
                            /\ v.kind = "registry" /\ v.key = i
                            /\ \A u \in Of({"registry"}, i) : u.slot <= v.slot
                            /\ asset[i] # None /\ asset[i].agent = v.token
        BY ZenonT(40) DEF AgentTokenIsNewest
    <1>1. \A u \in Of({"registry"}, i) :
             asset[i] # None /\ asset[i].slotAgent # None /\ u.slot <= asset[i].slotAgent
        BY Zenon DEF IInv, AgentSound, AgentCopied, Of
    <1>2. asset[i] # None /\ asset[i].slotAgent # None
        BY Zenon, <1>1
    <1>3. PICK v \in Updates : /\ v.kind = "registry" /\ v.key = i
                               /\ asset[i].slotAgent = v.slot /\ asset[i].agent = v.token
        BY Zenon, <1>2 DEF IInv, AgentsSound, AgentOf
    <1> QED  BY Zenon, <1>1, <1>2, <1>3

\* Whatever the order in which the versions of an account are handled, and with handlers that
\* fail and are run again, the groups, the collection, the uri and the owner a reader sees
\* are those of one version that is not older than any handled (save_v1_asset).  With the
\* updates handled in the order of their slots, the same holds for the agent token of an
\* indexed asset (handle_agent_registry_account).
THEOREM CoreStaysNewest == ChainAssumption => (Spec => []CoreIsNewest)
    <1> SUFFICES ASSUME ChainAssumption
                 PROVE  Spec => []CoreIsNewest
        OBVIOUS
    <1>1. IInv => CoreIsNewest
        BY Zenon, RowsAreNewest, AgentIsNewest DEF CoreIsNewest
    <1> QED  BY <1>1, Invariance, PTL

-----------------------------------------------------------------------------
(* Authorities, with the updates handled in the order of their slots *)

\* What came before u on the chain is handled.
InOrder(u) == \A v \in Updates : v.slot < u.slot => v \in handled

Received ==
    /\ \A u \in handled : InOrder(u)
    /\ \A w \in Workers : worker[w] # None => InOrder(worker[w].u)

\* An account has an authority as soon as it is saved.
Authorized == \A i \in Ids : authority[i] # None <=> Of(Saved, i) # {}

Writes(h) == h # None /\ h.pc \in {"txn", "commit"}

\* A collection has one transaction that wrote its authority and did not commit yet, and
\* an address is not looked up.
TransactionsSound ==
    /\ \A v, w \in Workers :
          At(v, "commit") /\ At(w, "commit") /\ worker[v].u.key = worker[w].u.key => v = w
    /\ \A w \in Workers : Writes(worker[w]) /\ worker[w].u.by.type = "address" =>
          worker[w].auth = worker[w].u.by.at

\* All versions of i name an address: the row holds that of the newest version handled.
Plain(i) == \A v \in Updates : v.kind \in Saved /\ v.key = i => v.by.type = "address"

PlainRow(i) ==
    /\ authority[i] # None => \E x \in Of(Saved, i) : x.slot = authority[i].slot
    /\ \A x \in Of(Saved, i) : x.slot >= authority[i].slot => x.by.at = authority[i].who

PlainSound == \A i \in Ids : Plain(i) => PlainRow(i)

\* The row of the member i was written for the version y of its collection j, which may
\* not have committed its own row yet.
Led(i, j, y) ==
    /\ y.kind \in Saved /\ y.key = j /\ y.slot = authority[i].slot /\ InOrder(y)
    /\ y.by.at = authority[i].who
    /\ collection[i] # None /\ collection[i].value = j
    /\ y \in handled => authority[j] # None /\ authority[i].who = authority[j].who

Origin(i, j) ==
    authority[i] # None => \/ \E x \in Of(Saved, i) : x.slot = authority[i].slot
                           \/ \E y \in Updates : Led(i, j, y)

\* No version of i that is newer than the row would write another authority.
Current(i) ==
    \A x \in Of(Saved, i) : x.slot >= authority[i].slot => Resolve(x.by) = authority[i].who

\* A handler of the member holds the authority of now, or comes too late to write it.
MemberHandler(i, h) ==
    Writes(h) /\ h.u.key = i =>
        \/ h.auth = Resolve(h.u.by)
        \/ authority[i] # None /\ authority[i].slot > h.u.slot

\* The members have what a handler of their collection is about to commit.
LeadHandler(i, j, h) ==
    Writes(h) /\ h.pc = "commit" /\ h.u.key = j =>
        /\ h.u \notin handled
        /\ AuthorityChanges(authority[j], h.auth, h.u.slot)
        /\ collection[i] # None /\ collection[i].value = j =>
              authority[i] # None /\ authority[i].slot = h.u.slot

Pair(i, j) ==
    /\ Origin(i, j) /\ Current(i)
    /\ \A w \in Workers : MemberHandler(i, worker[w]) /\ LeadHandler(i, j, worker[w])

PairsSound == \A i, j \in Ids : Stays(i, j) => Pair(i, j)

AInv == Order = "handled" =>
    Received /\ Authorized /\ TransactionsSound /\ PlainSound /\ PairsSound

-----------------------------------------------------------------------------
(* Steps that write no authority *)

\* The versions of a history are the same after a step.
LEMMA SameStories ==
    ASSUME UNCHANGED history
    PROVE  \A i, j : Stays(i, j)' = Stays(i, j) /\ Plain(i)' = Plain(i)
    BY Zenon DEF Stays, Plain, Updates

\* What Stays says of the versions of the two accounts.
LEMMA StaysFacts ==
    ASSUME ChainAssumption, TypeOK, NEW i \in Ids, NEW j \in Ids, Stays(i, j)
    PROVE  /\ \A x \in Updates : x.kind \in Saved /\ x.key = i =>
                 /\ x.by.type \in {"address", "none", "collection"}
                 /\ x.by.type = "collection" => x.by.at = j
                 /\ \A y \in Updates : y.kind \in Saved /\ y.key = j => x.slot # y.slot
                 /\ \A z \in Updates : z.kind \in Saved /\ z.key = i /\ x.slot < z.slot
                       /\ x.by.type = "collection" => z.by.type = "collection"
           /\ Plain(j)
           /\ \A x \in Updates : x.kind \in Saved => x.key # i \/ x.key # j
    <1>1. \A x \in Updates : x.kind \in Saved => x.by.type \in {"address", "none", "collection"}
        BY Zenon, UpdateFacts DEF ChainAssumption
    <1> QED  BY Zenon, <1>1 DEF Stays, Plain

\* What a version of the member would look up depends on the collection's row alone.
LEMMA ResolveKept ==
    ASSUME ChainAssumption, TypeOK, NEW i \in Ids, NEW j \in Ids, Stays(i, j),
           authority'[j] = authority[j], NEW x \in Updates, x.kind \in Saved, x.key = i
    PROVE  Resolve(x.by)' = Resolve(x.by)
    <1>1. /\ x.by.type \in {"address", "none", "collection"}
          /\ x.by.type = "collection" => x.by.at = j
        BY StaysFacts
    <1>2. CASE x.by.type = "address"
        BY Zenon, <1>2 DEF Resolve
    <1>3. CASE x.by.type = "none"
        <2>1. Resolve(x.by) = Default
            BY <1>3 DEF Resolve
        <2>2. (Resolve(x.by) = Default)'
            BY <1>3 DEF Resolve
        <2> QED  BY Zenon, <2>1, <2>2
    <1>4. CASE x.by.type = "collection"
        BY Zenon, <1>1, <1>4 DEF Resolve
    <1> QED  BY Zenon, <1>1, <1>2, <1>3, <1>4

\* A handler goes on in a step that writes no authority: it is done, or has not come to its
\* transaction, or has just looked the authority up.
Quiet(h) ==
    \/ h = None
    \/ h.pc \in {"read", "burn", "find", "agent"}
    \/ h.pc = "txn" /\ h.auth = Resolve(h.u.by) /\ h.u.kind \in Saved

\* A pair of accounts stays sound while their rows stay as they are.
LEMMA PairKept ==
    ASSUME ChainAssumption, IInv, NEW i \in Ids, NEW j \in Ids, Stays(i, j), Pair(i, j),
           UNCHANGED history, authority'[i] = authority[i], authority'[j] = authority[j],
           collection'[i] = collection[i], handled \subseteq handled',
           \A u \in handled' : u \in Updates,
           \A u \in handled' : u \in handled \/ u.kind \notin Saved \/ u.key \notin {i, j},
           \A x \in Workers : \/ worker'[x] = worker[x] \/ Quiet(worker'[x])
                              \/ worker'[x].u.key \notin {i, j}
                              \/ /\ MemberHandler(i, worker'[x]) /\ LeadHandler(i, j, worker'[x])
                                 /\ worker'[x].u.kind \in Saved,
           worker' \in [Workers -> Opt(Handler)]
    PROVE  Pair(i, j)'
    <1>1. /\ Of(Saved, i)' = Of(Saved, i)
          /\ \A u \in Updates : u.kind \in Saved /\ u.key = j => (u \in handled' <=> u \in handled)
        BY Zenon DEF Of
    <1>2. \A u : InOrder(u) => InOrder(u)'
        BY Zenon, SameHistory DEF InOrder
    <1>3. Origin(i, j)'
        <2>1. ASSUME NEW y \in Updates, Led(i, j, y)
              PROVE  Led(i, j, y)'
            BY Zenon, <1>1, <1>2, <2>1 DEF Led
        <2> QED  BY Zenon, <1>1, <2>1, SameHistory DEF Pair, Origin
    <1>4. \A x \in Updates : x.kind \in Saved /\ x.key = i => Resolve(x.by)' = Resolve(x.by)
        BY Zenon, ResolveKept DEF IInv
    <1>5. \A x \in Of(Saved, i) : x \in Updates /\ x.kind \in Saved /\ x.key = i
        BY Zenon DEF IInv, TypeOK, Of
    <1>6. Current(i)'
        BY Zenon, <1>1, <1>4, <1>5 DEF Pair, Current
    <1>7. ASSUME NEW h \in Handler, MemberHandler(i, h), LeadHandler(i, j, h),
                 Writes(h) => h.u.kind \in Saved
          PROVE  MemberHandler(i, h)' /\ LeadHandler(i, j, h)'
        <2>1. h.u \in Updates
            BY Zenon DEF Handler
        <2>2. MemberHandler(i, h)'
            BY Zenon, <1>4, <1>7, <2>1 DEF MemberHandler
        <2>3. LeadHandler(i, j, h)'
            BY Zenon, <1>1, <1>7, <2>1 DEF LeadHandler, AuthorityChanges
        <2> QED  BY Zenon, <2>2, <2>3
    <1>8. ASSUME NEW h \in Handler, Quiet(h)
          PROVE  MemberHandler(i, h) /\ LeadHandler(i, j, h) /\ (Writes(h) => h.u.kind \in Saved)
        <2>1. Writes(h) => h.pc = "txn" /\ h.pc # "commit"
            BY <1>8 DEF Writes, Quiet
        <2>2. Writes(h) => h.auth = Resolve(h.u.by) /\ h.u.kind \in Saved
            BY <1>8, <2>1 DEF Writes, Quiet
        <2> QED  BY Zenon, <2>1, <2>2 DEF MemberHandler, LeadHandler
    <1>9. ASSUME NEW w \in Workers
          PROVE  (MemberHandler(i, worker[w]) /\ LeadHandler(i, j, worker[w]))'
        <2>0. PICK h : h = worker'[w]
            OBVIOUS
        <2> SUFFICES MemberHandler(i, h)' /\ LeadHandler(i, j, h)'
            BY Zenon, <2>0 DEF MemberHandler, LeadHandler, Writes, AuthorityChanges, Resolve
        <2>1. CASE h = None
            BY Zenon, <2>0, <2>1 DEF MemberHandler, LeadHandler, Writes
        <2>2. CASE h # None /\ h.u.key \notin {i, j}
            BY Zenon, <2>0, <2>2 DEF MemberHandler, LeadHandler
        <2>3. CASE h # None /\ Quiet(h)
            <3>1. h \in Handler
                BY Zenon, <2>0, <2>3 DEF Opt
            <3> QED  BY Zenon, <1>7, <1>8, <2>0, <2>3, <3>1
        <2>4. CASE h # None /\ h = worker[w]
            <3>1. h \in Handler /\ (Writes(h) => h.u.kind \in Saved)
                BY Zenon, <2>4, Busy DEF Ready, Writes
            <3>2. MemberHandler(i, h) /\ LeadHandler(i, j, h)
                BY Zenon, <2>4 DEF Pair
            <3> QED  BY Zenon, <1>7, <2>0, <3>1, <3>2
        <2>5. CASE h # None /\ MemberHandler(i, h) /\ LeadHandler(i, j, h) /\ h.u.kind \in Saved
            <3>1. h \in Handler
                BY Zenon, <2>0, <2>5 DEF Opt
            <3> QED  BY Zenon, <1>7, <2>5, <3>1
        <2> QED  BY Zenon, <2>0, <2>1, <2>2, <2>3, <2>4, <2>5
    <1> QED  BY Zenon, <1>3, <1>6, <1>9 DEF Pair

\* Steps that write no authority and save nothing.
LEMMA QuietKeeps ==
    ASSUME ChainAssumption, IInv, AInv, IInv', UNCHANGED <<history, authority, collection>>,
           NEW w \in Workers, \A x \in Workers : x # w => worker'[x] = worker[x],
           Quiet(worker'[w]),
           worker'[w] = None \/ (worker[w] # None /\ worker'[w].u = worker[w].u)
               \/ (Order = "handled" => InOrder(worker'[w].u)),
           handled' = handled
               \/ (worker[w] # None /\ worker[w].u.kind \notin Saved /\ handled' = handled \cup {worker[w].u})
    PROVE  AInv'
    <1> SUFFICES ASSUME Order = "handled"
                 PROVE  (Received /\ Authorized /\ TransactionsSound /\ PlainSound /\ PairsSound)'
        BY Zenon, SameHistory DEF AInv
    <1>1. Received /\ Authorized /\ TransactionsSound /\ PlainSound /\ PairsSound
        BY Zenon DEF AInv
    <1>2. /\ handled \subseteq handled' /\ handled' \subseteq Updates
          /\ \A u \in handled' : u \in handled \/ u.kind \notin Saved
          /\ \A i : Of(Saved, i)' = Of(Saved, i)
        <2>1. handled' \subseteq Updates
            BY Zenon, SameHistory DEF IInv, TypeOK
        <2>2. handled \subseteq handled' /\ \A u \in handled' : u \in handled \/ u.kind \notin Saved
            BY Zenon
        <2> QED  BY Zenon, <2>1, <2>2 DEF Of
    <1>3. \A u : InOrder(u) => InOrder(u)'
        BY Zenon, <1>2, SameHistory DEF InOrder
    <1>4. Received'
        <2>1. \A u \in handled' : InOrder(u)
            BY Zenon, <1>1 DEF Received
        <2>2. \A x \in Workers : worker'[x] # None => InOrder(worker'[x].u)
            BY Zenon, <1>1 DEF Received
        <2>3. ASSUME NEW x \in Workers, worker'[x] # None
              PROVE  InOrder(worker[x].u)'
            <3>1. PICK u : u = worker'[x].u
                OBVIOUS
            <3>2. InOrder(u)'
                BY Zenon, <1>3, <2>2, <2>3, <3>1
            <3> QED  BY Zenon, <3>1, <3>2 DEF InOrder
        <2> QED  BY Zenon, <1>3, <2>1, <2>3 DEF Received
    <1>5. Authorized'
        BY Zenon, <1>1, <1>2 DEF Authorized
    <1>6. TransactionsSound'
        <2>1. ~(worker'[w] # None /\ worker'[w].pc = "commit")
            BY DEF Quiet
        <2>2. ASSUME NEW x \in Workers, NEW y \in Workers, At(x, "commit")', At(y, "commit")',
                     worker'[x].u.key = worker'[y].u.key
              PROVE  x = y
            <3>1. worker'[x] = worker[x] /\ worker'[y] = worker[y]
                BY Zenon, <2>1, <2>2 DEF At
            <3> QED  BY Zenon, <1>1, <2>2, <3>1 DEF TransactionsSound, At
        <2>3. ASSUME NEW x \in Workers, Writes(worker'[x]), worker'[x].u.by.type = "address"
              PROVE  worker'[x].auth = worker'[x].u.by.at
            <3>1. CASE x = w
                <4>1. worker'[w].auth = Resolve(worker'[w].u.by)
                    BY <2>3, <3>1 DEF Quiet, Writes
                <4> QED  BY Zenon, <2>3, <3>1, <4>1 DEF Resolve
            <3>2. CASE x # w
                BY Zenon, <1>1, <2>3, <3>2 DEF TransactionsSound
            <3> QED  BY Zenon, <3>1, <3>2
        <2> QED  BY Zenon, <2>2, <2>3 DEF TransactionsSound, Writes
    <1>7. PlainSound'
        BY Zenon, <1>1, <1>2, SameStories DEF PlainSound, PlainRow
    <1>8. PairsSound'
        <2> SUFFICES ASSUME NEW i \in Ids, NEW j \in Ids, Stays(i, j)
                     PROVE  Pair(i, j)'
            BY Zenon, SameStories DEF PairsSound
        <2>1. Pair(i, j)
            BY Zenon, <1>1 DEF PairsSound
        <2>2. worker' \in [Workers -> Opt(Handler)]
            BY Zenon, SameHistory DEF IInv, TypeOK
        <2>3. \A x \in Workers : worker'[x] = worker[x] \/ Quiet(worker'[x])
            BY Zenon
        <2> QED  BY Zenon, <1>2, <2>1, <2>2, <2>3, PairKept
    <1> QED  BY Zenon, <1>4, <1>5, <1>6, <1>7, <1>8

\* The actions that are quiet.
LEMMA QuietSteps ==
    ASSUME ChainAssumption, IInv, AInv, IInv', NEW w \in Workers,
           \/ \E u \in Updates : Begin(w, u)
           \/ Fail(w) \/ ReadAuthority(w) \/ burn_v1_asset(w) \/ FindAsset(w) \/ SetAgentToken(w)
    PROVE  AInv'
    <1>1. \A h : worker' = [worker EXCEPT ![w] = h] =>
             worker'[w] = h /\ \A x \in Workers : x # w => worker'[x] = worker[x]
        BY Zenon DEF IInv, TypeOK
    <1>2. ASSUME NEW u \in Updates, Begin(w, u)
          PROVE  AInv'
        <2> DEFINE pc == CASE u.kind = "empty" -> "burn" [] u.kind = "registry" -> "find"
                           [] OTHER -> "read"
                   h == [u |-> u, auth |-> None, pc |-> pc]
        <2>1. worker' = [worker EXCEPT ![w] = h] /\ UNCHANGED <<history, rows>> /\ handled' = handled
            BY Zenon, <1>2 DEF Begin
        <2>2. h.pc \in {"read", "burn", "find", "agent"} /\ h.u = u
            OBVIOUS
        <2>3. Order = "handled" => InOrder(u)
            BY Zenon, <1>2 DEF Begin, InOrder
        <2> HIDE DEF h
        <2>4. UNCHANGED <<authority, collection>> /\ worker'[w] = h /\ Quiet(h)
              /\ \A x \in Workers : x # w => worker'[x] = worker[x]
            BY Zenon, <1>1, <2>1, <2>2 DEF rows, Quiet
        <2>5. Quiet(worker'[w]) /\ (Order = "handled" => InOrder(worker'[w].u))
            BY Zenon, <2>2, <2>3, <2>4
        <2> QED  BY Zenon, <2>1, <2>4, <2>5, QuietKeeps
    <1>3. ASSUME Fail(w)
          PROVE  AInv'
        <2>1. worker' = [worker EXCEPT ![w] = None] /\ UNCHANGED <<history, rows>> /\ handled' = handled
            BY Zenon, <1>3 DEF Fail
        <2>2. UNCHANGED <<authority, collection>> /\ worker'[w] = None
              /\ \A x \in Workers : x # w => worker'[x] = worker[x]
            BY Zenon, <1>1, <2>1 DEF rows
        <2>3. Quiet(worker'[w])
            BY Zenon, <2>2 DEF Quiet
        <2> QED  BY Zenon, <2>1, <2>2, <2>3, QuietKeeps
    <1>4. ASSUME ReadAuthority(w)
          PROVE  AInv'
        <2> DEFINE h == [worker[w] EXCEPT !.auth = Resolve(worker[w].u.by), !.pc = "txn"]
        <2>1. worker[w] # None /\ worker[w].pc = "read"
            BY Zenon, <1>4 DEF ReadAuthority, At
        <2>2. worker[w] \in Handler /\ worker[w].u.kind \in Saved
            BY Zenon, <2>1, Busy DEF Ready
        <2>3. /\ worker' = [worker EXCEPT ![w] = h]
              /\ UNCHANGED <<history, rows>> /\ handled' = handled
            BY Zenon, <1>4 DEF ReadAuthority
        <2>4. h.pc = "txn" /\ h.auth = Resolve(worker[w].u.by) /\ h.u = worker[w].u
            BY Zenon, <2>2 DEF Handler
        <2> HIDE DEF h
        <2>5. UNCHANGED <<authority, collection>> /\ worker'[w] = h /\ Quiet(h)
              /\ \A x \in Workers : x # w => worker'[x] = worker[x]
            BY Zenon, <1>1, <2>2, <2>3, <2>4 DEF rows, Quiet
        <2>6. Quiet(worker'[w]) /\ worker'[w].u = worker[w].u
            BY Zenon, <2>4, <2>5
        <2> QED  BY Zenon, <2>1, <2>3, <2>5, <2>6, QuietKeeps
    <1>5. ASSUME burn_v1_asset(w) \/ SetAgentToken(w)
          PROVE  AInv'
        <2>1. /\ worker' = [worker EXCEPT ![w] = None] /\ UNCHANGED <<history, authority, collection>>
              /\ handled' = handled \cup {worker[w].u}
              /\ worker[w] # None /\ worker[w].pc \in {"burn", "agent"}
            BY Zenon, <1>5 DEF burn_v1_asset, SetAgentToken, At, Return
        <2>2. worker[w].u.kind \notin Saved
            BY <2>1, Busy DEF Ready, Saved
        <2>3. worker'[w] = None /\ \A x \in Workers : x # w => worker'[x] = worker[x]
            BY Zenon, <1>1, <2>1
        <2>4. Quiet(worker'[w])
            BY Zenon, <2>3 DEF Quiet
        <2> QED  BY Zenon, <2>1, <2>2, <2>3, <2>4, QuietKeeps
    <1>6. ASSUME FindAsset(w)
          PROVE  AInv'
        <2> DEFINE h == [worker[w] EXCEPT !.pc = "agent"]
        <2>1. /\ worker[w] # None /\ worker[w].pc = "find" /\ UNCHANGED <<history, authority, collection>>
              /\ \/ worker' = [worker EXCEPT ![w] = None] /\ handled' = handled \cup {worker[w].u}
                 \/ worker' = [worker EXCEPT ![w] = h] /\ handled' = handled
            BY Zenon, <1>6 DEF FindAsset, At, Return, rows
        <2>2. worker[w] \in Handler /\ worker[w].u.kind \notin Saved
            BY <2>1, Busy DEF Ready, Saved
        <2>3. h.pc = "agent" /\ h.u = worker[w].u
            BY Zenon, <2>2 DEF Handler
        <2> HIDE DEF h
        <2>4. CASE worker' = [worker EXCEPT ![w] = None]
            <3>1. worker'[w] = None /\ \A x \in Workers : x # w => worker'[x] = worker[x]
                BY Zenon, <1>1, <2>4
            <3>2. Quiet(worker'[w])
                BY Zenon, <3>1 DEF Quiet
            <3> QED  BY Zenon, <2>1, <2>2, <3>1, <3>2, QuietKeeps
        <2>5. CASE worker' = [worker EXCEPT ![w] = h] /\ handled' = handled
            <3>1. worker'[w] = h /\ \A x \in Workers : x # w => worker'[x] = worker[x]
                BY Zenon, <1>1, <2>5
            <3>2. Quiet(worker'[w]) /\ worker'[w].u = worker[w].u
                BY Zenon, <2>3, <3>1 DEF Quiet
            <3> QED  BY Zenon, <2>1, <2>5, <3>1, <3>2, QuietKeeps
        <2> QED  BY Zenon, <2>1, <2>4, <2>5
    <1> QED  BY Zenon, <1>2, <1>3, <1>4, <1>5, <1>6

-----------------------------------------------------------------------------
(* Steps that write authorities *)

\* A version that is handled for the first time is newer than what was handled before.
LEMMA FirstTime ==
    ASSUME ChainAssumption, IInv, Received, NEW u \in Updates, u \notin handled
    PROVE  /\ \A x \in handled : x.slot <= u.slot
           /\ \A w \in Workers : worker[w] # None => worker[w].u.slot <= u.slot
           /\ u.kind \in Saved => \A x \in Of(Saved, u.key) : x.slot < u.slot
    <1>1. \A x \in Updates : x.slot \in Nat
        BY Zenon, UpdateFacts DEF IInv
    <1>2. \A x \in Updates : InOrder(x) => ~(u.slot < x.slot)
        BY Zenon DEF InOrder
    <1>3. \A x \in Updates : InOrder(x) => x.slot <= u.slot
        BY <1>1, <1>2
    <1>4. \A x \in handled : x \in Updates /\ x.slot <= u.slot
        BY Zenon, <1>3 DEF Received, IInv, TypeOK
    <1>5. \A w \in Workers : worker[w] # None => worker[w].u.slot <= u.slot
        BY Zenon, <1>3, Busy DEF Received
    <1>6. ASSUME u.kind \in Saved, NEW x \in Of(Saved, u.key)
          PROVE  x.slot < u.slot
        <2>1. x \in handled /\ x.kind \in Saved /\ x.key = u.key /\ x.slot <= u.slot /\ x \in Updates
            BY Zenon, <1>4, <1>6 DEF Of
        <2>2. x.slot # u.slot
            BY Zenon, <1>6, <2>1, UpdateFacts DEF IInv
        <2> QED  BY <1>1, <2>1, <2>2
    <1> QED  BY Zenon, <1>4, <1>5, <1>6

\* Only a version that is handled for the first time changes the row of an account whose
\* versions all name an address, and then the row is older.
LEMMA PlainFacts ==
    ASSUME ChainAssumption, IInv, Received, NEW i \in Ids, Plain(i), PlainRow(i),
           NEW u \in Updates, u.kind \in Saved, u.key = i
    PROVE  /\ u.by.type = "address"
           /\ u \in handled => ~AuthorityChanges(authority[i], u.by.at, u.slot) \/ authority[i] = None
           /\ u \notin handled /\ authority[i] # None => u.slot > authority[i].slot
    <1>1. u.by.type = "address" /\ u.slot \in Nat
        BY Zenon, UpdateFacts DEF Plain, IInv
    <1>2. ASSUME u \in handled, AuthorityChanges(authority[i], u.by.at, u.slot), authority[i] # None
          PROVE  FALSE
        <2>1. u \in Of(Saved, i) /\ authority[i].slot \in Nat
            BY Zenon, <1>2 DEF Of, IInv, TypeOK, Opt, AuthorityRow
        <2>2. u.slot > authority[i].slot /\ u.by.at # authority[i].who
            BY Zenon, <1>2 DEF AuthorityChanges
        <2>3. u.slot >= authority[i].slot
            BY <1>1, <2>1, <2>2
        <2> QED  BY Zenon, <2>1, <2>2, <2>3 DEF PlainRow
    <1>3. ASSUME u \notin handled, authority[i] # None
          PROVE  u.slot > authority[i].slot
        <2>1. PICK x \in Of(Saved, i) : x.slot = authority[i].slot
            BY Zenon, <1>3 DEF PlainRow
        <2>2. x.slot < u.slot
            BY Zenon, <1>3, <2>1, FirstTime
        <2>3. authority[i].slot \in Nat
            BY Zenon, <1>3 DEF IInv, TypeOK, Opt, AuthorityRow
        <2> QED  BY <1>1, <2>1, <2>2, <2>3
    <1> QED  BY Zenon, <1>1, <1>2, <1>3

\* The collection that the row of an account names is that of its newest version.
LEMMA ParentFacts ==
    ASSUME ChainAssumption, IInv, NEW i \in Ids, collection[i] # None
    PROVE  \E v \in Of(Saved, i) : /\ collection[i].value = Parent(v) /\ v \in Updates
                                   /\ \A x \in Of(Saved, i) : x.slot <= v.slot
    <1>1. PICK v \in Updates : SavedAs(i, v)
        BY Zenon DEF IInv, RowsSound, Unsaved
    <1>2. v \in Of(Saved, i)
        BY Zenon, <1>1 DEF SavedAs, Of
    <1> QED  BY Zenon, <1>1, <1>2 DEF SavedAs

\* An account whose versions all name an address is in no collection.
LEMMA PlainIsNoMember ==
    ASSUME ChainAssumption, IInv, NEW i \in Ids, Plain(i), collection[i] # None
    PROVE  collection[i].value = None
    <1>1. PICK v \in Of(Saved, i) : collection[i].value = Parent(v) /\ v \in Updates
        BY Zenon, ParentFacts
    <1>2. v.by.type = "address"
        BY Zenon, <1>1 DEF Of, Plain
    <1> QED  BY <1>1, <1>2 DEF Parent

\* When a version of the collection is about to change its authority, a member either has
\* the authority before the change, or that of this version already.
LEMMA MemberRow ==
    ASSUME ChainAssumption, IInv, Received, Authorized, NEW i \in Ids, NEW j \in Ids, Stays(i, j),
           Pair(i, j), collection[i] # None, collection[i].value = j,
           NEW u \in Updates, u.kind \in Saved, u.key = j, u \notin handled, InOrder(u),
           AuthorityChanges(authority[j], u.by.at, u.slot)
    PROVE  /\ authority[i] # None /\ authority[i].slot \in Nat /\ authority[i].slot <= u.slot
           /\ authority[i].slot = u.slot <=> authority[i].who = u.by.at
    <1>0. \A x \in Updates : x.kind \in Saved /\ x.key = i =>
             (x.by.type = "collection" => x.by.at = j) /\ x.slot # u.slot
        BY Zenon DEF Stays
    <1>1. PICK v \in Of(Saved, i) : /\ collection[i].value = Parent(v) /\ v \in Updates
                                    /\ \A x \in Of(Saved, i) : x.slot <= v.slot
        BY Zenon, ParentFacts
    <1>2. /\ v.kind \in Saved /\ v.key = i /\ v.by.type = "collection"
          /\ v.by.type = "collection" => v.by.at = j
        <2>1. v.kind \in Saved /\ v.key = i /\ v.by.type = "collection"
            BY Zenon, <1>1 DEF Of, Parent, ChainAssumption
        <2> QED  BY Zenon, <1>0, <1>1, <2>1
    <1>3. authority[i] # None /\ authority[i].slot \in Nat
        BY Zenon, <1>1 DEF Authorized, IInv, TypeOK, Opt, AuthorityRow
    <1>4. u.slot \in Nat /\ \A x \in Updates : x.slot \in Nat
        BY Zenon, UpdateFacts DEF IInv
    <1>5. /\ authority[j] # None => authority[j].who # u.by.at
          /\ u.by.at # Blank
        <2>1. u.by.type = "address" /\ u \in SavedVersions
            BY Zenon, StaysFacts, UpdateFacts DEF IInv, Plain
        <2> QED  BY Zenon, <2>1 DEF AuthorityChanges, ChainAssumption
    <1>6. ASSUME NEW x \in Of(Saved, i), x.slot = authority[i].slot
          PROVE  authority[i].slot < u.slot /\ authority[i].who # u.by.at
        <2>1. x \in handled /\ x \in Updates /\ x.kind \in Saved /\ x.key = i
            BY Zenon DEF Of, IInv, TypeOK
        <2>2. x.slot <= u.slot /\ x.slot # u.slot
            BY Zenon, <1>0, <2>1, FirstTime
        <2>3. v.slot >= authority[i].slot
            BY <1>1, <1>3, <1>4, <1>6
        <2>4. Resolve(v.by) = authority[i].who
            BY Zenon, <1>1, <2>3 DEF Pair, Current
        <2>5. Resolve(v.by) = IF authority[j] = None THEN Blank ELSE authority[j].who
            BY <1>2 DEF Resolve
        <2>6. authority[i].who # u.by.at
            BY Zenon, <1>5, <2>4, <2>5
        <2> QED  BY <1>3, <1>4, <1>6, <2>1, <2>2, <2>6
    <1>7. ASSUME NEW y \in Updates, Led(i, j, y)
          PROVE  /\ authority[i].slot <= u.slot
                 /\ authority[i].slot = u.slot <=> authority[i].who = u.by.at
        <2>1. /\ y.kind \in Saved /\ y.key = j /\ y.slot = authority[i].slot /\ InOrder(y)
              /\ y.by.at = authority[i].who
              /\ y \in handled => authority[j] # None /\ authority[i].who = authority[j].who
            BY Zenon, <1>7 DEF Led
        <2>2. ~(u.slot < y.slot)
            BY Zenon, <2>1 DEF InOrder
        <2>3. CASE y.slot = u.slot
            <3>1. y = u
                BY Zenon, <2>1, <2>3, UpdateFacts DEF IInv
            <3> QED  BY <1>4, <2>1, <3>1
        <2>4. CASE y.slot < u.slot
            <3>1. y \in handled
                BY Zenon, <2>4 DEF InOrder
            <3>2. authority[i].who # u.by.at
                BY Zenon, <1>5, <2>1, <3>1
            <3> QED  BY <1>3, <1>4, <2>1, <2>4, <3>2
        <2> QED  BY <1>4, <2>2, <2>3, <2>4
    <1>8. authority[i].slot < u.slot => authority[i].slot <= u.slot /\ authority[i].slot # u.slot
        BY <1>3, <1>4
    <1> QED  BY Zenon, <1>3, <1>6, <1>7, <1>8 DEF Pair, Origin

\* What Propagate does, statement by statement.
LEMMA PropagateStatements ==
    ASSUME ChainAssumption, IInv, NEW w \in Workers, Propagate(w),
           NEW u, u = worker[w].u, NEW who, who = worker[w].auth
    PROVE  /\ u \in Updates /\ u.kind \in Saved /\ u.key \in Ids /\ worker[w] # None
           /\ worker[w].pc = "txn" /\ ~Locked(w, u.key)
           /\ AuthorityChanges(authority[u.key], who, u.slot)
           /\ \A m \in Ids : authority'[m] =
                IF /\ authority[m] # None /\ authority[m].who # who /\ authority[m].slot < u.slot
                   /\ collection[m] # None /\ collection[m].value = u.key
                THEN [who |-> who, slot |-> u.slot] ELSE authority[m]
           /\ worker' = [worker EXCEPT ![w].pc = "commit"]
           /\ UNCHANGED <<history, collection, handled>>
    <1>1. worker[w] # None /\ worker[w].pc = "txn" /\ worker[w].u.kind = "collection"
        BY Zenon DEF Propagate, At
    <1>2. u \in Updates /\ u.kind \in Saved /\ u.key \in Ids
        BY <1>1, Busy DEF Saved
    <1>3. ~Locked(w, u.key) /\ AuthorityChanges(authority[u.key], who, u.slot)
        BY Zenon DEF Propagate
    <1>4. \A m \in Ids : authority'[m] =
              IF /\ authority[m] # None /\ authority[m].who # who /\ authority[m].slot < u.slot
                 /\ collection[m] # None /\ collection[m].value = u.key
              THEN [who |-> who, slot |-> u.slot] ELSE authority[m]
        BY Zenon DEF Propagate, update_group_asset_authorities
    <1>5. worker' = [worker EXCEPT ![w].pc = "commit"] /\ UNCHANGED <<history, collection, handled>>
        BY Zenon DEF Propagate
    <1> QED  BY Zenon, <1>1, <1>2, <1>3, <1>4, <1>5

\* The members of a collection get the authority that its transaction is about to commit.
LEMMA PropagateLeads ==
    ASSUME ChainAssumption, IInv, AInv, IInv', NEW w \in Workers, Propagate(w)
    PROVE  AInv'
    <1>0. UNCHANGED history /\ Order' = Order
        BY Zenon DEF Propagate, Order
    <1> SUFFICES ASSUME Order = "handled"
                 PROVE  (Received /\ Authorized /\ TransactionsSound /\ PlainSound /\ PairsSound)'
        BY Zenon, <1>0 DEF AInv
    <1>1. Received /\ Authorized /\ TransactionsSound /\ PlainSound /\ PairsSound
        BY Zenon DEF AInv
    <1>2. PICK u, who : u = worker[w].u /\ who = worker[w].auth
        BY Zenon
    <1>3. /\ u \in Updates /\ u.kind \in Saved /\ u.key \in Ids /\ worker[w] # None
          /\ worker[w].pc = "txn" /\ ~Locked(w, u.key)
          /\ AuthorityChanges(authority[u.key], who, u.slot)
          /\ \A m \in Ids : authority'[m] =
                IF /\ authority[m] # None /\ authority[m].who # who /\ authority[m].slot < u.slot
                   /\ collection[m] # None /\ collection[m].value = u.key
                THEN [who |-> who, slot |-> u.slot] ELSE authority[m]
          /\ worker' = [worker EXCEPT ![w].pc = "commit"]
          /\ UNCHANGED <<history, collection, handled>>
        BY <1>2, PropagateStatements
    <1> DEFINE k == u.key
               row == [who |-> who, slot |-> u.slot]
               Touched(m) == /\ authority[m] # None /\ authority[m].who # who
                             /\ authority[m].slot < u.slot
                             /\ collection[m] # None /\ collection[m].value = k
    <1>4. \A m \in Ids : authority'[m] = IF Touched(m) THEN row ELSE authority[m]
        BY Zenon, <1>3
    <1>5. row # None /\ row.who = who /\ row.slot = u.slot /\ u.slot \in Nat
        <2>1. who \in Authorities /\ u.slot \in Nat
            BY Zenon, <1>2, <1>3, Busy, UpdateFacts DEF IInv, Ready
        <2>2. row \in AuthorityRow
            BY Zenon, <2>1 DEF AuthorityRow
        <2> QED  BY Zenon, <2>1, <2>2 DEF ChainAssumption
    <1> HIDE DEF row
    <1>6. \A m \in Ids : Plain(m) => authority'[m] = authority[m]
        BY Zenon, <1>3, <1>4, PlainIsNoMember DEF ChainAssumption
    <1>7. PICK h : h = worker'[w]
        BY Zenon
    <1>8. /\ h \in Handler /\ h.pc = "commit" /\ h.u = u /\ h.auth = who
          /\ \A x \in Workers : x # w => worker'[x] = worker[x]
        <2>1. worker[w] \in Handler /\ worker \in [Workers -> Opt(Handler)]
            BY Zenon, <1>3, Busy DEF IInv, TypeOK
        <2>2. h = [worker[w] EXCEPT !.pc = "commit"] /\ \A x \in Workers : x # w => worker'[x] = worker[x]
            BY Zenon, <1>3, <1>7, <2>1
        <2>3. h.pc = "commit" /\ h.u = u /\ h.auth = who
            BY Zenon, <1>2, <2>1, <2>2 DEF Handler
        <2>4. h \in Handler
            BY Zenon, <2>1, <2>2 DEF Handler, Pcs
        <2> QED  BY Zenon, <2>2, <2>3, <2>4
    <1>9. \A x : InOrder(x)' = InOrder(x)
        BY Zenon, <1>3, SameHistory DEF InOrder
    <1>10. InOrder(u) /\ Received'
        <2>1. InOrder(u)
            BY Zenon, <1>1, <1>2, <1>3 DEF Received
        <2>2. ASSUME NEW x \in Workers, worker'[x] # None
              PROVE  InOrder(worker[x].u)'
            <3>1. PICK v : v = worker'[x].u
                OBVIOUS
            <3>2. InOrder(v)
                BY Zenon, <1>1, <1>7, <1>8, <2>1, <2>2, <3>1 DEF Received
            <3> QED  BY Zenon, <1>9, <3>1, <3>2 DEF InOrder
        <2> QED  BY Zenon, <1>1, <1>3, <1>9, <2>1, <2>2 DEF Received
    <1>11. Authorized'
        <2>1. \A i : Of(Saved, i)' = Of(Saved, i)
            BY Zenon, <1>3 DEF Of
        <2> QED  BY Zenon, <1>1, <1>4, <1>5, <2>1 DEF Authorized
    <1>12. TransactionsSound'
        <2>1. \A x \in Workers : x # w /\ At(x, "commit")' => worker'[x].u.key # k
            BY Zenon, <1>3, <1>8 DEF Locked, At
        <2>2. ASSUME NEW x \in Workers, NEW y \in Workers, At(x, "commit")', At(y, "commit")',
                     worker'[x].u.key = worker'[y].u.key
              PROVE  x = y
            BY ZenonT(40), <1>1, <1>7, <1>8, <2>1, <2>2 DEF TransactionsSound, At
        <2>3. ASSUME NEW x \in Workers, Writes(worker'[x]), worker'[x].u.by.type = "address"
              PROVE  worker'[x].auth = worker'[x].u.by.at
            <3>1. CASE x = w
                <4>1. Writes(worker[w])
                    BY Zenon, <1>3 DEF Writes
                <4> QED  BY Zenon, <1>1, <1>2, <1>7, <1>8, <2>3, <3>1, <4>1 DEF TransactionsSound
            <3>2. CASE x # w
                BY Zenon, <1>1, <1>8, <2>3, <3>2 DEF TransactionsSound
            <3> QED  BY Zenon, <3>1, <3>2
        <2> QED  BY Zenon, <2>2, <2>3 DEF TransactionsSound, Writes
    <1>13. PlainSound'
        <2>1. \A i : Of(Saved, i)' = Of(Saved, i)
            BY Zenon, <1>3 DEF Of
        <2>2. ASSUME NEW i \in Ids, Plain(i)
              PROVE  PlainRow(i)'
            <3>1. PlainRow(i) /\ authority'[i] = authority[i]
                BY Zenon, <1>1, <1>6, <2>2 DEF PlainSound
            <3> QED  BY Zenon, <2>1, <3>1 DEF PlainRow
        <2> QED  BY Zenon, <1>0, <2>2, SameStories DEF PlainSound
    <1>14. PairsSound'
        <2> SUFFICES ASSUME NEW i \in Ids, NEW j \in Ids, Stays(i, j)
                     PROVE  Pair(i, j)'
            BY Zenon, <1>3, SameStories DEF PairsSound
        <2>1. Pair(i, j) /\ Plain(j) /\ PlainRow(j) /\ authority'[j] = authority[j]
            <3>1. Plain(j)
                BY Zenon, StaysFacts DEF IInv
            <3> QED  BY Zenon, <1>1, <1>6, <3>1 DEF PairsSound, PlainSound
        <2>2. worker' \in [Workers -> Opt(Handler)]
            BY Zenon, <1>3, SameHistory DEF IInv, TypeOK
        <2>3. MemberHandler(i, h)
            <3>1. MemberHandler(i, worker[w]) /\ Writes(worker[w])
                BY Zenon, <1>3, <2>1 DEF Pair, Writes
            <3> QED  BY Zenon, <1>2, <1>8, <3>1 DEF MemberHandler
        <2>4. \A x \in handled' : x \in Updates
            BY Zenon, <1>3 DEF IInv, TypeOK
        <2>5. CASE k # j
            <3>1. authority'[i] = authority[i]
                <4>1. ASSUME collection[i] # None
                      PROVE  collection[i].value \in {None, j}
                    <5>1. PICK v \in Of(Saved, i) : collection[i].value = Parent(v) /\ v \in Updates
                        BY Zenon, <4>1, ParentFacts
                    <5>2. v.by.type = "collection" => v.by.at = j
                        BY Zenon, <5>1 DEF Of, Stays
                    <5> QED  BY Zenon, <5>1, <5>2 DEF Parent
                <4> QED  BY Zenon, <1>3, <1>4, <2>5, <4>1 DEF ChainAssumption
            <3>2. LeadHandler(i, j, h)
                BY Zenon, <1>8, <2>5 DEF LeadHandler
            <3> QED  BY Zenon, <1>3, <1>7, <1>8, <2>1, <2>2, <2>3, <2>4, <3>1, <3>2, PairKept
        <2>6. CASE k = j
            <3>1. u.by.type = "address" /\ who = u.by.at
                <4>1. u.by.type = "address" /\ Writes(worker[w])
                    BY Zenon, <1>3, <2>1, <2>6 DEF Plain, Writes
                <4> QED  BY Zenon, <1>1, <1>2, <4>1 DEF TransactionsSound
            <3>2. u \notin handled
                <4>1. authority[j] = None => u \notin handled
                    BY Zenon, <1>1, <1>3, <2>6 DEF Authorized, Of
                <4> QED  BY Zenon, <1>1, <1>3, <2>1, <2>6, <3>1, <4>1, PlainFacts
            <3>3. k # i /\ AuthorityChanges(authority[j], u.by.at, u.slot)
                BY Zenon, <1>3, <2>6, <3>1, StaysFacts DEF IInv
            <3>4. CASE ~(collection[i] # None /\ collection[i].value = j)
                <4>1. authority'[i] = authority[i]
                    BY Zenon, <1>4, <2>6, <3>4
                <4>2. LeadHandler(i, j, h)
                    BY Zenon, <1>3, <1>8, <2>6, <3>2, <3>4 DEF LeadHandler
                <4> QED  BY Zenon, <1>3, <1>7, <1>8, <2>1, <2>2, <2>3, <2>4, <4>1, <4>2, PairKept
            <3>5. CASE collection[i] # None /\ collection[i].value = j
                <4>1. /\ authority[i] # None /\ authority[i].slot \in Nat /\ authority[i].slot <= u.slot
                      /\ authority[i].slot = u.slot <=> authority[i].who = u.by.at
                    BY Zenon, <1>1, <1>3, <1>10, <2>1, <2>6, <3>2, <3>3, <3>5, MemberRow
                <4>2. authority'[i] # None /\ authority'[i].slot = u.slot /\ authority'[i].who = u.by.at
                    <5>1. authority[i].slot < u.slot \/ authority[i].slot = u.slot
                        BY <1>5, <4>1
                    <5> QED  BY Zenon, <1>4, <1>5, <2>6, <3>1, <3>5, <4>1, <5>1
                <4>3. Origin(i, j)'
                    <5>1. Led(i, j, u)'
                        BY Zenon, <1>3, <1>9, <1>10, <2>6, <3>2, <3>5, <4>2 DEF Led
                    <5> QED  BY Zenon, <1>0, <1>3, <5>1, SameHistory DEF Origin
                <4>4. Current(i)'
                    <5>1. ASSUME NEW x \in Of(Saved, i)'
                          PROVE  ~(x.slot >= u.slot)
                        <6>1. x \in handled /\ x \in Updates /\ x.kind \in Saved /\ x.key = i
                            BY Zenon, <1>3 DEF Of, IInv, TypeOK
                        <6>2. x.slot <= u.slot /\ x.slot # u.slot /\ x.slot \in Nat
                            BY Zenon, <1>1, <1>3, <2>6, <3>2, <6>1, FirstTime, UpdateFacts DEF Stays, IInv
                        <6> QED  BY <1>5, <6>2
                    <5> QED  BY Zenon, <4>2, <5>1 DEF Current
                <4>5. ASSUME NEW g \in Handler, MemberHandler(i, g), Writes(g) => g.u.kind \in Saved
                      PROVE  MemberHandler(i, g)'
                    <5>1. g.u \in Updates /\ g.u.slot \in Nat
                        BY Zenon, UpdateFacts DEF Handler, IInv
                    <5>2. Writes(g) /\ g.u.key = i => Resolve(g.u.by)' = Resolve(g.u.by)
                        BY Zenon, <2>1, <4>5, <5>1, ResolveKept DEF IInv
                    <5>3. authority[i].slot > g.u.slot => authority'[i].slot > g.u.slot
                        BY <1>5, <4>1, <4>2, <5>1
                    <5> QED  BY Zenon, <4>2, <4>5, <5>2, <5>3 DEF MemberHandler
                <4>6. ASSUME NEW x \in Workers
                      PROVE  (MemberHandler(i, worker[x]) /\ LeadHandler(i, j, worker[x]))'
                    <5>0. PICK g : g = worker'[x]
                        OBVIOUS
                    <5> SUFFICES MemberHandler(i, g)' /\ LeadHandler(i, j, g)'
                        BY Zenon, <5>0 DEF MemberHandler, LeadHandler, Writes, AuthorityChanges, Resolve
                    <5>1. CASE g = None
                        BY Zenon, <5>1 DEF MemberHandler, LeadHandler, Writes
                    <5>2. CASE g # None /\ x = w
                        <6>1. MemberHandler(i, g)'
                            BY Zenon, <1>7, <1>8, <3>3, <5>0, <5>2 DEF MemberHandler
                        <6>2. g.u = u /\ g.auth = who
                            BY Zenon, <1>7, <1>8, <5>0, <5>2
                        <6>3. AuthorityChanges(authority[j], g.auth, g.u.slot)'
                            BY Zenon, <1>3, <2>1, <2>6, <6>2 DEF AuthorityChanges
                        <6>4. g.u \notin handled'
                            BY Zenon, <1>3, <3>2, <6>2
                        <6>5. authority'[i] # None /\ authority'[i].slot = g.u.slot
                            BY Zenon, <4>2, <6>2
                        <6> QED  BY Zenon, <6>1, <6>3, <6>4, <6>5 DEF LeadHandler
                    <5>3. CASE g # None /\ x # w
                        <6>1. g = worker[x] /\ g \in Handler /\ (Writes(g) => g.u.kind \in Saved)
                            BY Zenon, <1>8, <5>0, <5>3, Busy DEF Ready, Writes
                        <6>2. MemberHandler(i, g)'
                            BY Zenon, <2>1, <4>5, <6>1 DEF Pair
                        <6>3. ~(Writes(g) /\ g.pc = "commit" /\ g.u.key = j)
                            BY Zenon, <1>3, <2>6, <5>3, <6>1 DEF Locked, At
                        <6> QED  BY Zenon, <6>2, <6>3 DEF LeadHandler
                    <5> QED  BY Zenon, <5>1, <5>2, <5>3
                <4> QED  BY Zenon, <4>3, <4>4, <4>6 DEF Pair
            <3> QED  BY Zenon, <3>4, <3>5
        <2> QED  BY Zenon, <2>5, <2>6
    <1> QED  BY Zenon, <1>10, <1>11, <1>12, <1>13, <1>14

\* What the transaction of save_v1_asset does to the authorities.
AuthoritySaved(w, u, who) ==
    LET changes == AuthorityChanges(authority[u.key], who, u.slot) IN
    /\ u = worker[w].u /\ who = worker[w].auth /\ worker[w] # None
    /\ u \in Updates /\ u.kind \in Saved /\ u.key \in Ids /\ Writes(worker[w])
    /\ ~Locked(w, u.key) /\ (worker[w].pc = "txn" => u.kind # "collection" \/ ~changes)
    /\ \A m \in Ids : m # u.key => authority'[m] = authority[m] /\ collection'[m] = collection[m]
    /\ changes => /\ authority'[u.key] # None /\ authority'[u.key].who = who
                  /\ authority'[u.key].slot = u.slot
    /\ ~changes => authority[u.key] # None /\ authority'[u.key] = authority[u.key]
    /\ worker'[w] = None /\ \A x \in Workers : x # w => worker'[x] = worker[x]
    /\ handled' = handled \cup {u} /\ history' = history

LEMMA SaveAuthorityStatements ==
    ASSUME ChainAssumption, IInv, NEW w \in Workers, Save(w), NEW u, u = worker[w].u,
           NEW who, who = worker[w].auth
    PROVE  AuthoritySaved(w, u, who)
    <1> DEFINE changes == AuthorityChanges(authority[u.key], who, u.slot)
               row == [who |-> who, slot |-> u.slot]
    <1>1. worker[w] # None /\ worker[w].pc \in {"txn", "commit"}
        BY Zenon DEF Save, At
    <1>2. u \in Updates /\ u.kind \in Saved /\ u.key \in Ids /\ who \in Authorities /\ Writes(worker[w])
        BY Zenon, <1>1, Busy DEF Ready, Writes
    <1>3. ~Locked(w, u.key) /\ (worker[w].pc = "txn" => u.kind # "collection" \/ ~changes)
        BY Zenon DEF Save
    <1>4. authority' = IF changes THEN [authority EXCEPT ![u.key] = row] ELSE authority
        BY Zenon DEF Save
    <1>5. row # None /\ row.who = who /\ row.slot = u.slot
        <2>1. row \in AuthorityRow
            BY Zenon, <1>2, UpdateFacts DEF AuthorityRow, IInv
        <2> QED  BY Zenon, <2>1 DEF ChainAssumption
    <1>6. /\ \A m \in Ids : m # u.key => authority'[m] = authority[m]
          /\ changes => authority'[u.key] = row
          /\ ~changes => authority'[u.key] = authority[u.key]
        <2> HIDE DEF row, changes
        <2> QED  BY Zenon, <1>2, <1>4 DEF IInv, TypeOK
    <1>7. ~changes => authority[u.key] # None
        BY Zenon DEF AuthorityChanges
    <1>8. \A m \in Ids : m # u.key => collection'[m] = collection[m]
        BY ZenonT(40), SaveStatements, SaveTables
    <1>9. worker' = [worker EXCEPT ![w] = None] /\ handled' = handled \cup {u} /\ history' = history
        BY Zenon DEF Save, Return
    <1>10. worker'[w] = None /\ \A x \in Workers : x # w => worker'[x] = worker[x]
        BY Zenon, <1>9 DEF IInv, TypeOK
    <1> HIDE DEF row
    <1> QED  BY Zenon, <1>1, <1>2, <1>3, <1>5, <1>6, <1>7, <1>8, <1>9, <1>10 DEF AuthoritySaved

\* The row of an account whose versions name an address stays that of the newest.
LEMMA SavePlain ==
    ASSUME ChainAssumption, IInv, Received, Authorized, TransactionsSound, NEW w \in Workers,
           NEW u, NEW who, AuthoritySaved(w, u, who), Plain(u.key), PlainRow(u.key)
    PROVE  PlainRow(u.key)'
    <1> DEFINE i == u.key
    <1>1. /\ u \in Updates /\ u.kind \in Saved /\ i \in Ids /\ Writes(worker[w])
          /\ u = worker[w].u /\ who = worker[w].auth /\ handled' = handled \cup {u}
        BY Zenon DEF AuthoritySaved
    <1>2. /\ u.by.type = "address"
          /\ u \in handled => ~AuthorityChanges(authority[i], u.by.at, u.slot) \/ authority[i] = None
          /\ u \notin handled /\ authority[i] # None => u.slot > authority[i].slot
        BY Zenon, <1>1, PlainFacts
    <1>3. who = u.by.at
        BY Zenon, <1>1, <1>2 DEF TransactionsSound
    <1>4. Of(Saved, i)' = Of(Saved, i) \cup {u}
        BY Zenon, <1>1 DEF Of
    <1>5. CASE AuthorityChanges(authority[i], who, u.slot)
        <2>1. authority'[i] # None /\ authority'[i].who = who /\ authority'[i].slot = u.slot
            BY Zenon, <1>5 DEF AuthoritySaved
        <2>2. authority[i] = None => u \notin handled
            BY Zenon, <1>1 DEF Authorized, Of
        <2>3. u \notin handled
            BY Zenon, <1>2, <1>3, <1>5, <2>2
        <2>4. \A x \in Of(Saved, i) : x.slot < u.slot /\ x.slot \in Nat /\ u.slot \in Nat
            BY Zenon, <1>1, <2>3, FirstTime, UpdateFacts DEF IInv, TypeOK, Of
        <2>5. \A x \in Of(Saved, i) : ~(x.slot >= u.slot)
            BY <2>4
        <2> QED  BY Zenon, <1>3, <1>4, <2>1, <2>5 DEF PlainRow
    <1>6. CASE ~AuthorityChanges(authority[i], who, u.slot)
        <2>1. authority[i] # None /\ authority'[i] = authority[i]
            BY Zenon, <1>6 DEF AuthoritySaved
        <2>2. u \notin handled => u.by.at = authority[i].who
            BY Zenon, <1>2, <1>3, <1>6, <2>1 DEF AuthorityChanges
        <2>3. u \in handled => u \in Of(Saved, i)
            BY Zenon, <1>1 DEF Of
        <2> QED  BY Zenon, <1>4, <2>1, <2>2, <2>3 DEF PlainRow
    <1> QED  BY Zenon, <1>5, <1>6

\* An account that joined the collection and stays is a member of it.
LEMMA Joined ==
    ASSUME ChainAssumption, IInv, NEW i \in Ids, NEW j \in Ids, Stays(i, j),
           NEW x \in Of(Saved, i), x.by.type = "collection"
    PROVE  collection[i] # None /\ collection[i].value = j
    <1>1. PICK v \in Updates : SavedAs(i, v)
        BY Zenon DEF IInv, RowsSound, Unsaved
    <1>2. /\ v.kind \in Saved /\ v.key = i /\ collection[i] # None
          /\ collection[i].value = Parent(v) /\ x.slot <= v.slot
        BY Zenon, <1>1 DEF SavedAs
    <1>3. x \in Updates /\ x.kind \in Saved /\ x.key = i
        BY Zenon DEF Of, IInv, TypeOK
    <1>4. v.by.type = "collection"
        <2>1. CASE x.slot = v.slot
            BY Zenon, <1>2, <1>3, <2>1, UpdateFacts DEF IInv
        <2>2. CASE x.slot < v.slot
            BY Zenon, <1>2, <1>3, <2>2 DEF Stays
        <2>3. x.slot \in Nat /\ v.slot \in Nat
            BY Zenon, <1>3, UpdateFacts DEF IInv
        <2> QED  BY <1>2, <2>1, <2>2, <2>3
    <1>5. v.by.at = j
        BY Zenon, <1>2, <1>4 DEF Stays
    <1> QED  BY Zenon, <1>2, <1>4, <1>5 DEF Parent

\* Saving a version of such an account takes it out of the collection never, and puts it in
\* only if the version was not handled before.
LEMMA SaveCollection ==
    ASSUME ChainAssumption, IInv, NEW w \in Workers, Save(w), NEW u, u = worker[w].u,
           NEW j \in Ids, Stays(u.key, j)
    PROVE  LET i == u.key IN
           /\ collection[i] # None /\ collection[i].value = j =>
                 collection'[i] # None /\ collection'[i].value = j
           /\ u \in handled /\ collection'[i].value = j =>
                 collection[i] # None /\ collection[i].value = j
    <1> DEFINE i == u.key
    <1>1. u \in Updates /\ u.kind \in Saved /\ i \in Ids
        BY Zenon, SaveStatements
    <1>2. /\ collection'[i] # None
          /\ IF collection[i] = None \/ u.slot >= collection[i].slot
             THEN collection'[i].slot = u.slot /\ collection'[i].value = Parent(u)
             ELSE collection'[i] = collection[i]
        BY Zenon, SaveStatements, SaveTables
    <1>3. CASE collection[i] = None
        BY Zenon, <1>1, <1>3 DEF IInv, RowsSound, SavedAs, Unsaved, Of
    <1>4. CASE collection[i] # None
        <2>1. PICK v \in Updates : SavedAs(i, v)
            BY Zenon, <1>1, <1>4 DEF IInv, RowsSound, Unsaved
        <2>2. /\ v.kind \in Saved /\ v.key = i /\ collection[i].value = Parent(v)
              /\ collection[i].slot = v.slot /\ \A x \in Of(Saved, i) : x.slot <= v.slot
            BY Zenon, <2>1 DEF SavedAs
        <2>3. u.slot \in Nat /\ v.slot \in Nat
            BY Zenon, <1>1, UpdateFacts DEF IInv
        <2>4. CASE u.slot < v.slot
            <3>1. ~(u.slot >= collection[i].slot)
                BY <2>2, <2>3, <2>4
            <3> QED  BY Zenon, <1>2, <1>4, <3>1
        <2>5. CASE u.slot = v.slot
            <3>1. u = v
                BY Zenon, <1>1, <2>2, <2>5, UpdateFacts DEF IInv
            <3> QED  BY Zenon, <1>2, <1>4, <2>2, <3>1
        <2>6. CASE v.slot < u.slot
            <3>1. u.slot >= collection[i].slot /\ ~(u.slot <= v.slot)
                BY <2>2, <2>3, <2>6
            <3>2. u \notin handled
                BY Zenon, <1>1, <2>2, <3>1 DEF Of
            <3>3. ASSUME collection[i].value = j
                  PROVE  Parent(u) = j
                <4>1. v.by.type = "collection"
                    BY Zenon, <2>2, <3>3 DEF Parent, ChainAssumption
                <4>2. u.by.type = "collection"
                    BY Zenon, <1>1, <2>2, <2>6, <4>1 DEF Stays
                <4>3. u.by.at = j
                    BY Zenon, <1>1, <4>2 DEF Stays
                <4> QED  BY Zenon, <4>2, <4>3 DEF Parent
            <3> QED  BY Zenon, <1>2, <3>1, <3>2, <3>3
        <2> QED  BY <2>3, <2>4, <2>5, <2>6
    <1> QED  BY Zenon, <1>3, <1>4

\* A version of the member is saved.
LEMMA SaveMember ==
    ASSUME ChainAssumption, IInv, Received, Authorized, NEW w \in Workers, Save(w),
           NEW u, NEW who, AuthoritySaved(w, u, who), NEW i, i = u.key,
           NEW j \in Ids, Stays(i, j), Pair(i, j)
    PROVE  Pair(i, j)'
    <1>1. /\ u \in Updates /\ u.kind \in Saved /\ i \in Ids /\ Writes(worker[w]) /\ worker[w] # None
          /\ u = worker[w].u /\ who = worker[w].auth /\ handled' = handled \cup {u}
          /\ worker'[w] = None /\ \A x \in Workers : x # w => worker'[x] = worker[x]
          /\ UNCHANGED history
        BY Zenon DEF AuthoritySaved
    <1>2. i # j
        BY Zenon, <1>1 DEF Stays
    <1>3. authority'[j] = authority[j]
        BY Zenon, <1>2 DEF AuthoritySaved
    <1>4. Of(Saved, i)' = Of(Saved, i) \cup {u}
        BY Zenon, <1>1 DEF Of
    <1>5. \A x \in Updates : x.slot \in Nat
        BY Zenon, UpdateFacts DEF IInv
    <1>6. \A x \in Of(Saved, i) : x \in Updates /\ x.kind \in Saved /\ x.key = i
        BY Zenon DEF IInv, TypeOK, Of
    <1>7. \A x \in Updates : x.kind \in Saved /\ x.key = i => Resolve(x.by)' = Resolve(x.by)
        BY Zenon, <1>1, <1>3, ResolveKept DEF IInv
    <1>8. authority[i] # None => authority[i].slot \in Nat
        BY Zenon, <1>1 DEF IInv, TypeOK, Opt, AuthorityRow
    <1>9. who = Resolve(u.by) \/ (authority[i] # None /\ authority[i].slot > u.slot)
        BY Zenon, <1>1 DEF Pair, MemberHandler
    <1>10. u \in handled => u \in Of(Saved, i) /\ authority[i] # None
        BY Zenon, <1>1 DEF Of, Authorized
    <1>11. /\ collection[i] # None /\ collection[i].value = j =>
                 collection'[i] # None /\ collection'[i].value = j
           /\ u \in handled /\ collection'[i].value = j =>
                 collection[i] # None /\ collection[i].value = j
        BY <1>1, SaveCollection
    \* The handler of the collection's version, if there is one, comes after u.
    <1>12. ASSUME NEW x \in Workers, x # w, NEW g, g = worker[x],
                  Writes(g) /\ g.pc = "commit" /\ g.u.key = j
           PROVE  u \in handled
        <2>1. g.u \in Updates /\ g.u.kind \in Saved /\ g # None
            BY Zenon, <1>12, Busy DEF Ready, Writes
        <2>2. g.u \notin handled
            BY Zenon, <1>12 DEF Pair, LeadHandler
        <2>3. u.slot <= g.u.slot /\ u.slot # g.u.slot
            BY Zenon, <1>1, <1>12, <2>1, <2>2, FirstTime DEF Stays
        <2>4. u.slot < g.u.slot
            BY <1>1, <1>5, <2>1, <2>3
        <2> QED  BY Zenon, <1>1, <1>12, <2>1, <2>4 DEF Received, InOrder
    <1>13. CASE AuthorityChanges(authority[i], who, u.slot)
        <2>1. authority'[i] # None /\ authority'[i].who = who /\ authority'[i].slot = u.slot
            BY Zenon, <1>13 DEF AuthoritySaved
        <2>2. authority[i] # None => u.slot > authority[i].slot /\ who # authority[i].who
            BY Zenon, <1>13 DEF AuthorityChanges
        <2>3. who = Resolve(u.by)
            BY <1>1, <1>5, <1>8, <1>9, <2>2
        <2>4. u \notin handled
            <3>1. ASSUME u \in handled
                  PROVE  FALSE
                <4>1. u \in Of(Saved, i) /\ authority[i] # None /\ u.slot >= authority[i].slot
                    BY <1>1, <1>5, <1>8, <1>10, <2>2, <3>1
                <4> QED  BY Zenon, <2>2, <2>3, <4>1 DEF Pair, Current
            <3> QED  BY Zenon, <3>1
        <2>5. Origin(i, j)'
            BY Zenon, <1>4, <2>1 DEF Origin
        <2>6. Current(i)'
            <3>1. \A x \in Of(Saved, i) : x.slot < u.slot
                BY Zenon, <1>1, <2>4, FirstTime
            <3>2. \A x \in Of(Saved, i) : ~(x.slot >= u.slot)
                BY <1>1, <1>5, <1>6, <3>1
            <3>3. Resolve(u.by)' = who
                BY Zenon, <1>1, <1>7, <2>3
            <3> QED  BY Zenon, <1>4, <2>1, <3>2, <3>3 DEF Current
        <2>7. ASSUME NEW x \in Workers
              PROVE  (MemberHandler(i, worker[x]) /\ LeadHandler(i, j, worker[x]))'
            <3>0. PICK g : g = worker'[x]
                OBVIOUS
            <3> SUFFICES MemberHandler(i, g)' /\ LeadHandler(i, j, g)'
                BY Zenon, <3>0 DEF MemberHandler, LeadHandler, Writes, AuthorityChanges, Resolve
            <3>1. CASE ~Writes(g)
                BY Zenon, <3>1 DEF MemberHandler, LeadHandler, Writes
            <3>2. CASE Writes(g)
                <4>1. x # w /\ g = worker[x]
                    BY Zenon, <1>1, <3>0, <3>2 DEF Writes
                <4>2. g.u \in Updates /\ g.u.kind \in Saved
                    BY Zenon, <3>2, <4>1, Busy DEF Ready, Writes
                <4>3. ~(g.pc = "commit" /\ g.u.key = j)
                    BY Zenon, <1>12, <2>4, <3>2, <4>1
                <4>4. MemberHandler(i, g)
                    BY Zenon, <4>1 DEF Pair
                <4>5. authority[i] # None /\ authority[i].slot > g.u.slot => u.slot > g.u.slot
                    BY <1>1, <1>5, <1>8, <2>2, <4>2
                <4>6. g.u.key = i => \/ g.auth = Resolve(g.u.by)'
                                     \/ authority'[i] # None /\ authority'[i].slot > g.u.slot
                    BY Zenon, <1>7, <2>1, <3>2, <4>2, <4>4, <4>5 DEF MemberHandler
                <4> QED  BY Zenon, <4>3, <4>6 DEF MemberHandler, LeadHandler
            <3> QED  BY Zenon, <3>1, <3>2
        <2> QED  BY Zenon, <2>5, <2>6, <2>7 DEF Pair
    <1>14. CASE ~AuthorityChanges(authority[i], who, u.slot)
        <2>1. authority[i] # None /\ authority'[i] = authority[i]
            BY Zenon, <1>14 DEF AuthoritySaved
        <2>2. \A y : InOrder(y) => InOrder(y)'
            BY Zenon, <1>1, SameHistory DEF InOrder
        <2>3. Origin(i, j)'
            <3>1. ASSUME NEW y \in Updates, Led(i, j, y)
                  PROVE  Led(i, j, y)'
                BY Zenon, <1>1, <1>2, <1>3, <1>11, <2>1, <2>2, <3>1 DEF Led
            <3> QED  BY Zenon, <1>1, <1>4, <2>1, <3>1, SameHistory DEF Pair, Origin
        <2>4. Current(i)'
            <3>1. ASSUME u.slot >= authority[i].slot
                  PROVE  Resolve(u.by) = authority[i].who
                <4>1. who = Resolve(u.by)
                    BY <1>1, <1>5, <1>8, <1>9, <2>1, <3>1
                <4>2. CASE u.slot > authority[i].slot
                    BY Zenon, <1>14, <4>1, <4>2 DEF AuthorityChanges
                <4>3. CASE u.slot = authority[i].slot
                    <5>1. ~\E y \in Updates : Led(i, j, y)
                        BY ZenonT(40), <1>1, <4>3 DEF Led, Stays
                    <5>2. PICK x \in Of(Saved, i) : x.slot = authority[i].slot
                        BY Zenon, <2>1, <5>1 DEF Pair, Origin
                    <5>3. x = u
                        BY Zenon, <1>1, <1>6, <4>3, <5>2, UpdateFacts DEF IInv
                    <5> QED  BY Zenon, <3>1, <5>2, <5>3 DEF Pair, Current
                <4> QED  BY <1>1, <1>5, <1>8, <2>1, <3>1, <4>2, <4>3
            <3>2. \A x \in Of(Saved, i) : x.slot >= authority[i].slot => Resolve(x.by)' = authority[i].who
                BY Zenon, <1>6, <1>7 DEF Pair, Current
            <3>3. u.slot >= authority[i].slot => Resolve(u.by)' = authority[i].who
                BY Zenon, <1>1, <1>7, <3>1
            <3> QED  BY Zenon, <1>4, <2>1, <3>2, <3>3 DEF Current
        <2>5. ASSUME NEW x \in Workers
              PROVE  (MemberHandler(i, worker[x]) /\ LeadHandler(i, j, worker[x]))'
            <3>0. PICK g : g = worker'[x]
                OBVIOUS
            <3> SUFFICES MemberHandler(i, g)' /\ LeadHandler(i, j, g)'
                BY Zenon, <3>0 DEF MemberHandler, LeadHandler, Writes, AuthorityChanges, Resolve
            <3>1. CASE ~Writes(g)
                BY Zenon, <3>1 DEF MemberHandler, LeadHandler, Writes
            <3>2. CASE Writes(g)
                <4>1. x # w /\ g = worker[x]
                    BY Zenon, <1>1, <3>0, <3>2 DEF Writes
                <4>2. g.u \in Updates /\ g.u.kind \in Saved
                    BY Zenon, <3>2, <4>1, Busy DEF Ready, Writes
                <4>3. MemberHandler(i, g) /\ LeadHandler(i, j, g)
                    BY Zenon, <4>1 DEF Pair
                <4>4. MemberHandler(i, g)'
                    BY Zenon, <1>7, <2>1, <4>2, <4>3 DEF MemberHandler
                <4>5. ASSUME g.pc = "commit", g.u.key = j
                      PROVE  LeadHandler(i, j, g)'
                    <5>1. u \in handled
                        BY Zenon, <1>12, <3>2, <4>1, <4>5
                    <5>2. g.u \notin handled'
                        BY Zenon, <1>1, <3>2, <4>3, <4>5, <5>1 DEF LeadHandler
                    <5> QED  BY Zenon, <1>3, <1>11, <2>1, <3>2, <4>3, <5>1, <5>2 DEF LeadHandler, AuthorityChanges
                <4> QED  BY Zenon, <4>4, <4>5 DEF LeadHandler
            <3> QED  BY Zenon, <3>1, <3>2
        <2> QED  BY Zenon, <2>3, <2>4, <2>5 DEF Pair
    <1> QED  BY Zenon, <1>13, <1>14

\* A version of the collection is saved.
LEMMA SaveLead ==
    ASSUME ChainAssumption, IInv, Received, Authorized, TransactionsSound, NEW w \in Workers,
           NEW u, NEW who, AuthoritySaved(w, u, who), NEW j, j = u.key, PlainRow(j),
           NEW i \in Ids, Stays(i, j), Pair(i, j)
    PROVE  Pair(i, j)'
    <1>1. /\ u \in Updates /\ u.kind \in Saved /\ j \in Ids /\ Writes(worker[w]) /\ worker[w] # None
          /\ u = worker[w].u /\ who = worker[w].auth /\ handled' = handled \cup {u}
          /\ worker'[w] = None /\ \A x \in Workers : x # w => worker'[x] = worker[x]
          /\ ~Locked(w, j) /\ UNCHANGED history
        BY Zenon DEF AuthoritySaved
    <1>2. i # j
        BY Zenon, <1>1 DEF Stays
    <1>3. authority'[i] = authority[i] /\ collection'[i] = collection[i]
        BY Zenon, <1>2 DEF AuthoritySaved
    <1>4. Of(Saved, i)' = Of(Saved, i)
        BY Zenon, <1>1, <1>2 DEF Of
    <1>5. \A x \in Updates : x.slot \in Nat
        BY Zenon, UpdateFacts DEF IInv
    <1>6. \A x \in Of(Saved, i) : x \in handled /\ x \in Updates /\ x.kind \in Saved /\ x.key = i
        BY Zenon DEF IInv, TypeOK, Of
    <1>7. /\ u.by.type = "address" /\ u.kind = "collection"
          /\ u \notin handled /\ authority[j] # None => u.slot > authority[j].slot
        <2>1. Plain(j) /\ u.kind = "collection"
            BY Zenon, <1>1 DEF Stays, Plain
        <2> QED  BY Zenon, <1>1, <2>1, PlainFacts
    <1>8. who = u.by.at
        BY Zenon, <1>1, <1>7 DEF TransactionsSound
    <1>9. \A y : InOrder(y) => InOrder(y)'
        BY Zenon, <1>1, SameHistory DEF InOrder
    <1>10. authority[i] # None => authority[i].slot \in Nat
        BY Zenon DEF IInv, TypeOK, Opt, AuthorityRow
    <1>11. InOrder(u)
        BY Zenon, <1>1 DEF Received
    \* No other transaction has written the row of the collection.
    <1>12. ASSUME \A x \in Workers : \A g : x # w /\ g = worker[x] /\ Writes(g) => MemberHandler(i, g)',
                  Origin(i, j)', Current(i)'
           PROVE  Pair(i, j)'
        <2>1. ASSUME NEW x \in Workers
              PROVE  (MemberHandler(i, worker[x]) /\ LeadHandler(i, j, worker[x]))'
            <3>0. PICK g : g = worker'[x]
                OBVIOUS
            <3> SUFFICES MemberHandler(i, g)' /\ LeadHandler(i, j, g)'
                BY Zenon, <3>0 DEF MemberHandler, LeadHandler, Writes, AuthorityChanges, Resolve
            <3>1. CASE ~Writes(g)
                BY Zenon, <3>1 DEF MemberHandler, LeadHandler, Writes
            <3>2. CASE Writes(g)
                <4>1. x # w /\ g = worker[x]
                    BY Zenon, <1>1, <3>0, <3>2 DEF Writes
                <4>2. ~(g.pc = "commit" /\ g.u.key = j)
                    BY Zenon, <1>1, <3>2, <4>1 DEF Locked, At, Writes
                <4> QED  BY Zenon, <1>12, <3>2, <4>1, <4>2 DEF LeadHandler
            <3> QED  BY Zenon, <3>1, <3>2
        <2> QED  BY Zenon, <1>12, <2>1 DEF Pair
    <1>13. CASE ~AuthorityChanges(authority[j], who, u.slot)
        <2>1. authority[j] # None /\ authority'[j] = authority[j]
            BY Zenon, <1>1, <1>13 DEF AuthoritySaved
        <2>2. \A x \in Updates : x.kind \in Saved /\ x.key = i => Resolve(x.by)' = Resolve(x.by)
            BY Zenon, <1>1, <2>1, ResolveKept DEF IInv
        <2>3. u \notin handled => who = authority[j].who
            BY Zenon, <1>7, <1>13, <2>1 DEF AuthorityChanges
        <2>4. Origin(i, j)'
            <3>1. ASSUME NEW y \in Updates, Led(i, j, y)
                  PROVE  Led(i, j, y)'
                <4>1. y = u /\ u \notin handled => authority[i].who = authority[j].who
                    BY Zenon, <1>8, <2>3, <3>1 DEF Led
                <4> QED  BY Zenon, <1>1, <1>3, <1>9, <2>1, <3>1, <4>1 DEF Led
            <3> QED  BY Zenon, <1>1, <1>3, <1>4, <3>1, SameHistory DEF Pair, Origin
        <2>5. Current(i)'
            BY Zenon, <1>3, <1>4, <1>6, <2>2 DEF Pair, Current
        <2>6. ASSUME NEW x \in Workers, NEW g, x # w, g = worker[x], Writes(g)
              PROVE  MemberHandler(i, g)'
            <3>1. g.u \in Updates /\ g.u.kind \in Saved
                BY Zenon, <2>6, Busy DEF Ready, Writes
            <3>2. MemberHandler(i, g)
                BY Zenon, <2>6 DEF Pair
            <3> QED  BY Zenon, <1>3, <2>2, <3>1, <3>2 DEF MemberHandler
        <2> QED  BY Zenon, <1>12, <2>4, <2>5, <2>6
    <1>14. CASE AuthorityChanges(authority[j], who, u.slot)
        <2>1. authority'[j] # None /\ authority'[j].who = who /\ authority'[j].slot = u.slot
            BY Zenon, <1>1, <1>14 DEF AuthoritySaved
        <2>2. worker[w].pc = "commit"
            BY <1>1, <1>7, <1>14 DEF AuthoritySaved, Writes
        <2>3. /\ u \notin handled
              /\ collection[i] # None /\ collection[i].value = j =>
                    authority[i] # None /\ authority[i].slot = u.slot
            BY Zenon, <1>1, <2>2 DEF Pair, LeadHandler
        <2>4. Origin(i, j)'
            <3>1. ASSUME NEW y \in Updates, Led(i, j, y)
                  PROVE  Led(i, j, u)'
                <4>1. /\ y.kind \in Saved /\ y.key = j /\ y.slot = authority[i].slot
                      /\ y.by.at = authority[i].who /\ collection[i] # None /\ collection[i].value = j
                    BY Zenon, <3>1 DEF Led
                <4>2. y = u
                    BY Zenon, <1>1, <2>3, <4>1, UpdateFacts DEF IInv
                <4> QED  BY Zenon, <1>1, <1>3, <1>8, <1>9, <1>11, <2>1, <4>1, <4>2 DEF Led
            <3> QED  BY Zenon, <1>1, <1>3, <1>4, <3>1, SameHistory DEF Pair, Origin
        <2>5. ASSUME NEW x \in Updates, x.kind \in Saved, x.key = i, x.by.type # "collection"
              PROVE  Resolve(x.by)' = Resolve(x.by)
            <3>1. x.by.type \in {"address", "none"}
                <4>1. x.by.type \in {"address", "none", "collection"}
                    BY Zenon, <2>5, UpdateFacts DEF IInv, ChainAssumption
                <4> QED  BY Zenon, <2>5, <4>1
            <3>2. CASE x.by.type = "address"
                BY Zenon, <3>2 DEF Resolve
            <3>3. CASE x.by.type = "none"
                <4>1. Resolve(x.by) = Default
                    BY <3>3 DEF Resolve
                <4>2. (Resolve(x.by) = Default)'
                    BY <3>3 DEF Resolve
                <4> QED  BY Zenon, <4>1, <4>2
            <3> QED  BY Zenon, <3>1, <3>2, <3>3
        <2>6. ASSUME NEW x \in Of(Saved, i), x.by.type = "collection"
              PROVE  authority[i] # None /\ authority[i].slot = u.slot
            BY Zenon, <1>1, <2>3, <2>6, Joined
        <2>7. Current(i)'
            <3>1. ASSUME NEW x \in Of(Saved, i), x.slot >= authority[i].slot
                  PROVE  Resolve(x.by)' = authority[i].who
                <4>1. x.by.type # "collection"
                    <5>1. ASSUME x.by.type = "collection"
                          PROVE  FALSE
                        <6>1. authority[i].slot = u.slot
                            BY Zenon, <2>6, <5>1
                        <6>2. x.slot <= u.slot /\ x.slot # u.slot
                            BY Zenon, <1>1, <1>6, <2>3, FirstTime DEF Stays
                        <6> QED  BY <1>1, <1>5, <1>6, <3>1, <6>1, <6>2
                    <5> QED  BY Zenon, <5>1
                <4> QED  BY Zenon, <1>6, <2>5, <3>1, <4>1 DEF Pair, Current
            <3> QED  BY Zenon, <1>3, <1>4, <3>1 DEF Current
        <2>8. ASSUME NEW x \in Workers, NEW g, x # w, g = worker[x], Writes(g)
              PROVE  MemberHandler(i, g)'
            <3>1. g.u \in Updates /\ g.u.kind \in Saved /\ g # None
                BY Zenon, <2>8, Busy DEF Ready, Writes
            <3>2. MemberHandler(i, g)
                BY Zenon, <2>8 DEF Pair
            <3>3. CASE g.u.key # i \/ g.u.by.type # "collection"
                BY Zenon, <1>3, <2>5, <3>1, <3>2, <3>3 DEF MemberHandler
            <3>4. CASE g.u.key = i /\ g.u.by.type = "collection"
                <4>1. g.u.slot <= u.slot /\ g.u.slot # u.slot
                    BY Zenon, <1>1, <2>3, <2>8, <3>1, <3>4, FirstTime DEF Stays
                <4>2. g.u.slot < u.slot /\ u.slot > g.u.slot
                    BY <1>1, <1>5, <3>1, <4>1
                <4>3. g.u \in Of(Saved, i)
                    BY Zenon, <1>11, <3>1, <3>4, <4>2 DEF InOrder, Of
                <4>4. authority[i] # None /\ authority[i].slot = u.slot
                    BY Zenon, <2>6, <3>4, <4>3
                <4> QED  BY Zenon, <1>3, <4>2, <4>4 DEF MemberHandler
            <3> QED  BY Zenon, <3>3, <3>4
        <2> QED  BY Zenon, <1>12, <2>4, <2>7, <2>8
    <1> QED  BY Zenon, <1>13, <1>14

LEMMA SaveLeads ==
    ASSUME ChainAssumption, IInv, AInv, IInv', NEW w \in Workers, Save(w)
    PROVE  AInv'
    <1>0. PICK u, who : u = worker[w].u /\ who = worker[w].auth
        BY Zenon
    <1>1. AuthoritySaved(w, u, who)
        BY <1>0, SaveAuthorityStatements
    <1>2. /\ u \in Updates /\ u.kind \in Saved /\ u.key \in Ids /\ worker[w] # None
          /\ worker'[w] = None /\ \A x \in Workers : x # w => worker'[x] = worker[x]
          /\ handled' = handled \cup {u} /\ UNCHANGED history
          /\ \A m \in Ids : m # u.key => authority'[m] = authority[m] /\ collection'[m] = collection[m]
        BY Zenon, <1>1 DEF AuthoritySaved
    <1>3. Order' = Order
        BY Zenon, <1>2, SameHistory
    <1> SUFFICES ASSUME Order = "handled"
                 PROVE  (Received /\ Authorized /\ TransactionsSound /\ PlainSound /\ PairsSound)'
        BY Zenon, <1>3 DEF AInv
    <1>4. Received /\ Authorized /\ TransactionsSound /\ PlainSound /\ PairsSound
        BY Zenon DEF AInv
    <1>5. \A i : i # u.key => Of(Saved, i)' = Of(Saved, i)
        BY Zenon, <1>2 DEF Of
    <1>6. Received'
        <2>1. \A y : InOrder(y) => InOrder(y)'
            BY Zenon, <1>2, SameHistory DEF InOrder
        <2>2. InOrder(u)
            BY Zenon, <1>0, <1>2, <1>4 DEF Received
        <2>3. ASSUME NEW x \in Workers, worker'[x] # None
              PROVE  InOrder(worker[x].u)'
            <3>1. PICK v : v = worker'[x].u
                OBVIOUS
            <3>2. InOrder(v)
                BY Zenon, <1>2, <1>4, <2>3, <3>1 DEF Received
            <3> QED  BY Zenon, <2>1, <3>1, <3>2 DEF InOrder
        <2> QED  BY Zenon, <1>2, <1>4, <2>1, <2>2, <2>3 DEF Received
    <1>7. Authorized'
        <2>1. authority'[u.key] # None
            BY Zenon, <1>1 DEF AuthoritySaved
        <2>2. u \in Of(Saved, u.key)'
            BY Zenon, <1>2 DEF Of
        <2>3. ASSUME NEW i \in Ids
              PROVE  (authority[i] # None <=> Of(Saved, i) # {})'
            <3>1. CASE i = u.key
                BY Zenon, <2>1, <2>2, <3>1
            <3>2. CASE i # u.key
                BY Zenon, <1>2, <1>4, <1>5, <3>2 DEF Authorized
            <3> QED  BY Zenon, <3>1, <3>2
        <2> QED  BY Zenon, <2>3 DEF Authorized
    <1>8. TransactionsSound'
        <2>1. ASSUME NEW x \in Workers, NEW y \in Workers, At(x, "commit")', At(y, "commit")',
                     worker'[x].u.key = worker'[y].u.key
              PROVE  x = y
            BY ZenonT(40), <1>2, <1>4, <2>1 DEF TransactionsSound, At
        <2>2. ASSUME NEW x \in Workers, Writes(worker'[x]), worker'[x].u.by.type = "address"
              PROVE  worker'[x].auth = worker'[x].u.by.at
            <3>1. worker'[x] = worker[x]
                BY Zenon, <1>2, <2>2 DEF Writes
            <3> QED  BY Zenon, <1>4, <2>2, <3>1 DEF TransactionsSound
        <2> QED  BY Zenon, <2>1, <2>2 DEF TransactionsSound, Writes
    <1>9. PlainSound'
        <2>1. ASSUME NEW i \in Ids, Plain(i)
              PROVE  PlainRow(i)'
            <3>1. PlainRow(i)
                BY Zenon, <1>4, <2>1 DEF PlainSound
            <3>2. CASE i = u.key
                <4>1. Plain(u.key) /\ PlainRow(u.key)
                    BY Zenon, <2>1, <3>1, <3>2
                <4>2. PlainRow(u.key)'
                    BY Zenon, <1>1, <1>4, <4>1, SavePlain
                <4> QED  BY Zenon, <3>2, <4>2 DEF PlainRow
            <3>3. CASE i # u.key
                BY Zenon, <1>2, <1>5, <3>1, <3>3 DEF PlainRow
            <3> QED  BY Zenon, <3>2, <3>3
        <2> QED  BY Zenon, <1>2, <2>1, SameStories DEF PlainSound
    <1>10. PairsSound'
        <2> SUFFICES ASSUME NEW i \in Ids, NEW j \in Ids, Stays(i, j)
                     PROVE  Pair(i, j)'
            BY Zenon, <1>2, SameStories DEF PairsSound
        <2>1. Pair(i, j) /\ PlainRow(j)
            BY Zenon, <1>4, StaysFacts DEF PairsSound, PlainSound, IInv
        <2>2. CASE i = u.key
            BY <1>1, <1>4, <2>1, <2>2, SaveMember
        <2>3. CASE j = u.key
            BY <1>1, <1>4, <2>1, <2>3, SaveLead
        <2>4. CASE i # u.key /\ j # u.key
            <3>1. \A x \in Workers : worker'[x] = worker[x] \/ Quiet(worker'[x])
                BY Zenon, <1>2 DEF Quiet
            <3>2. worker' \in [Workers -> Opt(Handler)]
                BY Zenon, <1>2, SameHistory DEF IInv, TypeOK
            <3>3. \A x \in handled' : x \in Updates
                BY Zenon, <1>2 DEF IInv, TypeOK
            <3>4. \A x \in handled' : x \in handled \/ x.kind \notin Saved \/ x.key \notin {i, j}
                BY Zenon, <1>2, <2>4
            <3>5. /\ authority'[i] = authority[i] /\ authority'[j] = authority[j]
                  /\ collection'[i] = collection[i] /\ handled \subseteq handled'
                BY Zenon, <1>2, <2>4
            <3> QED  BY Zenon, <1>2, <2>1, <3>1, <3>2, <3>3, <3>4, <3>5, PairKept
        <2> QED  BY Zenon, <2>2, <2>3, <2>4
    <1> QED  BY Zenon, <1>6, <1>7, <1>8, <1>9, <1>10

LEMMA InitLeads ==
    ASSUME Init
    PROVE  AInv
    <1>1. /\ authority = [i \in Ids |-> None] /\ handled = {} /\ worker = [w \in Workers |-> None]
        BY Zenon DEF Init
    <1>2. \A i \in Ids : authority[i] = None /\ Of(Saved, i) = {}
        BY Zenon, <1>1 DEF Of
    <1>3. \A w \in Workers : worker[w] = None
        BY Zenon, <1>1
    <1>4. Received /\ Authorized /\ TransactionsSound
        BY Zenon, <1>1, <1>2, <1>3 DEF Received, Authorized, TransactionsSound, At, Writes
    <1>5. PlainSound
        BY Zenon, <1>2 DEF PlainSound, PlainRow
    <1>6. PairsSound
        BY Zenon, <1>2, <1>3 DEF PairsSound, Pair, Origin, Current, MemberHandler, LeadHandler, Writes
    <1> QED  BY Zenon, <1>4, <1>5, <1>6 DEF AInv

LEMMA StutterLeads ==
    ASSUME AInv, UNCHANGED vars
    PROVE  AInv'
    <1>1. UNCHANGED <<history, authority, collection, worker, handled>>
        BY Zenon DEF vars, rows
    <1>2. /\ Updates' = Updates /\ Order' = Order /\ \A i : Of(Saved, i)' = Of(Saved, i)
          /\ \A i, j : Stays(i, j)' = Stays(i, j) /\ Plain(i)' = Plain(i)
        BY Zenon, <1>1, SameHistory, SameStories DEF Of
    <1>3. /\ Received => Received'
          /\ Authorized => Authorized'
          /\ TransactionsSound => TransactionsSound'
        BY Zenon, <1>1, <1>2 DEF Received, InOrder, Authorized, TransactionsSound, At
    <1>4. PlainSound => PlainSound'
        BY Zenon, <1>1, <1>2 DEF PlainSound, PlainRow
    <1>5. \A i, j : Origin(i, j) => Origin(i, j)'
        <2>1. \A y : InOrder(y) => InOrder(y)'
            BY Zenon, <1>1, <1>2 DEF InOrder
        <2>2. \A i, j, y : Led(i, j, y) => Led(i, j, y)'
            BY ZenonT(40), <1>1, <2>1 DEF Led
        <2> QED  BY Zenon, <1>1, <1>2, <2>2 DEF Origin
    <1>6. \A i : Current(i) => Current(i)'
        BY Zenon, <1>1, <1>2 DEF Current, Resolve
    <1>7. \A i, j : Pair(i, j) => Pair(i, j)'
        <2>1. ASSUME NEW i, NEW j, NEW h, MemberHandler(i, h), LeadHandler(i, j, h)
              PROVE  MemberHandler(i, h)' /\ LeadHandler(i, j, h)'
            <3>1. Resolve(h.u.by)' = Resolve(h.u.by)
                BY Zenon, <1>1 DEF Resolve
            <3>2. MemberHandler(i, h)'
                BY Zenon, <1>1, <2>1, <3>1 DEF MemberHandler
            <3>3. LeadHandler(i, j, h)'
                BY Zenon, <1>1, <2>1 DEF LeadHandler, AuthorityChanges
            <3> QED  BY Zenon, <3>2, <3>3
        <2>2. ASSUME NEW i, NEW j, Pair(i, j), NEW w \in Workers
              PROVE  (MemberHandler(i, worker[w]) /\ LeadHandler(i, j, worker[w]))'
            <3>1. PICK h : h = worker[w]
                OBVIOUS
            <3>2. MemberHandler(i, h)' /\ LeadHandler(i, j, h)'
                BY Zenon, <2>1, <2>2, <3>1 DEF Pair
            <3>3. h = worker'[w]
                BY Zenon, <1>1, <3>1
            <3> QED  BY Zenon, <3>2, <3>3 DEF MemberHandler, LeadHandler, Writes, AuthorityChanges, Resolve
        <2> QED  BY Zenon, <1>5, <1>6, <2>2 DEF Pair
    <1>8. PairsSound => PairsSound'
        BY Zenon, <1>2, <1>7 DEF PairsSound
    <1> QED  BY Zenon, <1>2, <1>3, <1>4, <1>8 DEF AInv

LEMMA NextLeads ==
    ASSUME ChainAssumption, IInv, AInv, IInv', [Next]_vars
    PROVE  AInv'
    <1>1. CASE UNCHANGED vars
        BY Zenon, <1>1, StutterLeads
    <1>2. ASSUME NEW w \in Workers, Propagate(w)
          PROVE  AInv'
        BY Zenon, <1>2, PropagateLeads
    <1>3. ASSUME NEW w \in Workers, Save(w)
          PROVE  AInv'
        BY Zenon, <1>3, SaveLeads
    <1> QED  BY Zenon, <1>1, <1>2, <1>3, QuietSteps DEF Next, Step

\* Handled in the order of their slots, the updates leave the member of a collection, at each
\* step of save_v1_asset, with the authority its newest version looks up or with the one the
\* transaction of its collection is about to commit.
THEOREM AuthorityInvariance == ChainAssumption => (Spec => []AInv)
    <1> SUFFICES ASSUME ChainAssumption
                 PROVE  Spec => []AInv
        OBVIOUS
    <1>1. Init => AInv
        BY Zenon, InitLeads
    <1>2. IInv /\ IInv' /\ AInv /\ [Next]_vars => AInv'
        BY Zenon, NextLeads
    <1> QED  BY <1>1, <1>2, Invariance, PTL DEF Spec

\* When nothing is left to do, a member has the authority of its collection.
LEMMA MembersFollow ==
    ASSUME ChainAssumption, IInv, AInv
    PROVE  MembersHaveAuthority
    <1> SUFFICES ASSUME Order = "handled", Settled, NEW i \in Ids, NEW j \in Ids, Stays(i, j),
                        collection[i] # None, collection[i].value = j, authority[j] # None
                 PROVE  authority[i].who = authority[j].who
        BY Zenon DEF MembersHaveAuthority
    <1>1. Authorized /\ Pair(i, j)
        BY Zenon DEF AInv, PairsSound
    <1>2. PICK v \in Of(Saved, i) : /\ collection[i].value = Parent(v) /\ v \in Updates
                                    /\ \A x \in Of(Saved, i) : x.slot <= v.slot
        BY Zenon, ParentFacts
    <1>3. v.by.type = "collection" /\ v.by.at = j
        BY Zenon, <1>2 DEF Parent, ChainAssumption
    <1>4. Resolve(v.by) = authority[j].who
        BY <1>3 DEF Resolve
    <1>5. authority[i] # None /\ authority[i].slot \in Nat /\ v.slot \in Nat
        BY Zenon, <1>1, <1>2, UpdateFacts DEF Authorized, IInv, TypeOK, Opt, AuthorityRow
    <1>6. CASE v.slot >= authority[i].slot
        BY Zenon, <1>1, <1>2, <1>4, <1>6 DEF Pair, Current
    <1>7. CASE ~(v.slot >= authority[i].slot)
        <2>1. \A x \in Of(Saved, i) : x.slot # authority[i].slot
            BY <1>2, <1>5, <1>7
        <2>2. PICK y \in Updates : Led(i, j, y)
            BY Zenon, <1>1, <1>5, <2>1 DEF Pair, Origin
        <2> QED  BY Zenon, <2>2 DEF Led, Settled
    <1> QED  BY Zenon, <1>6, <1>7

\* Once every update is handled, in the order of their slots, an asset that joined a
\* collection and did not leave it has the authority of the collection: save_v1_asset copies
\* it to the member that comes after, update_group_asset_authorities gives it to the members
\* that came before, and a repeated update of either brings no older one back.
THEOREM MembersKeepAuthority == ChainAssumption => (Spec => []MembersHaveAuthority)
    <1> SUFFICES ASSUME ChainAssumption
                 PROVE  Spec => []MembersHaveAuthority
        OBVIOUS
    <1>1. IInv /\ AInv => MembersHaveAuthority
        BY Zenon, MembersFollow
    <1> QED  BY <1>1, Invariance, AuthorityInvariance, PTL
=============================================================================
