----------------------------- MODULE CoreAssets -----------------------------
(***************************************************************************)
(* How program_transformers indexes MPL Core accounts (mpl_core_program): an  *)
(* asset, its collection, groups, and the agent registry that decorates an    *)
(* asset.  A handler looks up the authority of the collection before its      *)
(* transaction; the handler of a collection propagates a new authority to     *)
(* the members outside its transaction.                                       *)
(***************************************************************************)
EXTENDS AssetColumns, FiniteSets

CONSTANTS
    Histories,     \* what may happen: [updates, order], the account updates [kind, key,
                   \* slot, ..], and whether one is begun once those of lower slots are
                   \* "handled", or at "any" time
    Ids,           \* addresses of assets, collections and groups
    Workers,       \* handlers that run at the same time
    Faults,        \* TRUE: a statement may fail
    Default,       \* Pubkey::default()
    Blank,         \* no bytes: the authority of a collection that is not indexed
    Empty          \* the empty uri

VARIABLES
    history,       \* a member of Histories
    asset, asset_data, authority,     \* rows by id
    collection,    \* asset_grouping, group_key = "collection"
    groups,        \* asset_grouping, group_key = "group": slots by id and value, None the NULL one
    creators,      \* asset_creators: rows by id and position
    requested,     \* <<id, uri>> handed to the metadata downloader
    worker, handled

vars == <<history, asset, asset_data, authority, collection, groups, creators, requested, worker, handled>>

rows == <<asset, asset_data, authority, collection, groups, creators, requested>>

Updates == history.updates
Order == history.order

\* The kinds of account that save_v1_asset handles.
Saved == {"asset", "collection", "group"}

Groups == UNION {u.groups : u \in {v \in Updates : v.kind \in Saved}}

Positions == 1..2

Opt(S) == S \cup {None}

Versions == UNION {h.updates : h \in Histories}
SavedVersions == {u \in Versions : u.kind \in Saved}

Authorities == {Default, Blank} \cup {u.by.at : u \in {v \in SavedVersions : v.by.type = "address"}}
Owners == {u.owner : u \in SavedVersions}
Uris == {u.uri : u \in SavedVersions}

AssetRow ==
    [owner : Opt(Owners \cup Authorities), slotTA : Opt(Nat), supply : Nat, slotMint : Opt(Nat),
     ownerType : {"single"}, class : {None, "MplCoreAsset", "MplCoreCollection", "MplCoreGroup"},
     slotMeta : Opt(Nat), slot : Opt(Nat), burnt : BOOLEAN,
     agent : Opt({u.token : u \in {v \in Versions : v.kind = "registry"}}), slotAgent : Opt(Nat)]
DataRow == [uri : Uris, slot : Nat]
AuthorityRow == [who : Authorities, slot : Nat]
CollectionRow == [value : Opt(Ids), slot : Nat]
CreatorRow ==
    [who : UNION {{u.creators[p] : p \in DOMAIN u.creators} : u \in SavedVersions}, slot : Nat]

\* What is taken for granted of the chain: the slot tells the versions of an account apart,
\* which is all the statements compare, an authority is not blank, and NULL is no value.
ChainAssumption ==
    /\ \A u \in Versions :
          u.slot \in Nat /\ u.key \in Ids /\ u.kind \in Saved \cup {"registry", "empty"}
    /\ \A u \in SavedVersions :
          /\ None \notin u.groups
          /\ u.by.type \in {"address", "none", "collection"}
          /\ u.by.type = "collection" => u.by.at \in Ids
          /\ u.by.type = "address" => u.by.at # Blank
    /\ \A h \in Histories : \A u, v \in h.updates :
          u.kind \in Saved /\ v.kind \in Saved /\ u.key = v.key /\ u.slot = v.slot => u = v
    /\ None \notin Ids /\ None \notin Nat /\ None \notin Authorities
    /\ None \notin AssetRow /\ None \notin DataRow
    /\ None \notin AuthorityRow /\ None \notin CollectionRow

At(w, pc) == worker[w] # None /\ worker[w].pc = pc

Return(w) == worker' = [worker EXCEPT ![w] = None] /\ handled' = handled \cup {worker[w].u}

Begin(w, u) ==
    /\ worker[w] = None
    /\ Order = "handled" => \A v \in Updates : v.slot < u.slot => v \in handled
    /\ worker' = [worker EXCEPT ![w] = [u |-> u, auth |-> None, pc |->
          CASE u.kind = "empty" -> "burn" [] u.kind = "registry" -> "find" [] OTHER -> "read"]]
    /\ UNCHANGED <<history, rows, handled>>

Fail(w) ==
    /\ Faults /\ worker[w] # None
    /\ worker' = [worker EXCEPT ![w] = None]
    /\ UNCHANGED <<history, rows, handled>>

-----------------------------------------------------------------------------
(* save_v1_asset *)

\* The update authority: an address, none, or the one of the collection's row.
Resolve(by) ==
    CASE by.type = "address" -> by.at
      [] by.type = "none" -> Default
      [] OTHER -> IF authority[by.at] = None THEN Blank ELSE authority[by.at].who

ReadAuthority(w) ==
    /\ At(w, "read")
    /\ worker' = [worker EXCEPT ![w].auth = Resolve(worker[w].u.by), ![w].pc = "txn"]
    /\ UNCHANGED <<history, rows, handled>>

AuthorityChanges(row, who, s) == row # None => s > row.slot /\ who # row.who

\* The transaction of another handler holds the row of its collection's authority.
Locked(w, id) == \E v \in Workers \ {w} : At(v, "commit") /\ worker[v].u.key = id

\* Mutant: only members without an authority are updated.
update_blank_authorities(id, who, s) ==
    authority' = [m \in Ids |->
        IF /\ authority[m] # None /\ authority[m].who = Blank /\ authority[m].slot < s
           /\ collection[m] # None /\ collection[m].value = id
        THEN [who |-> who, slot |-> s] ELSE authority[m]]

\* One UPDATE over the committed members (none of them is compressed).
update_group_asset_authorities(id, who, s) ==
    authority' = [m \in Ids |->
        IF /\ authority[m] # None /\ authority[m].who # who /\ authority[m].slot < s
           /\ collection[m] # None /\ collection[m].value = id
        THEN [who |-> who, slot |-> s] ELSE authority[m]]

\* A collection whose authority changes: the update goes through the pool, not through
\* the transaction that holds the new authority.
Propagate(w) ==
    /\ At(w, "txn") /\ worker[w].u.kind = "collection" /\ ~Locked(w, worker[w].u.key)
    /\ LET u == worker[w].u IN
       /\ AuthorityChanges(authority[u.key], worker[w].auth, u.slot)
       /\ update_group_asset_authorities(u.key, worker[w].auth, u.slot)
    /\ worker' = [worker EXCEPT ![w].pc = "commit"]
    /\ UNCHANGED <<history, asset, asset_data, collection, groups, creators, requested, handled>>

\* Mutant: an asset in no group leaves the rows of its groups alone.
SaveKnownGroups(u) ==
    groups' = [groups EXCEPT ![u.key] = [g \in Groups \cup {None} |->
        IF g \in u.groups /\ NotOlder(u.slot, @[g]) THEN u.slot ELSE @[g]]]

\* Every group of the asset, or the NULL sentinel when there is none.
SaveGroups(u) ==
    LET values == IF u.groups = {} THEN {None} ELSE u.groups IN
    groups' = [groups EXCEPT ![u.key] = [g \in Groups \cup {None} |->
        IF g \in values /\ NotOlder(u.slot, @[g]) THEN u.slot ELSE @[g]]]

\* Rows of asset_data, asset and asset_creators.
SaveRows(u, who) ==
    LET class == CASE u.kind = "asset" -> "MplCoreAsset"
                   [] u.kind = "collection" -> "MplCoreCollection"
                   [] OTHER -> "MplCoreGroup"
        owner == IF u.kind = "asset" THEN u.owner ELSE who IN
    /\ asset_data' = IF asset_data[u.key] = None \/ u.slot > asset_data[u.key].slot
                     THEN [asset_data EXCEPT ![u.key] = [uri |-> u.uri, slot |-> u.slot]]
                     ELSE asset_data
    /\ asset' = [asset EXCEPT ![u.key] =
          upsert_assets_token_account_columns(
             upsert_assets_mint_account_columns(
                upsert_assets_metadata_account_columns(@, class, "single", u.slot),
                1, u.slot),
             owner, u.slot)]
    /\ creators' = [creators EXCEPT ![u.key] = [p \in Positions |->
          IF p \in DOMAIN u.creators /\ (@[p] = None \/ u.slot >= @[p].slot)
          THEN [who |-> u.creators[p], slot |-> u.slot] ELSE @[p]]]

\* The transaction commits, then the download is requested.
Save(w) ==
    /\ At(w, "txn") \/ At(w, "commit")
    /\ LET u == worker[w].u  who == worker[w].auth
           changes == AuthorityChanges(authority[u.key], who, u.slot)
           value == IF u.by.type = "collection" THEN u.by.at ELSE None IN
       /\ ~Locked(w, u.key)
       /\ worker[w].pc = "txn" => u.kind # "collection" \/ ~changes
       /\ authority' = IF changes THEN [authority EXCEPT ![u.key] = [who |-> who, slot |-> u.slot]]
                       ELSE authority
       /\ SaveRows(u, who)
       /\ collection' = IF collection[u.key] = None \/ u.slot >= collection[u.key].slot
                        THEN [collection EXCEPT ![u.key] = [value |-> value, slot |-> u.slot]]
                        ELSE collection
       /\ SaveGroups(u)
       /\ requested' = IF u.uri = Empty THEN requested ELSE requested \cup {<<u.key, u.uri>>}
    /\ Return(w)
    /\ UNCHANGED history

\* An account that was closed.
burn_v1_asset(w) ==
    /\ At(w, "burn")
    /\ LET u == worker[w].u  row == asset[u.key] IN
       asset' = IF row = None
                THEN [asset EXCEPT ![u.key] = [NoAsset EXCEPT !.slot = u.slot, !.burnt = TRUE]]
                ELSE IF row.slot # None /\ u.slot > row.slot
                THEN [asset EXCEPT ![u.key].slot = u.slot, ![u.key].burnt = TRUE]
                ELSE asset
    /\ Return(w)
    /\ UNCHANGED <<history, asset_data, authority, collection, groups, creators, requested>>

-----------------------------------------------------------------------------
(* handle_agent_registry_account *)

\* find_model_with_retry: an update of an asset that is not there, or burnt, is dropped.
FindAsset(w) ==
    /\ At(w, "find")
    /\ LET row == asset[worker[w].u.key] IN
       IF row = None \/ row.burnt THEN Return(w)
       ELSE worker' = [worker EXCEPT ![w].pc = "agent"] /\ UNCHANGED handled
    /\ UNCHANGED <<history, rows>>

SetAgentToken(w) ==
    /\ At(w, "agent")
    /\ LET u == worker[w].u  row == asset[u.key] IN
       asset' = IF ~row.burnt /\ row.class = "MplCoreAsset" /\ NotOlder(u.slot, row.slotAgent)
                THEN [asset EXCEPT ![u.key].agent = u.token, ![u.key].slotAgent = u.slot,
                                   ![u.key].slot = GREATEST(@, u.slot)]
                ELSE asset
    /\ Return(w)
    /\ UNCHANGED <<history, asset_data, authority, collection, groups, creators, requested>>

-----------------------------------------------------------------------------
Init ==
    /\ history \in Histories
    /\ asset = [i \in Ids |-> None] /\ asset_data = asset /\ authority = asset
    /\ collection = asset
    /\ groups = [i \in Ids |-> [g \in Groups \cup {None} |-> None]]
    /\ creators = [i \in Ids |-> [p \in Positions |-> None]]
    /\ requested = {} /\ handled = {} /\ worker = [w \in Workers |-> None]

Step(w) ==
    \/ ReadAuthority(w) \/ Propagate(w) \/ Save(w) \/ burn_v1_asset(w)
    \/ FindAsset(w) \/ SetAgentToken(w)

Next == \E w \in Workers : Step(w) \/ Fail(w) \/ \E u \in Updates : Begin(w, u)

Spec == Init /\ [][Next]_vars

-----------------------------------------------------------------------------
Settled == handled = Updates /\ \A w \in Workers : worker[w] = None

Of(kinds, id) == {u \in handled : u.kind \in kinds /\ u.key = id}

Pcs == {"read", "txn", "commit", "burn", "find", "agent"}

Handler == [u : Updates, auth : Opt(Authorities), pc : Pcs]

TypeOK ==
    /\ history \in Histories
    /\ asset \in [Ids -> Opt(AssetRow)] /\ asset_data \in [Ids -> Opt(DataRow)]
    /\ authority \in [Ids -> Opt(AuthorityRow)] /\ collection \in [Ids -> Opt(CollectionRow)]
    /\ groups \in [Ids -> [Groups \cup {None} -> Opt(Nat)]]
    /\ creators \in [Ids -> [Positions -> Opt(CreatorRow)]]
    /\ requested \subseteq Ids \X Uris
    /\ worker \in [Workers -> Opt(Handler)]
    /\ handled \subseteq Updates
    /\ \A i \in Ids : /\ asset[i] # None => asset[i].slot # None
                      /\ asset_data[i] # None => asset[i] # None

\* The groups a reader sees, the rows with the highest slot, are those of the newest
\* version of the account that was handled: "upsert a NULL sentinel so the read-side
\* MAX(slot_updated) filter can discard stale group rows from earlier slots".
GroupsAreNewest ==
    \A i \in Ids : Of(Saved, i) # {} =>
        LET slots == {groups[i][g] : g \in Groups \cup {None}} \ {None} IN
        \E top \in slots, u \in Updates :
            /\ \A s \in slots : s <= top
            /\ u.kind \in Saved /\ u.key = i /\ u.slot = top
            /\ \A v \in Of(Saved, i) : v.slot <= top
            /\ {g \in Groups : groups[i][g] = top} = u.groups
            /\ collection[i].slot = top /\ asset_data[i].slot = top /\ asset_data[i].uri = u.uri
            /\ asset[i].slotTA = top /\ (u.kind = "asset" => asset[i].owner = u.owner)

\* An asset that is in no collection but j, which it may join but does not leave.
Stays(i, j) ==
    \A u, v \in {x \in Updates : x.kind \in Saved} :
        /\ u.key = i /\ u.by.type = "collection" => u.by.at = j
        /\ u.key = i /\ v.key = i /\ u.slot < v.slot /\ u.by.type = "collection" =>
              v.by.type = "collection"
        /\ v.key = j => v.kind = "collection" /\ v.by.type = "address"
        /\ u.key = i /\ v.key = j => u.slot # v.slot

\* Members of a collection have the authority of the collection: save_v1_asset copies it,
\* and update_group_asset_authorities "propagates a collection's authority to its
\* non-compressed members".  Only as long as the updates are handled in the order of
\* their slots: the authority is looked up before the transaction that writes it, and a
\* member that is newer than the collection's update is not touched.  And only for members
\* that stay: an authority that is not written because it did not change keeps an old
\* slot, so that a version of before the asset left its collection may be handled once
\* more and write the authority which that collection has got since.
MembersHaveAuthority ==
    Order = "handled" /\ Settled => \A i, j \in Ids :
        Stays(i, j) /\ collection[i] # None /\ collection[i].value = j /\ authority[j] # None =>
            authority[i].who = authority[j].who

\* An asset that is indexed before the registry speaks of it and is not closed.
Decorated(i) ==
    \A u \in Updates : u.key = i =>
        \/ u.kind = "asset"
        \/ u.kind = "registry" /\ \E v \in Updates : v.kind = "asset" /\ v.key = i /\ v.slot < u.slot

\* The agent token of such an asset is that of a version of the registry's account which is
\* not older than any handled, if updates are handled in the order of their slots.  (An
\* update for an asset that is missing or burnt is dropped: find_model_with_retry.)
AgentTokenIsNewest ==
    Order = "handled" => \A i \in Ids :
        Decorated(i) /\ Of({"registry"}, i) # {} =>
            \E v \in Updates :
                /\ v.kind = "registry" /\ v.key = i /\ \A u \in Of({"registry"}, i) : u.slot <= v.slot
                /\ asset[i] # None /\ asset[i].agent = v.token

\* Both, which a reader of the asset relies on.
CoreIsNewest == GroupsAreNewest /\ AgentTokenIsNewest
=============================================================================
