------------------------------ MODULE Bubblegum ------------------------------
(***************************************************************************)
(* Indexing of the Bubblegum instructions of one Merkle tree                 *)
(* (program_transformers/src/bubblegum).  Several workers, of one ingester   *)
(* or of several, handle instructions in any order and more than once.      *)
(* Each statement of insert_change_log is a step of its own; the upserts of *)
(* a handler are one serializable transaction.                              *)
(*                                                                          *)
(* A node's hash is identified by the sequence number that produced it.     *)
(***************************************************************************)
EXTENDS AssetRows, Sequences, FiniteSets

CONSTANTS
    Ix,              \* instructions that change the tree
    Leaf, Node,      \* assets of the tree; nodes of the tree
    KindOf, SeqOf, LeafOf,
    PathOf,          \* [Leaf -> Seq(Node)], from the leaf to the root
    Workers,
    Decompressed,    \* leaves whose token metadata account was saved before
    Saved            \* that account, as the writer of a row

\* What each instruction is said to change: the groups of columns that the
\* handlers below must leave with the newest value.
Carries == [mint |-> {"data", "base", "leaf", "owner", "creators", "collection"},
            transfer |-> {"leaf", "owner"},
            delegate |-> {"leaf", "owner"},
            burn |-> {},
            redeem |-> {"leaf"},
            cancel_redeem |-> {"leaf", "owner"},
            update_metadata |-> {"data", "base", "leaf", "creators"},
            creator_verification |-> {"leaf", "owner", "creators"},
            collection_verification |-> {"leaf", "collection"}]

ASSUME TreeAssumption ==
    /\ KindOf \in [Ix -> DOMAIN Carries]
    /\ LeafOf \in [Ix -> Leaf]
    /\ SeqOf \in [Ix -> Nat \ {0}]
    /\ \A i, j \in Ix : SeqOf[i] = SeqOf[j] => i = j
    /\ \A i, j \in Ix : SeqOf[i] < SeqOf[j] => SlotOf[i] <= SlotOf[j]
    /\ PathOf \in [Leaf -> Seq(Node)]
    /\ \A l \in Leaf : Len(PathOf[l]) > 0

ASSUME RowAssumption ==
    /\ Null \notin Int /\ Null \notin Ix \cup {Saved} /\ Saved \notin Ix
    /\ MaxCreators \in Nat \ {0}
    /\ SlotOf \in [Ix \cup {Saved} -> Nat]
    /\ CreatorCount \in [Ix \cup {Saved} -> 0..MaxCreators]

\* A burnt asset cannot be decompressed; the account holds the newest state
\* of a decompressed one.
ASSUME DecompressionAssumption ==
    /\ Decompressed \subseteq Leaf
    /\ CreatorCount[Saved] > 0
    /\ \A i \in Ix : LeafOf[i] \in Decompressed =>
          KindOf[i] # "burn" /\ SlotOf[i] <= SlotOf[Saved]

VARIABLES
    cl_items,          \* [Node -> seq or Null]
    cl_audits,         \* instructions with a row in cl_audits_v2
    backfill_items,    \* rows [seq, force_chk]; how often each occurs is left out
    asset, asset_data, asset_grouping, asset_authority, asset_creators,
    worker,            \* what each worker is doing
    committed          \* history: instructions whose transaction committed

changelog == <<cl_items, cl_audits, backfill_items>>
rows == <<asset, asset_data, asset_grouping, asset_authority, asset_creators>>
vars == <<changelog, rows, worker, committed>>

Idle == [ix |-> Null, pc |-> "idle", node |-> 0, force_chk |-> FALSE]

Goto(w, pc) == worker' = [worker EXCEPT ![w].pc = pc]

-----------------------------------------------------------------------------
(* handle_bubblegum_instruction is called; save_changelog_event *)

\* Mutant: the asset is written without its change to the tree.
ReceiveForAsset(w, i) ==
    /\ worker[w] = Idle
    /\ worker' = [worker EXCEPT ![w] = [Idle EXCEPT !.ix = i, !.pc = "commit"]]
    /\ UNCHANGED <<changelog, rows, committed>>

Receive(w, i) ==
    /\ worker[w] = Idle
    /\ worker' = [worker EXCEPT ![w] = [Idle EXCEPT !.ix = i, !.pc = "path", !.node = 1]]
    /\ UNCHANGED <<changelog, rows, committed>>

UpsertPath(w, last) ==
    LET i == worker[w].ix
        k == worker[w].node
    IN  /\ worker[w].pc = "path"
        /\ cl_items' = [cl_items EXCEPT ![PathOf[LeafOf[i]][k]] =
                            IF @ = Null \/ SeqOf[i] > @ THEN SeqOf[i] ELSE @]
        /\ worker' = IF k < last
                     THEN [worker EXCEPT ![w].node = k + 1]
                     ELSE [worker EXCEPT ![w].pc = "audit"]
        /\ UNCHANGED <<cl_audits, backfill_items, rows, committed>>

\* Mutant: the loop stops before the root.
UpsertBelowRoot(w) == UpsertPath(w, Len(PathOf[LeafOf[worker[w].ix]]) - 1)

\* One node of the path: "WHERE excluded.seq > cl_items.seq".
UpsertNode(w) == UpsertPath(w, Len(PathOf[LeafOf[worker[w].ix]]))

\* An error of this insert is logged and otherwise ignored.
InsertAudit(w) ==
    /\ worker[w].pc = "audit"
    /\ cl_audits' \in {cl_audits, cl_audits \cup {worker[w].ix}}
    /\ Goto(w, "find")
    /\ UNCHANGED <<cl_items, backfill_items, rows, committed>>

FindTree(w) ==
    /\ worker[w].pc = "find"
    /\ worker' = [worker EXCEPT ![w].pc = "insert",
                      ![w].force_chk = backfill_items = {} /\ SeqOf[worker[w].ix] > 1]
    /\ UNCHANGED <<changelog, rows, committed>>

InsertBackfill(w) ==
    /\ worker[w].pc = "insert"
    /\ backfill_items' = backfill_items \cup
          {[seq |-> SeqOf[worker[w].ix], force_chk |-> worker[w].force_chk]}
    /\ Goto(w, "commit")
    /\ UNCHANGED <<cl_items, cl_audits, rows, committed>>

\* A statement or the transaction fails, the instruction turns out not to be
\* well-formed, or the process dies: nothing of the current step remains.
Fail(w) ==
    /\ worker[w] # Idle
    /\ worker' = [worker EXCEPT ![w] = Idle]
    /\ UNCHANGED <<changelog, rows, committed>>

-----------------------------------------------------------------------------
(* The handlers' transactions, one per instruction *)

Put(table, l, value) == [table EXCEPT ![l] = value]

LeafOwnerSeq(a, i) ==
    upsert_asset_with_seq(
        upsert_asset_with_owner_and_delegate_info(
            upsert_asset_with_leaf_info(a, i, SeqOf[i]), i, SeqOf[i]), SeqOf[i])

LeafSeq(a, i) ==
    upsert_asset_with_seq(upsert_asset_with_leaf_info(a, i, SeqOf[i]), SeqOf[i])

mint(i) ==
    LET l == LeafOf[i]
    IN  /\ KindOf[i] = "mint"
        /\ asset_data' = Put(asset_data, l, upsert_asset_data(asset_data[l], i, SeqOf[i]))
        /\ asset' = Put(asset, l,
              LeafOwnerSeq(upsert_asset_with_compression_info(
                  upsert_asset_base_info(asset[l], i, SeqOf[i]), i), i))
        /\ asset_creators' =
              Put(asset_creators, l, upsert_asset_creators(asset_creators[l], i, SeqOf[i]))
        /\ asset_authority' =
              Put(asset_authority, l, upsert_asset_authority(asset_authority[l], i))
        /\ asset_grouping' =
              Put(asset_grouping, l, upsert_collection_info(asset_grouping[l], i, SeqOf[i]))

\* transfer, delegation_freezing_nontransferability and cancel_redeem make
\* the same three upserts.
transfer(i) ==
    /\ KindOf[i] = "transfer"
    /\ asset' = Put(asset, LeafOf[i], LeafOwnerSeq(asset[LeafOf[i]], i))
    /\ UNCHANGED <<asset_data, asset_grouping, asset_authority, asset_creators>>

delegate(i) ==
    /\ KindOf[i] = "delegate"
    /\ asset' = Put(asset, LeafOf[i], LeafOwnerSeq(asset[LeafOf[i]], i))
    /\ UNCHANGED <<asset_data, asset_grouping, asset_authority, asset_creators>>

cancel_redeem(i) ==
    /\ KindOf[i] = "cancel_redeem"
    /\ asset' = Put(asset, LeafOf[i], LeafOwnerSeq(asset[LeafOf[i]], i))
    /\ UNCHANGED <<asset_data, asset_grouping, asset_authority, asset_creators>>

redeem(i) ==
    /\ KindOf[i] = "redeem"
    /\ asset' = Put(asset, LeafOf[i], LeafSeq(asset[LeafOf[i]], i))
    /\ UNCHANGED <<asset_data, asset_grouping, asset_authority, asset_creators>>

burn(i) ==
    /\ KindOf[i] = "burn"
    /\ asset' = Put(asset, LeafOf[i],
                    upsert_asset_with_seq(set_burnt(asset[LeafOf[i]]), SeqOf[i]))
    /\ UNCHANGED <<asset_data, asset_grouping, asset_authority, asset_creators>>

update_metadata(i) ==
    LET l == LeafOf[i]
    IN  /\ KindOf[i] = "update_metadata"
        /\ asset_data' = Put(asset_data, l, upsert_asset_data(asset_data[l], i, SeqOf[i]))
        /\ asset' = Put(asset, l,
              LeafSeq(upsert_asset_base_info(asset[l], i, SeqOf[i]), i))
        /\ asset_creators' =
              Put(asset_creators, l, upsert_asset_creators(asset_creators[l], i, SeqOf[i]))
        /\ UNCHANGED <<asset_grouping, asset_authority>>

creator_verification(i) ==
    LET l == LeafOf[i]
    IN  /\ KindOf[i] = "creator_verification"
        /\ asset' = Put(asset, l, LeafOwnerSeq(asset[l], i))
        /\ asset_creators' =
              Put(asset_creators, l, upsert_asset_creators(asset_creators[l], i, SeqOf[i]))
        /\ UNCHANGED <<asset_data, asset_grouping, asset_authority>>

collection_verification(i) ==
    LET l == LeafOf[i]
    IN  /\ KindOf[i] = "collection_verification"
        /\ asset' = Put(asset, l, LeafSeq(asset[l], i))
        /\ asset_grouping' =
              Put(asset_grouping, l, upsert_collection_info(asset_grouping[l], i, SeqOf[i]))
        /\ UNCHANGED <<asset_data, asset_authority, asset_creators>>

Handle(i) ==
    \/ mint(i) \/ transfer(i) \/ delegate(i) \/ cancel_redeem(i) \/ redeem(i)
    \/ burn(i) \/ update_metadata(i) \/ creator_verification(i)
    \/ collection_verification(i)

Commit(w) ==
    /\ worker[w].pc = "commit"
    /\ Handle(worker[w].ix)
    /\ committed' = committed \cup {worker[w].ix}
    /\ worker' = [worker EXCEPT ![w] = Idle]
    /\ UNCHANGED changelog

-----------------------------------------------------------------------------
(* A decompressed asset is one whose row save_v1_asset has inserted: seq 0   *)
(* everywhere and no leaf (token_metadata/v1_asset.rs, asset_upserts.rs).   *)

SavedCell == [by |-> Saved, seq |-> 0]

SavedAsset == [NoAsset EXCEPT !.seq = 0, !.compression = Saved, !.base.by = Saved,
                              !.owner.by = Saved, !.slot_updated = SlotOf[Saved]]

SavedCreators ==
    [p \in Positions |-> IF p < CreatorCount[Saved] THEN SavedCell ELSE Unset]

Init ==
    /\ cl_items = [n \in Node |-> Null] /\ cl_audits = {} /\ backfill_items = {}
    /\ asset = [l \in Leaf |-> IF l \in Decompressed THEN SavedAsset ELSE NoAsset]
    /\ asset_data = [l \in Leaf |-> IF l \in Decompressed THEN SavedCell ELSE Unset]
    /\ asset_grouping = [l \in Leaf |-> IF l \in Decompressed THEN SavedCell ELSE Unset]
    /\ asset_authority = [l \in Leaf |-> IF l \in Decompressed THEN Saved ELSE Null]
    /\ asset_creators = [l \in Leaf |-> IF l \in Decompressed THEN SavedCreators
                                        ELSE NoCreators]
    /\ worker = [w \in Workers |-> Idle]
    /\ committed = {}

Step(w) ==
    \/ UpsertNode(w) \/ InsertAudit(w) \/ FindTree(w) \/ InsertBackfill(w) \/ Commit(w)

Next ==
    \E w \in Workers :
        \/ \E i \in Ix : Receive(w, i)
        \/ Step(w)
        \/ Fail(w)

Spec == Init /\ [][Next]_vars

-----------------------------------------------------------------------------
Cell(by, seqs) == [by : by \cup {Null}, seq : seqs \cup {Null}]

AssetType ==
    [seq : Nat \cup {Null}, leaf : [by : Ix, seq : Nat] \cup {Unset},
     owner : Cell(Ix \cup {Saved}, Nat), base : Cell(Ix \cup {Saved}, Nat),
     compression : Ix \cup {Saved, Null},
     burnt : BOOLEAN, slot_updated : Nat \cup {Null}]

WorkerType ==
    [ix : Ix, pc : {"path", "audit", "find", "insert", "commit"}, node : Nat,
     force_chk : BOOLEAN]

TypeOK ==
    /\ cl_items \in [Node -> Nat \cup {Null}]
    /\ cl_audits \subseteq Ix
    /\ backfill_items \subseteq [seq : Nat, force_chk : BOOLEAN]
    /\ asset \in [Leaf -> AssetType]
    /\ asset_data \in [Leaf -> Cell(Ix \cup {Saved}, Nat)]
    /\ asset_grouping \in [Leaf -> Cell(Ix \cup {Saved}, Nat)]
    /\ asset_authority \in [Leaf -> Ix \cup {Saved, Null}]
    /\ asset_creators \in [Leaf -> [Positions -> Cell(Ix \cup {Saved}, Nat)]]
    /\ worker \in [Workers -> WorkerType \cup {Idle}]
    /\ \A w \in Workers : worker[w].pc = "path" =>
          worker[w].node \in 1..Len(PathOf[LeafOf[worker[w].ix]])
    /\ committed \subseteq Ix

\* The committed instructions on a leaf that carry a group of columns.
Writers(l, g) == {i \in committed : LeafOf[i] = l /\ g \in Carries[KindOf[i]]}

Newest(cell, S) ==
    IF S = {} THEN cell = Unset
    ELSE cell.by \in S /\ cell.seq = SeqOf[cell.by] /\ \A i \in S : SeqOf[i] <= cell.seq

\* In whatever order and however often instructions are handled, each group
\* of columns of a compressed asset holds what the newest instruction that
\* carries it said, and asset.seq is the newest of all (the WHERE clauses of
\* bubblegum/db.rs: "Do not overwrite changes from a later Bubblegum
\* instruction").
NewestWins ==
    \A l \in Leaf \ Decompressed :
        /\ Newest(asset[l].leaf, Writers(l, "leaf"))
        /\ Newest(asset[l].owner, Writers(l, "owner"))
        /\ Newest(asset[l].base, Writers(l, "base"))
        /\ Newest(asset_data[l], Writers(l, "data"))
        /\ Newest(asset_grouping[l], Writers(l, "collection"))
        /\ \A i \in committed : LeafOf[i] = l =>
              asset[l].seq # Null /\ SeqOf[i] <= asset[l].seq

\* The creators that get_by_id returns are exactly those of the newest
\* instruction that carries creators, whatever longer or shorter lists came
\* before or come late (upsert_asset_creators, filter_out_stale_creators).
CreatorsAreNewest ==
    \A l \in Leaf :
        LET kept == filter_out_stale_creators(asset_creators[l])
            listed(by) == /\ kept = 0..(CreatorCount[by] - 1)
                          /\ \A p \in kept : asset_creators[l][p].by = by
        IN  IF l \in Decompressed THEN listed(Saved)
            ELSE IF Writers(l, "creators") = {} THEN kept = {}
            ELSE \E by \in Writers(l, "creators") :
                    /\ \A i \in Writers(l, "creators") : SeqOf[i] <= SeqOf[by]
                    /\ listed(by)

\* Nothing that arrives late touches a decompressed asset (db.rs: "Do not
\* overwrite changes that happened after decompression (asset.seq = 0)").
DecompressionIsFinal ==
    \A l \in Decompressed :
        /\ asset[l] = SavedAsset
        /\ asset_data[l] = SavedCell /\ asset_grouping[l] = SavedCell
        /\ asset_authority[l] = Saved

\* An asset's leaf is never newer than the tree that proves it: the nodes of
\* its path are at least as new (save_changelog_event comes first).
LeafHasProof ==
    \A l \in Leaf : asset[l].leaf # Unset =>
        \A k \in 1..Len(PathOf[l]) :
            LET seq == cl_items[PathOf[l][k]]
            IN  seq # Null /\ seq >= asset[l].leaf.seq

\* A row in backfill_items says that the whole path of that change is in
\* cl_items; the backfiller takes a missing row for a change to fetch again
\* (insert_change_log: "If and only if the entire path of nodes was inserted").
BackfillRowHasPath ==
    \A r \in backfill_items : \E i \in Ix :
        /\ SeqOf[i] = r.seq
        /\ \A k \in 1..Len(PathOf[LeafOf[i]]) :
              LET seq == cl_items[PathOf[LeafOf[i]][k]]
              IN  seq # Null /\ seq >= r.seq

\* A tree that was first seen in the middle is marked for a check from its
\* start, whichever worker sees it first (force_chk).
MissingStartIsForced ==
    backfill_items # {} => \E r \in backfill_items : r.force_chk \/ r.seq = 1

\* What backfill_items tells the backfiller is true: the changes it has a row of are in the
\* tree, and a start that nobody saw is asked for (insert_change_log).
BackfillIsAccountedFor == BackfillRowHasPath /\ MissingStartIsForced
=============================================================================
