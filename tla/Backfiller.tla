----------------------------- MODULE Backfiller -----------------------------
(***************************************************************************)
(* The backfiller of nft_ingester (backfiller.rs) for one tree: the finder   *)
(* that notices a tree nobody has indexed, the filler that locks a tree,     *)
(* looks for gaps in the sequence numbers of its backfill_items rows, sends  *)
(* the transactions of the gaps to the backfill stream and cleans the rows   *)
(* up, statement by statement, while the ingester keeps inserting rows.      *)
(* The filler takes its trees one after the other, and every statement is    *)
(* about one tree.  A row's slot is a function of its sequence number.       *)
(***************************************************************************)
EXTENDS Integers, Sequences, FiniteSets, FiniteSetsExt, Bags

CONSTANTS
    MaxTip,       \* bound on the tree's transactions in any environment
    SlotOf,       \* [0..MaxTip -> Nat]: the slot of each; SlotOf[0] is the creation's
    Chunk,        \* 500_000, the longest range of getBlocks
    NumTries,     \* NUM_TRIES
    MaxFound,     \* bound on the rows of the finder
    Environments  \* the circumstances a behaviour may have: [faults, window, tip, rows],
                  \* the kinds of fault, the steps of the filler between which the
                  \* ingester inserts rows, bounds on the transactions and on the rows

\* getBlocks fails, getBlock fails now and then, or so often that the filler gives up,
\* the database fails in the clean-up, or when the tree is marked as failed, the
\* process dies.
Kinds == {"getBlocks", "getBlock", "outage", "db", "marking", "crash"}

Pcs == {"idle", "read", "plug", "delete", "dedup", "mark", "clear", "unlock", "failed"}

ASSUME BackfillAssumption ==
    /\ MaxTip \in Nat /\ SlotOf \in [0..MaxTip -> Nat]
    /\ \A s, t \in 0..MaxTip : s <= t => SlotOf[s] <= SlotOf[t]
    /\ Chunk \in Nat \ {0} /\ NumTries \in Nat \ {0}
    /\ \A e \in Environments : /\ e.faults \subseteq Kinds
                               /\ e.window \subseteq Pcs /\ e.tip \in 0..MaxTip

VARIABLES
    env,        \* what may happen in this behaviour
    tip,        \* transactions of the tree on the chain
    stream,     \* sequence numbers on their way to the ingester
    indexed,    \* the ones it has handled: cl_items
    rows,       \* backfill_items of this tree, a bag: rows differ by id only
    finder,     \* TRUE: the finder has found the tree missing
    filler

treeVars == <<env, tip, stream, indexed, rows, finder, filler>>

Row(s, f) == [seq |-> s, force |-> f, backfilled |-> FALSE, failed |-> FALSE, locked |-> FALSE]

Idle == [pc |-> "idle", todo |-> <<>>, tries |-> 1, gaps |-> {}, max |-> 0]

Keep(S) == [r \in BagToSet(rows) \cap S |-> rows[r]]

\* An UPDATE of every row of the tree.
Update(F(_)) == BagOfAll(F, rows)

Goto(pc) == filler' = [filler EXCEPT !.pc = pc]

-----------------------------------------------------------------------------
(* The chain, the streams and insert_change_log *)

\* A transaction of the tree, which the stream brings or misses.
Transact ==
    /\ tip < env.tip
    /\ tip' = tip + 1
    /\ stream' \in {stream, stream \cup {tip + 1}}
    /\ UNCHANGED <<env, indexed, rows, finder, filler>>

\* A row is inserted whatever is there; it is forced when it is the first one and
\* not the tree's first transaction.
Insert(s) ==
    /\ s \in stream /\ filler.pc \in env.window /\ BagCardinality(rows) < env.rows
    /\ rows' = rows (+) SetToBag({Row(s, rows = EmptyBag /\ s > 1)})
    /\ stream' = stream \ {s}
    /\ indexed' = indexed \cup {s}
    /\ UNCHANGED <<env, tip, finder, filler>>

-----------------------------------------------------------------------------
(* The finder *)

\* get_missing_trees: on the chain, not failed or locked, not in cl_items.
Find ==
    /\ ~finder /\ tip > 0 /\ indexed = {}
    /\ \A r \in BagToSet(rows) : ~r.failed /\ ~r.locked
    /\ finder' = TRUE
    /\ UNCHANGED <<env, tip, stream, indexed, rows, filler>>

\* force_backfill_missing_trees: a second row when the first was not locked yet.
force_backfill ==
    /\ finder /\ filler.pc \in env.window /\ BagCardinality(rows) < env.rows
    /\ BagCardinality(Keep({r \in BagToSet(rows) : r.seq = 0})) < MaxFound
    /\ rows' = rows (+) SetToBag({Row(0, TRUE)})
    /\ finder' = FALSE
    /\ UNCHANGED <<env, tip, stream, indexed, filler>>

-----------------------------------------------------------------------------
(* The filler *)

\* get_trees_to_backfill: a forced tree is listed once for each slot of its forced
\* rows; a tree with several rows is listed once.  All its rows are locked.
get_trees_to_backfill ==
    /\ filler.pc = "idle"
    /\ LET free == {r \in BagToSet(rows) : ~r.failed /\ ~r.locked}
           forced == {SlotOf[r.seq] : r \in {q \in free : q.force}}
           todo == IF forced # {} THEN [i \in 1..Cardinality(forced) |-> "force"]
                   ELSE IF \E r, q \in free : r # q \/ rows[r] > 1 THEN <<"gaps">> ELSE <<>> IN
       /\ todo # <<>>
       /\ filler' = [Idle EXCEPT !.pc = "read", !.todo = todo]
    /\ rows' = Update(LAMBDA r : [r EXCEPT !.locked = TRUE])
    /\ UNCHANGED <<env, tip, stream, indexed, finder>>

\* Mutant: the walk starts above the backfilled row.
GapsAbove(S, start) ==
    {g \in S \X S : start < g[1] /\ g[2] - g[1] > 1 /\ \A m \in S : m <= g[1] \/ m >= g[2]}

\* Neighbouring rows, from the backfilled one up, whose numbers are not adjacent.
Gaps(S, start) ==
    {g \in S \X S : start <= g[1] /\ g[2] - g[1] > 1 /\ \A m \in S : m <= g[1] \/ m >= g[2]}

\* get_missing_data, or the address's whole history when the tree is forced.
get_missing_data ==
    /\ filler.pc = "read"
    /\ LET done == {r.seq : r \in {q \in BagToSet(rows) : q.backfilled}}
           start == IF done = {} THEN 0 ELSE Max(done)
           seqs == {r.seq : r \in BagToSet(rows)} IN
       filler' =
          IF Head(filler.todo) = "force"
          THEN [filler EXCEPT !.pc = "plug", !.max = 0, !.gaps = {<<s, s>> : s \in 1..tip}]
          ELSE IF seqs = {} THEN [filler EXCEPT !.pc = "failed"]
          ELSE [filler EXCEPT !.pc = "plug", !.max = Max(seqs), !.gaps = Gaps(seqs, start)]
    /\ UNCHANGED <<env, tip, stream, indexed, rows, finder>>

\* The last slot that plug_gap asks for: the number of ranges is rounded.
LastSlot(gap) ==
    LET from == SlotOf[gap[1]]
        diff == SlotOf[gap[2]] - from
        num_iter == Max({1, (diff + Chunk \div 2) \div Chunk}) IN
    Min({from + num_iter * Chunk, SlotOf[gap[2]]})

\* The transactions of the blocks that plug_gap reads, both ends included.
Replayed(gap) ==
    {s \in 1..tip : SlotOf[gap[1]] <= SlotOf[s] /\ SlotOf[s] <= LastSlot(gap)}

\* Every gap is sent to the backfill stream; a getBlocks that fails is dropped
\* and its transactions with it.
plug_gap ==
    /\ filler.pc = "plug"
    /\ \E dropped \in IF "getBlocks" \in env.faults THEN SUBSET filler.gaps ELSE {{}} :
          stream' = stream \cup UNION {Replayed(g) : g \in filler.gaps \ dropped}
    /\ Goto("delete")
    /\ UNCHANGED <<env, tip, indexed, rows, finder>>

\* A block cannot be fetched: try again, or mark the tree as failed.
PlugFails ==
    /\ filler.pc \in {"read", "plug"} /\ "getBlock" \in env.faults
    /\ filler.tries = NumTries => "outage" \in env.faults
    /\ \E done \in SUBSET filler.gaps :
          stream' = stream \cup UNION {Replayed(g) : g \in done}
    /\ filler' = IF filler.tries = NumTries THEN [filler EXCEPT !.pc = "failed"]
                 ELSE [filler EXCEPT !.pc = "read", !.tries = @ + 1, !.gaps = {}]
    /\ UNCHANGED <<env, tip, indexed, rows, finder>>

\* Mutant: rows that were backfilled before are kept.
DeleteFresh ==
    /\ filler.pc = "delete"
    /\ rows' = Keep({r \in BagToSet(rows) : r.seq = filler.max \/ r.backfilled})
    /\ Goto("dedup")
    /\ UNCHANGED <<env, tip, stream, indexed, finder>>

\* delete_extra_rows_and_mark_as_backfilled, one statement after the other.
DeleteExtra ==
    /\ filler.pc = "delete"
    /\ rows' = Keep({r \in BagToSet(rows) : r.seq = filler.max})
    /\ Goto("dedup")
    /\ UNCHANGED <<env, tip, stream, indexed, finder>>

\* All but one of the rows that have another number than the maximum.
Dedup ==
    /\ filler.pc = "dedup"
    /\ LET extra == Keep({r \in BagToSet(rows) : r.seq # filler.max}) IN
       rows' \in IF BagCardinality(extra) <= 1 THEN {rows}
                 ELSE {(rows (-) extra) (+) SetToBag({r}) : r \in BagToSet(extra)}
    /\ Goto("mark")
    /\ UNCHANGED <<env, tip, stream, indexed, finder>>

mark_tree_as_backfilled ==
    /\ filler.pc = "mark"
    /\ rows' = Update(LAMBDA r : [r EXCEPT !.backfilled = TRUE])
    /\ Goto("clear")
    /\ UNCHANGED <<env, tip, stream, indexed, finder>>

clear_force_chk_flag ==
    /\ filler.pc = "clear"
    /\ rows' = Update(LAMBDA r : [r EXCEPT !.force = FALSE])
    /\ Goto("unlock")
    /\ UNCHANGED <<env, tip, stream, indexed, finder>>

\* The next entry of the list, or the next tick.
NextTree == filler' = IF Len(filler.todo) > 1
                      THEN [Idle EXCEPT !.pc = "read", !.todo = Tail(filler.todo)] ELSE Idle

\* Mutant: the rows that were there when the tree was locked stay locked.
UnlockForgotten ==
    /\ filler.pc = "unlock"
    /\ NextTree
    /\ UNCHANGED <<env, tip, stream, indexed, rows, finder>>

unlock_tree ==
    /\ filler.pc = "unlock"
    /\ rows' = Update(LAMBDA r : [r EXCEPT !.locked = FALSE])
    /\ NextTree
    /\ UNCHANGED <<env, tip, stream, indexed, finder>>

CleanUpFails ==
    /\ filler.pc \in {"delete", "dedup", "mark", "clear", "unlock"} /\ "db" \in env.faults
    /\ Goto("failed")
    /\ UNCHANGED <<env, tip, stream, indexed, rows, finder>>

\* The rows stay locked.
mark_tree_as_failed ==
    /\ filler.pc = "failed"
    /\ rows' = Update(LAMBDA r : [r EXCEPT !.failed = TRUE])
    /\ NextTree
    /\ UNCHANGED <<env, tip, stream, indexed, finder>>

\* That fails too, which is only logged.
MarkingFails ==
    /\ filler.pc = "failed" /\ "marking" \in env.faults
    /\ NextTree
    /\ UNCHANGED <<env, tip, stream, indexed, rows, finder>>

FillerCrash ==
    /\ "crash" \in env.faults /\ filler.pc # "idle"
    /\ filler' = Idle /\ finder' = FALSE
    /\ UNCHANGED <<env, tip, stream, indexed, rows>>

-----------------------------------------------------------------------------
TreeInit ==
    /\ env \in Environments
    /\ tip = 0 /\ stream = {} /\ indexed = {}
    /\ rows = EmptyBag /\ finder = FALSE /\ filler = Idle

Fill ==
    \/ get_trees_to_backfill \/ get_missing_data \/ plug_gap \/ PlugFails
    \/ DeleteExtra \/ Dedup \/ mark_tree_as_backfilled \/ clear_force_chk_flag
    \/ unlock_tree \/ CleanUpFails \/ mark_tree_as_failed \/ MarkingFails

TreeNext ==
    \/ Transact \/ (\E s \in stream : Insert(s))
    \/ Find \/ force_backfill \/ Fill \/ FillerCrash

TreeSpec == TreeInit /\ [][TreeNext]_treeVars

\* Finder and filler are loops over an interval; the ingester keeps reading its
\* streams whatever the filler is doing, so a row that may be inserted again and
\* again is inserted.
TreeFairness ==
    /\ WF_treeVars(Fill) /\ WF_treeVars(Find) /\ SF_treeVars(force_backfill)
    /\ \A s \in 1..MaxTip : SF_treeVars(Insert(s))

TreeFairSpec == TreeSpec /\ TreeFairness

-----------------------------------------------------------------------------
TreeTypeOK ==
    /\ env \in Environments
    /\ tip \in 0..MaxTip /\ stream \subseteq 1..tip /\ indexed \subseteq 1..tip
    /\ BagToSet(rows) \subseteq [seq : 0..tip, force : BOOLEAN, backfilled : BOOLEAN,
                                 failed : BOOLEAN, locked : BOOLEAN]
    /\ filler \in [pc : Pcs, todo : Seq({"force", "gaps"}), tries : 1..NumTries,
                   gaps : SUBSET ((0..tip) \X (0..tip)), max : 0..tip]

\* The ingester inserts nothing while the filler cleans up.
Apart == env.window \subseteq {"idle", "read", "plug", "delete"}

\* No gap is cut short.
RangesReach ==
    \A p, q \in 0..MaxTip : p <= q => LastSlot(<<p, q>>) = SlotOf[q]

\* The next pass starts at the highest backfilled row, so everything up to it has
\* been handled or is on its way ("Mark remaining row as backfilled so future
\* backfilling can start above this sequence number").  That needs five things
\* which the code does not see to: no getBlocks fails, the last try of a pass does not
\* fail (later rows would let the tree start above a history that was never replayed),
\* the process does not die in a pass, no row comes in between the statements of the
\* clean-up, and the ranges of getBlocks, whose number is rounded, reach to the end of
\* every gap.
BackfilledIsComplete ==
    Apart /\ RangesReach /\ env.faults \cap {"getBlocks", "outage", "crash"} = {} =>
        \A r \in BagToSet(rows) : r.backfilled => 1..r.seq \subseteq indexed \cup stream

\* Whatever fails and wherever the process dies, the backfilled rows of the tree
\* agree on the number from which the next pass starts (get_missing_data takes the
\* highest, delete_extra_rows_and_mark_as_backfilled leaves one number).
OneStartingPoint ==
    Apart => \A r, q \in BagToSet(rows) : r.backfilled /\ q.backfilled => r.seq = q.seq

\* No row comes in between get_missing_data and the end of the clean-up.
Undisturbed == env.window \subseteq {"idle", "read"}

\* A transaction that was missed below one that was handled is handled at last: by
\* the gap between two rows, or by a forced pass over the whole history.  That needs
\* two things which the code does not see to: nothing fails, and no row is inserted
\* after get_missing_data has read the rows and before the clean-up is over.  Such a
\* row is deleted with the others that are not the maximum
\* (delete_extra_rows_and_mark_as_backfilled), or marked as backfilled with it, and
\* what was missed below it is never looked for.
GapIsFilled ==
    \A s \in 1..MaxTip :
        (env.faults = {} /\ Undisturbed /\ s <= tip /\ \E i \in indexed : s < i)
            ~> s \in indexed

\* A locked tree is unlocked or marked as failed, so that no tree is left out of every
\* later pass unnoticed (run_filler, clean_up_backfilled_tree), whichever statement of
\* the pass fails.  Two cases are excepted, in which the rows stay locked and are not
\* failed: the process dies in a pass, and mark_tree_as_failed itself fails, which its
\* three callers only log.
TreeIsReleased ==
    (env.faults \cap {"crash", "marking"} = {} /\ \E r \in BagToSet(rows) : r.locked)
        ~> \A r \in BagToSet(rows) : r.locked => r.failed
=============================================================================
