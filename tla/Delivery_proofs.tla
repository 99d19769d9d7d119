-------------------------- MODULE Delivery_proofs --------------------------
(***************************************************************************)
(* Proofs about how nft_ingester and the tools of ops keep track of what    *)
(* was delivered, for all values of the constants: the acknowledgements of  *)
(* the stream consumers (MessageWorkers), the connections of the pool       *)
(* through which the tools push (QueuePool) and the rows from which the     *)
(* backfiller decides what is missing (Backfiller).                         *)
(***************************************************************************)
EXTENDS MessageWorkers, QueuePool, Backfiller, FiniteSetTheorems, WellFoundedInduction, TLAPS

-----------------------------------------------------------------------------
(* The stream consumers *)

\* The inductive invariant.
StreamInv == StreamTypeOK /\ AckedWasHandled

\* Nothing has been sent.
LEMMA InitStream == StreamInit => StreamInv
BY StreamAssumption DEF StreamInit, StreamInv, StreamTypeOK, AckedWasHandled

\* A result that is acknowledged is one that a retry would not change.
LEMMA CapturedIsFinal ==
    ASSUME NEW res, capture_result(res) PROVE res \notin Retryable
BY DEF capture_result, Retryable

\* Every step of messenger, workers and ack worker keeps it.
LEMMA StreamStep == StreamInv /\ [StreamNext]_streamVars => StreamInv'
<1> SUFFICES ASSUME StreamInv, [StreamNext]_streamVars PROVE StreamInv'
  OBVIOUS
<1> USE StreamAssumption
<1>0. StreamTypeOK /\ AckedWasHandled
  BY DEF StreamInv
<1>1. CASE \E m \in Messages : Publish(m)
  BY <1>0, <1>1 DEF Publish, StreamInv, StreamTypeOK, AckedWasHandled
<1>2. CASE \E m \in Messages : Collect(m)
  BY <1>0, <1>2 DEF Collect, StreamInv, StreamTypeOK, AckedWasHandled
<1>3. CASE \E w \in NewWorkers : RecvNew(w)
  <2>1. PICK w \in NewWorkers, S \in SUBSET Messages :
          /\ status' = [m \in Messages |-> IF m \in S THEN "pending" ELSE status[m]]
          /\ tasks' = [tasks EXCEPT ![w] = S]
          /\ UNCHANGED <<tries, channel, acks, handled, crashes, ackErrors, up>>
    BY <1>3 DEF RecvNew, Batches
  <2>2. StreamTypeOK'
    BY <1>0, <2>1 DEF StreamTypeOK, Workers
  <2>3. AckedWasHandled'
    BY <1>0, <2>1 DEF AckedWasHandled, StreamTypeOK
  <2> QED  BY <2>2, <2>3 DEF StreamInv
<1>4. CASE RecvAgain
  <2>1. PICK S \in SUBSET {m \in Messages : status[m] = "pending"} :
          LET over == {m \in S : tries[m] = MaxTries} IN
          /\ status' = [m \in Messages |-> IF m \in over THEN "dropped" ELSE status[m]]
          /\ tries' = [m \in Messages |-> IF m \in S \ over THEN tries[m] + 1 ELSE tries[m]]
          /\ tasks' = [tasks EXCEPT ![Redeliverer] = S \ over]
          /\ UNCHANGED <<channel, acks, handled, crashes, ackErrors, up>>
    BY <1>4 DEF RecvAgain, Batches
  <2>2. StreamTypeOK'
    <3>1. /\ status' \in [Messages -> {"unsent", "new", "pending", "acked", "dropped"}]
          /\ tasks' \in [Workers -> SUBSET Messages]
      BY <1>0, <2>1 DEF StreamTypeOK, Workers
    <3>2. \A m \in Messages : tries[m] # MaxTries => tries[m] + 1 \in 0..MaxTries
      BY <1>0 DEF StreamTypeOK
    <3>3. tries' \in [Messages -> 0..MaxTries]
      BY <1>0, <2>1, <3>2 DEF StreamTypeOK
    <3> QED  BY <1>0, <2>1, <3>1, <3>3 DEF StreamTypeOK
  <2>3. AckedWasHandled'
    BY <1>0, <2>1 DEF AckedWasHandled, StreamTypeOK
  <2> QED  BY <2>2, <2>3 DEF StreamInv
<1>5. CASE Ack
  BY <1>0, <1>5 DEF Ack, StreamInv, StreamTypeOK, AckedWasHandled
<1>6. CASE AckFails
  BY <1>0, <1>6 DEF AckFails, StreamInv, StreamTypeOK, AckedWasHandled
<1>7. CASE IngesterCrash
  BY <1>0, <1>7 DEF IngesterCrash, StreamInv, StreamTypeOK, AckedWasHandled
<1>8. CASE \E w \in Workers : JoinAny(w)
  <2>1. PICK w \in Workers, m \in Messages, res \in Results : Join(w, m, res)
    BY <1>8 DEF JoinAny
  <2>2. /\ UNCHANGED <<status, tries, acks, crashes, ackErrors, up>>
        /\ tasks' = [tasks EXCEPT ![w] = tasks[w] \ {m}]
        /\ handled \subseteq handled' /\ handled' \subseteq handled \cup {m}
        /\ channel' = channel \/ (channel' = channel \cup {m} /\ m \in handled')
    BY <2>1, CapturedIsFinal DEF Join
  <2>3. StreamTypeOK'
    BY <1>0, <2>2 DEF StreamTypeOK
  <2>4. AckedWasHandled'
    BY <1>0, <2>2 DEF AckedWasHandled
  <2> QED  BY <2>3, <2>4 DEF StreamInv
<1>9. CASE UNCHANGED streamVars
  BY <1>0, <1>9 DEF streamVars, StreamInv, StreamTypeOK, AckedWasHandled
<1> QED  BY <1>1, <1>2, <1>3, <1>4, <1>5, <1>6, <1>7, <1>8, <1>9 DEF StreamNext

\* The variables of the consumers keep their types.
THEOREM StreamTypeCorrect == StreamSpec => []StreamTypeOK
<1>1. StreamInv => StreamTypeOK
  BY DEF StreamInv
<1> QED  BY <1>1, InitStream, StreamStep, PTL DEF StreamSpec

\* A message leaves the stream through an acknowledgement only if some execution ended
\* in a result that a retry would not change, for any number of workers, redeliveries,
\* crashes and lost acknowledgements (capture_result, ack_worker).
THEOREM OnlyHandledIsAcked == StreamSpec => []AckedWasHandled
<1>1. StreamInv => AckedWasHandled
  BY DEF StreamInv
<1> QED  BY <1>1, InitStream, StreamStep, PTL DEF StreamSpec

-----------------------------------------------------------------------------
(* The pool of connections *)

Senders == {p \in Pushers : call[p].pc = "send"}

\* Only the holder of the mutex receives and sends.
HolderOnly == \A p \in Pushers : call[p].pc \in {"recv", "send"} <=> holder = p

\* The inductive invariant: the connection of the one sender is the one that is missing.
PoolInv ==
    /\ PoolTypeOK /\ HolderOnly
    /\ idle + failures + (IF Senders = {} THEN 0 ELSE 1) = Connections

\* All connections are in the channel.
LEMMA InitPool == PoolInit => PoolInv
BY PoolAssumption DEF PoolInit, PoolInv, PoolTypeOK, HolderOnly, Senders, NoCall

\* Every step of a pusher keeps it.
LEMMA PoolStep == PoolInv /\ [PoolNext]_poolVars => PoolInv'
<1> SUFFICES ASSUME PoolInv, [PoolNext]_poolVars PROVE PoolInv'
  OBVIOUS
<1> USE PoolAssumption
<1> DEFINE Call == {NoCall} \cup [pc : {"lock", "recv", "send"}, stream : Streams]
<1>0. /\ idle \in 0..Connections /\ holder \in Pushers \cup {None} /\ failures \in 0..MaxFailures
      /\ call \in [Pushers -> Call] /\ HolderOnly
      /\ idle + failures + (IF Senders = {} THEN 0 ELSE 1) = Connections
  BY DEF PoolInv, PoolTypeOK
<1>1. ASSUME NEW p \in Pushers, Push(p) PROVE PoolInv'
  <2>1. PICK s \in Streams : call' = [call EXCEPT ![p] = [pc |-> "lock", stream |-> s]]
    BY <1>1 DEF Push
  <2>2. /\ call' \in [Pushers -> Call] /\ call'[p].pc = "lock" /\ call[p].pc = "none"
        /\ \A q \in Pushers \ {p} : call'[q] = call[q]
        /\ UNCHANGED <<idle, holder, failures>>
    BY <1>0, <1>1, <2>1 DEF Push
  <2>3. HolderOnly' /\ Senders' = Senders
    BY <1>0, <2>2 DEF HolderOnly, Senders
  <2> QED  BY <1>0, <2>2, <2>3 DEF PoolInv, PoolTypeOK
<1>2. ASSUME NEW p \in Pushers, Lock(p) PROVE PoolInv'
  <2>1. /\ call' \in [Pushers -> Call] /\ call'[p].pc = "recv" /\ call[p].pc = "lock"
        /\ \A q \in Pushers \ {p} : call'[q] = call[q]
        /\ holder = None /\ holder' = p /\ UNCHANGED <<idle, failures>>
    BY <1>0, <1>2 DEF Lock, NoCall
  <2>2. HolderOnly' /\ Senders' = Senders
    BY <1>0, <2>1 DEF HolderOnly, Senders
  <2> QED  BY <1>0, <2>1, <2>2 DEF PoolInv, PoolTypeOK
<1>3. ASSUME NEW p \in Pushers, Recv(p) PROVE PoolInv'
  <2>1. /\ call' \in [Pushers -> Call] /\ call'[p].pc = "send" /\ call[p].pc = "recv"
        /\ \A q \in Pushers \ {p} : call'[q] = call[q]
        /\ idle > 0 /\ idle' = idle - 1 /\ UNCHANGED <<holder, failures>>
    BY <1>0, <1>3 DEF Recv, NoCall
  <2>2. HolderOnly' /\ Senders = {} /\ Senders' = {p}
    BY <1>0, <2>1 DEF HolderOnly, Senders
  <2> QED  BY <1>0, <2>1, <2>2 DEF PoolInv, PoolTypeOK
<1>4. ASSUME NEW p \in Pushers, call[p].pc = "send", holder' = None,
             call' = [call EXCEPT ![p] = NoCall]
      PROVE  /\ call' \in [Pushers -> Call] /\ HolderOnly'
             /\ Senders = {p} /\ Senders' = {} /\ idle + failures + 1 = Connections
  <2>1. /\ call' \in [Pushers -> Call] /\ call'[p].pc = "none"
        /\ \A q \in Pushers \ {p} : call'[q] = call[q]
    BY <1>0, <1>4 DEF NoCall
  <2>2. HolderOnly' /\ Senders = {p} /\ Senders' = {}
    BY <1>0, <1>4, <2>1 DEF HolderOnly, Senders
  <2> QED  BY <1>0, <2>1, <2>2
<1>5. ASSUME NEW p \in Pushers, Send(p) PROVE PoolInv'
  <2>1. /\ call[p].pc = "send" /\ holder' = None /\ call' = [call EXCEPT ![p] = NoCall]
        /\ idle' = idle + 1 /\ failures' = failures
    BY <1>5 DEF Send
  <2>2. /\ call' \in [Pushers -> Call] /\ HolderOnly'
        /\ Senders' = {} /\ idle + failures + 1 = Connections
    BY <1>4, <2>1
  <2> QED  BY <1>0, <2>1, <2>2 DEF PoolInv, PoolTypeOK
<1>6. ASSUME NEW p \in Pushers, SendFails(p) PROVE PoolInv'
  <2>1. /\ call[p].pc = "send" /\ holder' = None /\ call' = [call EXCEPT ![p] = NoCall]
        /\ idle' = idle /\ failures < MaxFailures /\ failures' = failures + 1
    BY <1>6 DEF SendFails
  <2>2. /\ call' \in [Pushers -> Call] /\ HolderOnly'
        /\ Senders' = {} /\ idle + failures + 1 = Connections
    BY <1>4, <2>1
  <2> QED  BY <1>0, <2>1, <2>2 DEF PoolInv, PoolTypeOK
<1>7. CASE UNCHANGED poolVars
  BY <1>0, <1>7 DEF poolVars, PoolInv, PoolTypeOK, HolderOnly, Senders
<1> QED  BY <1>1, <1>2, <1>3, <1>5, <1>6, <1>7 DEF PoolNext, Step

\* At most one pusher sends.
LEMMA OneSender ==
    ASSUME HolderOnly
    PROVE  Cardinality(Senders) = IF Senders = {} THEN 0 ELSE 1
<1>1. CASE Senders = {}
  BY <1>1, FS_EmptySet
<1>2. CASE Senders # {}
  <2>1. PICK p : p \in Senders
    BY <1>2
  <2>2. Senders = {p}
    BY <2>1 DEF HolderOnly, Senders
  <2> QED  BY <2>2, FS_Singleton
<1> QED  BY <1>1, <1>2

\* The variables of the pool keep their types.
THEOREM PoolTypeCorrect == PoolSpec => []PoolTypeOK
<1>1. PoolInv => PoolTypeOK
  BY DEF PoolInv
<1> QED  BY <1>1, InitPool, PoolStep, PTL DEF PoolSpec

\* For any number of pushers and connections, the mutex keeps the pushers apart and every
\* connection is in the channel, with the one pusher that sends, or was dropped with a
\* failed send (PlerkleMessengerQueue's push).
THEOREM NoConnectionLeaks == PoolSpec => []ConnectionsAccountedFor
<1>1. PoolInv => ConnectionsAccountedFor
  <2> SUFFICES ASSUME PoolInv PROVE ConnectionsAccountedFor
    OBVIOUS
  <2>1. /\ HolderOnly /\ idle \in Nat /\ failures \in Nat
        /\ idle + failures + (IF Senders = {} THEN 0 ELSE 1) = Connections
    BY PoolAssumption DEF PoolInv, PoolTypeOK
  <2>2. idle + Cardinality(Senders) + failures = Connections
    BY <2>1, OneSender
  <2> QED  BY <2>1, <2>2 DEF ConnectionsAccountedFor, HolderOnly, Senders
<1> QED  BY <1>1, InitPool, PoolStep, PTL DEF PoolSpec


-----------------------------------------------------------------------------
(* The rows of a tree: what each statement does to them *)

R == BagToSet(rows)

\* The rows are a function from the different rows to how often each is there.
RowsBag == rows = [r \in R |-> rows[r]]

RowType(n) ==
    [seq : 0..n, force : BOOLEAN, backfilled : BOOLEAN, failed : BOOLEAN, locked : BOOLEAN]

\* An INSERT.
LEMMA InsertedRow ==
    ASSUME NEW x, rows' = rows (+) SetToBag({x})
    PROVE  R' = R \cup {x} /\ RowsBag'
BY Zenon DEF R, RowsBag, BagToSet, SetToBag, (+)

\* A DELETE.
LEMMA KeptRows ==
    ASSUME NEW S, rows' = Keep(S)
    PROVE  R' = R \cap S /\ RowsBag'
BY Zenon DEF R, RowsBag, BagToSet, Keep

\* The UPDATEs.
LEMMA LockedRows ==
    ASSUME rows' = Update(LAMBDA r : [r EXCEPT !.locked = TRUE])
    PROVE  R' = {[r EXCEPT !.locked = TRUE] : r \in R} /\ RowsBag'
BY DEF R, RowsBag, BagToSet, Update, BagOfAll

LEMMA UnlockedRows ==
    ASSUME rows' = Update(LAMBDA r : [r EXCEPT !.locked = FALSE])
    PROVE  R' = {[r EXCEPT !.locked = FALSE] : r \in R} /\ RowsBag'
BY DEF R, RowsBag, BagToSet, Update, BagOfAll

LEMMA MarkedRows ==
    ASSUME rows' = Update(LAMBDA r : [r EXCEPT !.backfilled = TRUE])
    PROVE  R' = {[r EXCEPT !.backfilled = TRUE] : r \in R} /\ RowsBag'
BY DEF R, RowsBag, BagToSet, Update, BagOfAll

LEMMA ClearedRows ==
    ASSUME rows' = Update(LAMBDA r : [r EXCEPT !.force = FALSE])
    PROVE  R' = {[r EXCEPT !.force = FALSE] : r \in R} /\ RowsBag'
BY DEF R, RowsBag, BagToSet, Update, BagOfAll

LEMMA FailedRows ==
    ASSUME rows' = Update(LAMBDA r : [r EXCEPT !.failed = TRUE])
    PROVE  R' = {[r EXCEPT !.failed = TRUE] : r \in R} /\ RowsBag'
BY DEF R, RowsBag, BagToSet, Update, BagOfAll

\* The second DELETE leaves rows of the tree, and all of them when there is no row to
\* delete.
LEMMA DedupedRows ==
    ASSUME RowsBag, Dedup
    PROVE  /\ R' \subseteq R /\ RowsBag'
           /\ (\A r \in R : r.seq = filler.max) => R' = R
<1> DEFINE extra == Keep({r \in BagToSet(rows) : r.seq # filler.max})
<1>1. /\ BagToSet(extra) = {r \in R : r.seq # filler.max}
      /\ \/ rows' = rows
         \/ \E r \in BagToSet(extra) : rows' = (rows (-) extra) (+) SetToBag({r})
  BY Zenon DEF Dedup, R, Keep, BagToSet
<1> HIDE DEF extra
<1>2. CASE rows' = rows
  BY <1>2, Zenon DEF R, RowsBag
<1>3. ASSUME NEW r \in BagToSet(extra), rows' = (rows (-) extra) (+) SetToBag({r})
      PROVE  R' \subseteq R /\ RowsBag' /\ r \in R /\ r.seq # filler.max
  <2>1. r \in R /\ r.seq # filler.max
    BY Zenon, <1>1, <1>3
  <2>2. BagToSet(rows (-) extra) \subseteq R
    BY Zenon DEF R, BagToSet, (-)
  <2>3. R' = BagToSet(rows (-) extra) \cup {r} /\ RowsBag'
    BY <1>3, Zenon DEF R, RowsBag, BagToSet, SetToBag, (+)
  <2> QED  BY Zenon, <2>1, <2>2, <2>3
<1> QED  BY Zenon, <1>1, <1>2, <1>3

-----------------------------------------------------------------------------
(* Least and greatest numbers *)

\* A non-empty set of natural numbers has a least element.
LEMMA HasLeast ==
    ASSUME NEW S \in SUBSET Nat, S # {}
    PROVE  \E x \in S : \A y \in S : x <= y
<1> DEFINE Less == {ss \in Nat \X Nat : ss[1] < ss[2]}
<1>1. IsWellFoundedOn(Less, Nat)
  BY NatLessThanWellFounded, Zenon DEF OpToRel
<1>2. PICK x \in S : \A y \in S : ~(<<y, x>> \in Less)
  <2> HIDE DEF Less
  <2> QED  BY <1>1, WFMin, Zenon
<1>3. ASSUME NEW y \in S PROVE x <= y
  <2>1. x \in Nat /\ y \in Nat /\ ~(<<y, x>> \in Less)
    BY Zenon, <1>2
  <2>2. y < x => <<y, x>> \in Less
    BY Zenon, <2>1
  <2> QED  BY <2>1, <2>2
<1> QED  BY Zenon, <1>3

\* A bounded one has a greatest element.
LEMMA HasGreatest ==
    ASSUME NEW n \in Nat, NEW S \in SUBSET (0..n), S # {}
    PROVE  \E x \in S : \A y \in S : y <= x
<1> DEFINE T == {n - x : x \in S}
<1>1. T \in SUBSET Nat /\ T # {}
  OBVIOUS
<1>2. PICK t \in T : \A y \in T : t <= y
  BY Zenon, <1>1, HasLeast
<1>3. PICK x \in S : t = n - x
  BY Zenon, <1>2
<1>4. \A y \in S : y <= x
  BY <1>2, <1>3
<1> QED  BY Zenon, <1>4

\* Max names it.
LEMMA MaxOfNumbers ==
    ASSUME NEW n \in Nat, NEW S \in SUBSET (0..n), S # {}
    PROVE  Max(S) \in S /\ \A y \in S : y <= Max(S)
<1>1. \E x \in S : \A y \in S : x >= y
  BY Zenon, HasGreatest
<1> QED  BY Zenon, <1>1 DEF Max

-----------------------------------------------------------------------------
(* The backfiller: types *)

FillerType(n) ==
    [pc : Pcs, todo : Seq({"force", "gaps"}), tries : 1..NumTries,
     gaps : SUBSET ((0..n) \X (0..n)), max : 0..n]

TreeTyped == TreeTypeOK /\ RowsBag

\* TreeTypeOK, with names for its parts.
LEMMA TypeParts ==
    TreeTypeOK <=> /\ env \in Environments
                   /\ tip \in 0..MaxTip /\ stream \subseteq 1..tip /\ indexed \subseteq 1..tip
                   /\ R \subseteq RowType(tip) /\ filler \in FillerType(tip)
BY Zenon DEF TreeTypeOK, R, RowType, FillerType

\* A filler that has nothing to do.
LEMMA IdleTyped == ASSUME NEW n \in Nat PROVE Idle \in FillerType(n)
<1>1. <<>> \in Seq({"force", "gaps"}) /\ 1 \in 1..NumTries /\ 0 \in 0..n
  BY BackfillAssumption
<1> QED  BY Zenon, <1>1 DEF Idle, FillerType, Pcs

\* The step of a filler to another statement.
LEMMA GotoTyped ==
    ASSUME NEW n \in Nat, filler \in FillerType(n), NEW p \in Pcs, Goto(p)
    PROVE  /\ filler' \in FillerType(n) /\ filler'.pc = p /\ filler'.todo = filler.todo
           /\ filler'.gaps = filler.gaps /\ filler'.max = filler.max
BY Zenon DEF Goto, FillerType

\* The next entry of the list.
LEMMA NextTyped ==
    ASSUME NEW n \in Nat, filler \in FillerType(n), NextTree
    PROVE  /\ filler' \in FillerType(n)
           /\ \/ filler' = Idle
              \/ /\ Len(filler.todo) > 1 /\ filler'.pc = "read"
                 /\ filler'.todo = Tail(filler.todo) /\ filler'.gaps = {} /\ filler'.max = 0
<1>1. Idle \in FillerType(n)
  BY Zenon, IdleTyped
<1>2. CASE Len(filler.todo) > 1
  <2>1. filler.todo \in Seq({"force", "gaps"})
    BY Zenon DEF FillerType
  <2>2. Tail(filler.todo) \in Seq({"force", "gaps"})
    BY <1>2, <2>1
  <2>3. filler' = [Idle EXCEPT !.pc = "read", !.todo = Tail(filler.todo)]
    BY Zenon, <1>2 DEF NextTree
  <2>4. filler' = [pc |-> "read", todo |-> Tail(filler.todo), tries |-> 1, gaps |-> {}, max |-> 0]
    BY Zenon, <2>3 DEF Idle
  <2>5. 1 \in 1..NumTries /\ 0 \in 0..n /\ "read" \in Pcs
    BY BackfillAssumption DEF Pcs
  <2> QED  BY Zenon, <1>2, <2>2, <2>4, <2>5 DEF FillerType
<1>3. CASE ~(Len(filler.todo) > 1)
  BY <1>1, <1>3, Zenon DEF NextTree
<1> QED  BY Zenon, <1>2, <1>3

\* What get_trees_to_backfill lists: for a forced tree one entry for each slot, or one
\* entry for a tree with several rows.
LEMMA Listed ==
    ASSUME TreeTyped, get_trees_to_backfill
    PROVE  LET forced == {r \in R : r.force /\ ~r.failed /\ ~r.locked} IN
           /\ R # {} /\ filler' \in FillerType(tip)
           /\ filler'.pc = "read" /\ filler'.max = 0 /\ filler'.gaps = {}
           /\ \/ forced = {} /\ filler'.todo = <<"gaps">>
              \/ /\ forced # {} /\ filler'.todo \in Seq({"force"}) /\ filler'.todo # <<>>
                 /\ Len(filler'.todo) > 1 => \E r, q \in forced : r.seq # q.seq
<1> DEFINE free == {r \in BagToSet(rows) : ~r.failed /\ ~r.locked}
           forced == {SlotOf[r.seq] : r \in {q \in free : q.force}}
           several == \E r, q \in free : r # q \/ rows[r] > 1
           todo == IF forced # {} THEN [i \in 1..Cardinality(forced) |-> "force"]
                   ELSE IF several THEN <<"gaps">> ELSE <<>>
           rowsF == {r \in R : r.force /\ ~r.failed /\ ~r.locked}
<1>1. todo # <<>> /\ filler' = [Idle EXCEPT !.pc = "read", !.todo = todo]
  BY Zenon DEF get_trees_to_backfill
<1>2. {q \in free : q.force} = rowsF
  BY Zenon DEF R
<1>3. tip \in Nat /\ tip \in 0..MaxTip /\ R \subseteq RowType(tip)
  BY TypeParts, BackfillAssumption DEF TreeTyped
<1>4. IsFiniteSet(forced) /\ Cardinality(forced) \in Nat
  <2>1. \A r \in rowsF : r.seq \in 0..MaxTip /\ r.seq <= MaxTip
    BY <1>3, BackfillAssumption DEF RowType
  <2>2. SlotOf[MaxTip] \in Nat /\ MaxTip \in 0..MaxTip
    BY BackfillAssumption
  <2>3. \A x \in forced : x \in Nat /\ x <= SlotOf[MaxTip]
    BY Zenon, <1>2, <2>1, <2>2, BackfillAssumption
  <2> HIDE DEF forced
  <2>4. IsFiniteSet(forced)
    BY Zenon, <2>2, <2>3, FS_BoundedSetOfNaturals
  <2> QED  BY Zenon, <2>4, FS_CardinalityType
<1>5. filler' = [pc |-> "read", todo |-> todo, tries |-> 1, gaps |-> {}, max |-> 0]
  BY <1>1, Zenon DEF Idle
<1>6. CASE forced = {}
  <2>1. several /\ todo = <<"gaps">>
    BY Zenon, <1>1, <1>6
  <2>2. rowsF = {} /\ R # {}
    BY Zenon, <1>2, <1>6, <2>1 DEF R
  <2>3. /\ <<"gaps">> \in Seq({"force", "gaps"}) /\ 1 \in 1..NumTries /\ 0 \in 0..tip
        /\ "read" \in Pcs
    BY <1>3, BackfillAssumption DEF Pcs
  <2>4. filler' = [pc |-> "read", todo |-> <<"gaps">>, tries |-> 1, gaps |-> {}, max |-> 0]
    BY <1>5, <2>1, Zenon
  <2> QED  BY Zenon, <2>2, <2>3, <2>4 DEF FillerType
<1>7. CASE forced # {}
  <2>1. todo = [i \in 1..Cardinality(forced) |-> "force"]
    BY Zenon, <1>7
  <2>2. rowsF # {} /\ R # {}
    BY Zenon, <1>2, <1>7
  <2>3. ASSUME \A r, q \in rowsF : r.seq = q.seq PROVE Cardinality(forced) = 1
    <3>1. PICK x : x \in forced
      BY Zenon, <1>7
    <3>2. \A y \in forced : y = x
      BY Zenon, <1>2, <2>3, <3>1
    <3>3. forced = {x}
      BY <3>1, <3>2, Zenon
    <3> HIDE DEF forced
    <3> QED  BY Zenon, <3>3, FS_Singleton
  <2> DEFINE n == Cardinality(forced)
             force == [i \in 1..n |-> "force"]
  <2>4. n \in Nat /\ todo = force
    BY Zenon, <1>4, <2>1
  <2> HIDE DEF n
  <2>5. force \in Seq({"force", "gaps"}) /\ Len(force) = n /\ force \in Seq({"force"})
    BY <2>4
  <2>6. filler' = [pc |-> "read", todo |-> force, tries |-> 1, gaps |-> {}, max |-> 0]
    BY <1>5, <2>4, Zenon
  <2>7. 1 \in 1..NumTries /\ 0 \in 0..tip /\ "read" \in Pcs
    BY <1>3, BackfillAssumption DEF Pcs
  <2>8. force # <<>>
    BY Zenon, <1>1, <2>4
  <2>9. n > 1 => \E r, q \in rowsF : r.seq # q.seq
    BY <2>3 DEF n
  <2> HIDE DEF force
  <2> QED  BY Zenon, <2>2, <2>5, <2>6, <2>7, <2>8, <2>9 DEF FillerType
<1> QED  BY Zenon, <1>6, <1>7

\* What get_missing_data finds: the whole history of a forced tree, the gaps between the
\* rows of another.
LEMMA Planned ==
    ASSUME TreeTyped, get_missing_data
    PROVE  /\ filler' \in FillerType(tip) /\ filler'.todo = filler.todo
           /\ \/ /\ Head(filler.todo) = "force" /\ filler'.pc = "plug" /\ filler'.max = 0
                 /\ filler'.gaps = {<<s, s>> : s \in 1..tip}
              \/ /\ Head(filler.todo) # "force" /\ R = {} /\ filler'.pc = "failed"
                 /\ filler'.gaps = filler.gaps /\ filler'.max = filler.max
              \/ /\ Head(filler.todo) # "force" /\ R # {} /\ filler'.pc = "plug"
                 /\ \E start \in 0..tip :
                       /\ \/ start = 0 /\ \A r \in R : ~r.backfilled
                          \/ \E r \in R : r.backfilled /\ r.seq = start
                       /\ filler'.gaps = Gaps({r.seq : r \in R}, start)
                 /\ \E r \in R : filler'.max = r.seq
                 /\ \A r \in R : r.seq <= filler'.max
<1> DEFINE done == {r.seq : r \in {q \in BagToSet(rows) : q.backfilled}}
           start == IF done = {} THEN 0 ELSE Max(done)
           seqs == {r.seq : r \in BagToSet(rows)}
<1>1. /\ tip \in Nat /\ R \subseteq RowType(tip) /\ filler \in FillerType(tip)
      /\ done \in SUBSET (0..tip) /\ seqs \in SUBSET (0..tip)
      /\ seqs = {} <=> R = {}
  <2>1. tip \in Nat /\ R \subseteq RowType(tip) /\ filler \in FillerType(tip)
    BY TypeParts, BackfillAssumption DEF TreeTyped
  <2>2. \A r \in BagToSet(rows) : r.seq \in 0..tip
    BY Zenon, <2>1 DEF R, RowType
  <2> QED  BY Zenon, <2>1, <2>2 DEF R
<1>2. CASE Head(filler.todo) = "force"
  <2>1. filler' = [filler EXCEPT !.pc = "plug", !.max = 0, !.gaps = {<<s, s>> : s \in 1..tip}]
    BY <1>2, Zenon DEF get_missing_data
  <2>2. {<<s, s>> : s \in 1..tip} \in SUBSET ((0..tip) \X (0..tip)) /\ 0 \in 0..tip /\ "plug" \in Pcs
    BY <1>1 DEF Pcs
  <2> DEFINE all == {<<s, s>> : s \in 1..tip}
  <2> HIDE DEF all
  <2>3. filler' = [filler EXCEPT !.pc = "plug", !.max = 0, !.gaps = all]
    BY <2>1, Zenon DEF all
  <2>4. all \in SUBSET ((0..tip) \X (0..tip))
    BY <2>2, Zenon DEF all
  <2>5. /\ filler' \in FillerType(tip) /\ filler'.todo = filler.todo /\ filler'.pc = "plug"
        /\ filler'.max = 0 /\ filler'.gaps = all
    BY Zenon, <1>1, <2>2, <2>3, <2>4 DEF FillerType
  <2> QED  BY <1>2, <2>5, Zenon DEF all
<1>3. CASE Head(filler.todo) # "force" /\ R = {}
  <2>1. filler' = [filler EXCEPT !.pc = "failed"]
    BY <1>1, <1>3, Zenon DEF get_missing_data
  <2> QED  BY Zenon, <1>1, <1>3, <2>1 DEF FillerType, Pcs
<1>4. CASE Head(filler.todo) # "force" /\ R # {}
  <2> DEFINE gs == Gaps(seqs, start)
             mx == Max(seqs)
  <2>1. filler' = [filler EXCEPT !.pc = "plug", !.max = mx, !.gaps = gs]
    BY <1>1, <1>4, Zenon DEF get_missing_data
  <2>2. mx \in seqs /\ \A y \in seqs : y <= mx
    <3> HIDE DEF seqs
    <3> QED  BY Zenon, <1>1, <1>4, MaxOfNumbers
  <2>3. /\ start \in 0..tip
        /\ \/ start = 0 /\ \A r \in R : ~r.backfilled
           \/ \E r \in R : r.backfilled /\ r.seq = start
    <3>1. CASE done = {}
      <4>1. start = 0 /\ 0 \in 0..tip
        BY <1>1, <3>1
      <4>2. \A r \in R : ~r.backfilled
        BY <3>1, Zenon DEF R
      <4> QED  BY <4>1, <4>2, Zenon
    <3>2. CASE done # {}
      <4>1. start \in done
        <5> HIDE DEF done
        <5> QED  BY Zenon, <1>1, <3>2, MaxOfNumbers
      <4> HIDE DEF start
      <4> QED  BY Zenon, <1>1, <4>1 DEF R
    <3> QED  BY Zenon, <3>1, <3>2
  <2>4. gs \in SUBSET ((0..tip) \X (0..tip))
    <3> HIDE DEF seqs, start
    <3> QED  BY <1>1, Zenon DEF Gaps
  <2>5. seqs = {r.seq : r \in R}
    BY Zenon DEF R
  <2> HIDE DEF gs, mx, start
  <2>6. /\ filler' \in FillerType(tip) /\ filler'.todo = filler.todo /\ filler'.pc = "plug"
        /\ filler'.max = mx /\ filler'.gaps = gs
    <3>1. mx \in 0..tip /\ "plug" \in Pcs
      BY Zenon, <1>1, <2>2 DEF Pcs
    <3> HIDE DEF seqs, done
    <3> QED  BY Zenon, <1>1, <2>1, <2>4, <3>1 DEF FillerType
  <2>7. (\E r \in R : filler'.max = r.seq) /\ \A r \in R : r.seq <= filler'.max
    BY Zenon, <2>2, <2>5, <2>6
  <2>8. filler'.gaps = Gaps({r.seq : r \in R}, start)
    BY <2>5, <2>6, Zenon DEF gs
  <2> QED  BY <1>4, <2>3, <2>6, <2>7, <2>8, Zenon
<1> QED  BY Zenon, <1>2, <1>3, <1>4

\* A pass that meets a block it cannot fetch.
LEMMA Retried ==
    ASSUME TreeTyped, PlugFails
    PROVE  /\ filler' \in FillerType(tip) /\ filler'.todo = filler.todo /\ filler'.max = filler.max
           /\ \/ "outage" \in env.faults /\ filler'.pc = "failed" /\ filler'.gaps = filler.gaps
              \/ filler'.pc = "read" /\ filler'.gaps = {}
           /\ stream \subseteq stream' /\ stream' \subseteq 1..tip
<1>1. tip \in Nat /\ filler \in FillerType(tip) /\ stream \subseteq 1..tip
  BY TypeParts, BackfillAssumption DEF TreeTyped
<1>2. stream \subseteq stream' /\ stream' \subseteq 1..tip
  BY Zenon, <1>1 DEF PlugFails, Replayed
<1>3. CASE filler.tries = NumTries
  <2>1. filler' = [filler EXCEPT !.pc = "failed"] /\ "outage" \in env.faults
    BY Zenon, <1>3 DEF PlugFails
  <2> QED  BY Zenon, <1>1, <1>2, <2>1 DEF FillerType, Pcs
<1>4. CASE filler.tries # NumTries
  <2>1. filler' = [filler EXCEPT !.pc = "read", !.tries = filler.tries + 1, !.gaps = {}]
    BY <1>4, Zenon DEF PlugFails
  <2>2. filler.tries + 1 \in 1..NumTries
    BY <1>1, <1>4, BackfillAssumption DEF FillerType
  <2> QED  BY Zenon, <1>1, <1>2, <2>1, <2>2 DEF FillerType, Pcs
<1> QED  BY Zenon, <1>3, <1>4

\* The updates of the rows, but the one that marks them, keep number, kind and history.
LEMMA UpdatedRows ==
    ASSUME NEW n, R \subseteq RowType(n),
           \/ get_trees_to_backfill \/ clear_force_chk_flag \/ unlock_tree \/ mark_tree_as_failed
    PROVE  /\ R' \subseteq RowType(n) /\ RowsBag'
           /\ \A x \in R' : \E r \in R : /\ x.seq = r.seq /\ x.backfilled = r.backfilled
                                         /\ x.force => r.force
           /\ \A r \in R : \E x \in R' : x.seq = r.seq
<1>1. CASE get_trees_to_backfill
  <2> DEFINE upd(r) == [r EXCEPT !.locked = TRUE]
  <2>1. R' = {upd(r) : r \in R} /\ RowsBag'
    BY <1>1, LockedRows, Zenon DEF get_trees_to_backfill
  <2>2. ASSUME NEW r \in R
        PROVE  LET x == upd(r) IN
               /\ x \in RowType(n) /\ x.seq = r.seq /\ x.backfilled = r.backfilled
               /\ x.force => r.force
    BY Zenon DEF RowType
  <2> HIDE DEF upd
  <2> QED  BY <2>1, <2>2
<1>2. CASE clear_force_chk_flag
  <2> DEFINE upd(r) == [r EXCEPT !.force = FALSE]
  <2>1. R' = {upd(r) : r \in R} /\ RowsBag'
    BY <1>2, ClearedRows, Zenon DEF clear_force_chk_flag
  <2>2. ASSUME NEW r \in R
        PROVE  LET x == upd(r) IN
               /\ x \in RowType(n) /\ x.seq = r.seq /\ x.backfilled = r.backfilled
               /\ x.force => r.force
    BY Zenon DEF RowType
  <2> HIDE DEF upd
  <2> QED  BY <2>1, <2>2
<1>3. CASE unlock_tree
  <2> DEFINE upd(r) == [r EXCEPT !.locked = FALSE]
  <2>1. R' = {upd(r) : r \in R} /\ RowsBag'
    BY <1>3, UnlockedRows, Zenon DEF unlock_tree
  <2>2. ASSUME NEW r \in R
        PROVE  LET x == upd(r) IN
               /\ x \in RowType(n) /\ x.seq = r.seq /\ x.backfilled = r.backfilled
               /\ x.force => r.force
    BY Zenon DEF RowType
  <2> HIDE DEF upd
  <2> QED  BY <2>1, <2>2
<1>4. CASE mark_tree_as_failed
  <2> DEFINE upd(r) == [r EXCEPT !.failed = TRUE]
  <2>1. R' = {upd(r) : r \in R} /\ RowsBag'
    BY <1>4, FailedRows, Zenon DEF mark_tree_as_failed
  <2>2. ASSUME NEW r \in R
        PROVE  LET x == upd(r) IN
               /\ x \in RowType(n) /\ x.seq = r.seq /\ x.backfilled = r.backfilled
               /\ x.force => r.force
    BY Zenon DEF RowType
  <2> HIDE DEF upd
  <2> QED  BY <2>1, <2>2
<1> QED  BY Zenon, <1>1, <1>2, <1>3, <1>4

\* mark_tree_as_backfilled.
LEMMA BackfilledRows ==
    ASSUME NEW n, R \subseteq RowType(n), mark_tree_as_backfilled
    PROVE  /\ R' \subseteq RowType(n) /\ RowsBag'
           /\ \A x \in R' : \E r \in R : x.seq = r.seq /\ x.force = r.force
           /\ \A r \in R : \E x \in R' : x.seq = r.seq
<1>1. R' = {[r EXCEPT !.backfilled = TRUE] : r \in R} /\ RowsBag'
  BY MarkedRows, Zenon DEF mark_tree_as_backfilled
<1>2. ASSUME NEW r \in R
      PROVE  LET x == [r EXCEPT !.backfilled = TRUE] IN
             x \in RowType(n) /\ x.seq = r.seq /\ x.force = r.force
  BY Zenon DEF RowType
<1> QED  BY <1>1, <1>2, Zenon

LEMMA TypedParts ==
    TreeTyped <=> /\ env \in Environments
                  /\ tip \in 0..MaxTip /\ stream \subseteq 1..tip /\ indexed \subseteq 1..tip
                  /\ R \subseteq RowType(tip) /\ filler \in FillerType(tip) /\ RowsBag
BY TypeParts, Zenon DEF TreeTyped

\* Every step keeps the types.
LEMMA TreeTypeStep == TreeTyped /\ [TreeNext]_treeVars => TreeTyped'
<1> SUFFICES ASSUME TreeTyped, [TreeNext]_treeVars PROVE TreeTyped'
  OBVIOUS
<1>0. /\ env \in Environments /\ tip \in 0..MaxTip /\ stream \subseteq 1..tip
      /\ indexed \subseteq 1..tip /\ R \subseteq RowType(tip) /\ filler \in FillerType(tip)
      /\ RowsBag /\ tip \in Nat /\ MaxTip \in Nat
  BY TypeParts, BackfillAssumption DEF TreeTyped
<1>T. TreeTyped' <=> /\ (env \in Environments)'
                     /\ (tip \in 0..MaxTip)' /\ (stream \subseteq 1..tip)' /\ (indexed \subseteq 1..tip)'
                     /\ (R \subseteq RowType(tip))' /\ (filler \in FillerType(tip))' /\ RowsBag'
  BY TypedParts, PTL
<1>U. rows' = rows => R' = R /\ RowsBag'
  BY <1>0, Zenon DEF R, RowsBag
<1>1. CASE Transact
  <2>1. tip' = tip + 1 /\ tip < env.tip /\ env.tip \in 0..MaxTip /\ env' = env
    BY Zenon, <1>0, <1>1, BackfillAssumption DEF Transact
  <2>2. tip' \in 0..MaxTip /\ tip <= tip' /\ tip' \in Nat
    BY <1>0, <2>1
  <2>3. (stream \subseteq 1..tip)' /\ (indexed \subseteq 1..tip)'
    BY <1>0, <1>1, <2>1 DEF Transact
  <2>4. R' = R /\ RowsBag' /\ RowType(tip) \subseteq RowType(tip')
    BY <1>0, <1>1, <1>U, <2>2 DEF Transact, RowType
  <2>5. FillerType(tip) \subseteq FillerType(tip') /\ filler' = filler
    <3>1. 0..tip \subseteq 0..tip'
      BY <1>0, <2>2
    <3>2. (0..tip) \X (0..tip) \subseteq (0..tip') \X (0..tip')
      BY Zenon, <3>1
    <3> QED  BY Zenon, <1>1, <3>1, <3>2 DEF FillerType, Transact
  <2> QED  BY Zenon, <1>0, <1>T, <2>1, <2>2, <2>3, <2>4, <2>5
<1>2. ASSUME NEW s \in stream, Insert(s) PROVE TreeTyped'
  <2> DEFINE new == Row(s, rows = EmptyBag /\ s > 1)
  <2>1. R' = R \cup {new} /\ RowsBag'
    BY <1>2, InsertedRow, Zenon DEF Insert
  <2>2. new \in RowType(tip)
    BY <1>0 DEF Row, RowType
  <2>3. /\ stream' = stream \ {s} /\ indexed' = indexed \cup {s}
        /\ env' = env /\ tip' = tip /\ filler' = filler
    BY Zenon, <1>2 DEF Insert
  <2> QED  BY Zenon, <1>0, <1>T, <2>1, <2>2, <2>3
<1>3. CASE Find
  BY Zenon, <1>0, <1>3, <1>T, <1>U DEF Find
<1>4. CASE force_backfill
  <2>1. R' = R \cup {Row(0, TRUE)} /\ RowsBag'
    BY <1>4, InsertedRow, Zenon DEF force_backfill
  <2>2. Row(0, TRUE) \in RowType(tip)
    BY <1>0 DEF Row, RowType
  <2> QED  BY Zenon, <1>0, <1>4, <1>T, <2>1, <2>2 DEF force_backfill
<1>5. CASE get_trees_to_backfill
  <2>1. filler' \in FillerType(tip) /\ R' \subseteq RowType(tip) /\ RowsBag'
    BY <1>0, <1>5, Listed, UpdatedRows, Zenon
  <2>2. UNCHANGED <<env, tip, stream, indexed>>
    BY Zenon, <1>5 DEF get_trees_to_backfill
  <2> QED  BY Zenon, <1>0, <1>T, <2>1, <2>2
<1>6. CASE get_missing_data
  <2>1. filler' \in FillerType(tip)
    BY <1>6, Planned, Zenon
  <2>2. UNCHANGED <<env, tip, stream, indexed, rows>>
    BY Zenon, <1>6 DEF get_missing_data
  <2> QED  BY Zenon, <1>0, <1>T, <1>U, <2>1, <2>2
<1>7. CASE plug_gap
  <2>1. filler' \in FillerType(tip)
    BY Zenon, <1>0, <1>7, GotoTyped DEF plug_gap, Pcs
  <2>2. PICK dropped :
          /\ stream' = stream \cup UNION {Replayed(g) : g \in filler.gaps \ dropped}
          /\ UNCHANGED <<env, tip, indexed, rows>>
    BY <1>7, Zenon DEF plug_gap
  <2>3. stream' \subseteq 1..tip
    BY Zenon, <1>0, <2>2 DEF Replayed
  <2> QED  BY Zenon, <1>0, <1>T, <1>U, <2>1, <2>2, <2>3
<1>8. CASE PlugFails
  <2>1. filler' \in FillerType(tip) /\ stream' \subseteq 1..tip
    BY <1>8, Retried, Zenon
  <2>2. UNCHANGED <<env, tip, indexed, rows>>
    BY Zenon, <1>8 DEF PlugFails
  <2> QED  BY Zenon, <1>0, <1>T, <1>U, <2>1, <2>2
<1>9. CASE DeleteExtra
  <2>1. R' \subseteq R /\ RowsBag'
    BY Zenon, <1>9, KeptRows DEF DeleteExtra
  <2>2. filler' \in FillerType(tip)
    BY Zenon, <1>0, <1>9, GotoTyped DEF DeleteExtra, Pcs
  <2> QED  BY Zenon, <1>0, <1>9, <1>T, <2>1, <2>2 DEF DeleteExtra
<1>10. CASE Dedup
  <2>1. R' \subseteq R /\ RowsBag'
    BY <1>0, <1>10, DedupedRows, Zenon
  <2>2. filler' \in FillerType(tip)
    BY Zenon, <1>0, <1>10, GotoTyped DEF Dedup, Pcs
  <2>3. UNCHANGED <<env, tip, stream, indexed>>
    BY <1>10, Zenon DEF Dedup
  <2> QED  BY Zenon, <1>0, <1>T, <2>1, <2>2, <2>3
<1>11. CASE mark_tree_as_backfilled
  <2>1. R' \subseteq RowType(tip) /\ RowsBag'
    BY <1>0, <1>11, BackfilledRows, Zenon
  <2>2. filler' \in FillerType(tip)
    BY Zenon, <1>0, <1>11, GotoTyped DEF mark_tree_as_backfilled, Pcs
  <2> QED  BY Zenon, <1>0, <1>11, <1>T, <2>1, <2>2 DEF mark_tree_as_backfilled
<1>12. CASE clear_force_chk_flag
  <2>1. R' \subseteq RowType(tip) /\ RowsBag'
    BY <1>0, <1>12, UpdatedRows, Zenon
  <2>2. filler' \in FillerType(tip)
    BY Zenon, <1>0, <1>12, GotoTyped DEF clear_force_chk_flag, Pcs
  <2> QED  BY Zenon, <1>0, <1>12, <1>T, <2>1, <2>2 DEF clear_force_chk_flag
<1>13. CASE unlock_tree
  <2>1. R' \subseteq RowType(tip) /\ RowsBag'
    BY <1>0, <1>13, UpdatedRows, Zenon
  <2>2. filler' \in FillerType(tip)
    BY <1>0, <1>13, NextTyped, Zenon DEF unlock_tree
  <2> QED  BY Zenon, <1>0, <1>13, <1>T, <2>1, <2>2 DEF unlock_tree
<1>14. CASE CleanUpFails
  <2>1. filler' \in FillerType(tip)
    BY Zenon, <1>0, <1>14, GotoTyped DEF CleanUpFails, Pcs
  <2> QED  BY Zenon, <1>0, <1>14, <1>T, <1>U, <2>1 DEF CleanUpFails
<1>15. CASE mark_tree_as_failed
  <2>1. R' \subseteq RowType(tip) /\ RowsBag'
    BY <1>0, <1>15, UpdatedRows, Zenon
  <2>2. filler' \in FillerType(tip)
    BY <1>0, <1>15, NextTyped, Zenon DEF mark_tree_as_failed
  <2> QED  BY Zenon, <1>0, <1>15, <1>T, <2>1, <2>2 DEF mark_tree_as_failed
<1>16. CASE FillerCrash
  <2>1. filler' \in FillerType(tip)
    BY <1>0, <1>16, IdleTyped, Zenon DEF FillerCrash
  <2> QED  BY Zenon, <1>0, <1>16, <1>T, <1>U, <2>1 DEF FillerCrash
<1>17. CASE MarkingFails
  <2>1. filler' \in FillerType(tip)
    BY <1>0, <1>17, NextTyped, Zenon DEF MarkingFails
  <2> QED  BY Zenon, <1>0, <1>17, <1>T, <1>U, <2>1 DEF MarkingFails
<1>18. CASE UNCHANGED treeVars
  BY Zenon, <1>0, <1>18, <1>T, <1>U DEF treeVars
<1> QED
  BY Zenon, <1>1, <1>2, <1>3, <1>4, <1>5, <1>6, <1>7, <1>8, <1>9, <1>10, <1>11, <1>12, <1>13,
     <1>14, <1>15, <1>16, <1>17, <1>18, Zenon DEF TreeNext, Fill

-----------------------------------------------------------------------------
(* The backfiller: one starting point *)

\* The backfilled rows have one number, and between the DELETEs and the UPDATE that marks
\* them, all rows have the number of the pass.
OneNumber ==
    Apart => /\ \A r, q \in R : r.backfilled /\ q.backfilled => r.seq = q.seq
             /\ filler.pc \in {"dedup", "mark"} => \A r \in R : r.seq = filler.max

\* Every step keeps it.
LEMMA OneNumberStep == TreeTyped /\ OneNumber /\ [TreeNext]_treeVars => OneNumber'
<1> SUFFICES ASSUME TreeTyped, OneNumber, [TreeNext]_treeVars, Apart'
             PROVE  /\ \A r, q \in R' : r.backfilled /\ q.backfilled => r.seq = q.seq
                    /\ filler'.pc \in {"dedup", "mark"} => \A r \in R' : r.seq = filler'.max
  BY Zenon DEF OneNumber
<1>0. R \subseteq RowType(tip) /\ filler \in FillerType(tip) /\ tip \in Nat /\ RowsBag
  BY TypedParts, BackfillAssumption
<1>E. env' = env
  BY Zenon DEF TreeNext, Fill, treeVars, Transact, Insert, Find, force_backfill,
     get_trees_to_backfill, get_missing_data, plug_gap, PlugFails, DeleteExtra, Dedup,
     mark_tree_as_backfilled, clear_force_chk_flag, unlock_tree, CleanUpFails,
     mark_tree_as_failed, MarkingFails, FillerCrash
<1>A. /\ env.window \subseteq {"idle", "read", "plug", "delete"}
      /\ \A r, q \in R : r.backfilled /\ q.backfilled => r.seq = q.seq
      /\ filler.pc \in {"dedup", "mark"} => \A r \in R : r.seq = filler.max
  BY <1>E, Zenon DEF Apart, OneNumber
<1>U. rows' = rows => R' = R
  BY Zenon DEF R
<1>1. CASE Transact \/ Find
  BY Zenon, <1>1, <1>A, <1>U DEF Transact, Find
<1>2. ASSUME NEW s \in stream, Insert(s)
      PROVE  /\ \A r, q \in R' : r.backfilled /\ q.backfilled => r.seq = q.seq
             /\ filler'.pc \notin {"dedup", "mark"}
  <2>1. R' = R \cup {Row(s, rows = EmptyBag /\ s > 1)}
    BY <1>2, InsertedRow, Zenon DEF Insert
  <2>2. filler' = filler /\ filler.pc \in env.window
    BY Zenon, <1>2 DEF Insert
  <2> QED  BY <1>A, <2>1, <2>2 DEF Row
<1>3. CASE force_backfill
  <2>1. R' = R \cup {Row(0, TRUE)}
    BY <1>3, InsertedRow, Zenon DEF force_backfill
  <2>2. filler' = filler /\ filler.pc \in env.window
    BY Zenon, <1>3 DEF force_backfill
  <2> QED  BY <1>A, <2>1, <2>2 DEF Row
<1>4. CASE get_trees_to_backfill
  <2>1. /\ \A x \in R' : \E r \in R : x.seq = r.seq /\ x.backfilled = r.backfilled
        /\ filler'.pc = "read"
    BY Zenon, <1>0, <1>4, UpdatedRows, Listed
  <2> QED  BY <1>A, <2>1
<1>5. CASE get_missing_data
  <2>1. filler'.pc \in {"plug", "failed"} /\ rows' = rows
    BY <1>5, Planned, Zenon DEF get_missing_data
  <2> QED  BY Zenon, <1>A, <1>U, <2>1
<1>6. CASE plug_gap
  <2>1. filler'.pc = "delete" /\ rows' = rows
    BY Zenon, <1>0, <1>6, GotoTyped DEF plug_gap, Pcs
  <2> QED  BY Zenon, <1>A, <1>U, <2>1
<1>7. CASE PlugFails
  <2>1. filler'.pc \in {"read", "failed"} /\ rows' = rows
    BY <1>7, Retried, Zenon DEF PlugFails
  <2> QED  BY Zenon, <1>A, <1>U, <2>1
<1>8. CASE DeleteExtra
  <2>1. R' = {r \in R : r.seq = filler.max}
    BY Zenon, <1>8, KeptRows DEF DeleteExtra, R
  <2>2. filler'.max = filler.max
    BY Zenon, <1>0, <1>8, GotoTyped DEF DeleteExtra, Pcs
  <2> QED  BY Zenon, <1>A, <2>1, <2>2
<1>9. CASE Dedup
  <2>1. R' = R
    BY Zenon, <1>0, <1>9, <1>A, DedupedRows DEF Dedup
  <2>2. filler'.max = filler.max /\ filler.pc = "dedup"
    BY Zenon, <1>0, <1>9, GotoTyped DEF Dedup, Pcs
  <2> QED  BY Zenon, <1>A, <2>1, <2>2
<1>10. CASE mark_tree_as_backfilled
  <2>1. \A x \in R' : \E r \in R : x.seq = r.seq
    BY Zenon, <1>0, <1>10, BackfilledRows
  <2>2. filler'.pc = "clear" /\ filler.pc = "mark"
    BY Zenon, <1>0, <1>10, GotoTyped DEF mark_tree_as_backfilled, Pcs
  <2> QED  BY Zenon, <1>A, <2>1, <2>2
<1>11. CASE clear_force_chk_flag
  <2>1. \A x \in R' : \E r \in R : x.seq = r.seq /\ x.backfilled = r.backfilled
    BY Zenon, <1>0, <1>11, UpdatedRows
  <2>2. filler'.pc = "unlock"
    BY Zenon, <1>0, <1>11, GotoTyped DEF clear_force_chk_flag, Pcs
  <2> QED  BY <1>A, <2>1, <2>2
<1>12. CASE unlock_tree \/ mark_tree_as_failed
  <2>1. \A x \in R' : \E r \in R : x.seq = r.seq /\ x.backfilled = r.backfilled
    BY Zenon, <1>0, <1>12, UpdatedRows
  <2>2. filler'.pc \in {"read", "idle"}
    BY <1>0, <1>12, NextTyped DEF unlock_tree, mark_tree_as_failed, Idle
  <2> QED  BY <1>A, <2>1, <2>2
<1>13. CASE CleanUpFails
  <2>1. filler'.pc = "failed" /\ rows' = rows
    BY Zenon, <1>0, <1>13, GotoTyped DEF CleanUpFails, Pcs
  <2> QED  BY Zenon, <1>A, <1>U, <2>1
<1>14. CASE FillerCrash
  <2>1. filler'.pc = "idle" /\ rows' = rows
    BY Zenon, <1>14 DEF FillerCrash, Idle
  <2> QED  BY Zenon, <1>A, <1>U, <2>1
<1>15. CASE MarkingFails
  <2>1. filler'.pc \in {"read", "idle"}
    BY <1>0, <1>15, NextTyped DEF MarkingFails, Idle
  <2>2. rows' = rows
    BY Zenon, <1>15 DEF MarkingFails
  <2> QED  BY <1>A, <1>U, <2>1, <2>2
<1>16. CASE UNCHANGED treeVars
  BY Zenon, <1>16, <1>A, <1>U DEF treeVars
<1> QED
  BY Zenon, <1>1, <1>2, <1>3, <1>4, <1>5, <1>6, <1>7, <1>8, <1>9, <1>10, <1>11, <1>12, <1>13,
     <1>14, <1>15, <1>16, Zenon DEF TreeNext, Fill

\* Nothing has happened to the tree.
LEMMA InitTree == TreeInit => TreeTyped /\ R = {}
<1> SUFFICES ASSUME TreeInit PROVE TreeTyped /\ R = {}
  OBVIOUS
<1>1. R = {} /\ RowsBag
  BY Zenon DEF TreeInit, R, RowsBag, BagToSet, EmptyBag, SetToBag
<1>2. 0 \in 0..MaxTip /\ Idle \in FillerType(0)
  BY IdleTyped, BackfillAssumption
<1> QED  BY Zenon, <1>1, <1>2, TypedParts DEF TreeInit

\* The variables of finder and filler keep their types.
THEOREM TreeTypeCorrect == TreeSpec => []TreeTypeOK
<1>1. TreeTyped => TreeTypeOK
  BY Zenon DEF TreeTyped
<1> QED  BY <1>1, InitTree, TreeTypeStep, PTL DEF TreeSpec

\* Whatever fails and wherever the process dies, the backfilled rows of a tree agree on
\* the number from which the next pass starts, for any history, list of trees and fault
\* (delete_extra_rows_and_mark_as_backfilled, get_missing_data).
THEOREM StartsAtOneNumber == TreeSpec => []OneStartingPoint
<1>1. TreeInit => TreeTyped /\ OneNumber
  <2>1. TreeInit => filler.pc = "idle"
    BY DEF TreeInit, Idle
  <2> QED  BY Zenon, <2>1, InitTree DEF OneNumber
<1>2. OneNumber => OneStartingPoint
  BY Zenon DEF OneNumber, OneStartingPoint, R
<1> QED  BY <1>1, <1>2, TreeTypeStep, OneNumberStep, PTL DEF TreeSpec

-----------------------------------------------------------------------------
(* The backfiller: a backfilled row is a complete one *)

\* A pass over a forced tree, whose entries are all alike, or one over the gaps.
Shape ==
    filler.pc # "idle" =>
        \/ filler.todo = <<"gaps">>
        \/ filler.todo \in Seq({"force"}) /\ filler.todo # <<>> /\ filler.max = 0

\* What holds whatever fails: the ingester forces one number at most, a gap has its ends
\* in order, and a row that is not the finder's stands for a transaction that was handled.
Sound ==
    /\ Shape
    /\ \A r, q \in R : r.force /\ q.force /\ r.seq > 0 /\ q.seq > 0 => r.seq = q.seq
    /\ \A r \in R : r.seq > 0 => r.seq \in indexed
    /\ \A g \in filler.gaps : g[1] <= g[2]

\* A step that deletes rows or changes their flags.
LEMMA SoundRows ==
    ASSUME Sound, indexed \subseteq indexed',
           \A x \in R' : \E r \in R : x.seq = r.seq /\ (x.force => r.force)
    PROVE  /\ \A r, q \in R' : r.force /\ q.force /\ r.seq > 0 /\ q.seq > 0 => r.seq = q.seq
           /\ \A r \in R' : r.seq > 0 => r.seq \in indexed'
<1>1. ASSUME NEW x \in R', NEW y \in R', x.force, y.force, x.seq > 0, y.seq > 0
      PROVE  x.seq = y.seq
  <2>1. PICK r \in R : x.seq = r.seq /\ r.force
    BY Zenon, <1>1
  <2>2. PICK q \in R : y.seq = q.seq /\ q.force
    BY Zenon, <1>1
  <2> QED  BY Zenon, <1>1, <2>1, <2>2 DEF Sound
<1>2. ASSUME NEW x \in R', x.seq > 0 PROVE x.seq \in indexed'
  <2>1. PICK r \in R : x.seq = r.seq
    OBVIOUS
  <2> QED  BY Zenon, <1>2, <2>1 DEF Sound
<1> QED  BY Zenon, <1>1, <1>2

\* The step of a filler to another statement.
LEMMA SoundGoto ==
    ASSUME Sound, filler.pc # "idle", filler'.todo = filler.todo, filler'.gaps = filler.gaps,
           filler'.max = filler.max
    PROVE  Shape' /\ \A g \in filler'.gaps : g[1] <= g[2]
<1>1. \A g \in filler'.gaps : g[1] <= g[2]
  BY Zenon DEF Sound
<1>2. Shape'
  BY Zenon DEF Sound, Shape
<1> QED  BY Zenon, <1>1, <1>2

\* The next entry of the list.
LEMMA SoundNext ==
    ASSUME NEW n \in Nat, filler \in FillerType(n), Sound, filler.pc # "idle", NextTree
    PROVE  Shape' /\ \A g \in filler'.gaps : g[1] <= g[2]
<1>1. CASE filler' = Idle
  BY Zenon, <1>1 DEF Idle, Shape
<1>2. CASE /\ Len(filler.todo) > 1 /\ filler'.pc = "read"
           /\ filler'.todo = Tail(filler.todo) /\ filler'.gaps = {} /\ filler'.max = 0
  <2>1. filler.todo \in Seq({"force", "gaps"}) /\ filler.todo # <<"gaps">>
    BY <1>2 DEF FillerType
  <2>2. filler.todo \in Seq({"force"}) /\ Len(filler.todo) > 1
    BY <1>2, <2>1, Zenon DEF Sound, Shape
  <2>3. \A t \in Seq({"force"}) : Len(t) > 1 => Tail(t) \in Seq({"force"}) /\ Tail(t) # <<>>
    <3> SUFFICES ASSUME NEW t \in Seq({"force"}), Len(t) > 1
                 PROVE  Tail(t) \in Seq({"force"}) /\ Tail(t) # <<>>
      OBVIOUS
    <3>1. t # <<>> /\ Tail(t) \in Seq({"force"}) /\ Len(t) \in Nat
      OBVIOUS
    <3>2. Len(Tail(t)) = Len(t) - 1
      BY <3>1
    <3>3. Len(Tail(t)) > 0
      BY <3>1, <3>2
    <3>4. \A u \in Seq({"force"}) : Len(u) > 0 => u # <<>>
      OBVIOUS
    <3> QED  BY <3>1, <3>3, <3>4, Zenon
  <2>4. Tail(filler.todo) \in Seq({"force"}) /\ Tail(filler.todo) # <<>>
    BY <2>2, <2>3, Zenon
  <2> QED  BY Zenon, <1>2, <2>4 DEF Shape
<1> QED  BY Zenon, <1>1, <1>2, NextTyped

\* Every step keeps it.
LEMMA SoundStep == TreeTyped /\ Sound /\ [TreeNext]_treeVars => Sound'
<1> SUFFICES ASSUME TreeTyped, Sound, [TreeNext]_treeVars PROVE Sound'
  OBVIOUS
<1>0. /\ R \subseteq RowType(tip) /\ filler \in FillerType(tip) /\ tip \in Nat /\ RowsBag
      /\ stream \subseteq 1..tip
  BY TypedParts, BackfillAssumption
<1>U. rows' = rows => R' = R
  BY Zenon DEF R
<1>S. /\ \A r, q \in R : r.force /\ q.force /\ r.seq > 0 /\ q.seq > 0 => r.seq = q.seq
      /\ \A r \in R : r.seq > 0 => r.seq \in indexed
  BY Zenon DEF Sound
<1>F. UNCHANGED filler => Shape' /\ \A g \in filler'.gaps : g[1] <= g[2]
  <2>1. UNCHANGED filler => Shape'
    BY Zenon DEF Sound, Shape
  <2> QED  BY <2>1, Zenon DEF Sound
<1>1. CASE UNCHANGED <<rows, filler, indexed>>
  BY Zenon, <1>1, <1>U, <1>F, <1>S DEF Sound
<1>2. ASSUME NEW s \in stream, Insert(s) PROVE Sound'
  <2> DEFINE new == Row(s, rows = EmptyBag /\ s > 1)
  <2>1. R' = R \cup {new} /\ filler' = filler /\ indexed' = indexed \cup {s}
    BY <1>2, InsertedRow, Zenon DEF Insert
  <2>2. new.seq = s /\ (new.force => R = {})
    BY Zenon DEF Row, R, EmptyBag, SetToBag, BagToSet
  <2> HIDE DEF new
  <2>3. \A r, q \in R' : r.force /\ q.force /\ r.seq > 0 /\ q.seq > 0 => r.seq = q.seq
    BY Zenon, <1>S, <2>1, <2>2
  <2>4. \A r \in R' : r.seq > 0 => r.seq \in indexed'
    BY Zenon, <1>S, <2>1, <2>2
  <2> QED  BY Zenon, <1>F, <2>1, <2>3, <2>4 DEF Sound
<1>3. CASE force_backfill
  <2>1. R' = R \cup {Row(0, TRUE)} /\ filler' = filler /\ indexed' = indexed
    BY <1>3, InsertedRow, Zenon DEF force_backfill
  <2>2. Row(0, TRUE).seq = 0 /\ ~(Row(0, TRUE).seq > 0)
    BY DEF Row
  <2>3. \A r, q \in R' : r.force /\ q.force /\ r.seq > 0 /\ q.seq > 0 => r.seq = q.seq
    BY <1>S, <2>1, <2>2, Zenon
  <2>4. \A r \in R' : r.seq > 0 => r.seq \in indexed'
    BY <1>S, <2>1, <2>2, Zenon
  <2> QED  BY Zenon, <1>F, <2>1, <2>3, <2>4 DEF Sound
<1>4. CASE get_trees_to_backfill
  <2>1. /\ \A x \in R' : \E r \in R : x.seq = r.seq /\ (x.force => r.force)
        /\ indexed' = indexed
    BY Zenon, <1>0, <1>4, UpdatedRows DEF get_trees_to_backfill
  <2>2. Shape' /\ \A g \in filler'.gaps : g[1] <= g[2]
    BY Zenon, <1>4, Listed DEF Shape
  <2> QED  BY Zenon, <2>1, <2>2, SoundRows DEF Sound
<1>5. CASE get_missing_data
  <2>0. rows' = rows /\ indexed' = indexed /\ filler.pc = "read" /\ filler'.todo = filler.todo
    BY <1>5, Planned, Zenon DEF get_missing_data
  <2>1. \A g \in filler'.gaps : g[1] <= g[2]
    <3>1. CASE filler'.gaps = {<<s, s>> : s \in 1..tip}
      BY <1>0, <3>1
    <3>2. CASE filler'.gaps = filler.gaps
      BY <3>2, Zenon DEF Sound
    <3>3. ASSUME NEW start \in 0..tip, filler'.gaps = Gaps({r.seq : r \in R}, start)
          PROVE  \A g \in filler'.gaps : g[1] <= g[2]
      <4>1. \A r \in R : r.seq \in Nat
        BY <1>0 DEF RowType
      <4> QED  BY <3>3, <4>1 DEF Gaps
    <3> QED  BY <1>5, <3>1, <3>2, <3>3, Planned, Zenon
  <2>2. Shape'
    <3>1. \/ filler.todo = <<"gaps">>
          \/ filler.todo \in Seq({"force"}) /\ filler.todo # <<>> /\ filler.max = 0
      BY Zenon, <2>0 DEF Sound, Shape
    <3>2. CASE filler.todo = <<"gaps">>
      BY Zenon, <2>0, <3>2 DEF Shape
    <3>3. CASE filler.todo \in Seq({"force"}) /\ filler.todo # <<>>
      <4>1. Head(filler.todo) = "force"
        BY <3>3
      <4>2. filler'.max = 0
        BY <1>5, <4>1, Planned, Zenon
      <4> QED  BY Zenon, <2>0, <3>3, <4>2 DEF Shape
    <3> QED  BY Zenon, <3>1, <3>2, <3>3
  <2> QED  BY Zenon, <1>S, <1>U, <2>0, <2>1, <2>2 DEF Sound
<1>6. CASE plug_gap
  <2>1. /\ rows' = rows /\ indexed' = indexed /\ filler.pc # "idle" /\ filler'.todo = filler.todo
        /\ filler'.gaps = filler.gaps /\ filler'.max = filler.max
    BY Zenon, <1>0, <1>6, GotoTyped DEF plug_gap, Pcs
  <2>2. Shape' /\ \A g \in filler'.gaps : g[1] <= g[2]
    BY <2>1, SoundGoto, Zenon
  <2> QED  BY Zenon, <1>S, <1>U, <2>1, <2>2 DEF Sound
<1>7. CASE PlugFails
  <2>1. /\ rows' = rows /\ indexed' = indexed /\ filler.pc # "idle"
    BY Zenon, <1>7 DEF PlugFails
  <2>2. /\ filler'.todo = filler.todo /\ filler'.max = filler.max
        /\ filler'.gaps = filler.gaps \/ filler'.gaps = {}
    BY <1>7, Retried, Zenon
  <2>3. Shape'
    BY <2>1, <2>2, Zenon DEF Sound, Shape
  <2>4. \A g \in filler'.gaps : g[1] <= g[2]
    BY Zenon, <2>2 DEF Sound
  <2> QED  BY Zenon, <1>S, <1>U, <2>1, <2>3, <2>4 DEF Sound
<1>8. CASE DeleteExtra
  <2>1. R' \subseteq R /\ indexed' = indexed
    BY Zenon, <1>8, KeptRows DEF DeleteExtra
  <2>2. /\ filler.pc # "idle" /\ filler'.todo = filler.todo
        /\ filler'.gaps = filler.gaps /\ filler'.max = filler.max
    BY Zenon, <1>0, <1>8, GotoTyped DEF DeleteExtra, Pcs
  <2>3. Shape' /\ \A g \in filler'.gaps : g[1] <= g[2]
    BY <2>2, SoundGoto, Zenon
  <2> QED  BY Zenon, <2>1, <2>3, SoundRows DEF Sound
<1>9. CASE Dedup
  <2>1. R' \subseteq R /\ indexed' = indexed
    BY <1>0, <1>9, DedupedRows, Zenon DEF Dedup
  <2>2. /\ filler.pc # "idle" /\ filler'.todo = filler.todo
        /\ filler'.gaps = filler.gaps /\ filler'.max = filler.max
    BY Zenon, <1>0, <1>9, GotoTyped DEF Dedup, Pcs
  <2>3. Shape' /\ \A g \in filler'.gaps : g[1] <= g[2]
    BY <2>2, SoundGoto, Zenon
  <2> QED  BY Zenon, <2>1, <2>3, SoundRows DEF Sound
<1>10. CASE mark_tree_as_backfilled
  <2>1. /\ \A x \in R' : \E r \in R : x.seq = r.seq /\ (x.force => r.force)
        /\ indexed' = indexed
    BY Zenon, <1>0, <1>10, BackfilledRows DEF mark_tree_as_backfilled
  <2>2. /\ filler.pc # "idle" /\ filler'.todo = filler.todo
        /\ filler'.gaps = filler.gaps /\ filler'.max = filler.max
    BY Zenon, <1>0, <1>10, GotoTyped DEF mark_tree_as_backfilled, Pcs
  <2>3. Shape' /\ \A g \in filler'.gaps : g[1] <= g[2]
    BY <2>2, SoundGoto, Zenon
  <2> QED  BY Zenon, <2>1, <2>3, SoundRows DEF Sound
<1>11. CASE clear_force_chk_flag
  <2>1. /\ \A x \in R' : \E r \in R : x.seq = r.seq /\ (x.force => r.force)
        /\ indexed' = indexed
    BY Zenon, <1>0, <1>11, UpdatedRows DEF clear_force_chk_flag
  <2>2. /\ filler.pc # "idle" /\ filler'.todo = filler.todo
        /\ filler'.gaps = filler.gaps /\ filler'.max = filler.max
    BY Zenon, <1>0, <1>11, GotoTyped DEF clear_force_chk_flag, Pcs
  <2>3. Shape' /\ \A g \in filler'.gaps : g[1] <= g[2]
    BY <2>2, SoundGoto, Zenon
  <2> QED  BY Zenon, <2>1, <2>3, SoundRows DEF Sound
<1>12. CASE unlock_tree \/ mark_tree_as_failed
  <2>1. /\ \A x \in R' : \E r \in R : x.seq = r.seq /\ (x.force => r.force)
        /\ indexed' = indexed /\ filler.pc # "idle" /\ NextTree
    BY Zenon, <1>0, <1>12, UpdatedRows DEF unlock_tree, mark_tree_as_failed
  <2>2. Shape' /\ \A g \in filler'.gaps : g[1] <= g[2]
    BY <1>0, <2>1, SoundNext, Zenon
  <2> QED  BY Zenon, <2>1, <2>2, SoundRows DEF Sound
<1>13. CASE CleanUpFails
  <2>1. /\ rows' = rows /\ indexed' = indexed /\ filler.pc # "idle" /\ filler'.todo = filler.todo
        /\ filler'.gaps = filler.gaps /\ filler'.max = filler.max
    BY Zenon, <1>0, <1>13, GotoTyped DEF CleanUpFails, Pcs
  <2>2. Shape' /\ \A g \in filler'.gaps : g[1] <= g[2]
    BY <2>1, SoundGoto, Zenon
  <2> QED  BY Zenon, <1>S, <1>U, <2>1, <2>2 DEF Sound
<1>14. CASE FillerCrash
  <2>1. rows' = rows /\ indexed' = indexed /\ filler'.pc = "idle" /\ filler'.gaps = {}
    BY Zenon, <1>14 DEF FillerCrash, Idle
  <2> QED  BY Zenon, <1>S, <1>U, <2>1 DEF Sound, Shape
<1>15. CASE MarkingFails
  <2>1. rows' = rows /\ indexed' = indexed /\ filler.pc # "idle" /\ NextTree
    BY Zenon, <1>15 DEF MarkingFails
  <2>2. Shape' /\ \A g \in filler'.gaps : g[1] <= g[2]
    BY <1>0, <2>1, SoundNext, Zenon
  <2> QED  BY Zenon, <1>S, <1>U, <2>1, <2>2 DEF Sound
<1>16. CASE Transact \/ Find \/ UNCHANGED treeVars
  BY <1>1, <1>16, Zenon DEF Transact, Find, treeVars
<1> QED
  BY Zenon, <1>2, <1>3, <1>4, <1>5, <1>6, <1>7, <1>8, <1>9, <1>10, <1>11, <1>12, <1>13,
     <1>14, <1>15, <1>16, Zenon DEF TreeNext, Fill

\* The gaps between the numbers of a set, from a start up to which nothing is missing,
\* cover what is missing below its greatest one.
LEMMA GapsCover ==
    ASSUME NEW n \in Nat, NEW S \in SUBSET (0..n), NEW start \in 0..n, NEW X,
           NEW base \in S, 1..base \subseteq X,
           start = 0 \/ (start \in S /\ 1..start \subseteq X),
           \A y \in S : y > 0 => y \in X,
           NEW m \in S, NEW s \in 1..m
    PROVE  s \in X \/ \E g \in Gaps(S, start) : g[1] <= s /\ s <= g[2]
<1>0. s \in Nat /\ s > 0 /\ s <= m /\ m \in Nat /\ base \in Nat /\ start \in Nat
  OBVIOUS
<1>1. CASE s \in S
  BY Zenon, <1>0, <1>1
<1>2. CASE s <= base
  <2>1. s \in 1..base
    BY <1>0, <1>2
  <2> QED  BY Zenon, <2>1
<1>3. CASE s \notin S /\ s > base
  <2> DEFINE A == {y \in S : y < s}
             B == {y \in S : y > s}
  <2>1. A \in SUBSET (0..n) /\ base \in A /\ B \in SUBSET Nat
    <3>1. base < s
      BY Zenon, <1>0, <1>3
    <3>2. S \in SUBSET Nat
      OBVIOUS
    <3> QED  BY Zenon, <3>1, <3>2
  <2>2. m \in B
    <3>1. m > s
      BY <1>0, <1>3
    <3> QED  BY Zenon, <3>1
  <2>3. PICK a \in A : \A y \in A : y <= a
    <3> HIDE DEF A
    <3> QED  BY Zenon, <2>1, HasGreatest
  <2>4. PICK b \in B : \A y \in B : b <= y
    <3> HIDE DEF B
    <3> QED  BY Zenon, <2>1, <2>2, HasLeast
  <2>5. /\ a \in S /\ b \in S /\ a < s /\ s < b /\ a \in Nat /\ b \in Nat
        /\ \A y \in S : y \in Nat /\ (y <= a \/ y >= b)
    BY <1>0, <1>3, <2>3, <2>4
  <2>6. CASE start <= a
    <3>1. <<a, b>> \in Gaps(S, start)
      <4>1. b - a > 1 /\ \A y \in S : y <= a \/ y >= b
        BY <1>0, <2>5
      <4> QED  BY Zenon, <2>5, <2>6, <4>1 DEF Gaps
    <3>2. <<a, b>>[1] <= s /\ s <= <<a, b>>[2]
      BY <1>0, <2>5
    <3> QED  BY Zenon, <3>1, <3>2
  <2>7. CASE ~(start <= a)
    <3>1. start \in S /\ 1..start \subseteq X
      BY <1>0, <2>5, <2>7
    <3>2. start >= b
      BY Zenon, <2>5, <2>7, <3>1
    <3>3. s \in 1..start
      BY <1>0, <2>5, <3>2
    <3> QED  BY Zenon, <3>1, <3>3
  <2> QED  BY Zenon, <2>6, <2>7
<1> QED  BY <1>0, <1>1, <1>2, <1>3

\* A gap whose ranges reach its end is replayed.
LEMMA GapReplayed ==
    ASSUME TreeTyped, RangesReach, NEW g \in (0..tip) \X (0..tip), g[1] <= g[2],
           NEW s \in 1..tip, g[1] <= s, s <= g[2]
    PROVE  s \in Replayed(g)
<1>1. tip \in Nat /\ tip \in 0..MaxTip /\ MaxTip \in Nat
  BY TypedParts, BackfillAssumption
<1>2. PICK p \in 0..tip, q \in 0..tip : g = <<p, q>>
  OBVIOUS
<1>3. p \in 0..MaxTip /\ q \in 0..MaxTip /\ s \in 0..MaxTip /\ p <= q /\ p <= s /\ s <= q
  BY <1>1, <1>2
<1>4. LastSlot(g) = SlotOf[q]
  BY <1>2, <1>3, Zenon DEF RangesReach
<1>5. SlotOf[p] <= SlotOf[s] /\ SlotOf[s] <= SlotOf[q]
  BY Zenon, <1>3, BackfillAssumption
<1>6. g[1] = p
  BY Zenon, <1>2
<1> QED  BY Zenon, <1>4, <1>5, <1>6 DEF Replayed

-----------------------------------------------------------------------------
Seen == indexed \cup stream

Covered(S, n) == 1..n \subseteq S

\* No fault of those the clean-up does not see.
Quiet ==
    Apart /\ RangesReach /\ env.faults \cap {"getBlocks", "outage", "crash"} = {}

Forced == Head(filler.todo) = "force"

\* Seen, or in a gap that is about to be replayed.
Due(s) == s \in Seen \/ \E g \in filler.gaps : g[1] <= s /\ s <= g[2]

SomeCovered == \E r \in R : Covered(Seen, r.seq)

\* The backfilled rows are complete.
Marked == \A r \in R : r.backfilled => Covered(Seen, r.seq)

\* Some row is complete, or will be after a forced pass, so that the rows of the tree
\* never start above a number that nobody has looked below.
Based ==
    /\ filler.pc = "idle" =>
          R = {} \/ SomeCovered \/ \E r \in R : r.force /\ ~r.failed /\ ~r.locked
    /\ filler.pc \in {"read", "plug"} => SomeCovered \/ (Forced /\ \E r \in R : r.force)
    /\ filler.pc = "delete" => SomeCovered
    /\ filler.pc \in {"dedup", "mark", "clear", "unlock", "failed"} => R = {} \/ SomeCovered

\* While a forced tree has more entries in the list, the finder's row is there.
Rooted == filler.pc # "idle" /\ Len(filler.todo) > 1 => \E r \in R : r.seq = 0

\* The gaps hold what is missing below the number of the pass and below the forced rows.
Plan ==
    filler.pc = "plug" =>
        /\ \A s \in 1..filler.max : Due(s)
        /\ Forced => \A r \in R : r.force => \A s \in 1..r.seq : Due(s)

\* The clean-up follows a pass that has sent what was missing.
Sent == filler.pc \in {"delete", "dedup", "mark"} => Covered(Seen, filler.max)

Complete == Marked /\ Based /\ Rooted /\ Plan /\ Sent

\* A tree whose rows and filler do not change.
LEMMA CompleteStays ==
    ASSUME Complete, R' = R, filler' = filler, Seen \subseteq Seen'
    PROVE  Complete'
<1>1. Marked' /\ (SomeCovered => SomeCovered')
  BY Zenon DEF Complete, Marked, SomeCovered, Covered
<1>2. Based' /\ Rooted'
  BY <1>1, Zenon DEF Complete, Based, Forced, Rooted
<1>3. \A s : Due(s) => Due(s)'
  BY Zenon DEF Due
<1>4. Plan'
  BY <1>3, Zenon DEF Complete, Plan, Forced
<1>5. Sent'
  BY Zenon DEF Complete, Sent, Covered
<1> QED  BY Zenon, <1>1, <1>2, <1>4, <1>5 DEF Complete

\* A step of the clean-up that keeps the numbers of the rows.
LEMMA RowsCarried ==
    ASSUME Complete, Seen' = Seen,
           \A x \in R' : \E r \in R : x.seq = r.seq /\ (x.backfilled => r.backfilled),
           \A r \in R : \E x \in R' : x.seq = r.seq
    PROVE  /\ Marked' /\ (SomeCovered => SomeCovered') /\ (R = {} => R' = {})
           /\ (\E r \in R : r.seq = 0) => (\E r \in R' : r.seq = 0)
<1>1. Marked'
  BY Zenon DEF Complete, Marked, Covered
<1>2. SomeCovered => SomeCovered'
  BY Zenon DEF SomeCovered, Covered
<1> QED  BY Zenon, <1>1, <1>2

\* A row that comes in.
LEMMA InsertComplete ==
    ASSUME TreeTyped, Quiet, Complete, NEW s \in stream, Insert(s)
    PROVE  Complete'
<1> DEFINE new == Row(s, rows = EmptyBag /\ s > 1)
<1>0. R \subseteq RowType(tip) /\ tip \in Nat /\ RowsBag /\ s \in Nat /\ s > 0
  BY TypedParts, BackfillAssumption
<1>1. /\ R' = R \cup {new} /\ filler' = filler /\ Seen' = Seen /\ s \in Seen'
      /\ filler.pc \in {"idle", "read", "plug", "delete"}
  BY Zenon, InsertedRow DEF Insert, Seen, Quiet, Apart
<1>2. /\ new.seq = s /\ ~new.backfilled /\ ~new.failed /\ ~new.locked
      /\ new.force <=> rows = EmptyBag /\ s > 1
  BY Zenon DEF Row
<1>3. rows = EmptyBag <=> R = {}
  BY <1>0, Zenon DEF R, RowsBag, EmptyBag, SetToBag, BagToSet
<1> HIDE DEF new
<1>4. Marked' /\ (SomeCovered => SomeCovered')
  BY Zenon, <1>1, <1>2 DEF Complete, Marked, SomeCovered
<1>5. Based'
  <2>1. CASE R = {}
    <3>1. filler.pc = "idle"
      BY Zenon, <1>1, <2>1 DEF Complete, Based, SomeCovered
    <3>2. CASE s > 1
      BY Zenon, <1>1, <1>2, <1>3, <2>1, <3>1, <3>2 DEF Based
    <3>3. CASE s = 1
      <4>1. Covered(Seen', 1)
        BY <1>1, <3>3 DEF Covered
      <4>2. SomeCovered'
        BY Zenon, <1>1, <1>2, <3>3, <4>1 DEF SomeCovered
      <4> QED  BY Zenon, <1>1, <3>1, <4>2 DEF Based
    <3> QED  BY <1>0, <3>2, <3>3
  <2>2. CASE R # {}
    BY Zenon, <1>1, <1>4, <2>2 DEF Complete, Based, Forced
  <2> QED  BY Zenon, <2>1, <2>2
<1>6. Rooted'
  BY Zenon, <1>1 DEF Complete, Rooted
<1>7. \A t : Due(t) => Due(t)'
  BY Zenon, <1>1 DEF Due
<1>8. Plan'
  <2>1. filler.pc = "plug" => ~new.force
    BY Zenon, <1>2, <1>3 DEF Complete, Based, SomeCovered
  <2> QED  BY Zenon, <1>1, <1>7, <2>1 DEF Complete, Plan, Forced
<1>9. Sent'
  BY Zenon, <1>1 DEF Complete, Sent
<1> QED  BY Zenon, <1>4, <1>5, <1>6, <1>8, <1>9 DEF Complete

\* A row of the finder.
LEMMA FoundComplete ==
    ASSUME Quiet, Complete, force_backfill
    PROVE  Complete'
<1> DEFINE new == Row(0, TRUE)
<1>1. /\ R' = R \cup {new} /\ filler' = filler /\ Seen' = Seen
  BY Zenon, InsertedRow DEF force_backfill, Seen
<1>2. new.seq = 0 /\ ~new.backfilled
  BY Zenon DEF Row
<1> HIDE DEF new
<1>3. Covered(Seen', 0)
  BY DEF Covered
<1>4. Marked' /\ SomeCovered'
  BY Zenon, <1>1, <1>2, <1>3 DEF Complete, Marked, SomeCovered
<1>5. Based' /\ Rooted'
  BY Zenon, <1>1, <1>2, <1>4 DEF Based, Rooted
<1>6. \A t : Due(t) => Due(t)'
  BY Zenon, <1>1 DEF Due
<1>7. Plan'
  <2>1. 1..new.seq = {}
    BY <1>2
  <2> QED  BY <1>1, <1>6, <2>1, Zenon DEF Complete, Plan, Forced
<1>8. Sent'
  BY <1>1, Zenon DEF Complete, Sent
<1> QED  BY Zenon, <1>4, <1>5, <1>7, <1>8 DEF Complete

\* A tree that is not forced has one entry.
LEMMA OneGapsEntry == ~(Len(<<"gaps">>) > 1)
<1>1. Len(<<"gaps">>) = 1
  OBVIOUS
<1> QED  BY <1>1

\* A tree that is listed.
LEMMA ListedComplete ==
    ASSUME TreeTyped, Sound, Complete, get_trees_to_backfill
    PROVE  Complete'
<1> DEFINE forced == {r \in R : r.force /\ ~r.failed /\ ~r.locked}
<1>0. R \subseteq RowType(tip) /\ tip \in Nat
  BY TypedParts, BackfillAssumption
<1>1. filler.pc = "idle" /\ Seen' = Seen
  BY Zenon DEF get_trees_to_backfill, Seen
<1>2. /\ R # {} /\ filler'.pc = "read"
      /\ \/ forced = {} /\ filler'.todo = <<"gaps">>
         \/ /\ forced # {} /\ filler'.todo \in Seq({"force"}) /\ filler'.todo # <<>>
            /\ Len(filler'.todo) > 1 => \E r, q \in forced : r.seq # q.seq
  BY Listed, Zenon
<1>3. /\ \A x \in R' : \E r \in R : x.seq = r.seq /\ (x.backfilled => r.backfilled)
      /\ \A r \in R : \E x \in R' : x.seq = r.seq
  BY <1>0, UpdatedRows
<1>4. /\ Marked' /\ (SomeCovered => SomeCovered')
      /\ (\E r \in R : r.seq = 0) => (\E r \in R' : r.seq = 0)
  BY <1>1, <1>3, RowsCarried, Zenon
<1>5. \A r \in R : r.force => \E x \in R' : x.force
  <2>1. R' = {[r EXCEPT !.locked = TRUE] : r \in R}
    BY LockedRows, Zenon DEF get_trees_to_backfill
  <2>2. \A r \in R : [r EXCEPT !.locked = TRUE].force = r.force
    BY Zenon, <1>0 DEF RowType
  <2> QED  BY <2>1, <2>2, Zenon
<1>6. Based'
  <2>1. SomeCovered \/ forced # {}
    BY Zenon, <1>1, <1>2 DEF Complete, Based
  <2>2. forced # {} => Forced'
    BY <1>2 DEF Forced
  <2>3. forced # {} => \E x \in R' : x.force
    BY Zenon, <1>5
  <2> QED  BY Zenon, <1>2, <1>4, <2>1, <2>2, <2>3 DEF Based
<1>7. Rooted'
  <2>1. ASSUME Len(filler'.todo) > 1 PROVE \E r \in R : r.seq = 0
    <3>0. filler'.todo # <<"gaps">>
      BY <2>1, OneGapsEntry, Zenon
    <3>1. PICK r \in forced, q \in forced : r.seq # q.seq
      BY <1>2, <2>1, <3>0, Zenon
    <3>2. r.seq \in Nat /\ q.seq \in Nat
      BY <1>0 DEF RowType
    <3>3. ~(r.seq > 0 /\ q.seq > 0)
      BY Zenon, <3>1 DEF Sound
    <3> QED  BY <3>2, <3>3
  <2> QED  BY Zenon, <1>4, <2>1 DEF Rooted
<1>8. Plan' /\ Sent'
  BY Zenon, <1>2 DEF Plan, Sent
<1> QED  BY Zenon, <1>4, <1>6, <1>7, <1>8 DEF Complete

\* A pass that has found out what is missing.
LEMMA PlannedComplete ==
    ASSUME TreeTyped, Sound, Complete, get_missing_data
    PROVE  Complete'
<1>0. R \subseteq RowType(tip) /\ tip \in Nat /\ filler \in FillerType(tip)
  BY TypedParts, BackfillAssumption
<1>1. filler.pc = "read" /\ Seen' = Seen /\ R' = R /\ filler'.todo = filler.todo
  BY Planned, Zenon DEF get_missing_data, Seen, R
<1>2. SomeCovered \/ (Forced /\ \E r \in R : r.force)
  BY Zenon, <1>1 DEF Complete, Based
<1>3. filler'.pc = "plug"
  BY <1>2, Planned, Zenon DEF SomeCovered
<1>4. Marked' /\ Based' /\ Rooted' /\ Sent'
  BY Zenon, <1>1, <1>2, <1>3 DEF Complete, Marked, Based, Rooted, Sent, SomeCovered, Forced
<1>5. Plan'
  <2>1. CASE Forced
    <3>1. filler'.max = 0 /\ filler'.gaps = {<<s, s>> : s \in 1..tip}
      BY <2>1, Planned, Zenon DEF Forced
    <3>2. \A s \in 1..tip : Due(s)'
      <4>1. ASSUME NEW s \in 1..tip PROVE Due(s)'
        <5>1. <<s, s>> \in filler'.gaps /\ <<s, s>>[1] <= s /\ s <= <<s, s>>[2]
          BY <1>0, <3>1
        <5> QED  BY Zenon, <5>1 DEF Due
      <4> QED  BY Zenon, <4>1
    <3>3. \A r \in R : 1..r.seq \subseteq 1..tip
      BY <1>0 DEF RowType
    <3>4. \A s \in 1..filler'.max : Due(s)'
      BY <3>1
    <3> QED  BY <1>1, <3>2, <3>3, <3>4, Zenon DEF Plan
  <2>2. CASE ~Forced
    <3>1. PICK base \in R : Covered(Seen, base.seq)
      BY Zenon, <1>2, <2>2 DEF SomeCovered
    <3>2. PICK start \in 0..tip :
             /\ \/ start = 0 /\ \A r \in R : ~r.backfilled
                \/ \E r \in R : r.backfilled /\ r.seq = start
             /\ filler'.gaps = Gaps({r.seq : r \in R}, start)
      BY Zenon, <2>2, <3>1, Planned DEF Forced
    <3>3. PICK top \in R : filler'.max = top.seq
      BY Zenon, <2>2, <3>1, Planned DEF Forced
    <3> DEFINE S == {r.seq : r \in R}
    <3>4. S \in SUBSET (0..tip) /\ base.seq \in S /\ top.seq \in S
      BY Zenon, <1>0 DEF RowType
    <3>5. start = 0 \/ (start \in S /\ 1..start \subseteq Seen)
      BY Zenon, <3>2 DEF Complete, Marked, Covered
    <3>6. \A y \in S : y > 0 => y \in Seen
      BY Zenon DEF Sound, Seen
    <3>7. filler'.gaps = Gaps(S, start)
      BY Zenon, <3>2
    <3> HIDE DEF S
    <3>8. ASSUME NEW s \in 1..filler'.max PROVE Due(s)'
      <4>1. s \in Seen \/ \E g \in Gaps(S, start) : g[1] <= s /\ s <= g[2]
        <5>1. s \in 1..top.seq /\ 1..base.seq \subseteq Seen
          BY Zenon, <3>1, <3>3, <3>8 DEF Covered
        <5> QED  BY Zenon, <1>0, <3>4, <3>5, <3>6, <5>1, GapsCover
      <4> QED  BY <1>1, <3>7, <4>1, Zenon DEF Due
    <3>9. ~Forced'
      BY <1>1, <2>2, Zenon DEF Forced
    <3> QED  BY <3>8, <3>9, Zenon DEF Plan
  <2> QED  BY Zenon, <2>1, <2>2
<1> QED  BY Zenon, <1>4, <1>5 DEF Complete

\* A pass that has sent its gaps.
LEMMA PluggedComplete ==
    ASSUME TreeTyped, Quiet, Sound, Complete, plug_gap
    PROVE  Complete'
<1>0. /\ R \subseteq RowType(tip) /\ tip \in Nat /\ filler \in FillerType(tip)
      /\ indexed \subseteq 1..tip /\ stream \subseteq 1..tip
  BY TypedParts, BackfillAssumption
<1>1. /\ filler.pc = "plug" /\ filler'.pc = "delete" /\ filler'.todo = filler.todo
      /\ filler'.max = filler.max /\ R' = R
  BY Zenon, <1>0, GotoTyped DEF plug_gap, Pcs, R
<1>2. stream' = stream \cup UNION {Replayed(g) : g \in filler.gaps} /\ indexed' = indexed
  <2>1. PICK dropped \in IF "getBlocks" \in env.faults THEN SUBSET filler.gaps ELSE {{}} :
          stream' = stream \cup UNION {Replayed(g) : g \in filler.gaps \ dropped}
    BY Zenon DEF plug_gap
  <2>2. dropped = {}
    BY Zenon, <2>1 DEF Quiet
  <2>3. filler.gaps \ dropped = filler.gaps
    BY Zenon, <2>2
  <2>4. indexed' = indexed
    BY Zenon DEF plug_gap
  <2> QED  BY <2>1, <2>3, <2>4, Zenon
<1>3. Seen \subseteq Seen'
  BY Zenon, <1>2 DEF Seen
<1>4. ASSUME NEW s \in 1..tip, Due(s) PROVE s \in Seen'
  <2>1. CASE s \in Seen
    BY Zenon, <1>3, <2>1
  <2>2. ASSUME NEW g \in filler.gaps, g[1] <= s, s <= g[2] PROVE s \in Seen'
    <3>1. g \in (0..tip) \X (0..tip) /\ g[1] <= g[2]
      BY <1>0, Zenon DEF FillerType, Sound
    <3>2. s \in Replayed(g)
      BY <2>2, <3>1, GapReplayed, Zenon DEF Quiet
    <3> QED  BY Zenon, <1>2, <3>2 DEF Seen
  <2> QED  BY <1>4, <2>1, <2>2, Zenon DEF Due
<1>5. Covered(Seen', filler.max)
  <2>1. \A s \in 1..filler.max : s \in 1..tip /\ Due(s)
    BY <1>0, <1>1 DEF Complete, Plan, FillerType
  <2> QED  BY Zenon, <1>4, <2>1 DEF Covered
<1>6. SomeCovered'
  <2>1. CASE SomeCovered
    BY Zenon, <1>1, <1>3, <2>1 DEF SomeCovered, Covered
  <2>2. CASE ~SomeCovered
    <3>1. Forced /\ \E r \in R : r.force
      BY Zenon, <1>1, <2>2 DEF Complete, Based
    <3>2. PICK r \in R : r.force
      BY Zenon, <3>1
    <3>3. \A s \in 1..r.seq : Due(s)
      BY Zenon, <1>1, <3>1, <3>2 DEF Complete, Plan
    <3>4. 1..r.seq \subseteq 1..tip
      BY <1>0 DEF RowType
    <3>5. Covered(Seen', r.seq)
      BY Zenon, <1>4, <3>3, <3>4 DEF Covered
    <3> QED  BY Zenon, <1>1, <3>5 DEF SomeCovered
  <2> QED  BY Zenon, <2>1, <2>2
<1>7. Marked'
  BY Zenon, <1>1, <1>3 DEF Complete, Marked, Covered
<1>8. Based' /\ Rooted' /\ Plan' /\ Sent'
  BY Zenon, <1>1, <1>5, <1>6 DEF Complete, Based, Rooted, Plan, Sent
<1> QED  BY Zenon, <1>7, <1>8 DEF Complete

\* A pass that is tried again.
LEMMA RetriedComplete ==
    ASSUME TreeTyped, Quiet, Complete, PlugFails
    PROVE  Complete'
<1>1. /\ filler'.todo = filler.todo /\ stream \subseteq stream'
      /\ filler'.pc = "read"
  BY Zenon, Retried DEF Quiet
<1>2. filler.pc \in {"read", "plug"} /\ R' = R /\ indexed' = indexed
  BY Zenon DEF PlugFails, R
<1>3. Seen \subseteq Seen'
  BY Zenon, <1>1, <1>2 DEF Seen
<1>4. Marked' /\ (SomeCovered => SomeCovered')
  BY Zenon, <1>2, <1>3 DEF Complete, Marked, SomeCovered, Covered
<1>5. Based' /\ Rooted' /\ Plan' /\ Sent'
  BY Zenon, <1>1, <1>2, <1>4 DEF Complete, Based, Rooted, Plan, Sent, Forced
<1> QED  BY Zenon, <1>4, <1>5 DEF Complete

\* The rows of other numbers go.
LEMMA DeletedComplete ==
    ASSUME TreeTyped, Sound, Complete, DeleteExtra
    PROVE  Complete'
<1>0. R \subseteq RowType(tip) /\ tip \in Nat /\ filler \in FillerType(tip)
  BY TypedParts, BackfillAssumption
<1>1. /\ filler.pc = "delete" /\ filler'.pc = "dedup" /\ filler'.todo = filler.todo
      /\ filler'.max = filler.max /\ Seen' = Seen
  BY Zenon, <1>0, GotoTyped DEF DeleteExtra, Pcs, Seen
<1>2. R' = {r \in R : r.seq = filler.max}
  BY Zenon, KeptRows DEF DeleteExtra, R
<1>3. Covered(Seen', filler.max)
  BY Zenon, <1>1 DEF Complete, Sent
<1>4. Marked' /\ (R' = {} \/ SomeCovered')
  BY Zenon, <1>2, <1>3 DEF Marked, SomeCovered
<1>5. Rooted'
  <2>1. ASSUME Len(filler.todo) > 1 PROVE \E r \in R' : r.seq = 0
    <3>1. filler.todo # <<"gaps">>
      BY <2>1, OneGapsEntry, Zenon
    <3>2. filler.max = 0
      BY Zenon, <1>1, <3>1 DEF Sound, Shape
    <3>3. \E r \in R : r.seq = 0
      BY Zenon, <1>1, <2>1 DEF Complete, Rooted
    <3> QED  BY Zenon, <1>2, <3>2, <3>3
  <2> QED  BY Zenon, <1>1, <2>1 DEF Rooted
<1>6. Based' /\ Plan' /\ Sent'
  BY Zenon, <1>1, <1>3, <1>4 DEF Based, Plan, Sent
<1> QED  BY Zenon, <1>4, <1>5, <1>6 DEF Complete

\* There is nothing left to delete.
LEMMA DedupedComplete ==
    ASSUME TreeTyped, Quiet, OneNumber, Complete, Dedup
    PROVE  Complete'
<1>0. R \subseteq RowType(tip) /\ tip \in Nat /\ filler \in FillerType(tip) /\ RowsBag
  BY TypedParts, BackfillAssumption
<1>1. /\ filler.pc = "dedup" /\ filler'.pc = "mark" /\ filler'.todo = filler.todo
      /\ filler'.max = filler.max
  BY Zenon, <1>0, GotoTyped DEF Dedup, Pcs
<1>2. Seen' = Seen
  BY Zenon DEF Dedup, Seen
<1>3. R' = R
  BY Zenon, <1>0, <1>1, DedupedRows DEF OneNumber, Quiet
<1> QED
  BY Zenon, <1>1, <1>2, <1>3 DEF Complete, Marked, Based, Rooted, Plan, Sent, SomeCovered

\* The rows that are left are marked.
LEMMA MarkedComplete ==
    ASSUME TreeTyped, Quiet, OneNumber, Complete, mark_tree_as_backfilled
    PROVE  Complete'
<1>0. R \subseteq RowType(tip) /\ tip \in Nat /\ filler \in FillerType(tip)
  BY TypedParts, BackfillAssumption
<1>1. filler.pc = "mark" /\ filler'.pc = "clear" /\ filler'.todo = filler.todo /\ Seen' = Seen
  BY Zenon, <1>0, GotoTyped DEF mark_tree_as_backfilled, Pcs, Seen
<1>2. /\ \A x \in R' : \E r \in R : x.seq = r.seq
      /\ \A r \in R : \E x \in R' : x.seq = r.seq
  BY Zenon, <1>0, BackfilledRows
<1>3. Covered(Seen', filler.max) /\ \A r \in R : r.seq = filler.max
  BY Zenon, <1>1 DEF Complete, Sent, OneNumber, Quiet
<1>4. Marked' /\ (R' = {} \/ SomeCovered')
  BY <1>2, <1>3 DEF Marked, SomeCovered
<1>5. Rooted'
  BY Zenon, <1>1, <1>2 DEF Complete, Rooted
<1>6. Based' /\ Plan' /\ Sent'
  BY Zenon, <1>1, <1>4 DEF Based, Plan, Sent
<1> QED  BY Zenon, <1>4, <1>5, <1>6 DEF Complete

\* The rest of the clean-up.
LEMMA ReleasedComplete ==
    ASSUME TreeTyped, Complete,
           clear_force_chk_flag \/ unlock_tree \/ mark_tree_as_failed \/ MarkingFails
    PROVE  Complete'
<1>0. R \subseteq RowType(tip) /\ tip \in Nat /\ filler \in FillerType(tip)
  BY TypedParts, BackfillAssumption
<1>1. Seen' = Seen /\ filler.pc \in {"clear", "unlock", "failed"}
  BY Zenon DEF clear_force_chk_flag, unlock_tree, mark_tree_as_failed, MarkingFails, Seen
<1>2. /\ \A x \in R' : \E r \in R : x.seq = r.seq /\ (x.backfilled => r.backfilled)
      /\ \A r \in R : \E x \in R' : x.seq = r.seq
  <2>1. CASE MarkingFails
    <3>1. R' = R
      BY <2>1, Zenon DEF MarkingFails, R
    <3> QED  BY <3>1, Zenon
  <2>2. CASE clear_force_chk_flag \/ unlock_tree \/ mark_tree_as_failed
    BY <1>0, <2>2, UpdatedRows
  <2> QED  BY <2>1, <2>2, Zenon
<1>3. /\ Marked' /\ (SomeCovered => SomeCovered') /\ (R = {} => R' = {})
      /\ (\E r \in R : r.seq = 0) => (\E r \in R' : r.seq = 0)
  BY <1>1, <1>2, RowsCarried, Zenon
<1>4. R' = {} \/ SomeCovered'
  BY Zenon, <1>1, <1>3 DEF Complete, Based
<1>5. CASE clear_force_chk_flag
  <2>1. filler'.pc = "unlock" /\ filler'.todo = filler.todo
    BY Zenon, <1>0, <1>5, GotoTyped DEF clear_force_chk_flag, Pcs
  <2> QED  BY Zenon, <1>1, <1>3, <1>4, <2>1 DEF Complete, Based, Rooted, Plan, Sent
<1>6. CASE NextTree
  <2>1. CASE filler' = Idle
    BY Zenon, <1>3, <1>4, <2>1 DEF Complete, Based, Rooted, Plan, Sent, Idle
  <2>2. CASE Len(filler.todo) > 1 /\ filler'.pc = "read"
    <3>1. \E r \in R' : r.seq = 0
      BY Zenon, <1>1, <1>3, <2>2 DEF Complete, Rooted
    <3>2. Covered(Seen', 0)
      BY DEF Covered
    <3>3. SomeCovered'
      BY Zenon, <3>1, <3>2 DEF SomeCovered
    <3> QED  BY Zenon, <1>3, <2>2, <3>1, <3>3 DEF Complete, Based, Rooted, Plan, Sent
  <2> QED  BY <1>0, <1>6, <2>1, <2>2, NextTyped, Zenon
<1> QED  BY Zenon, <1>5, <1>6 DEF unlock_tree, mark_tree_as_failed, MarkingFails

\* A clean-up that fails.
LEMMA FailedComplete ==
    ASSUME TreeTyped, Complete, CleanUpFails
    PROVE  Complete'
<1>0. tip \in Nat /\ filler \in FillerType(tip)
  BY TypedParts, BackfillAssumption
<1>1. /\ filler.pc \in {"delete", "dedup", "mark", "clear", "unlock"} /\ filler'.pc = "failed"
      /\ filler'.todo = filler.todo /\ Seen' = Seen /\ R' = R
  BY Zenon, <1>0, GotoTyped DEF CleanUpFails, Pcs, Seen, R
<1> QED
  BY Zenon, <1>1 DEF Complete, Marked, Based, Rooted, Plan, Sent, SomeCovered

\* The inductive invariant.
TreeInv == TreeTyped /\ OneNumber /\ Sound /\ (Quiet => Complete)

\* It holds of a tree without transactions.
LEMMA InitComplete == TreeInit => TreeInv
<1> SUFFICES ASSUME TreeInit PROVE TreeInv
  OBVIOUS
<1>1. TreeTyped /\ R = {} /\ filler.pc = "idle" /\ filler.gaps = {}
  BY Zenon, InitTree DEF TreeInit, Idle
<1>2. OneNumber /\ Sound
  BY Zenon, <1>1 DEF OneNumber, Sound, Shape
<1>3. Complete
  BY Zenon, <1>1 DEF Complete, Marked, Based, Rooted, Plan, Sent
<1> QED  BY Zenon, <1>1, <1>2, <1>3 DEF TreeInv

\* Every step keeps it.
LEMMA TreeStep == TreeInv /\ [TreeNext]_treeVars => TreeInv'
<1> SUFFICES ASSUME TreeInv, [TreeNext]_treeVars PROVE TreeInv'
  OBVIOUS
<1>0. TreeTyped /\ OneNumber /\ Sound /\ (Quiet => Complete)
  BY Zenon DEF TreeInv
<1>1. TreeTyped' /\ OneNumber' /\ Sound'
  BY Zenon, <1>0, TreeTypeStep, OneNumberStep, SoundStep
<1>2. ASSUME Quiet' PROVE Complete'
  <2>1. env' = env
    BY Zenon DEF TreeNext, Fill, treeVars, Transact, Insert, Find, force_backfill,
       get_trees_to_backfill, get_missing_data, plug_gap, PlugFails, DeleteExtra, Dedup,
       mark_tree_as_backfilled, clear_force_chk_flag, unlock_tree, CleanUpFails,
       mark_tree_as_failed, MarkingFails, FillerCrash
  <2>2. Quiet
    BY <1>2, <2>1, Zenon DEF Quiet, Apart, RangesReach, LastSlot
  <2>3. Complete
    BY Zenon, <1>0, <2>2
  <2>4. CASE Transact \/ Find \/ UNCHANGED treeVars
    <3>1. R' = R /\ filler' = filler /\ Seen \subseteq Seen'
      BY Zenon, <2>4 DEF Transact, Find, treeVars, R, Seen
    <3> QED  BY <2>3, <3>1, CompleteStays, Zenon
  <2>5. CASE FillerCrash
    BY Zenon, <2>2, <2>5 DEF FillerCrash, Quiet
  <2> QED
    BY Zenon, <1>0, <2>2, <2>3, <2>4, <2>5, InsertComplete, FoundComplete, ListedComplete,
       PlannedComplete, PluggedComplete, RetriedComplete, DeletedComplete, DedupedComplete,
       MarkedComplete, ReleasedComplete, FailedComplete, Zenon DEF TreeNext, Fill
<1> QED  BY Zenon, <1>1, <1>2 DEF TreeInv

\* Under the five conditions named with it, everything up to a backfilled row has been
\* handled or is on its way, so that the next pass may start there (get_missing_data,
\* delete_extra_rows_and_mark_as_backfilled), for any history, slots and order of rows.
THEOREM StartIsComplete == TreeSpec => []BackfilledIsComplete
<1>1. TreeInv => BackfilledIsComplete
  BY Zenon DEF TreeInv, BackfilledIsComplete, Quiet, Complete, Marked, Covered, Seen, R
<1> QED  BY <1>1, InitComplete, TreeStep, PTL DEF TreeSpec

\* Under the same conditions a listed tree has rows: the error of clean_up_backfilled_tree
\* ("Unexpected error, tree was in list, but no rows found") is never met.
THEOREM ListedHasRows == TreeSpec => [](Quiet /\ filler.pc = "read" => R # {})
<1>1. TreeInv => (Quiet /\ filler.pc = "read" => R # {})
  BY Zenon DEF TreeInv, Complete, Based, SomeCovered
<1> QED  BY <1>1, InitComplete, TreeStep, PTL DEF TreeSpec

=============================================================================
