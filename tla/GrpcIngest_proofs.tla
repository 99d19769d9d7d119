--------------------------- MODULE GrpcIngest_proofs --------------------------
(***************************************************************************)
(* Proofs about GrpcIngest for every chain, every number of permits and     *)
(* every start slot: the inductive invariant, facts about the operators of  *)
(* cursor.rs, the steps of the plugin and the subscription, then those of   *)
(* the tasks, the saves and the life of the process.                        *)
(***************************************************************************)
EXTENDS GrpcIngest, FiniteSetTheorems, WellFoundedInduction, TLAPS

InFlight(u) == \E i \in Writers : writer[i].update = u

\* An update that a restart need not, or will, receive again.
Accounted(u) == u \in done \/ InGap(SlotOf[u]) \/ InFlight(u)

\* Every slot that is, or is about to be, a resume point claims only settled
\* updates.
ResumePoints == {watermark, cursor} \cup {saving[p] : p \in Savers}
ResumePointsSettled == \A x \in ResumePoints \ {None} : Settled(x)

\* Below the newest finalized slot everything was received.
BelowFinalized ==
    highest_finalized # None =>
        \A u \in Update :
            base <= SlotOf[u] /\ SlotOf[u] < highest_finalized => Accounted(u)

\* The subscription starts where everything before is settled, and what it
\* has received is accounted for.
SubscriptionSound ==
    /\ from # None =>
          \A u \in Update : base <= SlotOf[u] /\ SlotOf[u] < from
                               => u \in done \/ InGap(SlotOf[u])
    /\ \A u \in sent : base <= SlotOf[u] => Accounted(u)
    /\ conn = "connecting" /\ from # None => from > 0
    /\ conn \in {"up", "refused", "logged"} => from # None
    /\ conn \in {"refused", "logged"} => available # None /\ from \in Slots
    /\ conn = "logged" => <<from, available>> \in gaps

WrittenIsDone == \A i \in Writers : writer[i].step = "written" => writer[i].update \in done

\* While nothing was ever finalized there is nothing to resume from.
Fresh ==
    /\ conn # "idle" => phase = "run"
    /\ phase # "down" /\ watermark = None =>
          /\ highest_finalized = None /\ cursor = None /\ StartSlot = None
          /\ \A p \in Savers : saving[p] = None
    /\ conn = "connecting" /\ from = None => watermark = None
    /\ phase = "down" => watermark = None /\ highest_finalized = None
                           /\ \A p \in Savers : saving[p] = None
    /\ saving["main"] # None => phase = "saving"
    /\ StartSlot = None => base <= tip + 1
    /\ StartSlot # None => base = StartSlot

IInv ==
    /\ TypeOK
    /\ PendingIsInFlight
    /\ ResumePointsSettled
    /\ BelowFinalized
    /\ SubscriptionSound
    /\ WrittenIsDone
    /\ Fresh

-----------------------------------------------------------------------------
(* Facts about the operators of cursor.rs *)

\* Every update belongs to a slot of the chain.
LEMMA SlotIsSlot ==
    ASSUME NEW u \in Update
    PROVE  SlotOf[u] \in Blocks /\ SlotOf[u] \in Slots /\ SlotOf[u] \in Nat /\ SlotOf[u] > 0
<1>1. SlotOf[u] \in Slots /\ SlotOf[u] \in Blocks
  BY ChainAssumption
<1> QED  BY <1>1, ChainAssumption DEF Slots

\* A non-empty set of slots has a least element, and Min names it.
LEMMA MinOfSlots ==
    ASSUME NEW S \in SUBSET Nat, S # {}
    PROVE  Min(S) \in S /\ \A y \in S : Min(S) <= y
<1> DEFINE Less == {ss \in Nat \X Nat : ss[1] < ss[2]}
<1>1. IsWellFoundedOn(Less, Nat)
  BY NatLessThanWellFounded, Zenon DEF OpToRel
<1>2. PICK x \in S : \A y \in S : ~(<<y, x>> \in Less)
  <2> HIDE DEF Less
  <2> QED  BY <1>1, WFMin, Zenon
<1>3. ASSUME NEW y \in S PROVE x <= y
  <2>1. x \in Nat /\ y \in Nat /\ ~(<<y, x>> \in Less)
    BY <1>2
  <2>2. y < x => <<y, x>> \in Less
    BY <2>1
  <2> QED  BY <2>1, <2>2
<1> QED
  BY <1>3, Zenon DEF Min

\* advance leaves the watermark alone or moves it strictly below the newest
\* finalized slot and strictly below every slot with writes in flight.
LEMMA AdvanceBelow ==
    ASSUME NEW p \in [Slots -> Nat], NEW h \in Opt(Slots), NEW w \in Opt(Nat)
    PROVE  LET n == advance(p, h, w)
           IN  /\ n \in Opt(Nat)
               /\ (h = None \/ w # None) => (n = None <=> w = None)
               /\ h # None => n # None
               /\ n # w => /\ h # None /\ n \in Nat /\ n < h
                          /\ \A s \in Slots : p[s] > 0 => n < s
<1>1. CASE h = None
  BY <1>1 DEF advance
<1>2. CASE h # None
  <2> DEFINE S == {h} \cup {s \in Slots : p[s] > 0}
             m == Min(S)
  <2>1. S \in SUBSET Nat /\ S # {} /\ 0 \notin S
    BY <1>2, ChainAssumption DEF Slots, Opt
  <2>2. m \in S /\ \A y \in S : m <= y
    BY <2>1, MinOfSlots
  <2>3. m \in Nat /\ m > 0 /\ Candidate(p, h) = m - 1
    BY <2>1, <2>2 DEF Candidate, SaturatingPred
  <2>4. h \in S /\ \A s \in Slots : p[s] > 0 => s \in S
    OBVIOUS
  <2> HIDE DEF S, m
  <2>5. /\ Candidate(p, h) \in Nat /\ Candidate(p, h) < h
        /\ \A s \in Slots : p[s] > 0 => Candidate(p, h) < s
    <3>1. \A y \in S : y \in Nat /\ m - 1 < y
      BY <2>1, <2>2, <2>3
    <3> QED
      BY <2>3, <2>4, <3>1
  <2> QED
    BY <1>2, <2>5, OptionAssumption DEF advance, Raise, Opt
<1> QED
  BY <1>1, <1>2

-----------------------------------------------------------------------------
(* Facts about the tasks in flight *)

\* A slot with an unfinished task has a positive count.
LEMMA TaskHoldsSlot ==
    ASSUME NEW p \in [Slots -> Nat], NEW wr \in [Writers -> Task \cup {Idle}],
           \A s \in Slots : p[s] = Cardinality(TasksAt(wr, s)),
           NEW i \in Writers, wr[i] # Idle
    PROVE  /\ SlotOf[wr[i].update] \in Slots
           /\ p[SlotOf[wr[i].update]] > 0
<1> DEFINE s == SlotOf[wr[i].update]
<1>1. s \in Slots
  BY ChainAssumption DEF Task
<1>2. i \in TasksAt(wr, s) /\ TasksAt(wr, s) \subseteq Writers
  BY DEF TasksAt
<1>3. IsFiniteSet(TasksAt(wr, s))
  BY <1>2, WriterAssumption, FS_Subset
<1>4. Cardinality(TasksAt(wr, s)) # 0
  BY <1>2, <1>3, FS_EmptySet
<1> QED
  BY <1>1, <1>4

\* The tasks of a slot are finitely many, so one more or one less counts as one.
LEMMA TaskCounts ==
    ASSUME NEW wr, NEW s, NEW i \in Writers
    PROVE  /\ IsFiniteSet(TasksAt(wr, s)) /\ Cardinality(TasksAt(wr, s)) \in Nat
           /\ i \notin TasksAt(wr, s) =>
                 Cardinality(TasksAt(wr, s) \cup {i}) = Cardinality(TasksAt(wr, s)) + 1
           /\ i \in TasksAt(wr, s) =>
                 Cardinality(TasksAt(wr, s) \ {i}) = Cardinality(TasksAt(wr, s)) - 1
<1>1. IsFiniteSet(TasksAt(wr, s))
  BY WriterAssumption, FS_Subset DEF TasksAt
<1> QED
  BY <1>1, FS_CardinalityType, FS_AddElement, FS_RemoveElement

-----------------------------------------------------------------------------
(* The inductive invariant *)

\* A process that has just loaded its cursor has nothing in flight.
LEMMA InitIInv == Init => IInv
<1> SUFFICES ASSUME Init PROVE IInv
  OBVIOUS
<1>1. TypeOK
  BY ChainAssumption, OptionAssumption
     DEF Init, TypeOK, Opt, Slots, Savers, load, SaturatingPred
<1>2. PendingIsInFlight
  <2>1. \A s \in Slots : TasksAt(writer, s) = {}
    BY DEF Init, TasksAt
  <2> QED  BY <2>1, FS_EmptySet DEF Init, PendingIsInFlight
<1>3. ResumePointsSettled
  BY SlotIsSlot, OptionAssumption
     DEF Init, ResumePointsSettled, ResumePoints, Savers, Settled, Slots, load, SaturatingPred
<1>4. BelowFinalized /\ SubscriptionSound /\ WrittenIsDone
  BY DEF Init, BelowFinalized, SubscriptionSound, WrittenIsDone, Idle
<1>5. Fresh
  BY ChainAssumption, OptionAssumption
     DEF Init, Fresh, Savers, Slots, load, SaturatingPred
<1> QED  BY <1>1, <1>2, <1>3, <1>4, <1>5 DEF IInv

\* The chain only grows: no slot that was complete changes.
LEMMA ProduceKeeps == IInv /\ Produce => IInv'
<1> SUFFICES ASSUME IInv, Produce PROVE IInv'
  OBVIOUS
<1> USE DEF IInv, Produce, server, stream, inner, disk
<1>1. TypeOK'
  BY ChainAssumption, OptionAssumption DEF TypeOK, Opt, Slots, Savers
<1>2. Fresh'
  BY ChainAssumption, OptionAssumption DEF Fresh, Savers, TypeOK, Opt, Slots
<1>3. PendingIsInFlight' /\ ResumePointsSettled' /\ BelowFinalized' /\
      SubscriptionSound' /\ WrittenIsDone'
  BY DEF PendingIsInFlight, TasksAt, ResumePointsSettled, ResumePoints, Settled,
         InGap, BelowFinalized, Accounted, InFlight, SubscriptionSound,
         WrittenIsDone
<1> QED  BY <1>1, <1>2, <1>3

\* The plugin forgets old slots; what is indexed stays.
LEMMA PruneKeeps == IInv /\ Prune => IInv'
<1> SUFFICES ASSUME IInv, Prune PROVE IInv'
  OBVIOUS
<1> USE DEF IInv, Prune, server, stream, inner, disk
<1>1. TypeOK'
  BY ChainAssumption, OptionAssumption DEF TypeOK, Opt, Slots, Savers
<1>2. PendingIsInFlight' /\ ResumePointsSettled' /\ BelowFinalized' /\
      SubscriptionSound' /\ WrittenIsDone' /\ Fresh'
  BY DEF PendingIsInFlight, TasksAt, ResumePointsSettled, ResumePoints, Settled,
         InGap, BelowFinalized, Accounted, InFlight, SubscriptionSound,
         WrittenIsDone, Fresh, Savers
<1> QED  BY <1>1, <1>2

\* A subscription asks for the cursor that resume_slot returned.
LEMMA ResumeKeeps == IInv /\ Resume => IInv'
<1> SUFFICES ASSUME IInv, Resume PROVE IInv'
  OBVIOUS
<1> USE DEF IInv, Resume, server, stream, inner, disk
<1>1. TypeOK'
  BY ChainAssumption, OptionAssumption DEF TypeOK, Opt, Slots, Savers, resume_slot
<1>2. SubscriptionSound'
  BY SlotIsSlot, OptionAssumption
     DEF SubscriptionSound, Accounted, InFlight, InGap, resume_slot, TypeOK,
         Opt, ResumePointsSettled, ResumePoints, Settled, Slots
<1>3. Fresh'
  BY ChainAssumption, OptionAssumption DEF Fresh, Savers, resume_slot, TypeOK, Opt
<1>4. PendingIsInFlight' /\ ResumePointsSettled' /\ BelowFinalized' /\
      WrittenIsDone'
  BY DEF PendingIsInFlight, TasksAt, ResumePointsSettled, ResumePoints, Settled,
         InGap, BelowFinalized, Accounted, InFlight, WrittenIsDone
<1> QED  BY <1>1, <1>2, <1>3, <1>4

\* A replay starts at the slot after the cursor that was asked for.
LEMMA AcceptReplayKeeps == IInv /\ AcceptReplay => IInv'
<1> SUFFICES ASSUME IInv, AcceptReplay PROVE IInv'
  OBVIOUS
<1> USE DEF IInv, AcceptReplay, server, stream, inner, disk
<1>1. TypeOK'
  BY ChainAssumption, OptionAssumption DEF TypeOK, Opt, Slots, Savers
<1>2. SubscriptionSound'
  BY ChainAssumption, OptionAssumption
     DEF SubscriptionSound, Accounted, InFlight, InGap
<1>3. Fresh'
  BY ChainAssumption, OptionAssumption DEF Fresh, Savers
<1>4. PendingIsInFlight' /\ ResumePointsSettled' /\ BelowFinalized' /\
      WrittenIsDone'
  BY DEF PendingIsInFlight, TasksAt, ResumePointsSettled, ResumePoints, Settled,
         InGap, BelowFinalized, Accounted, InFlight, WrittenIsDone
<1> QED  BY <1>1, <1>2, <1>3, <1>4

\* Without a cursor the stream starts at the tip, and so does the obligation.
LEMMA AcceptLiveKeeps == IInv /\ AcceptLive => IInv'
<1> SUFFICES ASSUME IInv, AcceptLive PROVE IInv'
  OBVIOUS
<1> USE DEF IInv, AcceptLive, server, stream, inner, disk
<1>1. TypeOK'
  BY ChainAssumption, OptionAssumption DEF TypeOK, Opt, Slots, Savers
<1>2. ResumePointsSettled'
  BY ChainAssumption, OptionAssumption
     DEF ResumePointsSettled, ResumePoints, Settled, InGap, TypeOK, Opt, Slots,
         Fresh
<1>3. BelowFinalized'
  BY ChainAssumption, OptionAssumption
     DEF BelowFinalized, Accounted, InFlight, InGap, Fresh, TypeOK, Opt, Slots
<1>4. SubscriptionSound'
  BY ChainAssumption, OptionAssumption
     DEF SubscriptionSound, Accounted, InFlight, InGap, TypeOK, Opt, Slots
<1>5. Fresh'
  BY ChainAssumption, OptionAssumption DEF Fresh, Savers
<1>6. PendingIsInFlight' /\ WrittenIsDone'
  BY DEF PendingIsInFlight, TasksAt, WrittenIsDone
<1> QED  BY <1>1, <1>2, <1>3, <1>4, <1>5, <1>6

\* A refused subscription changes nothing but what the ingester knows.
LEMMA RefuseKeeps == IInv /\ Refuse => IInv'
<1> SUFFICES ASSUME IInv, Refuse PROVE IInv'
  OBVIOUS
<1> USE DEF IInv, Refuse, server, stream, inner, disk
<1>1. TypeOK'
  BY ChainAssumption, OptionAssumption DEF TypeOK, Opt, Slots, Savers
<1>2. SubscriptionSound'
  BY ChainAssumption, OptionAssumption
     DEF SubscriptionSound, Accounted, InFlight, InGap, TypeOK, Opt, Slots
<1>3. Fresh'
  BY ChainAssumption, OptionAssumption DEF Fresh, Savers
<1>4. PendingIsInFlight' /\ ResumePointsSettled' /\ BelowFinalized' /\
      WrittenIsDone'
  BY DEF PendingIsInFlight, TasksAt, ResumePointsSettled, ResumePoints, Settled,
         InGap, BelowFinalized, Accounted, InFlight, WrittenIsDone
<1> QED  BY <1>1, <1>2, <1>3, <1>4

\* A lost stream leaves the tasks and their counts alone.
LEMMA DisconnectKeeps == IInv /\ Disconnect => IInv'
<1> SUFFICES ASSUME IInv, Disconnect PROVE IInv'
  OBVIOUS
<1> USE DEF IInv, Disconnect, server, stream, inner, disk, EndSubscription
<1>1. TypeOK'
  BY ChainAssumption, OptionAssumption DEF TypeOK, Opt, Slots, Savers
<1>2. SubscriptionSound'
  BY ChainAssumption, OptionAssumption
     DEF SubscriptionSound, Accounted, InFlight, InGap
<1>3. Fresh'
  BY ChainAssumption, OptionAssumption DEF Fresh, Savers
<1>4. PendingIsInFlight' /\ ResumePointsSettled' /\ BelowFinalized' /\
      WrittenIsDone'
  BY DEF PendingIsInFlight, TasksAt, ResumePointsSettled, ResumePoints, Settled,
         InGap, BelowFinalized, Accounted, InFlight, WrittenIsDone
<1> QED  BY <1>1, <1>2, <1>3, <1>4

\* A gap is logged before the watermark may pass it.
LEMMA LogGapKeeps == IInv /\ LogGap => IInv'
<1> SUFFICES ASSUME IInv, LogGap PROVE IInv'
  OBVIOUS
<1> USE DEF IInv, LogGap, server, stream, inner, disk
<1>1. TypeOK'
  BY ChainAssumption, OptionAssumption
     DEF TypeOK, Opt, Slots, Savers, SubscriptionSound
<1>2. ResumePointsSettled'
  BY ChainAssumption, OptionAssumption, ZenonT(40)
     DEF ResumePointsSettled, ResumePoints, Settled, InGap
<1>3. BelowFinalized'
  BY ChainAssumption, OptionAssumption
     DEF BelowFinalized, Accounted, InFlight, InGap
<1>4. SubscriptionSound'
  BY ChainAssumption, OptionAssumption
     DEF SubscriptionSound, Accounted, InFlight, InGap
<1>5. Fresh'
  BY ChainAssumption, OptionAssumption DEF Fresh, Savers
<1>6. PendingIsInFlight' /\ WrittenIsDone'
  BY Zenon DEF PendingIsInFlight, TasksAt, WrittenIsDone
<1> QED  BY <1>1, <1>2, <1>3, <1>4, <1>5, <1>6

\* The watermark passes a gap only as far as the log says.
LEMMA SkipGapKeeps == IInv /\ SkipGap => IInv'
<1> SUFFICES ASSUME IInv, SkipGap PROVE IInv'
  OBVIOUS
<1> USE DEF IInv, SkipGap, server, stream, inner, disk, EndSubscription
<1>0. /\ available \in Nat /\ available > 0 /\ from \in Nat
      /\ watermark' = Raise(watermark, available - 1)
  BY ChainAssumption, OptionAssumption
     DEF TypeOK, Opt, Slots, SubscriptionSound, SaturatingPred
<1>1. TypeOK'
  BY <1>0, ChainAssumption DEF TypeOK, Opt, Raise
<1>2. Settled(available - 1)
  \* Below the gap: settled when the subscription began.  Inside it: logged.
  <2> SUFFICES ASSUME NEW u \in Update, base <= SlotOf[u], SlotOf[u] <= available - 1
               PROVE  u \in done \/ InGap(SlotOf[u])
    BY DEF Settled
  <2>1. SlotOf[u] \in Nat
    BY SlotIsSlot
  <2>2. CASE SlotOf[u] < from
    BY <1>0, <2>2 DEF SubscriptionSound
  <2>3. CASE from <= SlotOf[u]
    BY <1>0, <2>1, <2>3 DEF SubscriptionSound, InGap
  <2> QED  BY <1>0, <2>1, <2>2, <2>3
<1>3. ResumePointsSettled'
  BY <1>0, <1>2 DEF ResumePointsSettled, ResumePoints, Settled, InGap, Raise
<1>4. Fresh'
  BY <1>0, OptionAssumption DEF Fresh, Raise
<1>5. PendingIsInFlight' /\ BelowFinalized' /\ SubscriptionSound' /\ WrittenIsDone'
  BY Zenon DEF PendingIsInFlight, TasksAt, BelowFinalized, SubscriptionSound, Accounted,
         InFlight, InGap, WrittenIsDone
<1> QED  BY <1>1, <1>3, <1>4, <1>5

\* An update that cannot be converted counts as seen.
LEMMA ReceiveUnconvertibleKeeps ==
    ASSUME IInv, NEW u \in Update, ReceiveUnconvertible(u)
    PROVE  IInv'
<1> USE DEF IInv, ReceiveUnconvertible, server, inner, disk
<1>1. TypeOK'
  BY DEF TypeOK
<1>2. ResumePointsSettled'
  BY ZenonT(40) DEF ResumePointsSettled, ResumePoints, Settled, InGap
<1>3. BelowFinalized' /\ SubscriptionSound' /\ WrittenIsDone'
  BY DEF BelowFinalized, SubscriptionSound, Accounted, InFlight, InGap,
         WrittenIsDone
<1>4. PendingIsInFlight' /\ Fresh'
  BY Zenon DEF PendingIsInFlight, TasksAt, Fresh
<1> QED  BY <1>1, <1>2, <1>3, <1>4

\* Finalized(s) arrives: everything before s was received by this or an
\* earlier subscription, so the new candidate is a sound resume point.
LEMMA ReceiveFinalizedKeeps ==
    ASSUME IInv, NEW s \in Blocks, ReceiveFinalized(s)
    PROVE  IInv'
<1> DEFINE h == highest_finalized'
           n == watermark'
<1> USE DEF IInv, ReceiveFinalized, server, inner, disk
<1>1. /\ s \in Slots /\ h \in Slots /\ s \in Nat /\ h \in Nat
      /\ h = s \/ h = highest_finalized
  BY ChainAssumption DEF TypeOK, Opt, Slots
<1>2. /\ n \in Nat
      /\ n # watermark => /\ n < h
                          /\ \A t \in Slots : pending[t] > 0 => n < t
  <2>1. h \in Opt(Slots) /\ h # None /\ watermark \in Opt(Nat) /\ pending \in [Slots -> Nat]
    BY <1>1, OptionAssumption DEF TypeOK, Opt
  <2>2. n = advance(pending, h, watermark)
    OBVIOUS
  <2> HIDE DEF h, n
  <2>3. n \in Opt(Nat) /\ n # None
    BY <2>1, <2>2, AdvanceBelow
  <2> QED  BY <2>1, <2>2, <2>3, AdvanceBelow DEF Opt
<1>3. TypeOK'
  BY <1>1, <1>2, ChainAssumption DEF TypeOK, Opt
<1>4. BelowFinalized'
  <2> SUFFICES ASSUME NEW u \in Update, base <= SlotOf[u], SlotOf[u] < h
               PROVE  Accounted(u)
    BY Zenon DEF BelowFinalized, Accounted, InFlight, InGap
  <2>1. SlotOf[u] \in Blocks /\ SlotOf[u] \in Nat
    BY SlotIsSlot
  <2>2. CASE h = highest_finalized
    BY <1>1, <2>2, OptionAssumption DEF BelowFinalized
  <2>3. CASE h = s
    <3>1. from \in Nat
      BY DEF TypeOK, Opt, SubscriptionSound, Reached
    <3>2. CASE SlotOf[u] < from
      BY <3>2 DEF SubscriptionSound, Accounted, Reached
    <3>3. CASE from <= SlotOf[u]
      BY <2>1, <2>3, <3>3 DEF SubscriptionSound, Reached, Complete
    <3> QED  BY <2>1, <3>1, <3>2, <3>3
  <2> QED  BY <1>1, <2>2, <2>3
<1>5. n # watermark => Settled(watermark)'
  <2> SUFFICES ASSUME n # watermark, NEW u \in Update, base <= SlotOf[u], SlotOf[u] <= n
               PROVE  u \in done \/ InGap(SlotOf[u])
    BY DEF Settled, InGap
  <2>1. SlotOf[u] \in Slots /\ SlotOf[u] \in Nat
    BY SlotIsSlot
  <2>2. Accounted(u)
    BY <1>1, <1>2, <1>4, <2>1, OptionAssumption
       DEF BelowFinalized, Accounted, InFlight, InGap
  <2>3. ~InFlight(u)
    <3> SUFFICES ASSUME NEW i \in Writers, writer[i].update = u PROVE FALSE
      BY Zenon DEF InFlight
    <3>1. writer[i] # Idle
      BY OptionAssumption DEF Idle
    <3>2. pending[SlotOf[u]] > 0
      BY <3>1, TaskHoldsSlot, Zenon DEF TypeOK, PendingIsInFlight
    <3> QED  BY <1>2, <2>1, <3>2
  <2> QED  BY <2>2, <2>3 DEF Accounted
<1>6. ResumePointsSettled'
  BY <1>5 DEF ResumePointsSettled, ResumePoints, Settled, InGap
<1>7. Fresh'
  BY <1>2, OptionAssumption DEF Fresh, Reached
<1>8. PendingIsInFlight' /\ SubscriptionSound' /\ WrittenIsDone'
  BY DEF PendingIsInFlight, TasksAt, SubscriptionSound, Accounted, InFlight, InGap,
         WrittenIsDone
<1> QED  BY <1>3, <1>4, <1>6, <1>7, <1>8

\* A dispatched update is counted before its task can run.
LEMMA DispatchKeeps ==
    ASSUME IInv, NEW u \in Update, NEW i \in Writers, Dispatch(u, i)
    PROVE  IInv'
<1> USE DEF IInv, Dispatch, server, disk
<1> DEFINE t == [update |-> u, step |-> "queued"]
<1>1. t \in Task /\ t # Idle /\ SlotOf[u] \in Slots
  BY OptionAssumption, SlotIsSlot, Zenon DEF Task, Idle
<1>2. TypeOK'
  <2>1. pending' \in [Slots -> Nat] /\ writer' \in [Writers -> Task \cup {Idle}]
    BY <1>1 DEF TypeOK
  <2> QED  BY <2>1, Zenon DEF TypeOK
<1>3. PendingIsInFlight'
  <2> SUFFICES ASSUME NEW s \in Slots
               PROVE  pending'[s] = Cardinality(TasksAt(writer', s))
    BY DEF PendingIsInFlight, TasksAt
  <2>1. pending[s] = Cardinality(TasksAt(writer, s)) /\ i \notin TasksAt(writer, s)
    BY Zenon DEF PendingIsInFlight, TasksAt
  <2>2. CASE s = SlotOf[u]
    <3>1. TasksAt(writer', s) = TasksAt(writer, s) \cup {i}
      BY <1>1, <2>2 DEF TasksAt, TypeOK
    <3>2. pending'[s] = pending[s] + 1
      BY <2>2 DEF TypeOK
    <3>3. Cardinality(TasksAt(writer, s) \cup {i}) = Cardinality(TasksAt(writer, s)) + 1
      BY <2>1, TaskCounts, Zenon
    <3> HIDE DEF IInv, Dispatch
    <3> QED  BY <2>1, <3>1, <3>2, <3>3
  <2>3. CASE s # SlotOf[u]
    <3>1. TasksAt(writer', s) = TasksAt(writer, s)
      BY <1>1, <2>3 DEF TasksAt, TypeOK
    <3> QED  BY <2>1, <2>3, <3>1 DEF TypeOK
  <2> QED  BY <2>2, <2>3
<1>4. \A v \in Update : (Accounted(v) \/ v = u) => Accounted(v)'
  <2>1. \A v \in Update : InFlight(v) \/ v = u => InFlight(v)'
    BY OptionAssumption DEF TypeOK, InFlight, Idle
  <2> QED  BY Zenon, <2>1 DEF Accounted, InGap
<1>5. BelowFinalized' /\ SubscriptionSound'
  BY <1>4 DEF BelowFinalized, SubscriptionSound, InGap, TypeOK
<1>6. WrittenIsDone'
  BY Zenon DEF WrittenIsDone, TypeOK
<1>7. ResumePointsSettled' /\ Fresh'
  BY DEF ResumePointsSettled, ResumePoints, Settled, InGap, Fresh
<1> QED  BY <1>2, <1>3, <1>5, <1>6, <1>7

-----------------------------------------------------------------------------
(* The tasks, the saves and the life of the process *)

\* Taking the lock of a partition touches no cursor state.
LEMMA LockKeeps == ASSUME IInv, NEW i \in Writers, Lock(i) PROVE IInv'
<1> USE DEF IInv, Lock, server, stream, inner, disk
<1>0. writer[i] \in Task
  BY DEF TypeOK, Idle
<1>1. TypeOK'
  <2>1. writer' \in [Writers -> Task \cup {Idle}]
    BY <1>0 DEF TypeOK, Task
  <2> QED  BY <2>1 DEF TypeOK
<1>2. \A j \in Writers : writer'[j].update = writer[j].update
                          /\ (writer'[j] = Idle <=> writer[j] = Idle)
  BY <1>0 DEF TypeOK, Idle, Task
<1>3. PendingIsInFlight'
  BY <1>2 DEF PendingIsInFlight, TasksAt
<1>4. BelowFinalized' /\ SubscriptionSound'
  BY <1>2 DEF BelowFinalized, SubscriptionSound, Accounted, InFlight, InGap
<1>5. WrittenIsDone'
  BY DEF WrittenIsDone, TypeOK
<1>6. ResumePointsSettled' /\ Fresh'
  BY DEF ResumePointsSettled, ResumePoints, Settled, InGap, Fresh
<1> QED  BY <1>1, <1>3, <1>4, <1>5, <1>6

\* A finished write makes the update indexed or given up.
LEMMA WriteKeeps == ASSUME IInv, NEW i \in Writers, Write(i) PROVE IInv'
<1> USE DEF IInv, Write, server, stream, inner, disk
<1>0. writer[i] \in Task
  BY DEF TypeOK, Idle
<1>1. TypeOK'
  <2>1. writer' \in [Writers -> Task \cup {Idle}] /\ done' \subseteq Update
    BY <1>0 DEF TypeOK, Task
  <2> QED  BY <2>1, Zenon DEF TypeOK
<1>2. \A j \in Writers : writer'[j].update = writer[j].update
                          /\ (writer'[j] = Idle <=> writer[j] = Idle)
  BY <1>0 DEF TypeOK, Idle, Task
<1>3. PendingIsInFlight'
  BY <1>2 DEF PendingIsInFlight, TasksAt
<1>4. BelowFinalized' /\ SubscriptionSound'
  BY <1>2 DEF BelowFinalized, SubscriptionSound, Accounted, InFlight, InGap
<1>5. WrittenIsDone'
  BY DEF WrittenIsDone, TypeOK
<1>6. ResumePointsSettled' /\ Fresh'
  BY ZenonT(40) DEF ResumePointsSettled, ResumePoints, Settled, InGap, Fresh
<1> QED  BY <1>1, <1>3, <1>4, <1>5, <1>6

\* end(slot): the finished update is in the database, every other one below
\* the new watermark would still hold it back.
LEMMA EndKeeps == ASSUME IInv, NEW i \in Writers, End(i) PROVE IInv'
<1> DEFINE n == watermark'
<1> USE DEF IInv, End, server, stream, disk
<1>0. writer[i] \in Task /\ writer[i] # Idle /\ writer[i].update \in done
  BY DEF TypeOK, Idle, WrittenIsDone
<1>1. /\ pending' \in [Slots -> Nat]
      /\ writer' \in [Writers -> Task \cup {Idle}]
      /\ PendingIsInFlight'
  <2> DEFINE u == writer[i].update
  <2>1. SlotOf[u] \in Slots /\ pending[SlotOf[u]] > 0
    BY <1>0, TaskHoldsSlot, Zenon DEF TypeOK, PendingIsInFlight
  <2>2. pending' \in [Slots -> Nat] /\ writer' \in [Writers -> Task \cup {Idle}]
    <3>1. /\ pending \in [Slots -> Nat] /\ writer \in [Writers -> Task \cup {Idle}]
          /\ pending' = [pending EXCEPT ![SlotOf[u]] = @ - 1]
          /\ writer' = [writer EXCEPT ![i] = Idle]
      BY DEF TypeOK
    <3> HIDE DEF u, IInv, End
    <3>2. pending[SlotOf[u]] - 1 \in Nat
      BY <2>1, <3>1
    <3>3. pending' \in [Slots -> Nat]
      BY <3>1, <3>2, Zenon
    <3> QED  BY Zenon, <3>1, <3>3
  <2>3. ASSUME NEW s \in Slots
        PROVE  pending'[s] = Cardinality(TasksAt(writer', s))
    <3>1. pending[s] = Cardinality(TasksAt(writer, s))
      BY DEF PendingIsInFlight
    <3>2. CASE s = SlotOf[u]
      <4>1. i \in TasksAt(writer, s) /\ TasksAt(writer', s) = TasksAt(writer, s) \ {i}
        BY Zenon, <1>0, <3>2 DEF TasksAt, TypeOK
      <4>2. pending'[s] = pending[s] - 1
        BY Zenon, <3>2 DEF TypeOK
      <4>3. Cardinality(TasksAt(writer, s) \ {i}) = Cardinality(TasksAt(writer, s)) - 1
        BY Zenon, <4>1, TaskCounts
      <4> QED  BY <3>1, <4>1, <4>2, <4>3, Zenon
    <3>3. CASE s # SlotOf[u]
      <4>1. TasksAt(writer', s) = TasksAt(writer, s)
        BY <1>0, <3>3, Zenon DEF TasksAt, TypeOK
      <4> QED  BY <3>1, <3>3, <4>1 DEF TypeOK
    <3> QED  BY Zenon, <3>2, <3>3
  <2> QED  BY Zenon, <2>2, <2>3 DEF PendingIsInFlight, TasksAt
<1>2. /\ n \in Opt(Nat)
      /\ (highest_finalized = None \/ watermark # None) => (n = None <=> watermark = None)
      /\ n # watermark => /\ highest_finalized # None /\ n \in Nat /\ n < highest_finalized
                          /\ \A t \in Slots : pending'[t] > 0 => n < t
  <2>1. highest_finalized \in Opt(Slots) /\ watermark \in Opt(Nat)
    BY Zenon DEF TypeOK
  <2>2. n = advance(pending', highest_finalized, watermark)
    BY Zenon
  <2> HIDE DEF n, End
  <2> QED  BY ZenonT(40), <1>1, <2>1, <2>2, AdvanceBelow
<1>3. TypeOK'
  BY <1>1, <1>2, Zenon DEF TypeOK
<1>4. \A v \in Update : Accounted(v) => Accounted(v)'
  <2>1. \A v \in Update : InFlight(v) => InFlight(v)' \/ v \in done
    BY <1>0 DEF TypeOK, InFlight
  <2> QED  BY <2>1, Zenon DEF Accounted, InGap
<1>5. BelowFinalized' /\ SubscriptionSound'
  BY <1>4 DEF BelowFinalized, SubscriptionSound, InGap, TypeOK
<1>6. n # watermark => Settled(watermark)'
  <2> SUFFICES ASSUME n # watermark, NEW u \in Update, base <= SlotOf[u], SlotOf[u] <= n
               PROVE  u \in done \/ InGap(SlotOf[u])
    BY Zenon DEF Settled, InGap
  <2>1. SlotOf[u] \in Slots /\ SlotOf[u] \in Nat
    BY Zenon, SlotIsSlot
  <2>2. Accounted(u)'
    <3>1. /\ highest_finalized \in Nat /\ highest_finalized # None
          /\ n < highest_finalized /\ n \in Nat
      <4>1. highest_finalized \in Opt(Slots)
        BY Zenon DEF TypeOK
      <4> HIDE DEF n, IInv, End
      <4> QED  BY <1>2, <4>1 DEF Opt, Slots
    <3>2. highest_finalized' = highest_finalized /\ base' = base
      OBVIOUS
    <3> HIDE DEF n, IInv, End
    <3>3. SlotOf[u] < highest_finalized
      BY <2>1, <3>1
    <3> QED  BY <1>5, <3>1, <3>2, <3>3 DEF BelowFinalized
  <2>3. ~InFlight(u)'
    <3> SUFFICES ASSUME NEW j \in Writers, writer'[j].update = u PROVE FALSE
      BY Zenon DEF InFlight
    <3>1. writer'[j] # Idle
      BY OptionAssumption DEF Idle
    <3>2. \A s \in Slots : pending'[s] = Cardinality(TasksAt(writer', s))
      BY <1>1, Zenon DEF PendingIsInFlight, TasksAt
    <3> HIDE DEF End
    <3>3. pending'[SlotOf[u]] > 0
      BY <1>1, <3>1, <3>2, TaskHoldsSlot
    <3> QED  BY <1>2, <2>1, <3>3
  <2> QED  BY <2>2, <2>3, Zenon DEF Accounted, InGap
<1>7. ResumePointsSettled'
  <2>1. UNCHANGED <<done, gaps, base, cursor, saving>>
    OBVIOUS
  <2> HIDE DEF End
  <2> QED
    BY <1>6, <2>1 DEF ResumePointsSettled, ResumePoints, Settled, InGap
<1>8. WrittenIsDone'
  BY Zenon DEF WrittenIsDone, TypeOK, Idle
<1>9. Fresh'
  BY <1>2, Zenon DEF Fresh
<1> QED  BY Zenon, <1>1, <1>3, <1>5, <1>7, <1>8, <1>9

\* The reporter saves a position that the watermark has reached.
LEMMA ReporterSaveKeeps == IInv /\ ReporterSave => IInv'
<1> SUFFICES ASSUME IInv, ReporterSave PROVE IInv'
  OBVIOUS
<1> USE DEF IInv, ReporterSave, server, stream, inner, disk
<1>1. TypeOK'
  BY Zenon DEF TypeOK
<1>2. ResumePointsSettled'
  BY DEF ResumePointsSettled, ResumePoints, Settled, InGap, TypeOK, Savers
<1>3. Fresh'
  BY DEF Fresh, TypeOK, Savers
<1>4. PendingIsInFlight' /\ BelowFinalized' /\ SubscriptionSound' /\ WrittenIsDone'
  BY Zenon DEF PendingIsInFlight, TasksAt, BelowFinalized, SubscriptionSound, Accounted,
         InFlight, InGap, WrittenIsDone
<1> QED  BY <1>1, <1>2, <1>3, <1>4

\* The file that becomes visible holds a position that was saved.
LEMMA RenameKeeps == ASSUME IInv, NEW p \in Savers, Rename(p) PROVE IInv'
<1> USE DEF IInv, Rename, server, stream, inner
<1>1. TypeOK'
  BY DEF TypeOK, Opt
<1>2. ResumePointsSettled'
  <2>1. ResumePoints' \subseteq ResumePoints \cup {None}
    BY DEF ResumePoints, TypeOK
  <2>2. UNCHANGED <<done, gaps, base>>
    OBVIOUS
  <2> HIDE DEF Rename
  <2> QED  BY <2>1, <2>2 DEF ResumePointsSettled, Settled, InGap
<1>3. Fresh'
  BY Zenon DEF Fresh, TypeOK, Savers
<1>4. PendingIsInFlight' /\ BelowFinalized' /\ SubscriptionSound' /\ WrittenIsDone'
  BY Zenon DEF PendingIsInFlight, TasksAt, BelowFinalized, SubscriptionSound, Accounted,
         InFlight, InGap, WrittenIsDone
<1> QED  BY Zenon, <1>1, <1>2, <1>3, <1>4

\* Shutdown stops new work and leaves the tasks running.
LEMMA ShutdownKeeps == IInv /\ Shutdown => IInv'
<1> SUFFICES ASSUME IInv, Shutdown PROVE IInv'
  OBVIOUS
<1> USE DEF IInv, Shutdown, server, inner, disk, EndSubscription
<1>1. TypeOK'
  BY Zenon DEF TypeOK, Opt
<1>2. SubscriptionSound' /\ Fresh'
  BY Zenon DEF SubscriptionSound, Fresh
<1>3. PendingIsInFlight' /\ ResumePointsSettled' /\ BelowFinalized' /\
      WrittenIsDone'
  BY DEF PendingIsInFlight, TasksAt, BelowFinalized, Accounted, InFlight, InGap,
         ResumePointsSettled, ResumePoints, Settled, WrittenIsDone
<1> QED  BY <1>1, <1>2, <1>3

\* The last save writes the watermark as any other save does.
LEMMA ShutdownSaveKeeps == IInv /\ ShutdownSave => IInv'
<1> SUFFICES ASSUME IInv, ShutdownSave PROVE IInv'
  OBVIOUS
<1> USE DEF IInv, ShutdownSave, server, stream, inner, disk
<1>1. TypeOK'
  BY Zenon DEF TypeOK
<1>2. ResumePointsSettled'
  BY DEF ResumePointsSettled, ResumePoints, Settled, InGap, TypeOK, Savers
<1>3. Fresh'
  BY Zenon DEF Fresh, TypeOK, Savers
<1>4. PendingIsInFlight' /\ BelowFinalized' /\ SubscriptionSound' /\ WrittenIsDone'
  BY Zenon DEF PendingIsInFlight, TasksAt, BelowFinalized, SubscriptionSound, Accounted,
         InFlight, InGap, WrittenIsDone
<1> QED  BY <1>1, <1>2, <1>3, <1>4

\* A crash or an exit forgets everything but the files and the database.
LEMMA HaltKeeps == IInv /\ Halt => IInv'
<1> SUFFICES ASSUME IInv, Halt PROVE IInv'
  OBVIOUS
<1> USE DEF IInv, Halt, EndSubscription, server, disk
<1>1. TypeOK'
  BY ChainAssumption DEF TypeOK, Opt
<1>2. PendingIsInFlight'
  <2>1. \A s \in Slots : TasksAt(writer, s)' = {}
    BY DEF TasksAt
  <2> QED  BY <2>1, FS_EmptySet DEF PendingIsInFlight
<1>3. ResumePointsSettled'
  BY Zenon DEF ResumePointsSettled, ResumePoints, Settled, InGap
<1>4. BelowFinalized' /\ SubscriptionSound' /\ WrittenIsDone' /\ Fresh'
  BY DEF BelowFinalized, SubscriptionSound, WrittenIsDone, Fresh, Idle, Savers
<1> QED  BY <1>1, <1>2, <1>3, <1>4

\* A restart begins where the visible file says.
LEMMA RestartKeeps == IInv /\ Restart => IInv'
<1> SUFFICES ASSUME IInv, Restart PROVE IInv'
  OBVIOUS
<1> USE DEF IInv, Restart, load, server, stream, disk
<1>1. TypeOK'
  BY ChainAssumption, OptionAssumption DEF TypeOK, Opt, Slots, SaturatingPred
<1>2. ResumePointsSettled'
  <2>1. StartSlot # None => Settled(watermark)'
    BY SlotIsSlot, OptionAssumption DEF Fresh, Settled, Slots, SaturatingPred
  <2>2. StartSlot = None => watermark' = cursor
    OBVIOUS
  <2>3. /\ ResumePointsSettled
        /\ UNCHANGED <<done, gaps, base, cursor, saving>>
    OBVIOUS
  <2> HIDE DEF IInv, Restart, load
  <2>4. watermark' # None => Settled(watermark)'
    BY <2>1, <2>2, <2>3 DEF ResumePointsSettled, ResumePoints, Settled, InGap
  <2> QED
    BY <2>3, <2>4 DEF ResumePointsSettled, ResumePoints, Settled, InGap
<1>3. Fresh'
  BY OptionAssumption DEF Fresh, Slots, SaturatingPred
<1>4. PendingIsInFlight' /\ BelowFinalized' /\ SubscriptionSound' /\ WrittenIsDone'
  BY Zenon DEF PendingIsInFlight, TasksAt, BelowFinalized, SubscriptionSound, Accounted,
         InFlight, InGap, WrittenIsDone, Fresh
<1> QED  BY <1>1, <1>2, <1>3, <1>4

\* Every step keeps the inductive invariant.
LEMMA NextIInv == IInv /\ [Next]_vars => IInv'
<1> SUFFICES ASSUME IInv, [Next]_vars PROVE IInv'
  OBVIOUS
<1>1. CASE UNCHANGED vars
  <2> USE <1>1 DEF vars, server, stream, inner, disk, IInv
  <2>1. TypeOK' /\ Fresh'
    BY DEF TypeOK, Fresh
  <2>2. PendingIsInFlight' /\ WrittenIsDone'
    BY Zenon DEF PendingIsInFlight, TasksAt, WrittenIsDone
  <2>3. ResumePointsSettled'
    BY ZenonT(40) DEF ResumePointsSettled, ResumePoints, Settled, InGap
  <2>4. BelowFinalized' /\ SubscriptionSound'
    BY Zenon DEF BelowFinalized, SubscriptionSound, Accounted, InFlight, InGap
  <2> QED  BY Zenon, <2>1, <2>2, <2>3, <2>4
<1>2. CASE Produce \/ Prune \/ Resume \/ AcceptReplay \/ AcceptLive \/ Refuse \/ Disconnect
  BY <1>2, ProduceKeeps, PruneKeeps, ResumeKeeps, AcceptReplayKeeps,
         AcceptLiveKeeps,
     RefuseKeeps, DisconnectKeeps
<1>3. CASE LogGap \/ SkipGap
  BY <1>3, LogGapKeeps, SkipGapKeeps
<1>4. CASE Receive
  BY <1>4, ReceiveUnconvertibleKeeps, ReceiveFinalizedKeeps, DispatchKeeps
     DEF Receive
<1>5. CASE \E i \in Writers : Step(i)
  BY <1>5, LockKeeps, WriteKeeps, EndKeeps DEF Step
<1>6. CASE ReporterSave \/ \E p \in Savers : Rename(p)
  BY <1>6, ReporterSaveKeeps, RenameKeeps
<1>7. CASE Shutdown \/ ShutdownSave \/ Restart
  BY <1>7, ShutdownKeeps, ShutdownSaveKeeps, RestartKeeps
<1>8. CASE Exit \/ Crash
  BY <1>8, HaltKeeps DEF Exit, Crash
<1> QED
  BY <1>1, <1>2, <1>3, <1>4, <1>5, <1>6, <1>7, <1>8 DEF Next

\* IInv holds in every reachable state of the ingester.
THEOREM Invariance == Spec => []IInv
<1>1. Init => IInv
  BY InitIInv
<1>2. IInv /\ [Next]_vars => IInv'
  BY NextIInv
<1> QED  BY <1>1, <1>2, PTL DEF Spec

\* Every variable of the ingester keeps its type; in particular no in-flight
\* count goes below zero (cursor.rs: "*count -= 1").
THEOREM TypeCorrect == Spec => []TypeOK
<1>1. IInv => TypeOK
  BY DEF IInv
<1> QED  BY <1>1, Invariance, PTL

\* Neither the running watermark nor the persisted cursor ever passes an update
\* that was neither written nor logged as missed, for any chain, any number of
\* concurrent writers and any history of crashes, disconnections and gaps.
THEOREM CursorIsSound == Spec => []NoSilentLoss
<1>1. IInv => NoSilentLoss
  BY DEF IInv, ResumePointsSettled, ResumePoints, NoSilentLoss
<1> QED  BY <1>1, Invariance, PTL

\* The cursor's in-flight counts and the spawned tasks agree.
THEOREM CountsAreTasks == Spec => []PendingIsInFlight
<1>1. IInv => PendingIsInFlight
  BY DEF IInv
<1> QED  BY <1>1, Invariance, PTL

-----------------------------------------------------------------------------
(* The ingester implements the contract of its state directory *)

\* Initial states of the ingester are initial states of the contract.
LEMMA InitRefines == Init => Contract!Init
  BY ChainAssumption, OptionAssumption DEF Init, Contract!Init, Slots

\* Every step of the ingester is a step of the contract or stutters.
LEMMA StepRefines ==
    IInv /\ [Next]_vars => [Contract!Next]_<<done, gaps, cursor, base>>
<1> SUFFICES ASSUME IInv, [Next]_vars, ~UNCHANGED <<done, gaps, cursor, base>>
             PROVE  Contract!Next
  OBVIOUS
<1>1. ASSUME NEW u \in Update, ReceiveUnconvertible(u) PROVE Contract!Next
  BY <1>1 DEF ReceiveUnconvertible, disk, Contract!Next, Contract!DealWith
<1>2. ASSUME NEW i \in Writers, Write(i) PROVE Contract!Next
  <2>1. writer[i].update \in Update
    BY <1>2 DEF IInv, TypeOK, Write, Task, Idle
  <2> QED  BY <1>2, <2>1 DEF Write, disk, Contract!Next, Contract!DealWith
<1>3. ASSUME LogGap PROVE Contract!Next
  BY <1>3 DEF LogGap, Contract!Next, Contract!Miss
<1>4. ASSUME NEW p \in Savers, Rename(p) PROVE Contract!Next
  <2>1. saving[p] \in Nat /\ Settled(saving[p])
    BY <1>4 DEF IInv, TypeOK, Opt, ResumePointsSettled, ResumePoints, Rename
  <2>2. cursor' = saving[p] /\ UNCHANGED <<done, gaps, base>>
    BY <1>4 DEF Rename
  <2>3. Contract!Claimable(cursor')
    BY <2>1, <2>2 DEF Settled, InGap, Contract!Claimable, Contract!Missed
  <2> QED  BY Zenon, <2>1, <2>2, <2>3 DEF Contract!Next, Contract!Persist
<1>5. ASSUME AcceptLive PROVE Contract!Next
  <2>1. cursor = None /\ base' \in Nat
    BY <1>5 DEF IInv, Fresh, TypeOK, AcceptLive
  <2> QED  BY Zenon, <1>5, <2>1 DEF AcceptLive, disk, Contract!Next, Contract!StartLive
<1>6. ~(\/ Produce \/ Prune \/ Resume \/ AcceptReplay \/ Refuse \/ Disconnect \/ SkipGap
        \/ ReporterSave \/ Shutdown \/ ShutdownSave \/ Exit \/ Crash \/ Restart)
  BY Zenon DEF Produce, Prune, Resume, AcceptReplay, Refuse, Disconnect, SkipGap,
         ReporterSave,
         Shutdown, ShutdownSave, Exit, Crash, Halt, Restart, disk
<1>7. /\ \A s \in Blocks : ~ReceiveFinalized(s)
      /\ \A u \in Update, i \in Writers : ~Dispatch(u, i)
      /\ \A i \in Writers : ~Lock(i) /\ ~End(i)
  BY DEF ReceiveFinalized, Dispatch, Lock, End, disk
<1> QED
  BY <1>1, <1>2, <1>3, <1>4, <1>5, <1>6, <1>7 DEF Next, Receive, Step, vars, disk

\* What a reader of the state directory sees is a behaviour of ResumeContract:
\* a cursor is persisted only over settled slots, and the first covered slot is
\* fixed from the first persisted cursor on.
THEOREM Refinement == Spec => KeepsContract
<1> USE DEF KeepsContract
<1>1. Init => Contract!Init
  BY InitRefines
<1>2. IInv /\ [Next]_vars => [Contract!Next]_<<done, gaps, cursor, base>>
  BY StepRefines
<1> QED  BY <1>1, <1>2, Invariance, PTL DEF Spec, Contract!Spec
=============================================================================
