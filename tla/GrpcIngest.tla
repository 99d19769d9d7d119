------------------------------ MODULE GrpcIngest ------------------------------
(***************************************************************************)
(* grpc_ingester: one process reads a gRPC stream of finalized slots,       *)
(* writes every update with a bounded pool of concurrent tasks, and keeps   *)
(* in a file the slot to resume from (cursor.rs, stream.rs, main.rs).       *)
(*                                                                          *)
(* An update is an opaque value with a slot and a partition key.  Database  *)
(* contents are reduced to the set of updates already dealt with; a write   *)
(* that the database asks to repeat stays where it is (retry.rs).           *)
(***************************************************************************)
EXTENDS Integers, FiniteSets, FiniteSetsExt

CONSTANTS
    MaxSlot,      \* bound: newest slot the chain reaches
    Blocks,       \* slots with a block; the others are skipped by the chain
    Update,       \* account and transaction updates
    SlotOf,       \* [Update -> Blocks]
    StripeOf,     \* [Update -> lock stripe]: partition() of the update's key
    Writers,      \* write permits, INGEST_CONCURRENCY of them
    StartSlot,    \* --start-slot, or None
    None

Slots == 1..MaxSlot

ASSUME ChainAssumption ==
    /\ MaxSlot \in Nat
    /\ Blocks \subseteq Slots
    /\ SlotOf \in [Update -> Blocks]

ASSUME WriterAssumption == IsFiniteSet(Writers)

ASSUME OptionAssumption ==
    /\ None \notin Int /\ None \notin Update
    /\ StartSlot \in Slots \cup {None}

VARIABLES
    tip, oldest,                        \* the plugin holds the slots oldest..tip
    conn, from, available,              \* Ingest::run: the subscription
    sent, sentFin,                      \* what this subscription has received
    phase,                              \* the process: run, drain, saving, saved, down
    pending, highest_finalized, watermark,  \* cursor.rs Inner
    writer,                             \* one spawned write per permit
    done,                               \* updates written, skipped or rejected
    saving,                             \* Cursor::save between reading and renaming
    cursor, gaps,                       \* the files "cursor" and "gaps.jsonl"
    base                                \* history: first slot this index covers

server == <<tip, oldest>>
stream == <<conn, from, available, sent, sentFin>>
inner == <<pending, highest_finalized, watermark>>
disk == <<cursor, gaps>>
vars == <<server, stream, phase, inner, writer, done, saving, disk, base>>

Opt(S) == S \cup {None}
Savers == {"reporter", "main"}
Idle == [update |-> None, step |-> "idle"]
Task == [update : Update, step : {"queued", "locked", "written"}]

-----------------------------------------------------------------------------
(* cursor.rs, Inner *)

SaturatingPred(n) == IF n = 0 THEN 0 ELSE n - 1

\* Mutant: slots with writes in flight do not hold the watermark.
CandidateIgnoresPending(p, h) == SaturatingPred(h)

Candidate(p, h) == SaturatingPred(Min({h} \cup {s \in Slots : p[s] > 0}))

\* The watermark only rises, to the newest value the candidate had.
Raise(w, c) == IF w = None \/ c > w THEN c ELSE w

advance(p, h, w) == IF h = None THEN w ELSE Raise(w, Candidate(p, h))

resume_slot == IF watermark = None THEN None ELSE watermark + 1

-----------------------------------------------------------------------------
(* The stream the plugin serves: slots in order, within a slot its updates  *)
(* and its Finalized status in any order.                                   *)

Complete(s) ==
    /\ s \in sentFin
    /\ \A u \in Update : SlotOf[u] = s => u \in sent

Reached(s) ==
    /\ conn = "up"
    /\ from <= s /\ s <= tip
    /\ \A t \in Blocks : from <= t /\ t < s => Complete(t)

Produce ==
    /\ tip < MaxSlot
    /\ tip' = tip + 1
    /\ UNCHANGED <<oldest, stream, phase, inner, writer, done, saving, disk, base>>

Prune ==
    /\ oldest <= tip
    /\ oldest' = oldest + 1
    /\ UNCHANGED <<tip, stream, phase, inner, writer, done, saving, disk, base>>

-----------------------------------------------------------------------------
(* stream.rs, Ingest::run and subscribe *)

Resume ==
    /\ phase = "run" /\ conn = "idle"
    /\ conn' = "connecting"
    /\ from' = resume_slot
    /\ UNCHANGED <<server, available, sent, sentFin, phase, inner, writer, done,
                   saving, disk, base>>

AcceptReplay ==
    /\ conn = "connecting" /\ from # None
    /\ from >= oldest
    /\ conn' = "up"
    /\ sent' = {} /\ sentFin' = {}
    /\ UNCHANGED <<server, from, available, phase, inner, writer, done, saving,
                   disk, base>>

EndSubscription ==
    /\ conn' = "idle" /\ from' = None /\ available' = None
    /\ sent' = {} /\ sentFin' = {}

\* Without from_slot the stream starts at the live tip, possibly half-way
\* through the messages of that slot.
AcceptLive ==
    /\ conn = "connecting" /\ from = None
    /\ conn' = "up"
    /\ from' = tip
    /\ sent' \in SUBSET {u \in Update : SlotOf[u] = tip}
    /\ sentFin' \in SUBSET {tip}
    /\ base' = tip + 1
    /\ UNCHANGED <<server, available, phase, inner, writer, done, saving, disk>>

Refuse ==
    /\ conn = "connecting" /\ from # None
    /\ from < oldest
    /\ conn' = "refused"
    /\ available' = oldest
    /\ UNCHANGED <<server, from, sent, sentFin, phase, inner, writer, done, saving,
                   disk, base>>

Disconnect ==
    /\ conn \in {"connecting", "up"}
    /\ EndSubscription
    /\ UNCHANGED <<server, phase, inner, writer, done, saving, disk, base>>

\* Cursor::record_gap: the log line is synced first, the watermark moves after.
LogGap ==
    /\ conn = "refused"
    /\ conn' = "logged"
    /\ gaps' = gaps \cup {<<from, available>>}
    /\ UNCHANGED <<server, from, available, sent, sentFin, phase, inner, writer,
                   done, saving, cursor, base>>

\* Mutant: the first slot the server still has is skipped as well.
SkipOneMore ==
    /\ conn = "logged"
    /\ watermark' = Raise(watermark, available)
    /\ EndSubscription
    /\ UNCHANGED <<server, phase, pending, highest_finalized, writer, done, saving,
                   disk, base>>

SkipGap ==
    /\ conn = "logged"
    /\ watermark' = Raise(watermark, SaturatingPred(available))
    /\ EndSubscription
    /\ UNCHANGED <<server, phase, pending, highest_finalized, writer, done, saving,
                   disk, base>>

ReceiveUnconvertible(u) ==
    /\ Reached(SlotOf[u]) /\ u \notin sent
    /\ sent' = sent \cup {u}
    /\ done' = done \cup {u}
    /\ UNCHANGED <<server, conn, from, available, sentFin, phase, inner, writer,
                   saving, disk, base>>

ReceiveFinalized(s) ==
    /\ Reached(s) /\ s \notin sentFin
    /\ sentFin' = sentFin \cup {s}
    /\ highest_finalized' =
          IF highest_finalized = None \/ s > highest_finalized
          THEN s ELSE highest_finalized
    /\ watermark' = advance(pending, highest_finalized', watermark)
    /\ UNCHANGED <<server, conn, from, available, sent, phase, pending, writer, done,
                   saving, disk, base>>

\* Ingest::dispatch with a free permit: begin(slot), then the task is spawned.
Dispatch(u, i) ==
    /\ Reached(SlotOf[u]) /\ u \notin sent
    /\ writer[i] = Idle
    /\ sent' = sent \cup {u}
    /\ pending' = [pending EXCEPT ![SlotOf[u]] = @ + 1]
    /\ writer' = [writer EXCEPT ![i] = [update |-> u, step |-> "queued"]]
    /\ UNCHANGED <<server, conn, from, available, sentFin, phase, highest_finalized,
                   watermark, done, saving, disk, base>>

-----------------------------------------------------------------------------
(* stream.rs, the spawned task: lock the stripe, write, Cursor::end *)

HoldsLock(i) == writer[i].step \in {"locked", "written"}

Lock(i) ==
    /\ writer[i].step = "queued"
    /\ \A j \in Writers :
          HoldsLock(j) => StripeOf[writer[j].update] # StripeOf[writer[i].update]
    /\ writer' = [writer EXCEPT ![i].step = "locked"]
    /\ UNCHANGED <<server, stream, phase, inner, done, saving, disk, base>>

Write(i) ==
    /\ writer[i].step = "locked"
    /\ writer' = [writer EXCEPT ![i].step = "written"]
    /\ done' = done \cup {writer[i].update}
    /\ UNCHANGED <<server, stream, phase, inner, saving, disk, base>>

\* Mutant: the first write of a slot to end forgets the others.
EndForgetsSlot(i) ==
    /\ writer[i].step = "written"
    /\ writer' = [writer EXCEPT ![i] = Idle]
    /\ pending' = [pending EXCEPT ![SlotOf[writer[i].update]] = 0]
    /\ watermark' = advance(pending', highest_finalized, watermark)
    /\ UNCHANGED <<server, stream, phase, highest_finalized, done, saving, disk, base>>

\* Mutant: the watermark moves on Finalized messages only.
EndWithoutAdvance(i) ==
    /\ writer[i].step = "written"
    /\ writer' = [writer EXCEPT ![i] = Idle]
    /\ pending' = [pending EXCEPT ![SlotOf[writer[i].update]] = @ - 1]
    /\ UNCHANGED <<server, stream, phase, highest_finalized, watermark, done, saving,
                   disk, base>>

End(i) ==
    /\ writer[i].step = "written"
    /\ writer' = [writer EXCEPT ![i] = Idle]
    /\ pending' = [pending EXCEPT ![SlotOf[writer[i].update]] = @ - 1]
    /\ watermark' = advance(pending', highest_finalized, watermark)
    /\ UNCHANGED <<server, stream, phase, highest_finalized, done, saving, disk, base>>

-----------------------------------------------------------------------------
(* Cursor::save by the reporter and on shutdown; the process's life *)

ReporterSave ==
    /\ phase # "down"
    /\ saving["reporter"] = None /\ watermark # None
    /\ saving' = [saving EXCEPT !["reporter"] = watermark]
    /\ UNCHANGED <<server, stream, phase, inner, writer, done, disk, base>>

Rename(p) ==
    /\ saving[p] # None
    /\ cursor' = saving[p]
    /\ saving' = [saving EXCEPT ![p] = None]
    /\ phase' = IF p = "main" THEN "saved" ELSE phase
    /\ UNCHANGED <<server, stream, inner, writer, done, gaps, base>>

\* The select in run() does not cover record_gap.
Shutdown ==
    /\ phase = "run" /\ conn \in {"idle", "connecting", "up"}
    /\ phase' = "drain"
    /\ EndSubscription
    /\ UNCHANGED <<server, inner, writer, done, saving, disk, base>>

\* All permits were returned, or the 60 s are over: either way the watermark
\* is saved as it stands.
ShutdownSave ==
    /\ phase = "drain"
    /\ phase' = IF watermark = None THEN "saved" ELSE "saving"
    /\ saving' = [saving EXCEPT !["main"] = watermark]
    /\ UNCHANGED <<server, stream, inner, writer, done, disk, base>>

\* The process ends: only the files and the database remain.
Halt ==
    /\ phase' = "down"
    /\ EndSubscription
    /\ pending' = [s \in Slots |-> 0]
    /\ highest_finalized' = None /\ watermark' = None
    /\ writer' = [i \in Writers |-> Idle]
    /\ saving' = [p \in Savers |-> None]
    /\ UNCHANGED <<server, done, disk, base>>

Exit == phase = "saved" /\ Halt

Crash == phase \in {"run", "drain", "saving"} /\ Halt

\* Cursor::load
load(saved) == IF StartSlot # None THEN SaturatingPred(StartSlot) ELSE saved

Restart ==
    /\ phase = "down"
    /\ phase' = "run"
    /\ watermark' = load(cursor)
    /\ UNCHANGED <<server, stream, pending, highest_finalized, writer, done, saving,
                   disk, base>>

-----------------------------------------------------------------------------
Init ==
    /\ tip \in Slots \cup {0} /\ oldest = 1
    /\ conn = "idle" /\ from = None /\ available = None
    /\ sent = {} /\ sentFin = {}
    /\ phase = "run"
    /\ pending = [s \in Slots |-> 0]
    /\ highest_finalized = None
    /\ watermark = load(None)
    /\ writer = [i \in Writers |-> Idle]
    /\ done = {}
    /\ saving = [p \in Savers |-> None]
    /\ cursor = None /\ gaps = {}
    /\ base = IF StartSlot = None THEN tip + 1 ELSE StartSlot

Step(i) == Lock(i) \/ Write(i) \/ End(i)

Receive ==
    \/ \E u \in Update : ReceiveUnconvertible(u) \/ \E i \in Writers : Dispatch(u, i)
    \/ \E s \in Blocks : ReceiveFinalized(s)

Next ==
    \/ Produce \/ Prune
    \/ Resume \/ AcceptReplay \/ AcceptLive \/ Refuse \/ Disconnect
    \/ LogGap \/ SkipGap
    \/ Receive
    \/ \E i \in Writers : Step(i)
    \/ ReporterSave \/ \E p \in Savers : Rename(p)
    \/ Shutdown \/ ShutdownSave \/ Exit \/ Crash \/ Restart

Spec == Init /\ [][Next]_vars

\* Tasks are scheduled, the database eventually accepts a write, the server
\* is eventually reachable, the chain goes on, a stopped process is restarted.
Fairness ==
    /\ WF_vars(Produce)
    /\ WF_vars(Resume \/ AcceptReplay \/ AcceptLive \/ Refuse \/ LogGap \/ SkipGap)
    /\ WF_vars(Receive)
    /\ \A i \in Writers : WF_vars(Step(i))
    /\ WF_vars(ReporterSave) /\ WF_vars(Rename("reporter"))
    /\ WF_vars(ShutdownSave \/ Rename("main") \/ Exit \/ Restart)

FairSpec == Spec /\ Fairness

-----------------------------------------------------------------------------
TypeOK ==
    /\ tip \in 0..MaxSlot /\ oldest \in 1..(MaxSlot + 1)
    /\ conn \in {"idle", "connecting", "up", "refused", "logged"}
    /\ from \in Opt(Nat) /\ available \in Opt(1..(MaxSlot + 1))
    /\ sent \subseteq Update /\ sentFin \subseteq Slots \cup {0}
    /\ phase \in {"run", "drain", "saving", "saved", "down"}
    /\ pending \in [Slots -> Nat]
    /\ highest_finalized \in Opt(Slots) /\ watermark \in Opt(Nat)
    /\ writer \in [Writers -> Task \cup {Idle}]
    /\ done \subseteq Update
    /\ saving \in [Savers -> Opt(Nat)]
    /\ cursor \in Opt(Nat) /\ gaps \subseteq Slots \X (1..(MaxSlot + 1))
    /\ base \in Nat

InGap(s) == \E g \in gaps : g[1] <= s /\ s < g[2]

Settled(x) ==
    \A u \in Update :
        base <= SlotOf[u] /\ SlotOf[u] <= x => u \in done \/ InGap(SlotOf[u])

\* The slot a restart would resume after, and the one the running process
\* would save next, are never past an update that was neither written nor
\* recorded as missed (cursor.rs: advance, record_gap, save).
NoSilentLoss == \A x \in {cursor, watermark} \ {None} : Settled(x)

TasksAt(wr, s) == {i \in Writers : wr[i] # Idle /\ SlotOf[wr[i].update] = s}

\* The in-flight count of a slot is exactly the number of its unfinished
\* tasks: a count that leaks holds the cursor for ever, one that is too low
\* lets it pass (cursor.rs: begin, end).
PendingIsInFlight == \A s \in Slots : pending[s] = Cardinality(TasksAt(writer, s))

\* The files and the database evolve as the contract says: in particular a
\* cursor is persisted only when everything it claims is settled by then.
Contract == INSTANCE ResumeContract
KeepsContract == Contract!Spec

\* After a disconnection the stream resumes from the cursor, so the index's
\* first slot does not move once updates were received (README.md: "it resumes
\* from the cursor").
ReconnectNeverSkips == [][done # {} => base' = base]_vars

\* Once connections hold and the process is left running, the persisted cursor
\* reaches the slot below the newest block, whatever crashes, disconnections,
\* gaps and retries came before.
Undisturbed == <>[][~Crash /\ ~Disconnect /\ ~Shutdown]_vars

NewestBlock == Max(Blocks)

CursorCatchesUp ==
    Undisturbed => <>[](cursor # None /\ cursor >= NewestBlock - 1)
=============================================================================
