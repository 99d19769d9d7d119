-------------------------- MODULE MetadataDownload --------------------------
(***************************************************************************)
(* The off-chain metadata downloader of grpc_ingester (metadata/mod.rs,     *)
(* hosts.rs, ipfs.rs, guard.rs): a bounded queue, a pool of workers, jobs   *)
(* that sleep before a retry, hosts that are paused, and the loop that      *)
(* queues owed downloads again.  Delays are abstract: a sleep and a pause   *)
(* end at any time.                                                         *)
(***************************************************************************)
EXTENDS Integers, Sequences, FiniteSets

CONSTANTS
    Assets,           \* ids, in the order of their bytes: 1..n
    Urls,             \* records [scheme, host, cid]
    Gateway,          \* host of --ipfs-gateway
    PublicGateways,   \* hosts of ipfs.rs that serve any content
    PrivateHosts,     \* literal addresses that is_global refuses
    RewritePublic,    \* --ipfs-rewrite-public-gateways
    Workers,
    QueueSize,        \* metadata_queue
    PerHost,          \* metadata_per_host_concurrency
    MaxAttempts,      \* metadata_max_attempts
    RedriveBatch,     \* metadata_redrive_batch
    MaxWrites, MaxCrashes,    \* bounds on the writes of the chain and on crashes
    None, Processing, InvalidUri, GaveUp

ASSUME DownloadAssumption ==
    /\ Assets \subseteq Nat /\ IsFiniteSet(Assets)
    /\ Urls \subseteq [scheme : STRING, host : STRING, cid : BOOLEAN]
    /\ {QueueSize, PerHost, MaxAttempts, RedriveBatch} \subseteq Nat \ {0}

AssetRow == [url : Urls, reindex : BOOLEAN, metadata : Urls \cup {Processing, InvalidUri}]

ASSUME SentinelAssumption == None \notin Urls \cup AssetRow

VARIABLES
    asset_data,    \* [Assets -> None or a row]
    notifying,     \* downloads that a writer is about to ask for
    queue,         \* the bounded channel of jobs
    sleeping,      \* jobs that later() holds
    pending,       \* asset ids queued, in flight, or waiting to retry
    worker,        \* [Workers -> what it is doing to which job]
    paused,        \* hosts whose paused_until has not passed
    redrive,       \* the re-drive loop: "sleep" or "scan", rows read, cursor
    writes, crashes

memory == <<notifying, queue, sleeping, pending, worker, paused, redrive>>
bounds == <<writes, crashes>>
vars == <<asset_data, memory, bounds>>

Idle == [pc |-> "idle", job |-> None, outcome |-> None]

Asleep == [pc |-> "sleep", rows |-> {}, after |-> 0]

NewJob(a, u) == [id |-> a, uri |-> u, attempt |-> 0]

-----------------------------------------------------------------------------
(* Where a URL is fetched from *)

\* Gateway::rewrite: the host that serves the content, when there is one.
rewrite(u) ==
    IF u.cid /\ (u.scheme = "ipfs" \/ (/\ u.scheme = "http" /\ RewritePublic
                                       /\ u.host \in PublicGateways \ {Gateway}))
    THEN [u EXCEPT !.scheme = "http", !.host = Gateway]
    ELSE u

\* The empty URI: nobody asks for a download.
Blank(u) == u.scheme = ""

host_allowed(u) == u.host \notin PrivateHosts

\* The host to ask, or the outcome that process() stores without asking.
route(u) ==
    LET f == rewrite(u) IN
    IF u.scheme = "none" THEN InvalidUri
    ELSE IF f.scheme # "http" \/ (f.host # Gateway /\ ~host_allowed(f)) THEN GaveUp
    ELSE f.host

Fetchable(u) == route(u) \notin {InvalidUri, GaveUp}

InFlight(h) == {w \in Workers : worker[w].pc = "fetching" /\ route(worker[w].job.uri) = h}

-----------------------------------------------------------------------------
(* Requests *)

\* An upsert of asset_data that changes the row.
Write(a, u) ==
    /\ writes < MaxWrites
    /\ asset_data' = [asset_data EXCEPT ![a] =
          [url |-> u, reindex |-> TRUE,
           metadata |-> IF @ = None THEN Processing ELSE @.metadata]]
    /\ notifying' = IF Blank(u) THEN notifying ELSE notifying \cup {<<a, u>>}
    /\ writes' = writes + 1
    /\ UNCHANGED <<queue, sleeping, pending, worker, paused, redrive, crashes>>

\* Mutant: a job that finds the queue full stays marked as pending.
EnqueueLeak(a, u) ==
    /\ pending' = pending \cup {a}
    /\ queue' = IF a \in pending \/ Len(queue) = QueueSize THEN queue
                ELSE Append(queue, NewJob(a, u))

\* Queue a download unless one is already pending for this asset; a full queue
\* drops it.
enqueue(a, u) ==
    IF a \in pending \/ Len(queue) = QueueSize
    THEN UNCHANGED <<queue, pending>>
    ELSE /\ pending' = pending \cup {a}
         /\ queue' = Append(queue, NewJob(a, u))

Notify(n) ==
    /\ n \in notifying
    /\ notifying' = notifying \ {n}
    /\ enqueue(n[1], n[2])
    /\ UNCHANGED <<asset_data, sleeping, worker, paused, redrive, bounds>>

\* The end of later(): the job goes back to the queue when there is room.
Wake(j) ==
    /\ j \in sleeping /\ Len(queue) < QueueSize
    /\ sleeping' = sleeping \ {j}
    /\ queue' = Append(queue, j)
    /\ UNCHANGED <<asset_data, notifying, pending, worker, paused, redrive, bounds>>

-----------------------------------------------------------------------------
(* Workers: process() *)

Goto(w, pc) ==
    worker' = [worker EXCEPT ![w] =
                  [pc |-> pc, job |-> worker[w].job, outcome |-> worker[w].outcome]]

Take(w) ==
    /\ worker[w].pc = "idle" /\ queue # <<>>
    /\ worker' = [worker EXCEPT ![w] = [pc |-> "taken", job |-> Head(queue), outcome |-> None]]
    /\ queue' = Tail(queue)
    /\ UNCHANGED <<asset_data, notifying, sleeping, pending, paused, redrive, bounds>>

\* Nothing to fetch, or the first half of Hosts::acquire: a paused host sends the
\* job to sleep, otherwise the worker waits for a permit.
Dispatch(w) ==
    /\ worker[w].pc = "taken"
    /\ LET j == worker[w].job IN
       IF ~Fetchable(j.uri)
       THEN /\ worker' = [worker EXCEPT ![w] =
                  [pc |-> "store", job |-> j, outcome |-> route(j.uri)]]
            /\ UNCHANGED sleeping
       ELSE IF route(j.uri) \in paused
       THEN worker' = [worker EXCEPT ![w] = Idle] /\ sleeping' = sleeping \cup {j}
       ELSE Goto(w, "waiting") /\ UNCHANGED sleeping
    /\ UNCHANGED <<asset_data, notifying, queue, pending, paused, redrive, bounds>>

\* The second half of acquire: a permit of the host's semaphore.
Permit(w) ==
    /\ worker[w].pc = "waiting"
    /\ Cardinality(InFlight(route(worker[w].job.uri))) < PerHost
    /\ Goto(w, "fetching")
    /\ UNCHANGED <<asset_data, notifying, queue, sleeping, pending, paused, redrive, bounds>>

\* fetch() returns a body, or says that no attempt will ever work.
Conclude(w) ==
    /\ worker[w].pc = "fetching"
    /\ \E o \in {worker[w].job.uri, GaveUp} :
          worker' = [worker EXCEPT ![w] = [pc |-> "store", job |-> worker[w].job, outcome |-> o]]
    /\ UNCHANGED <<asset_data, notifying, queue, sleeping, pending, paused, redrive, bounds>>

\* 429 pauses the host, anything else that may clear up does not.  The job sleeps,
\* or is left to the re-drive loop after its last attempt.
Retry(w) ==
    /\ worker[w].pc = "fetching"
    /\ LET j == worker[w].job IN
       /\ \/ paused' = paused \cup {route(j.uri)}
          \/ UNCHANGED paused
       /\ IF j.attempt + 1 >= MaxAttempts
          THEN /\ Goto(w, "stored")
               /\ UNCHANGED sleeping
          ELSE /\ worker' = [worker EXCEPT ![w] = Idle]
               /\ sleeping' = sleeping \cup {[id |-> j.id, uri |-> j.uri, attempt |-> j.attempt + 1]}
    /\ UNCHANGED <<asset_data, notifying, queue, pending, redrive, bounds>>

PauseEnds(h) ==
    /\ h \in paused
    /\ paused' = paused \ {h}
    /\ UNCHANGED <<asset_data, notifying, queue, sleeping, pending, worker, redrive, bounds>>

\* Mutant: the UPDATE filters by id only.
StoreById(w) ==
    /\ worker[w].pc = "store"
    /\ LET j == worker[w].job IN
       asset_data' = [asset_data EXCEPT ![j.id].reindex = FALSE,
             ![j.id].metadata = IF worker[w].outcome = GaveUp THEN @ ELSE worker[w].outcome]
    /\ Goto(w, "stored")
    /\ UNCHANGED <<notifying, queue, sleeping, pending, paused, redrive, bounds>>

\* With a body, metadata and reindex; without, reindex only; either way only while
\* the row points at this URI.
store(w) ==
    /\ worker[w].pc = "store"
    /\ LET j == worker[w].job IN
       asset_data' = IF asset_data[j.id].url # j.uri THEN asset_data
          ELSE [asset_data EXCEPT ![j.id] =
             [url |-> j.uri, reindex |-> FALSE,
              metadata |-> IF worker[w].outcome = GaveUp THEN @.metadata
                           ELSE worker[w].outcome]]
    /\ Goto(w, "stored")
    /\ UNCHANGED <<notifying, queue, sleeping, pending, paused, redrive, bounds>>

\* The UPDATE keeps failing and is given up after a warning.
StoreFails(w) ==
    /\ worker[w].pc = "store"
    /\ Goto(w, "stored")
    /\ UNCHANGED <<asset_data, notifying, queue, sleeping, pending, paused, redrive, bounds>>

finish(w) ==
    /\ worker[w].pc = "stored"
    /\ pending' = pending \ {worker[w].job.id}
    /\ worker' = [worker EXCEPT ![w] = Idle]
    /\ UNCHANGED <<asset_data, notifying, queue, sleeping, paused, redrive, bounds>>

-----------------------------------------------------------------------------
(* The re-drive loop *)

RedriveStart ==
    /\ redrive.pc = "sleep"
    /\ redrive' = [pc |-> "scan", rows |-> {}, after |-> redrive.after]
    /\ UNCHANGED <<asset_data, notifying, queue, sleeping, pending, worker, paused, bounds>>

Owed == {a \in Assets : /\ asset_data[a] # None /\ asset_data[a].reindex
                        /\ ~Blank(asset_data[a].url) /\ a > redrive.after}

\* The page after the cursor, with the URLs as they are now.
Page == {<<a, asset_data[a].url>> :
            a \in {b \in Owed : Cardinality({c \in Owed : c < b}) < RedriveBatch}}

\* Mutant: the cursor is not cleared at the end of the table.
ScanOnce ==
    /\ redrive.pc = "scan"
    /\ redrive' = IF QueueSize - Len(queue) < QueueSize \div 2 \/ Page = {}
                  THEN [pc |-> "sleep", rows |-> {}, after |-> redrive.after]
                  ELSE [pc |-> "enqueue", rows |-> Page, after |-> redrive.after]
    /\ UNCHANGED <<asset_data, notifying, queue, sleeping, pending, worker, paused, bounds>>

\* One SELECT, unless the queue is more than half full.
Scan ==
    /\ redrive.pc = "scan"
    /\ redrive' = IF QueueSize - Len(queue) < QueueSize \div 2
                  THEN [pc |-> "sleep", rows |-> {}, after |-> redrive.after]
                  ELSE IF Page = {} THEN Asleep
                  ELSE [pc |-> IF Cardinality(Page) = RedriveBatch THEN "enqueue" ELSE "last",
                        rows |-> Page, after |-> redrive.after]
    /\ UNCHANGED <<asset_data, notifying, queue, sleeping, pending, worker, paused, bounds>>

\* The rows are queued in order, as they were when they were read; a short page ends
\* the walk.
EnqueueRow ==
    \E row \in redrive.rows :
       /\ \A other \in redrive.rows : row[1] <= other[1]
       /\ enqueue(row[1], row[2])
       /\ redrive' = IF redrive.rows # {row}
                     THEN [pc |-> redrive.pc, rows |-> redrive.rows \ {row}, after |-> row[1]]
                     ELSE IF redrive.pc = "last" THEN Asleep
                     ELSE [pc |-> "scan", rows |-> {}, after |-> row[1]]
       /\ UNCHANGED <<asset_data, notifying, sleeping, worker, paused, bounds>>

-----------------------------------------------------------------------------
Init ==
    /\ asset_data = [a \in Assets |-> None]
    /\ notifying = {} /\ queue = <<>> /\ sleeping = {} /\ pending = {}
    /\ worker = [w \in Workers |-> Idle]
    /\ paused = {} /\ redrive = Asleep
    /\ writes = 0 /\ crashes = 0

\* The process dies and starts again: the table is all that is left.
Crash ==
    /\ crashes < MaxCrashes
    /\ crashes' = crashes + 1
    /\ notifying' = {} /\ queue' = <<>> /\ sleeping' = {} /\ pending' = {}
    /\ worker' = [w \in Workers |-> Idle]
    /\ paused' = {} /\ redrive' = Asleep
    /\ UNCHANGED <<asset_data, writes>>

\* The steps of a worker that do not depend on a host or on the database.
Own(w) == Take(w) \/ Dispatch(w) \/ Permit(w) \/ finish(w)

Next ==
    \/ \E a \in Assets, u \in Urls : Write(a, u)
    \/ \E n \in notifying : Notify(n)
    \/ \E j \in sleeping : Wake(j)
    \/ \E w \in Workers : Own(w) \/ Conclude(w) \/ Retry(w) \/ store(w) \/ StoreFails(w)
    \/ \E h \in paused : PauseEnds(h)
    \/ RedriveStart \/ Scan \/ EnqueueRow \/ Crash

Spec == Init /\ [][Next]_vars

Asks(u) == \E w \in Workers : worker[w].job # None /\ worker[w].job.uri = u /\ Conclude(w)

Stores(u) == \E w \in Workers : worker[w].job # None /\ worker[w].job.uri = u /\ store(w)

WakeFor(a) == \E j \in sleeping : j.id = a /\ Wake(j)

\* tokio polls what can move and its semaphores serve waiters in order; the re-drive
\* interval keeps ticking; pauses end.  A URL that is asked again and again is
\* answered conclusively at last, and the database accepts a write at last.
Fairness ==
    /\ WF_vars(\E n \in notifying : Notify(n))
    /\ \A w \in Workers : WF_vars(Own(w)) /\ WF_vars(Conclude(w) \/ Retry(w))
                          /\ WF_vars(store(w) \/ StoreFails(w)) /\ SF_vars(Permit(w))
    /\ \A a \in Assets : SF_vars(WakeFor(a))
    /\ WF_vars(\E h \in paused : PauseEnds(h))
    /\ WF_vars(RedriveStart) /\ WF_vars(Scan) /\ WF_vars(EnqueueRow)
    /\ \A u \in {v \in Urls : Fetchable(v)} : SF_vars(Asks(u))
    /\ \A u \in {v \in Urls : ~Blank(v)} : SF_vars(Stores(u))

FairSpec == Spec /\ Fairness

-----------------------------------------------------------------------------
TypeOK ==
    /\ asset_data \in [Assets -> AssetRow \cup {None}]
    /\ Len(queue) <= QueueSize
    /\ pending \subseteq Assets
    /\ redrive.pc \in {"sleep", "scan", "enqueue", "last"}

Jobs == {queue[i] : i \in DOMAIN queue} \cup sleeping \cup {worker[w].job : w \in Workers \ {v \in Workers : worker[v].pc = "idle"}}

\* An asset is marked pending exactly while one job for it is queued, in flight or
\* waiting to retry, so no asset is shut out and none is fetched twice at a time
\* (Shared::pending, enqueue, finish, later).
OneJobPerPendingAsset ==
    /\ pending = {j.id : j \in Jobs}
    /\ Len(queue) + Cardinality(sleeping)
          + Cardinality({w \in Workers : worker[w].pc # "idle"}) = Cardinality(pending)

Column(c, absent) == [a \in Assets |-> IF asset_data[a] = None THEN absent
                                       ELSE asset_data[a][c]]

Outcomes(u) == IF Blank(u) THEN {}
               ELSE IF Fetchable(u) THEN {u, GaveUp} ELSE {route(u)}

Doc == INSTANCE OffchainDoc
          WITH url <- Column("url", None), doc <- Column("metadata", None),
               owed <- Column("reindex", FALSE), NoRow <- None, Outcome <- Outcomes

\* A row that does not owe a download holds the outcome for the URL it points to,
\* whatever was queued, retried or re-driven for an older one (store).
KeepsDocumentPromise == Doc!Spec

\* Every owed download is settled: a request dropped by a full queue, shut out by a
\* job for the asset's previous URI, given up after its attempts or lost in a crash
\* comes back through the re-drive loop (redrive).
OwedIsSettled ==
    \A a \in Assets :
        (asset_data[a] # None /\ asset_data[a].reindex /\ ~Blank(asset_data[a].url))
            ~> (asset_data[a] # None /\ (~asset_data[a].reindex \/ Blank(asset_data[a].url)))

=============================================================================
