----------------------- MODULE MetadataDownload_proofs -----------------------
(***************************************************************************)
(* Proofs about MetadataDownload for every set of assets, URLs and workers  *)
(* and every queue size: the queue keeps its bound, the downloader keeps    *)
(* the promise of the asset_data columns, and each pending asset has        *)
(* exactly one job.                                                         *)
(***************************************************************************)
EXTENDS MetadataDownload, FiniteSetTheorems, TLAPS

\* Jobs and rows that the downloader may hold: for a URL that is not empty, of an
\* asset that has a row.
Known(a, u) == a \in Assets /\ u \in Urls /\ ~Blank(u) /\ asset_data[a] # None

GoodJobs == {j \in [id : Assets, uri : Urls, attempt : Nat] : Known(j.id, j.uri)}

GoodRows == {p \in Assets \X Urls : Known(p[1], p[2])}

WorkerInv(w) ==
    /\ worker[w].pc \in {"idle", "taken", "waiting", "fetching", "store", "stored"}
    /\ worker[w].pc # "idle" => worker[w].job \in GoodJobs
    /\ worker[w].pc \in {"waiting", "fetching"} => Fetchable(worker[w].job.uri)
    /\ worker[w].pc = "store" => worker[w].outcome \in Outcomes(worker[w].job.uri)

RedriveInv ==
    /\ redrive.pc \in {"sleep", "scan", "enqueue", "last"}
    /\ redrive.rows \subseteq GoodRows

QueueInv ==
    /\ queue \in Seq(GoodJobs) /\ Len(queue) <= QueueSize
    /\ pending \subseteq Assets

\* The inductive invariant: whatever is queued, asleep, in a worker's hands or read
\* by the re-drive loop names a URL and an asset with a row, and a worker about to
\* store has an outcome for the URL of its job.
IInv ==
    /\ asset_data \in [Assets -> AssetRow \cup {None}]
    /\ notifying \subseteq GoodRows
    /\ sleeping \subseteq GoodJobs
    /\ QueueInv
    /\ DOMAIN worker = Workers /\ \A w \in Workers : WorkerInv(w)
    /\ RedriveInv

\* An asset is never without its row again.
Grows == \A a \in Assets : asset_data[a] # None => asset_data'[a] # None

\* Nothing is queued, asleep or in flight when the process starts.
LEMMA InitIInv == Init => IInv
BY DownloadAssumption DEF Init, IInv, QueueInv, WorkerInv, RedriveInv, Idle, Asleep

\* A row that exists keeps existing, so a job that was sound stays sound.
LEMMA Monotone == Grows => GoodJobs \subseteq GoodJobs' /\ GoodRows \subseteq GoodRows'
BY Zenon DEF Grows, GoodJobs, GoodRows, Known

\* What a step leaves alone stays good.
LEMMA KeepsQueue == ASSUME QueueInv, Grows, UNCHANGED <<queue, pending>> PROVE QueueInv'
<1>1. queue \in Seq(GoodJobs')
  BY Monotone DEF QueueInv
<1> QED  BY Zenon, <1>1 DEF QueueInv

\* A step that leaves the workers alone keeps what is known of them.
LEMMA KeepsWorker ==
    ASSUME NEW w \in Workers, WorkerInv(w), Grows, worker'[w] = worker[w] PROVE WorkerInv(w)'
BY Zenon, Monotone DEF WorkerInv

\* A step that leaves the re-drive alone keeps what is known of it.
LEMMA KeepsRedrive == ASSUME RedriveInv, Grows, redrive' = redrive PROVE RedriveInv'
BY Zenon, Monotone DEF RedriveInv

\* What the notifiers and the sleepers hold stays good while rows are only added.
LEMMA KeepsHeld ==
    ASSUME IInv, Grows
    PROVE  notifying \subseteq GoodRows' /\ sleeping \subseteq GoodJobs'
BY Zenon, Monotone DEF IInv

\* The chain's upsert adds a row, or replaces one.
LEMMA WriteIInv ==
    ASSUME IInv, NEW a \in Assets, NEW u \in Urls, Write(a, u) PROVE IInv' /\ Grows
<1> DEFINE row == [url |-> u, reindex |-> TRUE,
                   metadata |-> IF asset_data[a] = None THEN Processing
                                ELSE asset_data[a].metadata]
<1>1. row \in AssetRow /\ row # None
  <2>1. asset_data[a] # None => asset_data[a] \in AssetRow
    BY Zenon DEF IInv
  <2>2. row \in AssetRow
    BY Zenon, <2>1 DEF AssetRow
  <2> QED  BY <2>2, SentinelAssumption, Zenon
<1>2. asset_data' = [asset_data EXCEPT ![a] = row]
  BY Zenon DEF Write, IInv
<1> HIDE DEF row
<1>3. asset_data' \in [Assets -> AssetRow \cup {None}] /\ asset_data'[a] = row /\ Grows
  BY Zenon, <1>1, <1>2 DEF IInv, Grows
<1>4. notifying' \subseteq GoodRows'
  <2>1. notifying \subseteq GoodRows'
    BY Zenon, <1>3, KeepsHeld
  <2>2. ~Blank(u) => <<a, u>> \in GoodRows'
    BY Zenon, <1>1, <1>3 DEF GoodRows, Known
  <2> QED  BY Zenon, <2>1, <2>2 DEF Write
<1>5. sleeping' \subseteq GoodJobs'
  BY Zenon, <1>3, KeepsHeld DEF Write
<1>6. QueueInv' /\ RedriveInv'
  BY Zenon, <1>3, KeepsQueue, KeepsRedrive DEF IInv, Write
<1>7. DOMAIN worker' = Workers /\ \A w \in Workers : WorkerInv(w)'
  BY Zenon, <1>3, KeepsWorker DEF IInv, Write
<1> QED  BY Zenon, <1>3, <1>4, <1>5, <1>6, <1>7 DEF IInv

\* A step that leaves the table alone leaves the good jobs and rows what they are.
LEMMA SameGood ==
    asset_data' = asset_data => Grows /\ GoodJobs' = GoodJobs /\ GoodRows' = GoodRows
BY Zenon DEF Grows, GoodJobs, GoodRows, Known

\* A job is queued, or dropped.
LEMMA EnqueueInv ==
    ASSUME QueueInv, NEW a, NEW u, <<a, u>> \in GoodRows, enqueue(a, u), asset_data' = asset_data
    PROVE  QueueInv'
<1>1. CASE a \in pending \/ Len(queue) = QueueSize
  <2>1. UNCHANGED <<queue, pending>>
    BY Zenon, <1>1 DEF enqueue
  <2> QED  BY Zenon, <2>1, SameGood, KeepsQueue
<1>2. CASE ~(a \in pending \/ Len(queue) = QueueSize)
  <2>1. pending' = pending \cup {a} /\ queue' = Append(queue, NewJob(a, u))
    BY Zenon, <1>2 DEF enqueue
  <2>2. NewJob(a, u) \in GoodJobs /\ a \in Assets
    BY Zenon DEF NewJob, GoodJobs, GoodRows, Known
  <2>3. queue' \in Seq(GoodJobs) /\ Len(queue') = Len(queue) + 1 /\ Len(queue) \in Nat
    BY <2>1, <2>2 DEF QueueInv
  <2>4. Len(queue') <= QueueSize
    BY <1>2, <2>3, DownloadAssumption DEF QueueInv
  <2> QED  BY Zenon, <2>1, <2>2, <2>3, <2>4, SameGood DEF QueueInv
<1> QED  BY Zenon, <1>1, <1>2

\* The notifier asks only for rows that were written (spawn).
LEMMA NotifyIInv == ASSUME IInv, NEW n \in notifying, Notify(n) PROVE IInv'
<1>1. asset_data' = asset_data /\ UNCHANGED <<sleeping, worker, redrive>>
      /\ notifying' \subseteq notifying /\ enqueue(n[1], n[2])
  BY Zenon DEF Notify
<1>2. <<n[1], n[2]>> \in GoodRows
  BY Zenon DEF IInv, GoodRows
<1>3. QueueInv'
  BY Zenon, <1>1, <1>2, EnqueueInv DEF IInv
<1>4. RedriveInv' /\ DOMAIN worker' = Workers /\ \A w \in Workers : WorkerInv(w)'
  BY Zenon, <1>1, SameGood, KeepsRedrive, KeepsWorker DEF IInv
<1> QED  BY Zenon, <1>1, <1>3, <1>4, SameGood DEF IInv

\* A job that waited returns to the queue unchanged, once there is room (Shared::later).
LEMMA WakeIInv == ASSUME IInv, NEW j \in sleeping, Wake(j) PROVE IInv'
<1>1. /\ asset_data' = asset_data /\ UNCHANGED <<notifying, pending, worker, redrive>>
      /\ sleeping' \subseteq sleeping /\ queue' = Append(queue, j) /\ Len(queue) < QueueSize
  BY Zenon DEF Wake
<1>2. queue' \in Seq(GoodJobs) /\ Len(queue') <= QueueSize
  BY <1>1, DownloadAssumption DEF IInv, QueueInv
<1>3. QueueInv'
  BY Zenon, <1>1, <1>2, SameGood DEF IInv, QueueInv
<1>4. RedriveInv' /\ DOMAIN worker' = Workers /\ \A w \in Workers : WorkerInv(w)'
  BY Zenon, <1>1, SameGood, KeepsRedrive, KeepsWorker DEF IInv
<1> QED  BY Zenon, <1>1, <1>3, <1>4, SameGood DEF IInv

\* A step of one worker that leaves the table alone.
LEMMA WorkerStep ==
    ASSUME IInv, NEW w \in Workers, NEW x, worker' = [worker EXCEPT ![w] = x],
           asset_data' = asset_data, UNCHANGED <<notifying, redrive>>,
           WorkerInv(w)', QueueInv', sleeping' \subseteq GoodJobs
    PROVE  IInv'
<1>1. ASSUME NEW v \in Workers, v # w PROVE WorkerInv(v)'
  <2>1. worker'[v] = worker[v] /\ WorkerInv(v)
    BY Zenon, <1>1 DEF IInv
  <2> QED  BY Zenon, <2>1, SameGood, KeepsWorker
<1>2. DOMAIN worker' = Workers /\ RedriveInv'
  BY Zenon, SameGood, KeepsRedrive DEF IInv
<1> QED  BY Zenon, <1>1, <1>2, SameGood DEF IInv

\* A worker that has nothing to do.
LEMMA IdleInv ==
    ASSUME IInv, NEW w \in Workers, worker' = [worker EXCEPT ![w] = Idle] PROVE WorkerInv(w)'
<1>1. worker'[w].pc = "idle"
  BY Zenon DEF IInv, Idle
<1> QED  BY Zenon, <1>1 DEF WorkerInv

\* A worker that goes on with its job and its outcome.
LEMMA MovePc ==
    ASSUME IInv, NEW w \in Workers, NEW pc, Goto(w, pc),
           worker[w].pc # "idle", asset_data' = asset_data,
           \/ pc = "stored"
           \/ pc \in {"waiting", "fetching"} /\ Fetchable(worker[w].job.uri)
    PROVE  WorkerInv(w)' /\ \E x : worker' = [worker EXCEPT ![w] = x]
<1> DEFINE e == [pc |-> pc, job |-> worker[w].job, outcome |-> worker[w].outcome]
<1>1. worker' = [worker EXCEPT ![w] = e] /\ worker'[w] = e
  BY Zenon DEF IInv, Goto
<1>2. worker'[w].pc = pc /\ worker'[w].job = worker[w].job /\ worker[w].job \in GoodJobs
  BY Zenon, <1>1 DEF IInv, WorkerInv
<1>3. WorkerInv(w)'
  BY Zenon, <1>2, SameGood DEF WorkerInv
<1> HIDE DEF e
<1> QED  BY <1>1, <1>3, Zenon

\* A worker takes the head of the queue (spawn).
LEMMA TakeIInv == ASSUME IInv, NEW w \in Workers, Take(w) PROVE IInv'
<1> DEFINE x == [pc |-> "taken", job |-> Head(queue), outcome |-> None]
<1>1. /\ asset_data' = asset_data /\ UNCHANGED <<notifying, redrive, sleeping, pending>>
      /\ worker' = [worker EXCEPT ![w] = x] /\ queue' = Tail(queue) /\ queue # <<>>
  BY Zenon DEF Take
<1>2. Head(queue) \in GoodJobs /\ queue' \in Seq(GoodJobs) /\ Len(queue') <= QueueSize
  BY <1>1, DownloadAssumption DEF IInv, QueueInv
<1>3. QueueInv'
  BY Zenon, <1>1, <1>2, SameGood DEF IInv, QueueInv
<1>4. worker'[w].pc = "taken" /\ worker'[w].job = Head(queue)
  BY Zenon, <1>1 DEF IInv
<1>5. WorkerInv(w)'
  BY Zenon, <1>1, <1>2, <1>4, SameGood DEF WorkerInv
<1> HIDE DEF x
<1> QED  BY <1>1, <1>3, <1>5, WorkerStep, Zenon DEF IInv

\* The outcome that needs no request is one for the URL.
LEMMA RouteOutcome ==
    ASSUME NEW u, ~Blank(u), ~Fetchable(u) PROVE route(u) \in Outcomes(u)
BY Zenon DEF Outcomes

\* process decides where a URL is fetched from, or that it is not.
LEMMA DispatchIInv == ASSUME IInv, NEW w \in Workers, Dispatch(w) PROVE IInv'
<1> DEFINE j == worker[w].job
<1>1. /\ asset_data' = asset_data /\ UNCHANGED <<notifying, redrive, queue, pending>>
      /\ worker[w].pc = "taken"
  BY Zenon DEF Dispatch
<1>2. j \in GoodJobs /\ ~Blank(j.uri)
  BY Zenon, <1>1 DEF IInv, WorkerInv, GoodJobs, Known
<1>3. QueueInv'
  BY Zenon, <1>1, SameGood, KeepsQueue DEF IInv
<1>4. CASE ~Fetchable(j.uri)
  <2> DEFINE x == [pc |-> "store", job |-> j, outcome |-> route(j.uri)]
  <2>1. worker' = [worker EXCEPT ![w] = x] /\ sleeping' = sleeping
    BY Zenon, <1>4 DEF Dispatch
  <2>2. worker'[w].pc = "store" /\ worker'[w].job = j /\ worker'[w].outcome = route(j.uri)
    BY Zenon, <2>1 DEF IInv
  <2>3. WorkerInv(w)'
    BY Zenon, <1>1, <1>2, <1>4, <2>2, SameGood, RouteOutcome DEF WorkerInv
  <2> HIDE DEF x
  <2> QED  BY <1>1, <1>3, <2>1, <2>3, WorkerStep, Zenon DEF IInv
<1>5. CASE Fetchable(j.uri) /\ route(j.uri) \in paused
  <2>1. worker' = [worker EXCEPT ![w] = Idle] /\ sleeping' = sleeping \cup {j}
    BY Zenon, <1>5 DEF Dispatch
  <2>2. sleeping' \subseteq GoodJobs /\ WorkerInv(w)'
    BY <1>2, <2>1, IdleInv, Zenon DEF IInv
  <2> QED  BY <1>1, <1>3, <2>1, <2>2, WorkerStep, Zenon
<1>6. CASE Fetchable(j.uri) /\ route(j.uri) \notin paused
  <2>1. Goto(w, "waiting") /\ sleeping' = sleeping
    BY Zenon, <1>6 DEF Dispatch
  <2>2. WorkerInv(w)' /\ \E x : worker' = [worker EXCEPT ![w] = x]
    BY Zenon, <1>1, <1>6, <2>1, MovePc
  <2> QED  BY <1>1, <1>3, <2>1, <2>2, WorkerStep, Zenon DEF IInv
<1> QED  BY Zenon, <1>4, <1>5, <1>6

\* A step that only moves a worker on.
LEMMA MoveIInv ==
    ASSUME IInv, NEW w \in Workers, Permit(w) \/ StoreFails(w) PROVE IInv'
<1>1. /\ asset_data' = asset_data /\ UNCHANGED <<notifying, redrive, queue, pending, sleeping>>
      /\ worker[w].pc \in {"waiting", "store"}
  BY Zenon DEF Permit, StoreFails
<1>2. QueueInv'
  BY Zenon, <1>1, SameGood, KeepsQueue DEF IInv
<1>3. PICK pc : /\ Goto(w, pc)
                /\ pc = "stored" \/ (pc = "fetching" /\ worker[w].pc = "waiting")
  BY Zenon DEF Permit, StoreFails
<1>4. pc = "fetching" => Fetchable(worker[w].job.uri)
  BY Zenon, <1>3 DEF IInv, WorkerInv
<1>5. WorkerInv(w)' /\ \E x : worker' = [worker EXCEPT ![w] = x]
  BY Zenon, <1>1, <1>3, <1>4, MovePc
<1> QED  BY <1>1, <1>2, <1>5, WorkerStep, Zenon DEF IInv

\* An answer that settles the download is an outcome for the job's URL (fetch).
LEMMA ConcludeIInv == ASSUME IInv, NEW w \in Workers, Conclude(w) PROVE IInv'
<1> DEFINE j == worker[w].job
<1>1. /\ asset_data' = asset_data /\ UNCHANGED <<notifying, redrive, queue, pending, sleeping>>
      /\ worker[w].pc = "fetching"
  BY Zenon DEF Conclude
<1>2. j \in GoodJobs /\ ~Blank(j.uri) /\ Fetchable(j.uri)
  BY Zenon, <1>1 DEF IInv, WorkerInv, GoodJobs, Known
<1>3. QueueInv'
  BY Zenon, <1>1, SameGood, KeepsQueue DEF IInv
<1>4. PICK o \in {j.uri, GaveUp} :
         worker' = [worker EXCEPT ![w] = [pc |-> "store", job |-> j, outcome |-> o]]
  BY Zenon DEF Conclude
<1> DEFINE x == [pc |-> "store", job |-> j, outcome |-> o]
<1>5. worker'[w].pc = "store" /\ worker'[w].job = j /\ worker'[w].outcome = o
  BY Zenon, <1>4 DEF IInv
<1>6. o \in Outcomes(j.uri)
  BY Zenon, <1>2 DEF Outcomes
<1>7. WorkerInv(w)'
  BY Zenon, <1>1, <1>2, <1>5, <1>6, SameGood DEF WorkerInv
<1>8. worker' = [worker EXCEPT ![w] = x]
  BY Zenon, <1>4
<1> HIDE DEF x
<1> QED  BY <1>1, <1>3, <1>7, <1>8, WorkerStep, Zenon DEF IInv

\* A download that did not settle sleeps with its attempt counted, or is given up (process).
LEMMA RetryIInv == ASSUME IInv, NEW w \in Workers, Retry(w) PROVE IInv'
<1> DEFINE j == worker[w].job
           k == [id |-> j.id, uri |-> j.uri, attempt |-> j.attempt + 1]
<1>1. /\ asset_data' = asset_data /\ UNCHANGED <<notifying, redrive, queue, pending>>
      /\ worker[w].pc = "fetching"
  BY Zenon DEF Retry
<1>2. k \in GoodJobs
  BY <1>1 DEF IInv, WorkerInv, GoodJobs, Known
<1>3. QueueInv'
  BY Zenon, <1>1, SameGood, KeepsQueue DEF IInv
<1>4. CASE j.attempt + 1 >= MaxAttempts
  <2>1. Goto(w, "stored") /\ sleeping' = sleeping
    BY Zenon, <1>4 DEF Retry
  <2>2. WorkerInv(w)' /\ \E x : worker' = [worker EXCEPT ![w] = x]
    BY Zenon, <1>1, <2>1, MovePc
  <2> QED  BY <1>1, <1>3, <2>1, <2>2, WorkerStep, Zenon DEF IInv
<1>5. CASE ~(j.attempt + 1 >= MaxAttempts)
  <2>1. worker' = [worker EXCEPT ![w] = Idle] /\ sleeping' = sleeping \cup {k}
    BY <1>5, Zenon DEF Retry
  <2> HIDE DEF k
  <2>2. sleeping' \subseteq GoodJobs /\ WorkerInv(w)'
    BY <1>2, <2>1, IdleInv, Zenon DEF IInv
  <2> QED  BY <1>1, <1>3, <2>1, <2>2, WorkerStep, Zenon
<1> QED  BY Zenon, <1>4, <1>5

\* finish releases the worker and the asset.
LEMMA FinishIInv == ASSUME IInv, NEW w \in Workers, finish(w) PROVE IInv'
<1>1. /\ asset_data' = asset_data /\ UNCHANGED <<notifying, redrive, queue, sleeping>>
      /\ pending' \subseteq pending /\ worker' = [worker EXCEPT ![w] = Idle]
  BY Zenon DEF finish
<1>2. QueueInv'
  BY Zenon, <1>1, SameGood DEF IInv, QueueInv
<1> QED  BY <1>1, <1>2, IdleInv, WorkerStep, Zenon DEF IInv

\* store(): a row that points at the job's URL is replaced, any other is kept.
LEMMA StoreEffect ==
    ASSUME IInv, NEW w \in Workers, store(w)
    PROVE  /\ worker[w].job \in GoodJobs
           /\ worker[w].outcome \in Outcomes(worker[w].job.uri)
           /\ asset_data[worker[w].job.id] \in AssetRow
           /\ \/ asset_data' = asset_data
              \/ /\ asset_data[worker[w].job.id].url = worker[w].job.uri
                 /\ asset_data' = [asset_data EXCEPT ![worker[w].job.id] =
                       [url |-> worker[w].job.uri, reindex |-> FALSE,
                        metadata |-> IF worker[w].outcome = GaveUp
                                     THEN asset_data[worker[w].job.id].metadata
                                     ELSE worker[w].outcome]]
<1>1. worker[w].job \in GoodJobs /\ worker[w].outcome \in Outcomes(worker[w].job.uri)
  BY Zenon DEF IInv, WorkerInv, store
<1>2. worker[w].job.id \in Assets /\ asset_data[worker[w].job.id] # None
  BY Zenon, <1>1 DEF GoodJobs, Known
<1>3. asset_data[worker[w].job.id] \in AssetRow
  BY Zenon, <1>2 DEF IInv
<1>4. CASE asset_data[worker[w].job.id].url # worker[w].job.uri
  BY Zenon, <1>1, <1>3, <1>4 DEF store
<1>5. CASE asset_data[worker[w].job.id].url = worker[w].job.uri
  <2>1. asset_data' = [asset_data EXCEPT ![worker[w].job.id] =
                       [url |-> worker[w].job.uri, reindex |-> FALSE,
                        metadata |-> IF worker[w].outcome = GaveUp
                                     THEN asset_data[worker[w].job.id].metadata
                                     ELSE worker[w].outcome]]
    BY Zenon, <1>2, <1>5 DEF store, IInv
  <2> QED  BY Zenon, <1>1, <1>3, <1>5, <2>1
<1> QED  BY <1>4, <1>5, Zenon

\* What may be stored is a document.
LEMMA OutcomeType ==
    ASSUME NEW u \in Urls, NEW o \in Outcomes(u) PROVE o \in Urls \cup {InvalidUri, GaveUp}
BY Zenon DEF Outcomes, Fetchable

\* store writes the row only if its URL is the job's.
LEMMA StoreIInv == ASSUME IInv, NEW w \in Workers, store(w) PROVE IInv'
<1> DEFINE a == worker[w].job.id
           row == [url |-> worker[w].job.uri, reindex |-> FALSE,
                   metadata |-> IF worker[w].outcome = GaveUp THEN asset_data[a].metadata
                                ELSE worker[w].outcome]
<1>1. /\ UNCHANGED <<notifying, redrive, queue, pending, sleeping>>
      /\ worker[w].pc = "store" /\ Goto(w, "stored")
  BY Zenon DEF store
<1>2. row \in AssetRow /\ row # None
  <2>1. worker[w].job.uri \in Urls /\ asset_data[a] \in AssetRow
        /\ worker[w].outcome \in Outcomes(worker[w].job.uri)
    BY StoreEffect, Zenon DEF GoodJobs
  <2>2. worker[w].outcome \in Urls \cup {InvalidUri, GaveUp}
    BY Zenon, <2>1, OutcomeType
  <2>3. row.metadata \in Urls \cup {Processing, InvalidUri}
    BY Zenon, <2>1, <2>2 DEF AssetRow
  <2>4. row \in AssetRow
    BY Zenon, <2>1, <2>3 DEF AssetRow
  <2> QED  BY <2>4, SentinelAssumption, Zenon
<1>3. asset_data' = asset_data \/ asset_data' = [asset_data EXCEPT ![a] = row]
  BY Zenon, StoreEffect
<1> HIDE DEF row
<1>4. asset_data' \in [Assets -> AssetRow \cup {None}] /\ Grows
  BY Zenon, <1>2, <1>3 DEF IInv, Grows
<1>5. notifying' \subseteq GoodRows' /\ sleeping' \subseteq GoodJobs' /\ QueueInv' /\ RedriveInv'
  BY Zenon, <1>1, <1>4, KeepsHeld, KeepsQueue, KeepsRedrive DEF IInv
<1>6. ASSUME NEW v \in Workers PROVE WorkerInv(v)'
  <2>1. CASE v # w
    <3>1. worker'[v] = worker[v] /\ WorkerInv(v)
      BY Zenon, <1>1, <2>1 DEF IInv, Goto
    <3> QED  BY Zenon, <1>4, <3>1, KeepsWorker
  <2>2. CASE v = w
    <3>1. worker'[w] = [pc |-> "stored", job |-> worker[w].job, outcome |-> worker[w].outcome]
      BY Zenon, <1>1 DEF IInv, Goto
    <3>2. worker'[w].pc = "stored" /\ worker'[w].job \in GoodJobs
      <4>1. worker[w].job \in GoodJobs
        BY StoreEffect, Zenon
      <4>2. worker'[w].pc = "stored" /\ worker'[w].job = worker[w].job
        BY <3>1
      <4> QED  BY <4>1, <4>2, Zenon
    <3> QED  BY Zenon, <1>4, <2>2, <3>2, Monotone DEF WorkerInv
  <2> QED  BY Zenon, <2>1, <2>2
<1>7. DOMAIN worker' = Workers
  BY Zenon, <1>1 DEF Goto, IInv
<1> QED  BY Zenon, <1>4, <1>5, <1>6, <1>7 DEF IInv

\* The re-drive loop reads rows that are there.
LEMMA RedriveIInv == ASSUME IInv, RedriveStart \/ Scan PROVE IInv'
<1>1. asset_data' = asset_data /\ UNCHANGED <<notifying, queue, sleeping, pending, worker>>
  BY Zenon DEF RedriveStart, Scan
<1>2. Page \subseteq GoodRows
  <2> SUFFICES ASSUME NEW a \in Owed PROVE <<a, asset_data[a].url>> \in GoodRows
    BY Zenon DEF Page
  <2>1. a \in Assets /\ asset_data[a] # None /\ ~Blank(asset_data[a].url)
    BY Zenon DEF Owed
  <2>2. asset_data[a].url \in Urls
    BY Zenon, <2>1 DEF IInv, AssetRow
  <2> QED  BY Zenon, <2>1, <2>2 DEF GoodRows, Known
<1>3. /\ redrive'.pc \in {"sleep", "scan", "enqueue", "last"}
      /\ redrive'.rows = {} \/ redrive'.rows = Page
  <2>1. CASE RedriveStart
    BY Zenon, <2>1 DEF RedriveStart
  <2>2. CASE Scan
    BY Zenon, <2>2 DEF Scan, Asleep
  <2> QED  BY Zenon, <2>1, <2>2
<1>4. RedriveInv'
  BY Zenon, <1>1, <1>2, <1>3, SameGood DEF RedriveInv
<1>5. QueueInv' /\ DOMAIN worker' = Workers /\ \A w \in Workers : WorkerInv(w)'
  BY Zenon, <1>1, SameGood, KeepsQueue, KeepsWorker DEF IInv
<1> QED  BY Zenon, <1>1, <1>4, <1>5, SameGood DEF IInv

\* The re-drive queues a row that its page read (redrive).
LEMMA EnqueueRowIInv == ASSUME IInv, EnqueueRow PROVE IInv'
<1>1. PICK row \in redrive.rows :
         /\ enqueue(row[1], row[2])
         /\ redrive' = IF redrive.rows # {row}
                       THEN [pc |-> redrive.pc, rows |-> redrive.rows \ {row}, after |-> row[1]]
                       ELSE IF redrive.pc = "last" THEN Asleep
                       ELSE [pc |-> "scan", rows |-> {}, after |-> row[1]]
         /\ asset_data' = asset_data /\ UNCHANGED <<notifying, sleeping, worker>>
  BY Zenon DEF EnqueueRow
<1>2. <<row[1], row[2]>> \in GoodRows
  BY Zenon DEF IInv, RedriveInv, GoodRows
<1>3. QueueInv'
  BY Zenon, <1>1, <1>2, EnqueueInv DEF IInv
<1>4. redrive'.pc \in {"sleep", "scan", redrive.pc} /\ redrive'.rows \subseteq redrive.rows
  BY Zenon, <1>1 DEF Asleep
<1>5. RedriveInv'
  BY Zenon, <1>1, <1>4, SameGood DEF IInv, RedriveInv
<1>6. DOMAIN worker' = Workers /\ \A w \in Workers : WorkerInv(w)'
  BY <1>1, SameGood, KeepsWorker, Zenon DEF IInv
<1> QED  BY Zenon, <1>1, <1>3, <1>5, <1>6, SameGood DEF IInv

\* A pause that ends, and a crash.
LEMMA OtherIInv ==
    ASSUME IInv, Crash \/ (\E h \in paused : PauseEnds(h)) \/ UNCHANGED vars PROVE IInv'
<1>1. asset_data' = asset_data
  BY Zenon DEF Crash, PauseEnds, vars
<1>2. CASE Crash
  BY <1>1, <1>2, DownloadAssumption
     DEF Crash, IInv, QueueInv, WorkerInv, RedriveInv, Idle, Asleep
<1>3. CASE UNCHANGED <<notifying, queue, sleeping, pending, worker, redrive>>
  <2>1. QueueInv' /\ RedriveInv' /\ DOMAIN worker' = Workers /\ \A w \in Workers : WorkerInv(w)'
    BY Zenon, <1>1, <1>3, SameGood, KeepsQueue, KeepsRedrive, KeepsWorker DEF IInv
  <2> QED  BY Zenon, <1>1, <1>3, <2>1, SameGood DEF IInv
<1> QED  BY Zenon, <1>2, <1>3 DEF PauseEnds, vars, memory

\* Every step keeps the invariant.
LEMMA NextIInv == IInv /\ [Next]_vars => IInv'
BY Zenon, WriteIInv, NotifyIInv, WakeIInv, TakeIInv, DispatchIInv, MoveIInv, ConcludeIInv,
   RetryIInv, StoreIInv, FinishIInv, RedriveIInv, EnqueueRowIInv, OtherIInv
   DEF Next, Own

\* Every job stands for a row that exists and a URL of the chain, and every outcome
\* that a worker holds is one for its job's URL (Job, process, redrive).
THEOREM Invariance == Spec => []IInv
BY InitIInv, NextIInv, PTL DEF Spec

\* The queue never holds more than its size and only assets that exist are pending.
THEOREM Types == Spec => []TypeOK
<1>1. IInv => TypeOK
  BY Zenon DEF IInv, QueueInv, RedriveInv, TypeOK
<1> QED  BY <1>1, Invariance, PTL

-----------------------------------------------------------------------------
(* The downloader implements OffchainDoc *)

ColumnUrl == Column("url", None)
ColumnDoc == Column("metadata", None)
ColumnOwed == Column("reindex", FALSE)

\* A row replaced by another is one entry of each column replaced.
LEMMA ColumnsOfUpdate ==
    ASSUME IInv, NEW a \in Assets, NEW row \in AssetRow,
           asset_data' = [asset_data EXCEPT ![a] = row]
    PROVE  /\ ColumnUrl' = [ColumnUrl EXCEPT ![a] = row.url]
           /\ ColumnDoc' = [ColumnDoc EXCEPT ![a] = row.metadata]
           /\ ColumnOwed' = [ColumnOwed EXCEPT ![a] = row.reindex]
<1>1. row # None /\ asset_data'[a] = row /\ \A b \in Assets \ {a} : asset_data'[b] = asset_data[b]
  BY Zenon, SentinelAssumption DEF IInv
<1>2. /\ ColumnUrl = [b \in Assets |-> IF asset_data[b] = None THEN None ELSE asset_data[b].url]
      /\ ColumnUrl' = [b \in Assets |-> IF asset_data'[b] = None THEN None ELSE asset_data'[b].url]
  BY Zenon DEF ColumnUrl, Column
<1>3. /\ ColumnDoc = [b \in Assets |-> IF asset_data[b] = None THEN None ELSE asset_data[b].metadata]
      /\ ColumnDoc' = [b \in Assets |-> IF asset_data'[b] = None THEN None ELSE asset_data'[b].metadata]
  BY Zenon DEF ColumnDoc, Column
<1>4. /\ ColumnOwed = [b \in Assets |-> IF asset_data[b] = None THEN FALSE ELSE asset_data[b].reindex]
      /\ ColumnOwed' = [b \in Assets |-> IF asset_data'[b] = None THEN FALSE ELSE asset_data'[b].reindex]
  BY Zenon DEF ColumnOwed, Column
<1>5. ColumnUrl' = [ColumnUrl EXCEPT ![a] = row.url]
  BY <1>1, <1>2
<1>6. ColumnDoc' = [ColumnDoc EXCEPT ![a] = row.metadata]
  BY <1>1, <1>3
<1>7. ColumnOwed' = [ColumnOwed EXCEPT ![a] = row.reindex]
  <2>1. \A b \in Assets : ColumnOwed'[b] = IF b = a THEN row.reindex ELSE ColumnOwed[b]
    <3> TAKE b \in Assets
    <3>1. /\ ColumnOwed[b] = IF asset_data[b] = None THEN FALSE ELSE asset_data[b].reindex
          /\ ColumnOwed'[b] = IF asset_data'[b] = None THEN FALSE ELSE asset_data'[b].reindex
      BY <1>4, Zenon
    <3>2. CASE b = a
      BY <1>1, <3>1, <3>2, Zenon
    <3>3. CASE b # a
      <4>1. asset_data'[b] = asset_data[b]
        BY Zenon, <1>1, <3>3
      <4> QED  BY <3>1, <3>3, <4>1, Zenon
    <3> QED  BY Zenon, <3>2, <3>3
  <2> QED  BY <1>4, <2>1, ZenonT(40)
<1> QED  BY Zenon, <1>5, <1>6, <1>7

\* The columns of one row.
LEMMA ColumnsOfRow ==
    ASSUME NEW a \in Assets
    PROVE  /\ ColumnUrl[a] = IF asset_data[a] = None THEN None ELSE asset_data[a].url
           /\ ColumnDoc[a] = IF asset_data[a] = None THEN None ELSE asset_data[a].metadata
           /\ ColumnOwed[a] = IF asset_data[a] = None THEN FALSE ELSE asset_data[a].reindex
BY Zenon DEF ColumnUrl, ColumnDoc, ColumnOwed, Column

\* The chain's upsert is the promise's Point.
LEMMA WritePoints ==
    ASSUME IInv, NEW a \in Assets, NEW u \in Urls, Write(a, u) PROVE Doc!Point(a, u)
<1> DEFINE row == [url |-> u, reindex |-> TRUE,
                   metadata |-> IF asset_data[a] = None THEN Processing
                                ELSE asset_data[a].metadata]
<1>1. asset_data[a] # None => asset_data[a] \in AssetRow
  BY Zenon DEF IInv
<1>2. row \in AssetRow
  BY Zenon, <1>1 DEF AssetRow
<1>3. asset_data' = [asset_data EXCEPT ![a] = row]
  BY Zenon DEF Write, IInv
<1>4. row.url = u /\ row.reindex = TRUE
  OBVIOUS
<1>5. (ColumnUrl[a] = None) <=> (asset_data[a] = None)
  BY <1>1, ColumnsOfRow, SentinelAssumption, Zenon DEF AssetRow
<1>6. row.metadata = IF ColumnUrl[a] = None THEN Processing ELSE ColumnDoc[a]
  BY <1>5, ColumnsOfRow, Zenon
<1> HIDE DEF row
<1>7. /\ ColumnUrl' = [ColumnUrl EXCEPT ![a] = u]
      /\ ColumnDoc' = [ColumnDoc EXCEPT ![a] = row.metadata]
      /\ ColumnOwed' = [ColumnOwed EXCEPT ![a] = TRUE]
  BY <1>2, <1>3, <1>4, ColumnsOfUpdate, Zenon
<1>8. ColumnDoc' = [ColumnDoc EXCEPT ![a] = IF ColumnUrl[a] = None THEN Processing ELSE @]
  BY Zenon, <1>6, <1>7 DEF ColumnDoc, Column
<1> QED  BY <1>7, <1>8, Zenon DEF Doc!Point, ColumnUrl, ColumnDoc, ColumnOwed

\* A guarded UPDATE that finds its row is the promise's Settle.
LEMMA StoreSettles ==
    ASSUME IInv, NEW w \in Workers, store(w), asset_data' # asset_data
    PROVE  \E a \in Assets : \E o \in UNION {Outcomes(u) : u \in Urls} : Doc!Settle(a, o)
<1> DEFINE a == worker[w].job.id
           u == worker[w].job.uri
           o == worker[w].outcome
           row == [url |-> u, reindex |-> FALSE,
                   metadata |-> IF o = GaveUp THEN asset_data[a].metadata ELSE o]
<1>1. worker[w].job \in GoodJobs /\ o \in Outcomes(u) /\ asset_data[a] \in AssetRow
      /\ asset_data[a].url = u /\ asset_data' = [asset_data EXCEPT ![a] = row]
  BY StoreEffect, Zenon
<1>2. a \in Assets /\ u \in Urls
  BY Zenon, <1>1 DEF GoodJobs
<1>3. row \in AssetRow /\ row.url = u /\ row.reindex = FALSE
      /\ row.metadata = IF o = GaveUp THEN asset_data[a].metadata ELSE o
  <2>1. o \in Urls \cup {InvalidUri, GaveUp}
    BY Zenon, <1>1, <1>2, OutcomeType
  <2>2. (IF o = GaveUp THEN asset_data[a].metadata ELSE o) \in Urls \cup {Processing, InvalidUri}
    BY <1>1, <2>1, Zenon DEF AssetRow
  <2> QED  BY <1>2, <2>2, Zenon DEF AssetRow
<1>4. asset_data[a] # None /\ u # None
  BY Zenon, <1>1, <1>2, SentinelAssumption
<1>5. ColumnUrl[a] = u /\ ColumnDoc[a] = asset_data[a].metadata
  BY <1>1, <1>2, <1>4, ColumnsOfRow, Zenon
<1>6. o \in UNION {Outcomes(v) : v \in Urls}
  BY Zenon, <1>1, <1>2
<1> HIDE DEF a, u, o, row
<1>7. /\ ColumnUrl' = [ColumnUrl EXCEPT ![a] = row.url]
      /\ ColumnDoc' = [ColumnDoc EXCEPT ![a] = row.metadata]
      /\ ColumnOwed' = [ColumnOwed EXCEPT ![a] = row.reindex]
  BY <1>1, <1>2, <1>3, ColumnsOfUpdate, Zenon
<1>8. ColumnUrl' = ColumnUrl
  BY Zenon, <1>3, <1>5, <1>7 DEF ColumnUrl, Column
<1>9. ColumnDoc' = [ColumnDoc EXCEPT ![a] = IF o = GaveUp THEN @ ELSE o]
  BY <1>2, <1>3, <1>5, <1>7, Zenon DEF ColumnDoc, Column
<1>10. ColumnOwed' = [ColumnOwed EXCEPT ![a] = FALSE]
  BY <1>3, <1>7, Zenon
<1>11. ColumnUrl[a] # None /\ o \in Outcomes(ColumnUrl[a])
  BY <1>1, <1>4, <1>5, Zenon
<1>12. Doc!Settle(a, o)
  BY <1>8, <1>9, <1>10, <1>11, Zenon DEF Doc!Settle, ColumnUrl, ColumnDoc, ColumnOwed
<1> QED  BY Zenon, <1>2, <1>6, <1>12

\* Only the chain and store() write asset_data.
LEMMA OnlyTwoWrite ==
    ASSUME [Next]_vars, \A a \in Assets, u \in Urls : ~Write(a, u),
           \A w \in Workers : ~store(w)
    PROVE  asset_data' = asset_data
BY Zenon DEF Next, vars, Notify, Wake, Own, Take, Dispatch, Permit, finish, Conclude, Retry,
       StoreFails, PauseEnds, RedriveStart, Scan, EnqueueRow, Crash

\* Whatever was queued, retried, re-driven or lost for an older URL, a row that does
\* not owe a download holds the outcome for the URL it points to: the downloader
\* implements OffchainDoc (process, store).
THEOREM Refinement == Spec => KeepsDocumentPromise
<1> USE DEF KeepsDocumentPromise
<1>1. Init => Doc!Init
  BY Zenon DEF Init, Doc!Init, Column
<1>2. IInv /\ [Next]_vars => [Doc!Next]_<<ColumnUrl, ColumnDoc, ColumnOwed>>
  <2> SUFFICES ASSUME IInv, [Next]_vars
               PROVE  Doc!Next \/ UNCHANGED <<ColumnUrl, ColumnDoc, ColumnOwed>>
    OBVIOUS
  <2>1. CASE \E a \in Assets, u \in Urls : Write(a, u)
    BY Zenon, <2>1, WritePoints DEF Doc!Next
  <2>2. CASE asset_data' = asset_data
    BY Zenon, <2>2 DEF ColumnUrl, ColumnDoc, ColumnOwed, Column
  <2>3. CASE \E w \in Workers : store(w) /\ asset_data' # asset_data
    BY Zenon, <2>3, StoreSettles DEF Doc!Next
  <2> QED  BY Zenon, <2>1, <2>2, <2>3, OnlyTwoWrite
<1> QED  BY <1>1, <1>2, Invariance, PTL DEF Spec, Doc!Spec, ColumnUrl, ColumnDoc, ColumnOwed

-----------------------------------------------------------------------------
(* One job for each pending asset *)

Busy == {w \in Workers : worker[w].pc # "idle"}

QueueIds == {queue[i].id : i \in DOMAIN queue}
SleepIds == {j.id : j \in sleeping}
BusyIds == {worker[w].job.id : w \in Busy}

QueueOnce == \A i, k \in DOMAIN queue : queue[i].id = queue[k].id => i = k
SleepOnce == \A j, k \in sleeping : j.id = k.id => j = k
BusyOnce == \A v, w \in Busy : worker[v].job.id = worker[w].job.id => v = w

\* No asset has two jobs, wherever they are, and those with one are the pending ones.
Apart ==
    /\ QueueOnce /\ SleepOnce /\ BusyOnce
    /\ QueueIds \cap SleepIds = {} /\ QueueIds \cap BusyIds = {} /\ SleepIds \cap BusyIds = {}
    /\ pending = QueueIds \cup SleepIds \cup BusyIds

Counted ==
    /\ IsFiniteSet(sleeping) /\ IsFiniteSet(Busy) /\ IsFiniteSet(pending)
    /\ Len(queue) + Cardinality(sleeping) + Cardinality(Busy) = Cardinality(pending)

\* One more job at the end of the queue.
LEMMA QueueAdds ==
    ASSUME IInv, QueueOnce, NEW j, queue' = Append(queue, j), j.id \notin QueueIds
    PROVE  QueueOnce' /\ QueueIds' = QueueIds \cup {j.id} /\ Len(queue') = Len(queue) + 1
<1>1. /\ Len(queue) \in Nat /\ DOMAIN queue = 1..Len(queue)
      /\ DOMAIN queue' = 1..(Len(queue) + 1) /\ Len(queue') = Len(queue) + 1
      /\ \A i \in 1..Len(queue) : queue'[i] = queue[i]
      /\ queue'[Len(queue) + 1] = j
  BY DEF IInv, QueueInv
<1> DEFINE n == Len(queue) + 1
<1>2. /\ DOMAIN queue' = DOMAIN queue \cup {n} /\ n \notin DOMAIN queue
      /\ \A i \in DOMAIN queue : queue'[i] = queue[i]
      /\ queue'[n] = j
  BY <1>1
<1> HIDE DEF n
<1>3. QueueIds' = QueueIds \cup {j.id}
  BY <1>2 DEF QueueIds
<1>4. \A i \in DOMAIN queue : queue[i].id # j.id
  BY Zenon DEF QueueIds
<1>5. QueueOnce'
  <2>1. ASSUME NEW i \in DOMAIN queue', NEW k \in DOMAIN queue', queue'[i].id = queue'[k].id
        PROVE  i = k
    <3>1. CASE i = n
      BY Zenon, <1>2, <1>4, <2>1, <3>1
    <3>2. CASE i # n
      BY Zenon, <1>2, <1>4, <2>1, <3>2 DEF QueueOnce
    <3> QED  BY Zenon, <3>1, <3>2
  <2> QED  BY Zenon, <2>1 DEF QueueOnce
<1> QED  BY Zenon, <1>1, <1>3, <1>5

\* The first job leaves the queue.
LEMMA QueueDrops ==
    ASSUME IInv, QueueOnce, queue # <<>>, queue' = Tail(queue)
    PROVE  /\ QueueOnce' /\ QueueIds' = QueueIds \ {Head(queue).id}
           /\ Head(queue).id \in QueueIds /\ Len(queue') = Len(queue) - 1 /\ Len(queue) \in Nat
<1>1. /\ Len(queue) \in Nat \ {0} /\ DOMAIN queue = 1..Len(queue) /\ Head(queue) = queue[1]
      /\ DOMAIN queue' = 1..(Len(queue) - 1) /\ Len(queue') = Len(queue) - 1
      /\ \A i \in 1..(Len(queue) - 1) : queue'[i] = queue[i + 1]
  BY DEF IInv, QueueInv
<1>2. /\ 1 \in DOMAIN queue
      /\ \A i \in DOMAIN queue' : i + 1 \in DOMAIN queue \ {1} /\ queue'[i] = queue[i + 1]
      /\ \A i, k \in DOMAIN queue' : i + 1 = k + 1 => i = k
      /\ \A k \in DOMAIN queue \ {1} : k - 1 \in DOMAIN queue' /\ queue'[k - 1] = queue[k]
  BY <1>1
<1>3. Head(queue).id \in QueueIds
  BY Zenon, <1>1, <1>2 DEF QueueIds
<1>4. QueueOnce'
  BY <1>2 DEF QueueOnce
<1>5. QueueIds' = QueueIds \ {Head(queue).id}
  <2>1. ASSUME NEW i \in DOMAIN queue' PROVE queue'[i].id \in QueueIds \ {queue[1].id}
    BY <1>2 DEF QueueIds, QueueOnce
  <2>2. ASSUME NEW k \in DOMAIN queue, queue[k].id # queue[1].id PROVE queue[k].id \in QueueIds'
    BY Zenon, <1>2, <2>2 DEF QueueIds
  <2> QED  BY <1>1, <2>1, <2>2 DEF QueueIds
<1> QED  BY Zenon, <1>1, <1>3, <1>4, <1>5

\* A job goes to sleep.
LEMMA SleepAdds ==
    ASSUME SleepOnce, IsFiniteSet(sleeping), NEW j, sleeping' = sleeping \cup {j},
           j.id \notin SleepIds
    PROVE  /\ SleepOnce' /\ SleepIds' = SleepIds \cup {j.id}
           /\ IsFiniteSet(sleeping') /\ Cardinality(sleeping') = Cardinality(sleeping) + 1
<1>1. j \notin sleeping
  BY Zenon DEF SleepIds
<1>2. SleepOnce' /\ SleepIds' = SleepIds \cup {j.id}
  BY Zenon DEF SleepOnce, SleepIds
<1> QED  BY Zenon, <1>1, <1>2, FS_AddElement

\* A sleeping job goes.
LEMMA SleepDrops ==
    ASSUME SleepOnce, IsFiniteSet(sleeping), NEW j \in sleeping, sleeping' = sleeping \ {j}
    PROVE  /\ SleepOnce' /\ SleepIds' = SleepIds \ {j.id} /\ j.id \in SleepIds
           /\ IsFiniteSet(sleeping') /\ Cardinality(sleeping') = Cardinality(sleeping) - 1
<1>1. SleepOnce' /\ SleepIds' = SleepIds \ {j.id} /\ j.id \in SleepIds
  BY Zenon DEF SleepOnce, SleepIds
<1> QED  BY Zenon, <1>1, FS_RemoveElement

\* A worker takes a job of an asset that no other works on.
LEMMA BusyAdds ==
    ASSUME IInv, BusyOnce, IsFiniteSet(Busy), NEW w \in Workers, NEW x, worker[w].pc = "idle",
           x.pc # "idle", worker' = [worker EXCEPT ![w] = x], x.job.id \notin BusyIds
    PROVE  /\ BusyOnce' /\ BusyIds' = BusyIds \cup {x.job.id}
           /\ IsFiniteSet(Busy') /\ Cardinality(Busy') = Cardinality(Busy) + 1
<1>1. worker'[w] = x /\ \A v \in Workers : v # w => worker'[v] = worker[v]
  BY Zenon DEF IInv
<1>2. Busy' = Busy \cup {w} /\ w \notin Busy /\ \A v \in Busy : worker'[v] = worker[v]
  BY Zenon, <1>1 DEF Busy
<1>3. \A v \in Busy : worker[v].job.id # x.job.id
  BY Zenon DEF BusyIds
<1>4. BusyOnce'
  BY <1>1, <1>2, <1>3 DEF BusyOnce
<1>5. BusyIds' = BusyIds \cup {x.job.id}
  BY <1>1, <1>2 DEF BusyIds
<1> QED  BY Zenon, <1>2, <1>4, <1>5, FS_AddElement

\* A worker goes on with its job.
LEMMA BusyGoesOn ==
    ASSUME IInv, BusyOnce, NEW w \in Busy, NEW x, x.pc # "idle", x.job = worker[w].job,
           worker' = [worker EXCEPT ![w] = x]
    PROVE  BusyOnce' /\ BusyIds' = BusyIds /\ Busy' = Busy
<1>1. w \in Workers
  BY Zenon DEF Busy
<1>2. worker'[w] = x /\ \A v \in Workers : v # w => worker'[v] = worker[v]
  BY Zenon, <1>1 DEF IInv
<1>3. Busy' = Busy
  BY Zenon, <1>2 DEF Busy
<1>4. \A v \in Busy : worker'[v].job = worker[v].job
  BY Zenon, <1>2 DEF Busy
<1> QED  BY <1>3, <1>4 DEF BusyOnce, BusyIds

\* A worker lets its job go.
LEMMA BusyDrops ==
    ASSUME IInv, BusyOnce, IsFiniteSet(Busy), NEW w \in Busy, worker' = [worker EXCEPT ![w] = Idle]
    PROVE  /\ BusyOnce' /\ BusyIds' = BusyIds \ {worker[w].job.id} /\ worker[w].job.id \in BusyIds
           /\ IsFiniteSet(Busy') /\ Cardinality(Busy') = Cardinality(Busy) - 1
<1>1. w \in Workers /\ Idle.pc = "idle"
  BY Zenon DEF Busy, Idle
<1>2. worker'[w] = Idle /\ \A v \in Workers : v # w => worker'[v] = worker[v]
  BY Zenon, <1>1 DEF IInv
<1>3. Busy' = Busy \ {w} /\ \A v \in Busy' : worker'[v] = worker[v]
  BY Zenon, <1>1, <1>2 DEF Busy
<1>4. BusyOnce'
  BY <1>3 DEF BusyOnce
<1>5. BusyIds' = BusyIds \ {worker[w].job.id} /\ worker[w].job.id \in BusyIds
  BY <1>3 DEF BusyIds, BusyOnce
<1> QED  BY Zenon, <1>3, <1>4, <1>5, FS_RemoveElement

\* A queue left alone holds the jobs it held.
LEMMA SameQueue == UNCHANGED queue => UNCHANGED <<QueueOnce, QueueIds>>
BY Zenon DEF QueueOnce, QueueIds

\* Sleepers left alone hold the jobs they held.
LEMMA SameSleep == UNCHANGED sleeping => UNCHANGED <<SleepOnce, SleepIds>>
BY Zenon DEF SleepOnce, SleepIds

\* Workers left alone hold the jobs they held.
LEMMA SameBusy == UNCHANGED worker => UNCHANGED <<Busy, BusyOnce, BusyIds>>
BY Zenon DEF Busy, BusyOnce, BusyIds

\* The counts are numbers.
LEMMA Counts ==
    ASSUME IInv, Counted
    PROVE  {Len(queue), Cardinality(sleeping), Cardinality(Busy), Cardinality(pending)} \subseteq Nat
<1>1. Len(queue) \in Nat
  BY DEF IInv, QueueInv
<1> QED  BY Zenon, <1>1, FS_CardinalityType DEF Counted

\* A new request joins the queue and the pending set, or neither (Shared::enqueue).
LEMMA EnqueueApart ==
    ASSUME IInv, Apart, Counted, NEW a, NEW u, enqueue(a, u), UNCHANGED <<sleeping, worker>>
    PROVE  Apart' /\ Counted'
<1>1. CASE UNCHANGED <<queue, pending>>
  BY Zenon, <1>1, SameQueue, SameSleep, SameBusy DEF Apart, Counted
<1>2. CASE ~UNCHANGED <<queue, pending>>
  <2> DEFINE j == NewJob(a, u)
  <2>1. a \notin pending /\ pending' = pending \cup {a} /\ queue' = Append(queue, j)
    BY Zenon, <1>2 DEF enqueue
  <2>2. j.id = a
    BY Zenon DEF NewJob
  <2> HIDE DEF j
  <2>3. a \notin QueueIds /\ a \notin SleepIds /\ a \notin BusyIds
    BY Zenon, <2>1 DEF Apart
  <2>4. QueueOnce' /\ QueueIds' = QueueIds \cup {a} /\ Len(queue') = Len(queue) + 1
    BY Zenon, <2>1, <2>2, <2>3, QueueAdds DEF Apart
  <2>5. Apart'
    BY Zenon, <2>1, <2>3, <2>4, SameSleep, SameBusy DEF Apart
  <2>6. IsFiniteSet(pending') /\ Cardinality(pending') = Cardinality(pending) + 1
    BY Zenon, <2>1, FS_AddElement DEF Counted
  <2>7. Counted'
    BY <2>4, <2>6, SameBusy, Counts DEF Counted
  <2> QED  BY Zenon, <2>5, <2>7
<1> QED  BY Zenon, <1>1, <1>2

\* A job that waited goes back to the queue (Shared::later).
LEMMA WakeApart ==
    ASSUME IInv, Apart, Counted, NEW j \in sleeping, Wake(j) PROVE Apart' /\ Counted'
<1>1. sleeping' = sleeping \ {j} /\ queue' = Append(queue, j) /\ UNCHANGED <<worker, pending>>
  BY Zenon DEF Wake
<1>2. /\ SleepOnce' /\ SleepIds' = SleepIds \ {j.id} /\ j.id \in SleepIds
      /\ IsFiniteSet(sleeping') /\ Cardinality(sleeping') = Cardinality(sleeping) - 1
  BY Zenon, <1>1, SleepDrops DEF Apart, Counted
<1>3. j.id \notin QueueIds /\ j.id \notin BusyIds
  BY Zenon, <1>2 DEF Apart
<1>4. QueueOnce' /\ QueueIds' = QueueIds \cup {j.id} /\ Len(queue') = Len(queue) + 1
  BY Zenon, <1>1, <1>3, QueueAdds DEF Apart
<1>5. Apart'
  BY Zenon, <1>1, <1>2, <1>3, <1>4, SameBusy DEF Apart
<1>6. Counted'
  BY <1>1, <1>2, <1>4, SameBusy, Counts DEF Counted
<1> QED  BY Zenon, <1>5, <1>6

\* A worker takes the first job (spawn).
LEMMA TakeApart ==
    ASSUME IInv, Apart, Counted, NEW w \in Workers, Take(w) PROVE Apart' /\ Counted'
<1> DEFINE x == [pc |-> "taken", job |-> Head(queue), outcome |-> None]
<1>1. /\ queue # <<>> /\ queue' = Tail(queue) /\ UNCHANGED <<sleeping, pending>>
      /\ worker[w].pc = "idle" /\ worker' = [worker EXCEPT ![w] = x]
  BY Zenon DEF Take
<1>2. x.pc # "idle" /\ x.job = Head(queue)
  OBVIOUS
<1> HIDE DEF x
<1>3. /\ QueueOnce' /\ QueueIds' = QueueIds \ {Head(queue).id} /\ Head(queue).id \in QueueIds
      /\ Len(queue') = Len(queue) - 1
  BY Zenon, <1>1, QueueDrops DEF Apart
<1>4. Head(queue).id \notin BusyIds /\ Head(queue).id \notin SleepIds
  BY Zenon, <1>3 DEF Apart
<1>5. /\ BusyOnce' /\ BusyIds' = BusyIds \cup {Head(queue).id}
      /\ IsFiniteSet(Busy') /\ Cardinality(Busy') = Cardinality(Busy) + 1
  BY Zenon, <1>1, <1>2, <1>4, BusyAdds DEF Apart, Counted
<1>6. Apart'
  BY Zenon, <1>1, <1>3, <1>4, <1>5, SameSleep DEF Apart
<1>7. Counted'
  BY <1>1, <1>3, <1>5, Counts DEF Counted
<1> QED  BY Zenon, <1>6, <1>7

\* A worker goes on with its job.
LEMMA OnwardApart ==
    ASSUME IInv, Apart, Counted, NEW w \in Workers, worker[w].pc # "idle", NEW x, x.pc # "idle",
           x.job = worker[w].job, worker' = [worker EXCEPT ![w] = x],
           UNCHANGED <<queue, sleeping, pending>>
    PROVE  Apart' /\ Counted'
<1>1. BusyOnce' /\ BusyIds' = BusyIds /\ Busy' = Busy
  BY Zenon, BusyGoesOn DEF Apart, Busy
<1> QED  BY Zenon, <1>1, SameQueue, SameSleep DEF Apart, Counted

\* A worker sets its job aside, perhaps with one more attempt counted.
LEMMA AsideApart ==
    ASSUME IInv, Apart, Counted, NEW w \in Workers, worker[w].pc # "idle",
           NEW k, k.id = worker[w].job.id, sleeping' = sleeping \cup {k},
           worker' = [worker EXCEPT ![w] = Idle], UNCHANGED <<queue, pending>>
    PROVE  Apart' /\ Counted'
<1>1. /\ BusyOnce' /\ BusyIds' = BusyIds \ {k.id} /\ k.id \in BusyIds
      /\ IsFiniteSet(Busy') /\ Cardinality(Busy') = Cardinality(Busy) - 1
  BY Zenon, BusyDrops DEF Apart, Counted, Busy
<1>2. k.id \notin SleepIds /\ k.id \notin QueueIds
  BY Zenon, <1>1 DEF Apart
<1>3. /\ SleepOnce' /\ SleepIds' = SleepIds \cup {k.id}
      /\ IsFiniteSet(sleeping') /\ Cardinality(sleeping') = Cardinality(sleeping) + 1
  BY Zenon, <1>2, SleepAdds DEF Apart, Counted
<1>4. Apart'
  BY Zenon, <1>1, <1>2, <1>3, SameQueue DEF Apart
<1>5. Counted'
  BY <1>1, <1>3, Counts DEF Counted
<1> QED  BY Zenon, <1>4, <1>5

\* finish releases the asset with the worker's job.
LEMMA FinishApart ==
    ASSUME IInv, Apart, Counted, NEW w \in Workers, finish(w) PROVE Apart' /\ Counted'
<1> DEFINE a == worker[w].job.id
<1>1. /\ worker[w].pc # "idle" /\ worker' = [worker EXCEPT ![w] = Idle]
      /\ pending' = pending \ {a} /\ UNCHANGED <<queue, sleeping>>
  BY Zenon DEF finish
<1>2. /\ BusyOnce' /\ BusyIds' = BusyIds \ {a} /\ a \in BusyIds
      /\ IsFiniteSet(Busy') /\ Cardinality(Busy') = Cardinality(Busy) - 1
  BY Zenon, <1>1, BusyDrops DEF Apart, Counted, Busy
<1> HIDE DEF a
<1>3. a \notin SleepIds /\ a \notin QueueIds /\ a \in pending
  BY Zenon, <1>2 DEF Apart
<1>4. IsFiniteSet(pending') /\ Cardinality(pending') = Cardinality(pending) - 1
  BY Zenon, <1>1, <1>3, FS_RemoveElement DEF Counted
<1>5. Apart'
  BY Zenon, <1>1, <1>2, <1>3, SameQueue, SameSleep DEF Apart
<1>6. Counted'
  BY <1>1, <1>2, <1>4, Counts DEF Counted
<1> QED  BY Zenon, <1>5, <1>6

NoJobs == queue = <<>> /\ sleeping = {} /\ pending = {} /\ worker = [w \in Workers |-> Idle]

\* Nothing is pending when the process starts, nor when it starts again.
LEMMA EmptyApart == NoJobs => Apart /\ Counted
<1> SUFFICES ASSUME NoJobs PROVE Apart /\ Counted
  OBVIOUS
<1> USE DEF NoJobs
<1>1. Busy = {}
  BY Zenon DEF Busy, Idle
<1>2. DOMAIN queue = {} /\ Len(queue) = 0
  OBVIOUS
<1>3. QueueIds = {} /\ SleepIds = {} /\ BusyIds = {}
  BY Zenon, <1>1, <1>2 DEF QueueIds, SleepIds, BusyIds
<1>4. QueueOnce /\ SleepOnce /\ BusyOnce
  BY Zenon, <1>1, <1>2 DEF QueueOnce, SleepOnce, BusyOnce
<1>5. Cardinality({}) = 0 /\ IsFiniteSet({})
  BY Zenon, FS_EmptySet
<1> QED  BY <1>1, <1>2, <1>3, <1>4, <1>5 DEF Apart, Counted

\* The steps of a worker that neither take nor release a job.
LEMMA WorkApart ==
    ASSUME IInv, Apart, Counted, NEW w \in Workers,
           Dispatch(w) \/ Permit(w) \/ Conclude(w) \/ Retry(w) \/ store(w) \/ StoreFails(w)
    PROVE  Apart' /\ Counted'
<1> DEFINE j == worker[w].job
<1>1. UNCHANGED <<queue, pending>> /\ worker[w].pc # "idle"
  BY Zenon DEF Dispatch, Permit, Conclude, Retry, store, StoreFails
<1>2. CASE UNCHANGED sleeping /\ \E pc, o : pc # "idle"
              /\ worker' = [worker EXCEPT ![w] = [pc |-> pc, job |-> j, outcome |-> o]]
  <2>1. PICK pc, o : /\ pc # "idle"
                     /\ worker' = [worker EXCEPT ![w] = [pc |-> pc, job |-> j, outcome |-> o]]
    BY Zenon, <1>2
  <2> DEFINE x == [pc |-> pc, job |-> j, outcome |-> o]
  <2>2. x.pc # "idle" /\ x.job = j /\ worker' = [worker EXCEPT ![w] = x]
    BY Zenon, <2>1
  <2> HIDE DEF x
  <2> QED  BY Zenon, <1>1, <1>2, <2>2, OnwardApart
<1>3. CASE \E k : /\ k.id = j.id /\ sleeping' = sleeping \cup {k}
                  /\ worker' = [worker EXCEPT ![w] = Idle]
  BY Zenon, <1>1, <1>3, AsideApart
<1>4. CASE Dispatch(w)
  <2>1. CASE ~Fetchable(j.uri)
    <3>1. /\ UNCHANGED sleeping
          /\ worker' = [worker EXCEPT ![w] = [pc |-> "store", job |-> j, outcome |-> route(j.uri)]]
      BY Zenon, <1>4, <2>1 DEF Dispatch
    <3> QED  BY <1>2, <3>1, Zenon
  <2>2. CASE Fetchable(j.uri) /\ route(j.uri) \in paused
    BY Zenon, <1>3, <1>4, <2>2 DEF Dispatch
  <2>3. CASE Fetchable(j.uri) /\ route(j.uri) \notin paused
    BY Zenon, <1>2, <1>4, <2>3 DEF Dispatch, Goto
  <2> QED  BY Zenon, <2>1, <2>2, <2>3
<1>5. CASE Permit(w)
  BY Zenon, <1>2, <1>5 DEF Permit, Goto
<1>6. CASE Conclude(w)
  BY Zenon, <1>2, <1>6 DEF Conclude
<1>7. CASE Retry(w)
  <2>1. CASE j.attempt + 1 >= MaxAttempts
    BY Zenon, <1>2, <1>7, <2>1 DEF Retry, Goto
  <2>2. CASE ~(j.attempt + 1 >= MaxAttempts)
    <3> DEFINE k == [id |-> j.id, uri |-> j.uri, attempt |-> j.attempt + 1]
    <3>1. worker' = [worker EXCEPT ![w] = Idle] /\ sleeping' = sleeping \cup {k}
      BY Zenon, <1>7, <2>2 DEF Retry
    <3>2. k.id = j.id
      OBVIOUS
    <3> HIDE DEF k
    <3> QED  BY Zenon, <1>3, <3>1, <3>2
  <2> QED  BY Zenon, <2>1, <2>2
<1>8. CASE store(w) \/ StoreFails(w)
  BY Zenon, <1>2, <1>8 DEF store, StoreFails, Goto
<1> QED  BY Zenon, <1>4, <1>5, <1>6, <1>7, <1>8

\* Every step keeps the jobs apart and counted.
LEMMA NextApart == IInv /\ Apart /\ Counted /\ [Next]_vars => Apart' /\ Counted'
<1> SUFFICES ASSUME IInv, Apart, Counted, [Next]_vars PROVE Apart' /\ Counted'
  OBVIOUS
<1>1. CASE UNCHANGED <<queue, sleeping, pending, worker>>
  BY Zenon, <1>1, SameQueue, SameSleep, SameBusy DEF Apart, Counted
<1>2. CASE (\E a \in Assets, u \in Urls : Write(a, u)) \/ (\E h \in paused : PauseEnds(h))
           \/ RedriveStart \/ Scan \/ UNCHANGED vars
  BY Zenon, <1>1, <1>2 DEF Write, PauseEnds, RedriveStart, Scan, vars, memory
<1>3. CASE (\E n \in notifying : Notify(n)) \/ EnqueueRow
  BY Zenon, <1>3, EnqueueApart DEF Notify, EnqueueRow
<1>4. CASE \E j \in sleeping : Wake(j)
  BY Zenon, <1>4, WakeApart
<1>5. CASE \E w \in Workers : Own(w) \/ Conclude(w) \/ Retry(w) \/ store(w) \/ StoreFails(w)
  BY Zenon, <1>5, TakeApart, FinishApart, WorkApart DEF Own
<1>6. CASE Crash
  <2>1. NoJobs'
    BY Zenon, <1>6 DEF Crash, NoJobs
  <2>2. (Apart /\ Counted)'
    BY <2>1, EmptyApart, PTL
  <2> QED  BY Zenon, <2>2
<1> QED  BY Zenon, <1>2, <1>3, <1>4, <1>5, <1>6 DEF Next

\* An asset is pending exactly while one job for it is queued, in flight or waiting to
\* retry (Shared::pending): the queue of any size, any number of workers and a crash at
\* any point never leave an asset shut out or fetched twice at a time.
THEOREM OneJobEach == Spec => []OneJobPerPendingAsset
<1>1. Init => Apart /\ Counted
  BY Zenon, EmptyApart DEF Init, NoJobs
<1>2. ASSUME Apart, Counted PROVE OneJobPerPendingAsset
  <2>1. Workers \ {v \in Workers : worker[v].pc = "idle"} = Busy
    BY Zenon DEF Busy
  <2>2. {j.id : j \in Jobs} = QueueIds \cup SleepIds \cup BusyIds
    BY Zenon, <2>1 DEF Jobs, QueueIds, SleepIds, BusyIds
  <2>3. pending = {j.id : j \in Jobs}
    BY Zenon, <1>2, <2>2 DEF Apart
  <2> QED  BY Zenon, <1>2, <2>3 DEF OneJobPerPendingAsset, Counted, Busy
<1> QED  BY <1>1, <1>2, Invariance, NextApart, PTL DEF Spec
=============================================================================
