------------------------------ MODULE TaskQueue ------------------------------
(***************************************************************************)
(* The background tasks of nft_ingester (tasks/mod.rs, tasks/common/mod.rs) *)
(* and the operator's tool bgtask_creator: the tasks table, the listener    *)
(* that inserts rows, the runner that selects, locks, executes and saves    *)
(* them, the purge, and the download task itself, statement by statement.   *)
(* The hash of a task is its asset and URL: created_at is not serialized.   *)
(***************************************************************************)
EXTENDS Integers, Sequences, FiniteSets

CONSTANTS
    Assets,        \* ids, in the order of their bytes: 1..n
    Urls,
    BadUrls,       \* the ones Url::parse refuses
    Empty,         \* the empty string
    Trim,          \* DownloadMetadata::sanitize
    MaxAttempts,   \* max_attempts of the task definition
    Batch,         \* batch_size of the runner
    PageSize,      \* batch_size of bgtask_creator
    ProcessNow,    \* process_on_receive: the role of the listener's process
    Runs,          \* executions that may overlap
    MaxWrites,     \* bound on the writes of the chain
    Faults,        \* TRUE: purges and crashes happen
    Tools,         \* commands of bgtask_creator that the operator runs
    None, Processing, InvalidUri, GaveUp

ASSUME TaskAssumption ==
    /\ Assets \subseteq Nat /\ IsFiniteSet(Assets)
    /\ Empty \in BadUrls /\ BadUrls \subseteq Urls /\ Trim \in [Urls -> Urls]
    /\ MaxAttempts \in Nat /\ Batch \in Nat \ {0} /\ PageSize \in Nat \ {0}
    /\ ProcessNow \in BOOLEAN

AssetRow == [url : Urls, reindex : BOOLEAN, metadata : Urls \cup {Processing, InvalidUri}]

TaskRow == [status : {"Pending", "Running", "Success", "Failed"}, attempts : Nat,
            lock : {"null", "held", "expired"}]

ASSUME SentinelAssumption ==
    /\ None \notin Urls \cup {Processing} \cup AssetRow \cup TaskRow
    /\ GaveUp \notin Urls \cup {InvalidUri}

VARIABLES
    asset_data,    \* [Assets -> None or a row]
    tasks,         \* [Ids -> None or a row]
    channel,       \* the listener's unbounded channel
    inserting,     \* spawned new_task_handlers, before their INSERT
    run,           \* executions spawned by the runner
    create,        \* the tool's "create": its page, its spawned checks, and
                   \* the assets that have been missing since it started
    writes

vars == <<asset_data, tasks, channel, inserting, run, create, writes>>

Ids == Assets \X Urls

Document(u) == IF u \in BadUrls THEN InvalidUri ELSE u

Idle == [pc |-> "idle", id |-> None, attempts |-> 0]

Free == {r \in Runs : run[r].pc = "idle"}

NoCreate == [on |-> FALSE, page |-> 0, todo |-> {}, missing |-> {}]

Missing == {a \in Assets : asset_data[a] # None /\ asset_data[a].reindex}

-----------------------------------------------------------------------------
(* Writers and listener *)

\* The handlers of the chain's updates return nothing to download for an empty URI.
NoTask(u) == u = Empty

\* An upsert of asset_data that changes the row, and the notifier behind it: an
\* empty URI owes a download too, but nobody is told of it.
Notify(a, u) ==
    /\ writes < MaxWrites
    /\ asset_data' = [asset_data EXCEPT ![a] =
          [url |-> u, reindex |-> TRUE,
           metadata |-> IF @ = None THEN Processing ELSE @.metadata]]
    /\ channel' = IF NoTask(u) THEN channel ELSE Append(channel, <<a, u>>)
    /\ writes' = writes + 1
    /\ UNCHANGED <<tasks, inserting, run, create>>

Identical(id) == tasks[id] # None /\ tasks[id].status # "Pending"

Listen ==
    /\ channel # <<>>
    /\ channel' = Tail(channel)
    /\ inserting' = IF Identical(Head(channel)) THEN inserting
                    ELSE inserting \cup {[id |-> Head(channel), now |-> ProcessNow]}
    /\ UNCHANGED <<asset_data, tasks, run, create, writes>>

\* The INSERT has no conflict clause: a second row of the same hash is an error.
InsertTask(i) ==
    /\ tasks' = [tasks EXCEPT ![i.id] =
          IF @ # None THEN @
          ELSE [status |-> IF i.now THEN "Running" ELSE "Pending",
                attempts |-> 0, lock |-> IF i.now THEN "held" ELSE "null"]]
    /\ inserting' = inserting \ {i}
    /\ UNCHANGED <<asset_data, channel, run, create, writes>>

-----------------------------------------------------------------------------
(* Runner *)

\* Mutant: only rows that were never locked are found.
PendingUnlocked ==
    {id \in Ids : /\ tasks[id] # None /\ tasks[id].status # "Success"
                  /\ tasks[id].lock = "null" /\ tasks[id].attempts <= MaxAttempts}

Pending ==
    {id \in Ids : /\ tasks[id] # None /\ tasks[id].status # "Success"
                  /\ tasks[id].lock # "held" /\ tasks[id].attempts <= MaxAttempts}

\* Fewest attempts first; ties are broken by the age, which is not modelled.
get_pending_tasks ==
    {S \in SUBSET Pending :
        /\ Cardinality(S) = Batch \/ (S = Pending /\ Cardinality(S) <= Batch)
        /\ \A s \in S, t \in Pending \ S : tasks[s].attempts <= tasks[t].attempts}

\* One tick of the loop: every selected row gets an execution of its own.
Select ==
    /\ Pending # {}
    /\ \E S \in get_pending_tasks : \E f \in [S -> Free] :
          /\ \A s, t \in S : f[s] = f[t] => s = t
          /\ run' = [r \in Runs |->
                IF \E s \in S : f[s] = r
                THEN [Idle EXCEPT !.pc = "selected", !.id = CHOOSE s \in S : f[s] = r]
                ELSE run[r]]
    /\ UNCHANGED <<asset_data, tasks, channel, inserting, create, writes>>

Step(r, pc) == run' = [run EXCEPT ![r].pc = pc]

\* lock_task and save_task: an UPDATE by id that returns the row as it is now;
\* a row that is gone ends the execution.
Lock(r) ==
    /\ run[r].pc = "selected"
    /\ LET id == run[r].id IN
       IF tasks[id] = None
       THEN run' = [run EXCEPT ![r] = Idle] /\ UNCHANGED tasks
       ELSE /\ tasks' = [tasks EXCEPT ![id].status = "Running", ![id].lock = "held"]
            /\ run' = [run EXCEPT ![r] =
                  [pc |-> "locked", id |-> id, attempts |-> tasks[id].attempts]]
    /\ UNCHANGED <<asset_data, channel, inserting, create, writes>>

\* request_metadata: a 200 with JSON, or an error or the timeout.
Fetch(r) ==
    /\ run[r].pc = "locked"
    /\ \/ Step(r, "fetched")
       \/ run[r].id[2] \notin BadUrls /\ Step(r, "failed")
    /\ UNCHANGED <<asset_data, tasks, channel, inserting, create, writes>>

CheckUrl(r) ==
    /\ run[r].pc = "fetched"
    /\ LET d == asset_data[run[r].id[1]] IN
       Step(r, IF d = None THEN "unrecoverable"
               ELSE IF d.url # run[r].id[2] THEN "ok" ELSE "checked")
    /\ UNCHANGED <<asset_data, tasks, channel, inserting, create, writes>>

\* Mutant: the UPDATE filters by id only.
StoreById(r) ==
    /\ run[r].pc = "checked"
    /\ LET a == run[r].id[1] IN
       asset_data' = [asset_data EXCEPT ![a].metadata = Document(run[r].id[2]),
                                        ![a].reindex = FALSE]
    /\ Step(r, "ok")
    /\ UNCHANGED <<tasks, channel, inserting, create, writes>>

\* The UPDATE filters by the URL too; no row updated is an error of the task.
Store(r) ==
    /\ run[r].pc = "checked"
    /\ LET a == run[r].id[1]  u == run[r].id[2] IN
       IF asset_data[a].url = u
       THEN /\ asset_data' = [asset_data EXCEPT ![a] =
                  [url |-> u, reindex |-> FALSE, metadata |-> Document(u)]]
            /\ create' = [create EXCEPT !.missing = @ \ {a}]
            /\ Step(r, IF u \in BadUrls THEN "unrecoverable" ELSE "ok")
       ELSE Step(r, "failed") /\ UNCHANGED <<asset_data, create>>
    /\ UNCHANGED <<tasks, channel, inserting, writes>>

\* The end of execute_task, and save_task: unconditional, by id.
Save(r) ==
    /\ run[r].pc \in {"ok", "failed", "unrecoverable"}
    /\ tasks' = [tasks EXCEPT ![run[r].id] =
          IF @ = None THEN None
          ELSE [status |-> IF run[r].pc = "ok" THEN "Success" ELSE "Failed",
                attempts |-> 1 + IF run[r].pc = "unrecoverable" THEN MaxAttempts
                                 ELSE run[r].attempts,
                lock |-> "null"]]
    /\ run' = [run EXCEPT ![r] = Idle]
    /\ UNCHANGED <<asset_data, channel, inserting, create, writes>>

\* locked_until passes, whatever the execution is doing.
LockExpires(id) ==
    /\ tasks[id] # None /\ tasks[id].lock = "held"
    /\ tasks' = [tasks EXCEPT ![id].lock = "expired"]
    /\ UNCHANGED <<asset_data, channel, inserting, run, create, writes>>

\* purge_old_tasks: by age, whatever the status.
Purge(id) ==
    /\ Faults /\ tasks[id] # None
    /\ tasks' = [tasks EXCEPT ![id] = None]
    /\ UNCHANGED <<asset_data, channel, inserting, run, create, writes>>

\* A process dies: the listener's with its channel, or a runner's executions.
Crash ==
    /\ Faults
    /\ \/ channel' = <<>> /\ inserting' = {} /\ UNCHANGED run
       \/ run' = [r \in Runs |-> Idle] /\ UNCHANGED <<channel, inserting>>
    /\ UNCHANGED <<asset_data, tasks, create, writes>>

-----------------------------------------------------------------------------
(* bgtask_creator *)

Reindex ==
    /\ "reindex" \in Tools
    /\ asset_data' = [a \in Assets |->
          IF asset_data[a] # None /\ asset_data[a].metadata = Processing
          THEN [asset_data[a] EXCEPT !.reindex = TRUE] ELSE asset_data[a]]
    /\ UNCHANGED <<tasks, channel, inserting, run, create, writes>>

DeleteTasks ==
    /\ "delete" \in Tools
    /\ tasks' = [id \in Ids |-> None]
    /\ UNCHANGED <<asset_data, channel, inserting, run, create, writes>>

CreateStart ==
    /\ "create" \in Tools /\ ~create.on /\ create.page = 0
    /\ create' = [NoCreate EXCEPT !.on = TRUE, !.missing = Missing]
    /\ UNCHANGED <<asset_data, tasks, channel, inserting, run, writes>>

\* A page is LIMIT and OFFSET over the rows that are missing at this moment;
\* the first empty page ends the scan.
CreatePage ==
    /\ create.on
    /\ LET rank(a) == Cardinality({b \in Missing : b < a})
           first == create.page * PageSize
           page == {a \in Missing : rank(a) \in first .. first + PageSize - 1} IN
       create' = [create EXCEPT
          !.on = page # {},
          !.page = @ + 1,
          !.todo = @ \cup {<<a, Trim[asset_data[a].url]>> : a \in page}]
    /\ UNCHANGED <<asset_data, tasks, channel, inserting, run, writes>>

CreateTask(id) ==
    /\ id \in create.todo
    /\ create' = [create EXCEPT !.todo = @ \ {id}]
    /\ inserting' = IF Identical(id) THEN inserting
                    ELSE inserting \cup {[id |-> id, now |-> FALSE]}
    /\ UNCHANGED <<asset_data, tasks, channel, run, writes>>

-----------------------------------------------------------------------------
Init ==
    /\ asset_data = [a \in Assets |-> None]
    /\ tasks = [id \in Ids |-> None]
    /\ channel = <<>> /\ inserting = {}
    /\ run = [r \in Runs |-> Idle]
    /\ create = NoCreate /\ writes = 0

RunStep(r) == Lock(r) \/ Fetch(r) \/ CheckUrl(r) \/ Store(r) \/ Save(r)

Insert == \E i \in inserting : InsertTask(i)

Work ==
    \/ \E a \in Assets, u \in Urls : Notify(a, u)
    \/ Listen \/ Insert \/ Select
    \/ \E r \in Runs : RunStep(r)
    \/ \E id \in Ids : LockExpires(id) \/ CreateTask(id)
    \/ CreatePage

\* What the age of a row, a process that dies or the operator does to it.
Disturbance ==
    \/ \E id \in Ids : Purge(id)
    \/ Crash \/ Reindex \/ DeleteTasks \/ CreateStart

Next == Work \/ Disturbance

Spec == Init /\ [][Next]_vars

\* tokio polls every task that can move, the runner's interval keeps ticking,
\* a request ends by its timeout and the clock passes every locked_until.
Fairness ==
    /\ WF_vars(Listen) /\ WF_vars(Insert) /\ WF_vars(Select)
    /\ \A r \in Runs : WF_vars(RunStep(r))
    /\ \A id \in Ids : WF_vars(LockExpires(id))

FairSpec == Spec /\ Fairness

-----------------------------------------------------------------------------
Execution ==
    [pc : {"idle", "selected", "locked", "fetched", "checked", "ok", "failed", "unrecoverable"},
     id : Ids \cup {None}, attempts : Nat]

TypeOK ==
    /\ asset_data \in [Assets -> AssetRow \cup {None}]
    /\ tasks \in [Ids -> TaskRow \cup {None}]
    /\ channel \in Seq(Ids)
    /\ inserting \subseteq [id : Ids, now : BOOLEAN]
    /\ run \in [Runs -> Execution]
    /\ \A r \in Runs : /\ run[r].pc # "idle" => run[r].id \in Ids
                       /\ run[r].pc = "checked" => asset_data[run[r].id[1]] # None

Column(c, absent) == [a \in Assets |-> IF asset_data[a] = None THEN absent
                                       ELSE asset_data[a][c]]

Outcomes(u) == {Document(u)}

Doc == INSTANCE OffchainDoc
          WITH url <- Column("url", None), doc <- Column("metadata", None),
               owed <- Column("reindex", FALSE), NoRow <- None, Outcome <- Outcomes

\* However executions overlap, locks expire, rows are purged and processes die,
\* a row of asset_data that does not owe a download holds the document of the
\* URL it points to (the UPDATE of DownloadMetadataTask::task).
KeepsDocumentPromise == Doc!Spec

=============================================================================
