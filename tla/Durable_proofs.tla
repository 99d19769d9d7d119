--------------------------- MODULE Durable_proofs ---------------------------
(***************************************************************************)
(* Proofs about what must survive a restart.  The background tasks keep the *)
(* promise of the asset_data columns, for every set of assets, URLs and     *)
(* executions (TaskQueue); the cursor file is complete after a crash, for   *)
(* every set of inodes and every watermark, as long as one task saves at a  *)
(* time (CursorFile).                                                       *)
(***************************************************************************)
EXTENDS TaskQueue, CursorFile, TLAPS

-----------------------------------------------------------------------------
(* The type invariant is inductive *)

\* The tables are empty at first.
LEMMA InitTypes == Init => TypeOK
BY DEF Init, TypeOK, Execution, Idle

\* An upsert of asset_data by the chain.
LEMMA NotifyTypes ==
    ASSUME TypeOK, NEW a \in Assets, NEW u \in Urls, Notify(a, u) PROVE TypeOK'
<1>1. asset_data' \in [Assets -> AssetRow \cup {None}]
  BY DEF TypeOK, Notify, AssetRow
<1>2. channel' \in Seq(Ids)
  BY DEF TypeOK, Notify, Ids
<1>3. asset_data'[a] # None /\ \A b \in Assets : asset_data[b] # None => asset_data'[b] # None
  <2>1. asset_data'[a] \in AssetRow
    BY DEF TypeOK, Notify, AssetRow
  <2> QED  BY <2>1, SentinelAssumption, Zenon DEF TypeOK, Notify
<1>4. \A r \in Runs : run[r].pc = "checked" => asset_data'[run[r].id[1]] # None
  BY <1>3 DEF TypeOK, Ids
<1> QED  BY <1>1, <1>2, <1>4 DEF TypeOK, Notify

\* The listener and its inserts touch the channel and the tasks table.
LEMMA ListenTypes == ASSUME TypeOK, Listen PROVE TypeOK'
<1>1. Head(channel) \in Ids /\ channel' \in Seq(Ids)
  BY DEF TypeOK, Listen
<1>2. inserting' \subseteq [id : Ids, now : BOOLEAN]
  BY <1>1, TaskAssumption DEF TypeOK, Listen
<1> QED  BY <1>1, <1>2 DEF TypeOK, Listen

\* new_task_handler inserts a row of a task at most once.
LEMMA InsertTypes == ASSUME TypeOK, NEW i \in inserting, InsertTask(i) PROVE TypeOK'
<1>1. tasks' \in [Ids -> TaskRow \cup {None}]
  BY DEF TypeOK, InsertTask, TaskRow
<1> QED  BY <1>1 DEF TypeOK, InsertTask

\* Every selected row gets an execution that knows its id.
LEMMA SelectTypes == ASSUME TypeOK, Select PROVE TypeOK'
<1>0. PICK S \in get_pending_tasks : \E f \in [S -> Free] :
          run' = [r \in Runs |->
             IF \E s \in S : f[s] = r
             THEN [Idle EXCEPT !.pc = "selected", !.id = CHOOSE s \in S : f[s] = r]
             ELSE run[r]]
  BY Zenon DEF Select
<1>1. PICK f \in [S -> Free] :
          run' = [r \in Runs |->
             IF \E s \in S : f[s] = r
             THEN [Idle EXCEPT !.pc = "selected", !.id = CHOOSE s \in S : f[s] = r]
             ELSE run[r]]
  BY <1>0, Zenon
<1>2. S \subseteq Ids
  BY DEF get_pending_tasks, Pending
<1>3. ASSUME NEW r \in Runs
      PROVE  /\ run'[r] \in Execution
             /\ run'[r].pc # "idle" => run'[r].id \in Ids
             /\ run'[r].pc = "checked" => run[r].pc = "checked" /\ run'[r].id = run[r].id
  <2>1. CASE \E s \in S : f[s] = r
    <3>1. (CHOOSE s \in S : f[s] = r) \in Ids
      BY <1>2, <2>1
    <3>2. run'[r] = [pc |-> "selected", id |-> CHOOSE s \in S : f[s] = r, attempts |-> 0]
      BY <1>1, <2>1, Zenon DEF Idle
    <3> QED  BY <3>1, <3>2 DEF Execution
  <2>2. CASE ~\E s \in S : f[s] = r
    BY <1>1, <2>2, Zenon DEF TypeOK
  <2> QED  BY <2>1, <2>2
<1>4. run' \in [Runs -> Execution]
  BY <1>1, <1>3, Zenon
<1> QED  BY <1>3, <1>4, Zenon DEF TypeOK, Select

\* The steps of an execution.
LEMMA LockTypes == ASSUME TypeOK, NEW r \in Runs, Lock(r) PROVE TypeOK'
<1> USE DEF TypeOK, Lock
<1>0. run[r].id \in Ids /\ run[r] \in Execution
  OBVIOUS
<1>1. CASE tasks[run[r].id] = None
  <2>1. run' = [run EXCEPT ![r] = Idle] /\ Idle \in Execution
    BY <1>1 DEF Execution, Idle
  <2> QED  BY <1>1, <2>1 DEF Idle
<1>2. CASE tasks[run[r].id] # None
  <2>1. tasks[run[r].id] \in TaskRow
    BY <1>0, <1>2
  <2>2. tasks' = [tasks EXCEPT ![run[r].id] =
                     [tasks[run[r].id] EXCEPT !.status = "Running", !.lock = "held"]]
    BY <1>0, <1>2, <2>1, Zenon DEF TaskRow
  <2>3. tasks' \in [Ids -> TaskRow \cup {None}]
    BY <2>1, <2>2 DEF TaskRow
  <2>4. run'[r].pc = "locked" /\ run' \in [Runs -> Execution]
    <3>1. tasks[run[r].id].attempts \in Nat
      BY <2>1 DEF TaskRow
    <3> DEFINE e == [pc |-> "locked", id |-> run[r].id,
                     attempts |-> tasks[run[r].id].attempts]
    <3>2. e \in Execution /\ e.pc = "locked"
      BY <1>0, <3>1 DEF Execution
    <3>3. run \in [Runs -> Execution] /\ run' = [run EXCEPT ![r] = e]
      BY <1>2
    <3> HIDE DEF Lock, e, TypeOK
    <3> QED  BY <3>2, <3>3
  <2>5. \A q \in Runs : run'[q].id = run[q].id /\ (q # r => run'[q] = run[q])
    BY <1>2 DEF Execution
  <2> QED  BY <1>0, <2>3, <2>4, <2>5, ZenonT(40)
<1> QED  BY <1>1, <1>2

\* What moving one execution to another place does to the executions.
LEMMA Moved ==
    ASSUME TypeOK, NEW r \in Runs,
           NEW next \in {"fetched", "checked", "ok", "failed", "unrecoverable"},
           run' = [run EXCEPT ![r].pc = next]
    PROVE  /\ run' \in [Runs -> Execution] /\ run'[r].pc = next
           /\ \A q \in Runs : run'[q].id = run[q].id
           /\ \A q \in Runs \ {r} : run'[q] = run[q]
<1>1. run \in [Runs -> Execution] /\ run[r] \in Execution
  BY DEF TypeOK
<1>2. /\ [run[r] EXCEPT !.pc = next] \in Execution
      /\ [run[r] EXCEPT !.pc = next].pc = next
      /\ [run[r] EXCEPT !.pc = next].id = run[r].id
  BY <1>1 DEF Execution
<1>3. run' = [run EXCEPT ![r] = [run[r] EXCEPT !.pc = next]]
  BY <1>1
<1> DEFINE e == [run[r] EXCEPT !.pc = next]
<1> HIDE DEF e
<1>4. e \in Execution /\ e.pc = next /\ e.id = run[r].id /\ run' = [run EXCEPT ![r] = e]
  BY <1>2, <1>3 DEF e
<1> QED  BY <1>1, <1>4

\* A step that only moves one execution to another place, not to "checked".
LEMMA StepTypes ==
    ASSUME TypeOK, NEW r \in Runs, NEW next, Step(r, next), run[r].pc # "idle",
           next \in {"fetched", "ok", "failed", "unrecoverable"},
           UNCHANGED <<asset_data, tasks, channel, inserting>>
    PROVE  TypeOK'
<1>1. run' \in [Runs -> Execution] /\ \A q \in Runs : run'[q].id = run[q].id
  BY Moved, Zenon DEF Step
<1>2. run'[r].pc = next /\ \A q \in Runs \ {r} : run'[q] = run[q]
  BY Moved, Zenon DEF Step
<1> QED  BY <1>1, <1>2 DEF TypeOK

\* The comparison of the URL with the row leads to one of the outcomes of task().
LEMMA CheckTypes == ASSUME TypeOK, NEW r \in Runs, CheckUrl(r) PROVE TypeOK'
<1>1. CASE asset_data[run[r].id[1]] # None /\ asset_data[run[r].id[1]].url = run[r].id[2]
  <2>1. run' = [run EXCEPT ![r].pc = "checked"]
    BY <1>1, Zenon DEF CheckUrl, Step
  <2>2. run' \in [Runs -> Execution] /\ \A q \in Runs : run'[q].id = run[q].id
    BY <2>1, Moved, Zenon
  <2>3. \A q \in Runs \ {r} : run'[q] = run[q]
    BY <2>1, Moved
  <2>4. run[r].id \in Ids /\ asset_data' = asset_data
    BY DEF TypeOK, CheckUrl
  <2> QED  BY <1>1, <2>2, <2>3, <2>4 DEF TypeOK, CheckUrl
<1>2. CASE ~(asset_data[run[r].id[1]] # None /\ asset_data[run[r].id[1]].url = run[r].id[2])
  <2>1. Step(r, "unrecoverable") \/ Step(r, "ok")
    BY <1>2 DEF CheckUrl
  <2> QED  BY <2>1, StepTypes DEF CheckUrl
<1> QED  BY <1>1, <1>2

\* The guarded UPDATE, as one row replaced by another.
LEMMA StoreEffect ==
    ASSUME TypeOK, NEW r \in Runs, Store(r),
           asset_data[run[r].id[1]].url = run[r].id[2]
    PROVE  /\ run[r].id[1] \in Assets /\ run[r].id[2] \in Urls
           /\ asset_data[run[r].id[1]] \in AssetRow
           /\ asset_data' = [asset_data EXCEPT ![run[r].id[1]] =
                 [url |-> run[r].id[2], reindex |-> FALSE,
                  metadata |-> Document(run[r].id[2])]]
<1>1. run[r].id \in Ids /\ asset_data[run[r].id[1]] # None
  BY DEF TypeOK, Store
<1>2. run[r].id[1] \in Assets /\ run[r].id[2] \in Urls
  BY <1>1 DEF Ids
<1>3. asset_data[run[r].id[1]] \in AssetRow
  BY <1>1, <1>2 DEF TypeOK
<1> QED  BY <1>2, <1>3 DEF Store

\* The UPDATE of asset_data writes a document or the invalid-URI marker.
LEMMA StoreTypes == ASSUME TypeOK, NEW r \in Runs, Store(r) PROVE TypeOK'
<1>1. CASE asset_data[run[r].id[1]].url = run[r].id[2]
  <2> DEFINE row == [url |-> run[r].id[2], reindex |-> FALSE,
                     metadata |-> Document(run[r].id[2])]
  <2>0. run[r].id[2] \in Urls
    BY <1>1, StoreEffect, Zenon
  <2>1. row \in AssetRow /\ row # None
    <3>1. Document(run[r].id[2]) \in Urls \cup {InvalidUri}
      BY <2>0 DEF Document
    <3>2. row \in AssetRow
      BY <2>0, <3>1 DEF AssetRow
    <3> QED  BY <3>2, SentinelAssumption, Zenon
  <2>2. asset_data' = [asset_data EXCEPT ![run[r].id[1]] = row]
    BY <1>1, StoreEffect
  <2> HIDE DEF row
  <2>3. /\ asset_data' \in [Assets -> AssetRow \cup {None}]
        /\ \A a \in Assets : asset_data[a] # None => asset_data'[a] # None
    BY <2>1, <2>2, Zenon DEF TypeOK
  <2>4. PICK next \in {"ok", "unrecoverable"} : run' = [run EXCEPT ![r].pc = next]
    <3>1. run' = [run EXCEPT ![r].pc = IF run[r].id[2] \in BadUrls THEN "unrecoverable"
                                       ELSE "ok"]
      BY <1>1, Zenon DEF Store, Step
    <3> QED  BY <3>1, Zenon
  <2>5. run' \in [Runs -> Execution] /\ \A q \in Runs : run'[q].id = run[q].id
    BY <2>4, Moved, Zenon
  <2>6. run'[r].pc = next /\ \A q \in Runs \ {r} : run'[q] = run[q]
    BY <2>4, Moved, Zenon
  <2>7. \A q \in Runs : run'[q].pc # "idle" => run'[q].id \in Ids
    BY <2>4, <2>5, <2>6 DEF TypeOK, Store
  <2>8. \A q \in Runs : run'[q].pc = "checked" => asset_data'[run'[q].id[1]] # None
    <3> SUFFICES ASSUME NEW q \in Runs, run'[q].pc = "checked"
                 PROVE  asset_data'[run'[q].id[1]] # None
      OBVIOUS
    <3>1. q # r /\ run'[q] = run[q] /\ run[q].pc = "checked"
      BY <2>4, <2>6
    <3>2. run[q].id[1] \in Assets /\ asset_data[run[q].id[1]] # None
      BY <3>1 DEF TypeOK, Ids
    <3> QED  BY <2>3, <3>1, <3>2
  <2> QED  BY <2>3, <2>5, <2>7, <2>8 DEF TypeOK, Store
<1>2. CASE asset_data[run[r].id[1]].url # run[r].id[2]
  BY <1>2, StepTypes DEF Store
<1> QED  BY <1>1, <1>2

\* execute_task saves a status and a number of attempts.
LEMMA SaveTypes == ASSUME TypeOK, NEW r \in Runs, Save(r) PROVE TypeOK'
<1>1. run[r].id \in Ids /\ run[r].attempts \in Nat
  BY DEF TypeOK, Save, Execution
<1>2. 1 + (IF run[r].pc = "unrecoverable" THEN MaxAttempts ELSE run[r].attempts) \in Nat
  BY <1>1, TaskAssumption
<1>3. tasks' \in [Ids -> TaskRow \cup {None}]
  BY <1>1, <1>2 DEF TypeOK, Save, TaskRow
<1>4. run' = [run EXCEPT ![r] = Idle] /\ Idle \in Execution
  BY DEF Save, Execution, Idle
<1> QED  BY <1>3, <1>4 DEF TypeOK, Save, Idle

\* Locks, purges, crashes and the tool.
LEMMA OtherTypes ==
    ASSUME TypeOK,
           \/ \E id \in Ids : LockExpires(id) \/ Purge(id) \/ CreateTask(id)
           \/ Crash \/ DeleteTasks \/ CreateStart \/ CreatePage
    PROVE  TypeOK'
<1>1. ASSUME NEW id \in Ids, LockExpires(id)  PROVE TypeOK'
  <2>1. tasks' \in [Ids -> TaskRow \cup {None}]
    BY <1>1 DEF TypeOK, LockExpires, TaskRow
  <2> QED  BY <1>1, <2>1 DEF TypeOK, LockExpires
<1>2. ASSUME NEW id \in Ids, Purge(id)  PROVE TypeOK'
  <2>1. tasks' \in [Ids -> TaskRow \cup {None}]
    BY <1>2 DEF TypeOK, Purge
  <2> QED  BY <1>2, <2>1 DEF TypeOK, Purge
<1>3. ASSUME NEW id \in Ids, CreateTask(id)  PROVE TypeOK'
  <2> DEFINE i == [id |-> id, now |-> FALSE]
  <2>1. i \in [id : Ids, now : BOOLEAN]
    OBVIOUS
  <2>2. inserting' \in {inserting, inserting \cup {i}}
    BY <1>3 DEF CreateTask
  <2> HIDE DEF i
  <2>3. inserting' \subseteq [id : Ids, now : BOOLEAN]
    BY <2>1, <2>2 DEF TypeOK
  <2>4. UNCHANGED <<asset_data, tasks, channel, run>>
    BY <1>3 DEF CreateTask
  <2> QED  BY <2>3, <2>4 DEF TypeOK
<1>4. CASE Crash
  <2>1. CASE channel' = <<>> /\ inserting' = {} /\ UNCHANGED run
    BY <1>4, <2>1 DEF TypeOK, Crash
  <2>2. CASE run' = [r \in Runs |-> Idle] /\ UNCHANGED <<channel, inserting>>
    <3>1. Idle \in Execution /\ Idle.pc = "idle"
      BY DEF Idle, Execution
    <3>2. run' \in [Runs -> Execution] /\ \A r \in Runs : run'[r].pc = "idle"
      BY <2>2, <3>1
    <3> QED  BY <1>4, <2>2, <3>2 DEF TypeOK, Crash
  <2> QED  BY <1>4, <2>1, <2>2 DEF Crash
<1>5. CASE DeleteTasks
  BY <1>5 DEF TypeOK, DeleteTasks
<1>6. CASE CreateStart \/ CreatePage
  BY <1>6 DEF TypeOK, CreateStart, CreatePage
<1> QED  BY <1>1, <1>2, <1>3, <1>4, <1>5, <1>6

\* The UPDATE of "reindex", row by row.
LEMMA ReindexEffect ==
    ASSUME TypeOK, Reindex, NEW a \in Assets
    PROVE  asset_data'[a] =
              IF asset_data[a] # None /\ asset_data[a].metadata = Processing
              THEN [url |-> asset_data[a].url, reindex |-> TRUE, metadata |-> Processing]
              ELSE asset_data[a]
<1>1. CASE asset_data[a] # None /\ asset_data[a].metadata = Processing
  <2>1. asset_data[a] \in AssetRow
    BY <1>1 DEF TypeOK
  <2>2. asset_data'[a] = [asset_data[a] EXCEPT !.reindex = TRUE]
    BY <1>1 DEF Reindex
  <2> QED  BY <1>1, <2>1, <2>2, Zenon DEF AssetRow
<1>2. CASE ~(asset_data[a] # None /\ asset_data[a].metadata = Processing)
  BY <1>2 DEF Reindex
<1> QED  BY <1>1, <1>2

\* The operator's reindex changes one flag of the rows.
LEMMA ReindexTypes == ASSUME TypeOK, Reindex PROVE TypeOK'
<1>1. ASSUME NEW a \in Assets
      PROVE  asset_data'[a] \in AssetRow \cup {None} /\ (asset_data[a] # None => asset_data'[a] # None)
  <2>1. CASE asset_data[a] # None /\ asset_data[a].metadata = Processing
    <3>1. asset_data[a] \in AssetRow
      BY <2>1 DEF TypeOK
    <3>2. asset_data'[a] = [url |-> asset_data[a].url, reindex |-> TRUE, metadata |-> Processing]
      BY <2>1, ReindexEffect
    <3>3. asset_data'[a] \in AssetRow
      BY <3>1, <3>2 DEF AssetRow
    <3> QED  BY <3>3, SentinelAssumption
  <2>2. CASE ~(asset_data[a] # None /\ asset_data[a].metadata = Processing)
    BY <2>2, ReindexEffect, Zenon DEF TypeOK
  <2> QED  BY <2>1, <2>2
<1>2. asset_data' \in [Assets -> AssetRow \cup {None}]
  <2>1. asset_data' = [a \in Assets |-> asset_data'[a]]
    BY DEF Reindex
  <2> QED  BY <1>1, <2>1
<1>3. \A r \in Runs : run[r].pc = "checked" => asset_data'[run[r].id[1]] # None
  BY <1>1 DEF TypeOK, Ids
<1> QED  BY <1>2, <1>3 DEF TypeOK, Reindex

\* Every step keeps the types.
LEMMA NextTypes == TypeOK /\ [Next]_vars => TypeOK'
<1> SUFFICES ASSUME TypeOK, [Next]_vars PROVE TypeOK'
  OBVIOUS
<1>1. CASE \E a \in Assets, u \in Urls : Notify(a, u)
  BY <1>1, NotifyTypes
<1>2. CASE Listen \/ Insert \/ Select
  BY <1>2, ListenTypes, InsertTypes, SelectTypes DEF Insert
<1>3. ASSUME NEW r \in Runs, RunStep(r) PROVE TypeOK'
  <2>1. CASE Fetch(r)
    <3>1. Step(r, "fetched") \/ Step(r, "failed")
      BY <2>1 DEF Fetch
    <3> QED  BY <2>1, <3>1, StepTypes DEF Fetch
  <2> QED  BY <1>3, <2>1, LockTypes, CheckTypes, StoreTypes, SaveTypes DEF RunStep
<1>4. CASE \/ \E id \in Ids : LockExpires(id) \/ Purge(id) \/ CreateTask(id)
           \/ Crash \/ DeleteTasks \/ CreateStart \/ CreatePage
  BY <1>4, OtherTypes
<1>5. CASE Reindex
  BY <1>5, ReindexTypes
<1>6. CASE UNCHANGED vars
  BY <1>6 DEF TypeOK, vars
<1> QED  BY <1>1, <1>2, <1>3, <1>4, <1>5, <1>6 DEF Next, Work, Disturbance

\* The tables keep their types, and an execution that has checked the URL of a
\* row still finds the row: nothing deletes from asset_data.
THEOREM Types == Spec => []TypeOK
BY InitTypes, NextTypes, PTL DEF Spec

-----------------------------------------------------------------------------
(* The tasks implement OffchainDoc *)

ColumnUrl == Column("url", None)
ColumnDoc == Column("metadata", None)
ColumnOwed == Column("reindex", FALSE)

\* A row replaced by another is one entry of each column replaced.
LEMMA ColumnsOfUpdate ==
    ASSUME TypeOK, NEW a \in Assets, NEW row \in AssetRow,
           asset_data' = [asset_data EXCEPT ![a] = row]
    PROVE  /\ ColumnUrl' = [ColumnUrl EXCEPT ![a] = row.url]
           /\ ColumnDoc' = [ColumnDoc EXCEPT ![a] = row.metadata]
           /\ ColumnOwed' = [ColumnOwed EXCEPT ![a] = row.reindex]
<1>1. row # None /\ asset_data'[a] = row /\ \A b \in Assets \ {a} : asset_data'[b] = asset_data[b]
  BY SentinelAssumption DEF TypeOK
<1>2. /\ ColumnUrl = [b \in Assets |-> IF asset_data[b] = None THEN None ELSE asset_data[b].url]
      /\ ColumnUrl' = [b \in Assets |-> IF asset_data'[b] = None THEN None ELSE asset_data'[b].url]
  BY DEF ColumnUrl, Column
<1>3. /\ ColumnDoc = [b \in Assets |-> IF asset_data[b] = None THEN None ELSE asset_data[b].metadata]
      /\ ColumnDoc' = [b \in Assets |-> IF asset_data'[b] = None THEN None ELSE asset_data'[b].metadata]
  BY DEF ColumnDoc, Column
<1>4. /\ ColumnOwed = [b \in Assets |-> IF asset_data[b] = None THEN FALSE ELSE asset_data[b].reindex]
      /\ ColumnOwed' = [b \in Assets |-> IF asset_data'[b] = None THEN FALSE ELSE asset_data'[b].reindex]
  BY DEF ColumnOwed, Column
<1>5. ColumnUrl' = [ColumnUrl EXCEPT ![a] = row.url]
  BY <1>1, <1>2
<1>6. ColumnDoc' = [ColumnDoc EXCEPT ![a] = row.metadata]
  BY <1>1, <1>3
<1>7. ColumnOwed' = [ColumnOwed EXCEPT ![a] = row.reindex]
  <2>1. \A b \in Assets : ColumnOwed'[b] = IF b = a THEN row.reindex ELSE ColumnOwed[b]
    <3> TAKE b \in Assets
    <3>1. /\ ColumnOwed[b] = IF asset_data[b] = None THEN FALSE ELSE asset_data[b].reindex
          /\ ColumnOwed'[b] = IF asset_data'[b] = None THEN FALSE ELSE asset_data'[b].reindex
      BY <1>4, Zenon
    <3>2. CASE b = a
      BY <1>1, <3>1, <3>2, Zenon
    <3>3. CASE b # a
      <4>1. asset_data'[b] = asset_data[b]
        BY <1>1, <3>3
      <4> QED  BY <3>1, <3>3, <4>1, Zenon
    <3> QED  BY <3>2, <3>3
  <2> QED  BY <1>4, <2>1, ZenonT(40)
<1> QED  BY <1>5, <1>6, <1>7

\* The columns of one row.
LEMMA ColumnsOfRow ==
    ASSUME NEW a \in Assets
    PROVE  /\ ColumnUrl[a] = IF asset_data[a] = None THEN None ELSE asset_data[a].url
           /\ ColumnDoc[a] = IF asset_data[a] = None THEN None ELSE asset_data[a].metadata
           /\ ColumnOwed[a] = IF asset_data[a] = None THEN FALSE ELSE asset_data[a].reindex
BY DEF ColumnUrl, ColumnDoc, ColumnOwed, Column

\* The chain's upsert is the promise's Point.
LEMMA NotifyPoints ==
    ASSUME TypeOK, NEW a \in Assets, NEW u \in Urls, Notify(a, u) PROVE Doc!Point(a, u)
<1> DEFINE row == [url |-> u, reindex |-> TRUE,
                   metadata |-> IF asset_data[a] = None THEN Processing
                                ELSE asset_data[a].metadata]
<1>1. asset_data[a] # None => asset_data[a] \in AssetRow
  BY DEF TypeOK
<1>2. row \in AssetRow
  BY <1>1 DEF AssetRow
<1>3. asset_data' = [asset_data EXCEPT ![a] = row]
  BY DEF Notify, TypeOK
<1>4. row.url = u /\ row.reindex = TRUE
  OBVIOUS
<1>5. (ColumnUrl[a] = None) <=> (asset_data[a] = None)
  BY <1>1, ColumnsOfRow, SentinelAssumption, Zenon DEF AssetRow
<1>6. row.metadata = IF ColumnUrl[a] = None THEN Processing ELSE ColumnDoc[a]
  BY <1>5, ColumnsOfRow, Zenon
<1> HIDE DEF row
<1>7. /\ ColumnUrl' = [ColumnUrl EXCEPT ![a] = u]
      /\ ColumnDoc' = [ColumnDoc EXCEPT ![a] = row.metadata]
      /\ ColumnOwed' = [ColumnOwed EXCEPT ![a] = TRUE]
  BY <1>2, <1>3, <1>4, ColumnsOfUpdate, Zenon
<1>8. ColumnDoc' = [ColumnDoc EXCEPT ![a] = IF ColumnUrl[a] = None THEN Processing ELSE @]
  BY <1>6, <1>7 DEF ColumnDoc, Column
<1> QED  BY <1>7, <1>8, Zenon DEF Doc!Point, ColumnUrl, ColumnDoc, ColumnOwed

\* A guarded UPDATE that finds its row is the promise's Settle.
LEMMA StoreSettles ==
    ASSUME TypeOK, NEW r \in Runs, Store(r),
           asset_data[run[r].id[1]].url = run[r].id[2]
    PROVE  \E a \in Assets : \E o \in UNION {Outcomes(u) : u \in Urls} : Doc!Settle(a, o)
<1> DEFINE a == run[r].id[1]
           u == run[r].id[2]
           o == Document(u)
           row == [url |-> u, reindex |-> FALSE, metadata |-> o]
<1>1. a \in Assets /\ u \in Urls /\ asset_data[a] \in AssetRow
  BY StoreEffect, Zenon
<1>2. asset_data' = [asset_data EXCEPT ![a] = row]
  BY StoreEffect, Zenon
<1>3. o \in Urls \cup {InvalidUri} /\ o # GaveUp
  BY <1>1, SentinelAssumption DEF Document
<1>4. row \in AssetRow /\ row.url = u /\ row.reindex = FALSE /\ row.metadata = o
  BY <1>1, <1>3 DEF AssetRow
<1>5. ColumnUrl[a] = u /\ u # None
  BY <1>1, ColumnsOfRow, SentinelAssumption, Zenon
<1>6. o \in Outcomes(u) /\ o \in UNION {Outcomes(v) : v \in Urls}
  BY <1>1 DEF Outcomes
<1> HIDE DEF a, u, o, row
<1>7. /\ ColumnUrl' = [ColumnUrl EXCEPT ![a] = u]
      /\ ColumnDoc' = [ColumnDoc EXCEPT ![a] = o]
      /\ ColumnOwed' = [ColumnOwed EXCEPT ![a] = FALSE]
  <2>1. /\ ColumnUrl' = [ColumnUrl EXCEPT ![a] = row.url]
        /\ ColumnDoc' = [ColumnDoc EXCEPT ![a] = row.metadata]
        /\ ColumnOwed' = [ColumnOwed EXCEPT ![a] = row.reindex]
    BY <1>1, <1>2, <1>4, ColumnsOfUpdate, Zenon
  <2> QED  BY <1>4, <2>1, Zenon
<1>8. ColumnUrl' = ColumnUrl
  BY <1>5, <1>7 DEF ColumnUrl, Column
<1>9. ColumnDoc' = [ColumnDoc EXCEPT ![a] = IF o = GaveUp THEN @ ELSE o]
  BY <1>3, <1>7
<1>10. Doc!Settle(a, o)
  BY <1>5, <1>6, <1>7, <1>8, <1>9, Zenon DEF Doc!Settle, ColumnUrl, ColumnDoc, ColumnOwed
<1> QED  BY <1>1, <1>6, <1>10

\* The tool's UPDATE of "reindex" is the promise's Reopen.
LEMMA ReindexReopens == ASSUME TypeOK, Reindex PROVE Doc!Reopen
<1>1. ASSUME NEW a \in Assets
      PROVE  /\ ColumnUrl'[a] = ColumnUrl[a] /\ ColumnDoc'[a] = ColumnDoc[a]
             /\ ColumnOwed'[a] = (ColumnOwed[a] \/ ColumnDoc[a] = Processing)
  <2>0. /\ ColumnUrl'[a] = IF asset_data'[a] = None THEN None ELSE asset_data'[a].url
        /\ ColumnDoc'[a] = IF asset_data'[a] = None THEN None ELSE asset_data'[a].metadata
        /\ ColumnOwed'[a] = IF asset_data'[a] = None THEN FALSE ELSE asset_data'[a].reindex
    BY DEF ColumnUrl, ColumnDoc, ColumnOwed, Column
  <2>1. CASE asset_data[a] = None
    BY <2>0, <2>1, ReindexEffect, ColumnsOfRow, SentinelAssumption, Zenon
  <2>2. CASE asset_data[a] # None /\ asset_data[a].metadata = Processing
    <3>1. asset_data'[a] = [url |-> asset_data[a].url, reindex |-> TRUE, metadata |-> Processing]
      BY <2>2, ReindexEffect
    <3>2. asset_data'[a] # None
      <4>1. asset_data[a] \in AssetRow
        BY <2>2 DEF TypeOK
      <4>2. asset_data'[a] \in AssetRow
        BY <3>1, <4>1 DEF AssetRow
      <4> QED  BY <4>2, SentinelAssumption
    <3>3. ColumnDoc[a] = Processing /\ ColumnUrl[a] = asset_data[a].url
      BY <2>2, ColumnsOfRow, Zenon
    <3>4. /\ ColumnDoc'[a] = Processing /\ ColumnUrl'[a] = asset_data[a].url
          /\ ColumnOwed'[a] = TRUE
      BY <2>0, <3>1, <3>2
    <3> QED  BY <3>3, <3>4, Zenon
  <2>3. CASE asset_data[a] # None /\ asset_data[a].metadata # Processing
    <3>1. asset_data'[a] = asset_data[a] /\ asset_data[a].reindex \in BOOLEAN
      BY <2>3, ReindexEffect, Zenon DEF TypeOK, AssetRow
    <3> QED  BY <2>0, <2>3, <3>1, ColumnsOfRow, Zenon
  <2> QED  BY <2>1, <2>2, <2>3
<1>2. ColumnUrl' = ColumnUrl /\ ColumnDoc' = ColumnDoc
  BY <1>1 DEF ColumnUrl, ColumnDoc, Column
<1>3. ColumnOwed' = [a \in Assets |-> ColumnOwed[a] \/ ColumnDoc[a] = Processing]
  BY <1>1, Zenon DEF ColumnOwed, Column
<1> QED  BY <1>2, <1>3, Zenon DEF Doc!Reopen, ColumnUrl, ColumnDoc, ColumnOwed

\* Only three actions write asset_data.
LEMMA OnlyThreeWrite ==
    ASSUME [Next]_vars, ~Reindex, \A a \in Assets, u \in Urls : ~Notify(a, u),
           \A r \in Runs : ~(Store(r) /\ asset_data[run[r].id[1]].url = run[r].id[2])
    PROVE  asset_data' = asset_data
<1>1. ASSUME NEW r \in Runs, RunStep(r) PROVE asset_data' = asset_data
  BY <1>1, Zenon DEF RunStep, Lock, Fetch, CheckUrl, Store, Save
<1>2. CASE Listen \/ Insert \/ Select
  BY <1>2, Zenon DEF Listen, Insert, InsertTask, Select
<1>3. CASE \E id \in Ids : LockExpires(id) \/ Purge(id) \/ CreateTask(id)
  BY <1>3 DEF LockExpires, Purge, CreateTask
<1>4. CASE Crash \/ DeleteTasks \/ CreateStart \/ CreatePage
  BY <1>4 DEF Crash, DeleteTasks, CreateStart, CreatePage
<1> QED  BY <1>1, <1>2, <1>3, <1>4 DEF Next, Work, Disturbance, vars

\* However executions overlap, locks expire, rows are purged and processes die, a
\* row of asset_data that does not owe a download holds the document of the URL it
\* points to: the background tasks implement OffchainDoc (start_runner, task).
THEOREM Refinement == Spec => KeepsDocumentPromise
<1> USE DEF KeepsDocumentPromise
<1>1. Init => Doc!Init
  BY DEF Init, Doc!Init, Column
<1>2. TypeOK /\ [Next]_vars => [Doc!Next]_<<ColumnUrl, ColumnDoc, ColumnOwed>>
  <2> SUFFICES ASSUME TypeOK, [Next]_vars
               PROVE  Doc!Next \/ UNCHANGED <<ColumnUrl, ColumnDoc, ColumnOwed>>
    OBVIOUS
  <2>1. CASE \E a \in Assets, u \in Urls : Notify(a, u)
    BY <2>1, NotifyPoints DEF Doc!Next
  <2>2. CASE \E r \in Runs : Store(r) /\ asset_data[run[r].id[1]].url = run[r].id[2]
    BY <2>2, StoreSettles DEF Doc!Next
  <2>3. CASE Reindex
    BY <2>3, ReindexReopens DEF Doc!Next
  <2>4. CASE asset_data' = asset_data
    BY <2>4 DEF ColumnUrl, ColumnDoc, ColumnOwed, Column
  <2> QED  BY <2>1, <2>2, <2>3, <2>4, OnlyThreeWrite
<1> QED  BY <1>1, <1>2, Types, PTL DEF Spec, Doc!Spec, ColumnUrl, ColumnDoc, ColumnOwed

-----------------------------------------------------------------------------
(* The cursor file: as long as one task saves at a time, a crash leaves a complete *)
(* cursor.                                                                       *)

Slots == 0..MaxSlot

\* Savers that do not overlap.
OneSaver == \A p, q \in Savers : p = q

Running == phase \in {"up", "exiting"}

\* A named file is complete, in the page cache and on disk.
Complete(e) == e # Nil => data[e] = synced[e] /\ data[e] \in Slots

\* How far the save in progress has come, while the process runs.
SaveInv(p) ==
    /\ pc[p] # "idle" => /\ value[p] \in Slots /\ watermark \in Slots
                         /\ value[p] <= watermark
                         /\ entry # Nil => data[entry] <= value[p]
    /\ pc[p] \in {"write", "sync", "rename"} => tmp # Nil /\ fd[p] = tmp
    /\ pc[p] \in {"sync", "rename"} => data[tmp] = value[p]
    /\ pc[p] = "rename" => synced[tmp] = value[p]

\* The inductive invariant: the temporary file is never the cursor, now or after a
\* power loss; the cursor is complete, and no newer than the watermark.
FileInv ==
    /\ FileTypeOK /\ phase # "corrupt"
    /\ tmp # Nil => tmp # entry /\ tmp # onDisk
    /\ Complete(entry) /\ Complete(onDisk)
    /\ Running => /\ entry # Nil => watermark \in Slots /\ data[entry] <= watermark
                  /\ \A p \in Savers : SaveInv(p)

\* The state after the first Load satisfies the invariant.
LEMMA InitFile == FileInit => FileInv
BY SaverAssumption DEF FileInit, FileInv, FileTypeOK, Complete, Running, SaveInv, Steps

\* A step of one saver leaves the others alone: there are none.
LEMMA SaveFile ==
    ASSUME OneSaver, FileInv, Running, NEW p \in Savers, SaveStep(p)
    PROVE  /\ FileInv'
           /\ entry # Nil =>
                 entry' # Nil /\ data'[entry'] # Truncated /\ data'[entry'] >= data[entry]
<1> USE SaverAssumption
<1>0. /\ FileTypeOK /\ SaveInv(p) /\ tmp \in Inodes \cup {Nil} /\ entry \in Inodes \cup {Nil}
      /\ onDisk \in Inodes \cup {Nil} /\ (tmp # Nil => tmp # entry /\ tmp # onDisk)
      /\ Complete(entry) /\ Complete(onDisk)
      /\ (entry # Nil => watermark \in Slots /\ data[entry] <= watermark)
  BY DEF FileInv, FileTypeOK
<1>1. \A q \in Savers : q = p
  BY DEF OneSaver
<1>2. CASE BeginSave(p)
  <2>1. /\ UNCHANGED <<files, watermark, fd>> /\ pc' = [pc EXCEPT ![p] = "create"]
        /\ value' = [value EXCEPT ![p] = watermark] /\ watermark # Nil
        /\ phase' \in {"up", "exiting"}
    BY <1>2 DEF BeginSave, Running
  <2>2. watermark \in Slots /\ value'[p] = watermark /\ pc'[p] = "create"
    BY <1>0, <2>1 DEF FileTypeOK, Slots
  <2>3. FileTypeOK'
    BY <1>0, <2>1, <2>2 DEF FileTypeOK, files, Steps, Slots
  <2>4. SaveInv(p)'
    BY <1>0, <2>1, <2>2 DEF SaveInv, files, Slots
  <2> QED  BY <1>0, <1>1, <2>1, <2>2, <2>3, <2>4 DEF FileInv, Complete, Running, files, Slots
<1>3. CASE Create(p)
  <2>1. PICK i \in Inodes :
          /\ i \in (IF tmp # Nil THEN {tmp} ELSE Fresh)
          /\ tmp' = i /\ fd' = [fd EXCEPT ![p] = i]
          /\ data' = [data EXCEPT ![i] = Truncated]
          /\ synced' = [synced EXCEPT ![i] = IF tmp = Nil THEN Truncated ELSE synced[i]]
    BY <1>0, <1>3 DEF Create, Fresh, FileTypeOK
  <2>2. /\ pc[p] = "create" /\ pc' = [pc EXCEPT ![p] = "write"]
        /\ UNCHANGED <<entry, onDisk, watermark, value, phase>>
    BY <1>3 DEF Create
  <2>3. i # Nil /\ i # entry /\ i # onDisk
    BY <1>0, <2>1 DEF Fresh, InUse
  <2>4. FileTypeOK'
    BY <1>0, <2>1, <2>2 DEF FileTypeOK, Steps
  <2>5. Complete(entry)' /\ Complete(onDisk)' /\ (entry # Nil => data'[entry] = data[entry])
    BY <1>0, <2>1, <2>2, <2>3 DEF Complete, FileTypeOK
  <2>6. SaveInv(p)'
    BY <1>0, <2>1, <2>2, <2>3, <2>5 DEF SaveInv, FileTypeOK
  <2> QED  BY <1>0, <1>1, <2>1, <2>2, <2>3, <2>4, <2>5, <2>6 DEF FileInv, Running, Complete, Slots
<1>4. CASE Write(p)
  <2>1. /\ pc[p] = "write" /\ pc' = [pc EXCEPT ![p] = "sync"] /\ tmp # Nil
        /\ data' = [data EXCEPT ![tmp] = value[p]] /\ value[p] \in Slots
        /\ UNCHANGED <<tmp, entry, onDisk, synced, watermark, fd, value, phase>>
    BY <1>0, <1>4 DEF Write, SaveInv
  <2>2. FileTypeOK'
    BY <1>0, <2>1 DEF FileTypeOK, Steps, Slots
  <2>3. Complete(entry)' /\ Complete(onDisk)' /\ (entry # Nil => data'[entry] = data[entry])
    BY <1>0, <2>1 DEF Complete, FileTypeOK
  <2>4. SaveInv(p)'
    BY <1>0, <2>1, <2>3 DEF SaveInv, FileTypeOK
  <2> QED  BY <1>0, <1>1, <2>1, <2>2, <2>3, <2>4 DEF FileInv, Running, Complete, Slots
<1>5. CASE Sync(p)
  <2>1. /\ pc[p] = "sync" /\ pc' = [pc EXCEPT ![p] = "rename"] /\ tmp # Nil
        /\ synced' = [synced EXCEPT ![tmp] = data[tmp]]
        /\ UNCHANGED <<tmp, entry, onDisk, data, watermark, fd, value, phase>>
    BY <1>0, <1>5 DEF Sync, SaveInv
  <2>2. FileTypeOK'
    BY <1>0, <2>1 DEF FileTypeOK, Steps
  <2>3. Complete(entry)' /\ Complete(onDisk)'
    BY <1>0, <2>1 DEF Complete, FileTypeOK
  <2>4. SaveInv(p)'
    BY <1>0, <2>1 DEF SaveInv, FileTypeOK
  <2> QED  BY <1>0, <1>1, <2>1, <2>2, <2>3, <2>4 DEF FileInv, Running, Complete, Slots
<1>6. CASE Rename(p)
  <2>1. /\ pc[p] = "rename" /\ pc' = [pc EXCEPT ![p] = "idle"] /\ tmp # Nil
        /\ entry' = tmp /\ tmp' = Nil
        /\ fd' = [fd EXCEPT ![p] = Nil] /\ value' = [value EXCEPT ![p] = Nil]
        /\ UNCHANGED <<onDisk, data, synced, watermark, phase>>
    BY <1>0, <1>6 DEF Rename, SaveInv
  <2>2. /\ data[tmp] = value[p] /\ synced[tmp] = value[p] /\ value[p] \in Slots
        /\ value[p] <= watermark /\ watermark \in Slots
        /\ (entry # Nil => data[entry] <= value[p])
    BY <1>0, <2>1 DEF SaveInv
  <2>3. FileTypeOK'
    BY <1>0, <2>1 DEF FileTypeOK, Steps
  <2>4. Complete(entry)' /\ Complete(onDisk)'
    BY <1>0, <2>1, <2>2 DEF Complete
  <2>5. SaveInv(p)'
    BY <1>0, <2>1 DEF SaveInv, FileTypeOK
  <2> QED  BY <1>0, <1>1, <2>1, <2>2, <2>3, <2>4, <2>5 DEF FileInv, Running, Complete, Slots
<1> QED  BY <1>2, <1>3, <1>4, <1>5, <1>6 DEF SaveStep

\* What the kernel writes back was complete, or has no name.
LEMMA WriteBackIInv == ASSUME FileInv, WriteBack PROVE FileInv'
<1> USE SaverAssumption
<1>1. CASE onDisk' = entry /\ UNCHANGED synced
  <2>1. FileTypeOK'
    BY <1>1 DEF FileInv, FileTypeOK, WriteBack
  <2> QED  BY <1>1, <2>1 DEF FileInv, WriteBack, Complete, Running, SaveInv
<1>2. CASE \E i \in Inodes : synced' = [synced EXCEPT ![i] = data[i]] /\ UNCHANGED onDisk
  <2>1. PICK i \in Inodes : synced' = [synced EXCEPT ![i] = data[i]] /\ UNCHANGED onDisk
    BY <1>2
  <2>2. FileTypeOK'
    BY <2>1 DEF FileInv, FileTypeOK, WriteBack
  <2>3. \A j \in Inodes : synced'[j] = IF j = i THEN data[j] ELSE synced[j]
    BY <2>1 DEF FileInv, FileTypeOK
  <2>4. Complete(entry)' /\ Complete(onDisk)'
    BY <2>1, <2>3 DEF FileInv, FileTypeOK, WriteBack, Complete
  <2>5. ASSUME Running, NEW p \in Savers PROVE SaveInv(p)'
    BY <2>3, <2>5 DEF FileInv, FileTypeOK, WriteBack, SaveInv
  <2> QED  BY <2>1, <2>2, <2>4, <2>5 DEF FileInv, WriteBack, Running
<1> QED  BY <1>1, <1>2 DEF WriteBack

\* A rising watermark, a stop, a power loss and the next Load keep the invariant.
LEMMA OtherFile ==
    ASSUME FileInv, Advance \/ Stop \/ PowerLoss \/ Load \/ UNCHANGED fileVars PROVE FileInv'
<1> USE SaverAssumption
<1>1. CASE Advance
  <2>1. watermark' \in Slots /\ (watermark # Nil => watermark \in Slots /\ watermark' > watermark)
    BY <1>1 DEF Advance, FileInv, FileTypeOK, Slots
  <2>2. UNCHANGED <<files, pc, fd, value, phase>> /\ Running
    BY <1>1 DEF Advance, Running
  <2>3. FileTypeOK'
    BY <2>1, <2>2 DEF FileInv, FileTypeOK, files, Slots
  <2>4. ASSUME NEW p \in Savers PROVE SaveInv(p)'
    BY <2>1, <2>2 DEF FileInv, SaveInv, files, Slots
  <2>5. entry # Nil => data[entry] <= watermark'
    BY <2>1, <2>2 DEF FileInv, Slots, Complete
  <2> QED  BY <2>1, <2>2, <2>3, <2>4, <2>5 DEF FileInv, files, Complete, Running
<1>2. CASE Stop
  <2>1. FileTypeOK'
    BY <1>2 DEF Stop, FileInv, FileTypeOK, files
  <2> QED  BY <1>2, <2>1 DEF Stop, FileInv, files, Complete, Running
<1>3. CASE PowerLoss
  <2>1. FileTypeOK' /\ phase' = "down"
    BY <1>3 DEF PowerLoss, FileInv, FileTypeOK
  <2> QED  BY <1>3, <2>1 DEF PowerLoss, FileInv, Complete, Running
<1>4. CASE Load
  <2>1. entry # Nil => data[entry] \in Slots /\ data[entry] # Truncated
    BY DEF FileInv, Complete, Slots
  <2>2. phase' = "up" /\ watermark' = (IF entry = Nil THEN Nil ELSE data[entry])
    BY <1>4, <2>1 DEF Load
  <2>3. FileTypeOK'
    BY <1>4, <2>1, <2>2 DEF Load, FileInv, FileTypeOK, files, Steps, Slots
  <2>4. \A p \in Savers : SaveInv(p)'
    BY <1>4 DEF Load, SaveInv
  <2> QED  BY <1>4, <2>1, <2>2, <2>3, <2>4 DEF Load, FileInv, files, Complete, Running, Slots
<1>5. CASE UNCHANGED fileVars
  BY <1>5 DEF fileVars, files, FileInv, FileTypeOK, Complete, Running, SaveInv
<1> QED  BY <1>1, <1>2, <1>3, <1>4, <1>5

\* With one saver, every step keeps the invariant.
LEMMA NextFile == OneSaver /\ FileInv /\ [FileNext]_fileVars => FileInv'
BY SaveFile, WriteBackIInv, OtherFile DEF FileNext, Running

\* With one task saving at a time, whenever the process or the machine stops, the
\* next start finds a complete cursor or none (Cursor::save, Cursor::load).
THEOREM Atomic == OneSaver => (FileSpec => [](FileTypeOK /\ PersistsAtomically))
<1> SUFFICES ASSUME OneSaver PROVE FileSpec => [](FileTypeOK /\ PersistsAtomically)
  OBVIOUS
<1>1. FileInv /\ [FileNext]_fileVars => FileInv'
  BY NextFile
<1>2. FileInv => FileTypeOK /\ PersistsAtomically
  BY DEF FileInv, PersistsAtomically
<1> QED  BY <1>1, <1>2, InitFile, PTL DEF FileSpec

\* With one task saving at a time and while the machine runs, a reader of the file
\* sees the slot only move forward, across restarts too (save, load).
THEOREM NeverBack == OneSaver => (FileSpec => VisibleNeverBack)
<1> SUFFICES ASSUME OneSaver PROVE FileSpec => VisibleNeverBack
  OBVIOUS
<1>1. FileInv /\ [FileNext]_fileVars => FileInv'
  BY NextFile
<1>2. FileInv /\ [FileNext]_fileVars =>
         [~PowerLoss /\ entry # Nil =>
             entry' # Nil /\ data'[entry'] # Truncated /\ data'[entry'] >= data[entry]]_fileVars
  <2> SUFFICES ASSUME FileInv, FileNext, ~PowerLoss, entry # Nil
               PROVE  entry' # Nil /\ data'[entry'] # Truncated /\ data'[entry'] >= data[entry]
    OBVIOUS
  <2>1. CASE \E p \in Savers : phase \in {"up", "exiting"} /\ SaveStep(p)
    BY <2>1, SaveFile DEF Running
  <2>2. CASE Advance \/ WriteBack \/ Stop \/ Load
    <3>1. UNCHANGED <<entry, data>>
      BY <2>2 DEF Advance, WriteBack, Stop, Load, files
    <3> QED  BY <3>1, SaverAssumption DEF FileInv, Complete, Slots
  <2> QED  BY <2>1, <2>2 DEF FileNext
<1> QED  BY <1>1, <1>2, InitFile, PTL DEF FileSpec, VisibleNeverBack

-----------------------------------------------------------------------------
(* Savers that overlap *)

\* Whoever is saving holds the watermark they read.
Holding == \A p \in Savers : pc[p] # "idle" => value[p] \in Slots

\* Whatever the savers do to each other's file, they write slots and nothing else.
LEMMA HoldingStep == FileTypeOK /\ Holding /\ [FileNext]_fileVars => FileTypeOK' /\ Holding'
<1> SUFFICES ASSUME FileTypeOK, Holding, [FileNext]_fileVars PROVE FileTypeOK' /\ Holding'
  OBVIOUS
<1> USE SaverAssumption DEF Slots
<1>1. ASSUME NEW p \in Savers, SaveStep(p) PROVE FileTypeOK' /\ Holding'
  <2>1. CASE BeginSave(p)
    <3>1. watermark \in Slots
      BY <2>1 DEF BeginSave, FileTypeOK
    <3> QED  BY <2>1, <3>1 DEF BeginSave, FileTypeOK, Holding, files, Steps
  <2>2. CASE Create(p)
    <3>1. PICK i \in Inodes :
            /\ tmp' = i /\ fd' = [fd EXCEPT ![p] = i] /\ data' = [data EXCEPT ![i] = Truncated]
            /\ synced' = [synced EXCEPT ![i] = IF tmp = Nil THEN Truncated ELSE synced[i]]
      BY <2>2 DEF Create, Fresh, FileTypeOK
    <3>2. /\ pc[p] = "create" /\ pc' = [pc EXCEPT ![p] = "write"]
          /\ UNCHANGED <<entry, onDisk, watermark, value, phase>>
      BY <2>2 DEF Create
    <3> QED  BY <3>1, <3>2 DEF FileTypeOK, Holding, Steps
  <2>3. CASE Write(p)
    <3>1. value[p] \in Slots /\ pc[p] # "idle"
      BY <2>3 DEF Write, Holding
    <3>2. data' \in [Inodes -> 0..MaxSlot \cup {Truncated}]
      BY <2>3, <3>1 DEF Write, FileTypeOK
    <3> QED  BY <2>3, <3>1, <3>2 DEF Write, FileTypeOK, Holding, Steps
  <2>4. CASE Sync(p)
    <3>1. synced' \in [Inodes -> 0..MaxSlot \cup {Truncated}]
      BY <2>4 DEF Sync, FileTypeOK
    <3> QED  BY <2>4, <3>1 DEF Sync, FileTypeOK, Holding, Steps
  <2>5. CASE Rename(p)
    BY <2>5 DEF Rename, FileTypeOK, Holding, Steps
  <2> QED  BY <1>1, <2>1, <2>2, <2>3, <2>4, <2>5 DEF SaveStep
<1>2. CASE Advance
  BY <1>2 DEF Advance, FileTypeOK, Holding, files
<1>3. CASE WriteBack
  <2>1. synced' \in [Inodes -> 0..MaxSlot \cup {Truncated}]
    BY <1>3 DEF WriteBack, FileTypeOK
  <2> QED  BY <1>3, <2>1 DEF WriteBack, FileTypeOK, Holding
<1>4. CASE Stop \/ PowerLoss \/ UNCHANGED fileVars
  BY <1>4 DEF Stop, PowerLoss, fileVars, files, FileTypeOK, Holding
<1>5. CASE Load
  <2>1. watermark' \in 0..MaxSlot \cup {Nil}
    BY <1>5 DEF Load, FileTypeOK
  <2> QED  BY <1>5, <2>1 DEF Load, FileTypeOK, Holding, files, Steps
<1> QED  BY <1>1, <1>2, <1>3, <1>4, <1>5 DEF FileNext

\* However many tasks save at once, the cursor holds a slot or nothing, never anything else
\* (Cursor::save): overlapping saves can leave it empty, which is the race that CursorFile_race
\* shows, but not with another value.
THEOREM FileTypeCorrect == FileSpec => []FileTypeOK
<1>1. FileInit => FileTypeOK /\ Holding
  BY SaverAssumption DEF FileInit, FileTypeOK, Holding, Steps
<1> QED  BY <1>1, HoldingStep, PTL DEF FileSpec
=============================================================================
