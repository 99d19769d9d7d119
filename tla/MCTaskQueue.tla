---------------------------- MODULE MCTaskQueue ----------------------------
(* An instance of TaskQueue for TLC. *)
EXTENDS TaskQueue, TLC

CONSTANTS
    u1, u2, r1, r2,
    MaxDisturbances,   \* bound on crashes, purges and commands of the operator
    MaxDisturbedWrites \* bound on the writes of the chain where one of these happens

VARIABLES
    disturbances,
    dropped            \* ids whose last request the listener dropped as already done

\* u2 is u1 with white space around it.
MCTrimPadded == [u \in Urls |-> IF u = Empty THEN u ELSE u1]

\* bound: once the operator creates tasks, the servers answer.
Answered ==
    create # NoCreate => \A r \in Runs : run[r].pc = "locked" => run'[r].pc # "failed"

\* The row, or an execution that is about to write it, says that the task is done.
Done(id) == tasks[id].status = "Success" \/ \E r \in Runs : run[r].pc = "ok" /\ run[r].id = id

\* What the listener does not insert because an identical task is done.
Drops ==
    {id \in Ids : /\ channel # <<>> /\ channel' = Tail(channel)
                  /\ Head(channel) = id /\ Identical(id) /\ Done(id)}

MCInit == Init /\ disturbances = 0 /\ dropped = {}

MCNext ==
    \/ /\ Work /\ Answered
       /\ disturbances > 0 => writes' <= MaxDisturbedWrites
       /\ dropped' = IF Len(channel') > Len(channel) THEN dropped \ {channel'[Len(channel')]}
                     ELSE dropped \cup Drops
       /\ UNCHANGED disturbances
    \/ /\ Disturbance
       /\ disturbances < MaxDisturbances /\ writes < MaxDisturbedWrites
       /\ disturbances' = disturbances + 1
       /\ UNCHANGED dropped

MCSpec == MCInit /\ [][MCNext]_<<vars, disturbances, dropped>> /\ Fairness

\* The last attempt of the task failed, or will not be made.
GivenUp(id) == tasks[id] # None /\ tasks[id].attempts > MaxAttempts

Owes(a, u) == asset_data[a] # None /\ asset_data[a].reindex /\ asset_data[a].url = u

\* Until something is disturbed, an owed download is stored, the URL changes, the
\* row of the task has used up its attempts, or the listener dropped the request
\* because an identical task is done; no request is lost elsewhere between
\* notifier, listener, table and runner, whatever overlaps.  The listener looks at
\* the hash alone: when an asset returns to a URL it had, or is written again with
\* the same one, within the time that rows are kept, the request is dropped and
\* reindex stays TRUE (tasks/mod.rs, start_listener); an empty URL is never asked for.
UndisturbedOwedIsAccountedFor ==
    [](disturbances = 0) =>
        \A a \in Assets, u \in Urls \ {Empty} :
            Owes(a, u) ~> ~Owes(a, u) \/ GivenUp(<<a, u>>) \/ <<a, u>> \in dropped
=============================================================================
