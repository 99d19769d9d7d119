------------------------------ MODULE QueuePool ------------------------------
(***************************************************************************)
(* The pool of messenger connections through which the ops tools push to     *)
(* the streams (core/plerkle_messenger_queue.rs): a channel of connections   *)
(* behind a mutex, which push() holds from taking a connection to giving it  *)
(* back.                                                                     *)
(***************************************************************************)
EXTENDS Integers, FiniteSets

CONSTANTS
    Pushers,         \* concurrent callers of push
    Connections,     \* messenger_queue_connections
    Streams,         \* the stream keys of the four public methods
    MaxFailures,     \* bound on the sends that fail
    None

ASSUME PoolAssumption == Connections \in Nat /\ MaxFailures \in Nat /\ None \notin Pushers

VARIABLES
    idle,        \* connections in the channel
    holder,      \* who holds the mutex on its receiver, or None
    call,        \* [Pushers -> [pc, stream]]
    failures

poolVars == <<idle, holder, call, failures>>

NoCall == [pc |-> "none", stream |-> None]

\* try_from_config: every connection is put into the channel.
PoolInit ==
    /\ idle = Connections /\ holder = None /\ failures = 0
    /\ call = [p \in Pushers |-> NoCall]

\* push_account_backfill, push_transaction_backfill, push_account, push_transaction.
Push(p) ==
    /\ call[p].pc = "none"
    /\ \E s \in Streams : call' = [call EXCEPT ![p] = [pc |-> "lock", stream |-> s]]
    /\ UNCHANGED <<idle, holder, failures>>

Lock(p) ==
    /\ call[p].pc = "lock" /\ holder = None
    /\ holder' = p
    /\ call' = [call EXCEPT ![p].pc = "recv"]
    /\ UNCHANGED <<idle, failures>>

\* Mutant: the last connection is kept in reserve and the lock tried again.
RecvReserve(p) ==
    /\ call[p].pc = "recv"
    /\ IF idle > 1
       THEN idle' = idle - 1 /\ call' = [call EXCEPT ![p].pc = "send"] /\ UNCHANGED holder
       ELSE call' = [call EXCEPT ![p].pc = "lock"] /\ holder' = None /\ UNCHANGED idle
    /\ UNCHANGED failures

\* The pool owns a sender, so an empty channel makes recv() wait.
Recv(p) ==
    /\ call[p].pc = "recv" /\ idle > 0
    /\ idle' = idle - 1
    /\ call' = [call EXCEPT ![p].pc = "send"]
    /\ UNCHANGED <<holder, failures>>

\* Mutant: the connection is used and forgotten.
SendForget(p) ==
    /\ call[p].pc = "send"
    /\ holder' = None
    /\ call' = [call EXCEPT ![p] = NoCall]
    /\ UNCHANGED <<idle, failures>>

\* The connection goes back, the mutex is released, Ok is returned.
Send(p) ==
    /\ call[p].pc = "send"
    /\ idle' = idle + 1
    /\ holder' = None
    /\ call' = [call EXCEPT ![p] = NoCall]
    /\ UNCHANGED failures

\* The error returns at once and the connection is dropped.
SendFails(p) ==
    /\ call[p].pc = "send" /\ failures < MaxFailures
    /\ failures' = failures + 1
    /\ holder' = None
    /\ call' = [call EXCEPT ![p] = NoCall]
    /\ UNCHANGED idle

Step(p) == Lock(p) \/ Recv(p) \/ Send(p) \/ SendFails(p)

PoolNext == \E p \in Pushers : Push(p) \/ Step(p)

PoolSpec == PoolInit /\ [][PoolNext]_poolVars

\* tokio polls every task that can move, and its mutex is served in order.
PoolFairness == \A p \in Pushers : WF_poolVars(Step(p)) /\ SF_poolVars(Lock(p))

PoolFairSpec == PoolSpec /\ PoolFairness

-----------------------------------------------------------------------------
PoolTypeOK ==
    /\ idle \in 0..Connections /\ holder \in Pushers \cup {None}
    /\ failures \in 0..MaxFailures
    /\ call \in [Pushers -> {NoCall} \cup [pc : {"lock", "recv", "send"}, stream : Streams]]

\* The mutex keeps the pushers apart, and every connection is in the channel, with
\* the one pusher that sends, or was dropped with a failed send: none is handed out
\* twice and none leaks on success.
ConnectionsAccountedFor ==
    /\ \A p \in Pushers : call[p].pc \in {"recv", "send"} <=> holder = p
    /\ idle + Cardinality({p \in Pushers : call[p].pc = "send"}) + failures = Connections

\* Every push returns, "`Ok` if the push is successful, or an `Err` with a
\* `QueuePoolError` if the push fails", as long as a connection is left.  Each failed
\* send drops one, and when all are gone a push waits for ever: that case is excepted.
PushReturns == \A p \in Pushers :
    call[p].pc # "none" ~> call[p].pc = "none" \/ failures = Connections
=============================================================================
