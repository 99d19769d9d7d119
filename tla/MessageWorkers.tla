--------------------------- MODULE MessageWorkers ---------------------------
(***************************************************************************)
(* The stream consumers of nft_ingester (main.rs, account_updates.rs,        *)
(* transaction_notifications.rs, metrics.rs, ack.rs): workers that take      *)
(* batches from a Redis stream and handle every message in a task of its     *)
(* own, one worker that only takes messages again, and the task that         *)
(* acknowledges.  A task that gets no connection to Redis ends at once and   *)
(* unnoticed.  The messenger is external: it remembers what was delivered    *)
(* and not acknowledged, hands it out again whether or not it is still being *)
(* handled, and gives up after a number of tries.                            *)
(***************************************************************************)
EXTENDS Integers, FiniteSets

CONSTANTS
    Messages,
    Undecodable,    \* those whose flatbuffer or fields cannot be read
    NewWorkers,     \* workers with ConsumptionType::New
    Starts,         \* the sets of tasks that may have got a connection
    Batch,          \* messages of one recv
    MaxTries,       \* the messenger's retry limit
    MaxCrashes,     \* bounds on crashes and
    MaxAckErrors    \* on acknowledgements that Redis refuses

\* Worker 0 of a stream.
Redeliverer == "worker0"

Workers == NewWorkers \cup {Redeliverer}

AckWorker == "ack_worker"

ASSUME StreamAssumption ==
    MaxTries \in Nat /\ Starts \subseteq SUBSET (Workers \cup {AckWorker})

VARIABLES
    status,      \* [Messages -> "unsent", "new", "pending", "acked" or "dropped"]
    tries,       \* [Messages -> how often it was delivered again]
    tasks,       \* [Workers -> messages of its JoinSet that are not joined]
    channel,     \* ids on their way to the ack worker
    acks,        \* ids that it has collected
    handled,     \* messages for which some task said that they should be acked
    crashes, ackErrors,
    up           \* the tasks that run: their T::new succeeded

streamVars == <<status, tries, tasks, channel, acks, handled, crashes, ackErrors, up>>

-----------------------------------------------------------------------------
(* The messenger and the workers' loops *)

Publish(m) ==
    /\ status[m] = "unsent"
    /\ status' = [status EXCEPT ![m] = "new"]
    /\ UNCHANGED <<tries, tasks, channel, acks, handled, crashes, ackErrors, up>>

\* What one recv may take of the messages that are available.
Batches(available) ==
    {S \in SUBSET available :
        Cardinality(S) = IF Cardinality(available) < Batch THEN Cardinality(available) ELSE Batch}

\* A worker receives again when every task of its last batch is joined.
RecvNew(w) ==
    /\ w \in up /\ tasks[w] = {}
    /\ LET new == {m \in Messages : status[m] = "new"} IN
       /\ new # {}
       /\ \E S \in Batches(new) :
             /\ status' = [m \in Messages |-> IF m \in S THEN "pending" ELSE status[m]]
             /\ tasks' = [tasks EXCEPT ![w] = S]
    /\ UNCHANGED <<tries, channel, acks, handled, crashes, ackErrors, up>>

RecvAgain ==
    /\ Redeliverer \in up /\ tasks[Redeliverer] = {}
    /\ LET claimed == {m \in Messages : status[m] = "pending"} IN
       /\ claimed # {}
       /\ \E S \in Batches(claimed) :
             LET over == {m \in S : tries[m] = MaxTries} IN
             /\ status' = [m \in Messages |-> IF m \in over THEN "dropped" ELSE status[m]]
             /\ tries' = [m \in Messages |-> IF m \in S \ over THEN tries[m] + 1 ELSE tries[m]]
             /\ tasks' = [tasks EXCEPT ![Redeliverer] = S \ over]
    /\ UNCHANGED <<channel, acks, handled, crashes, ackErrors, up>>

-----------------------------------------------------------------------------
(* handle_account, handle_transaction *)

Results == {"Ok", "NotImplemented", "DeserializationError", "ParsingError",
            "DatabaseError", "AssetIndexError", "other", "panic"}

\* Mutant: an error of the database counts as final.
AckDatabaseError(res) ==
    res \in {"Ok", "NotImplemented", "DeserializationError", "ParsingError", "DatabaseError"}

\* Whether the message should be acked.
capture_result(res) ==
    res \in {"Ok", "NotImplemented", "DeserializationError", "ParsingError"}

Retryable == {"DatabaseError", "AssetIndexError", "other", "panic"}

\* One task is joined: its id goes to the ack channel, unless the message could not be
\* decoded, the result says otherwise, or the task panicked.  Without an ack worker the
\* channel is closed, and an id that cannot be sent is only logged.
Join(w, m, res) ==
    /\ m \in tasks[w]
    /\ tasks' = [tasks EXCEPT ![w] = @ \ {m}]
    /\ IF AckWorker \in up /\ m \notin Undecodable /\ capture_result(res)
       THEN channel' = channel \cup {m} ELSE UNCHANGED channel
    /\ handled' = IF m \notin Undecodable /\ res \notin Retryable
                  THEN handled \cup {m} ELSE handled
    /\ UNCHANGED <<status, tries, acks, crashes, ackErrors, up>>

-----------------------------------------------------------------------------
(* ack_worker *)

Collect(m) ==
    /\ AckWorker \in up /\ m \in channel
    /\ channel' = channel \ {m}
    /\ acks' = acks \cup {m}
    /\ UNCHANGED <<status, tries, tasks, handled, crashes, ackErrors, up>>

Ack ==
    /\ AckWorker \in up /\ acks # {}
    /\ status' = [m \in Messages |->
          IF m \in acks /\ status[m] = "pending" THEN "acked" ELSE status[m]]
    /\ acks' = {}
    /\ UNCHANGED <<tries, tasks, channel, handled, crashes, ackErrors, up>>

\* The batch is cleared all the same.
AckFails ==
    /\ AckWorker \in up /\ acks # {} /\ ackErrors < MaxAckErrors
    /\ acks' = {}
    /\ ackErrors' = ackErrors + 1
    /\ UNCHANGED <<status, tries, tasks, channel, handled, crashes, up>>

\* The process dies and is started again.
IngesterCrash ==
    /\ crashes < MaxCrashes
    /\ up' \in Starts
    /\ crashes' = crashes + 1
    /\ tasks' = [w \in Workers |-> {}] /\ channel' = {} /\ acks' = {}
    /\ UNCHANGED <<status, tries, handled, ackErrors>>

-----------------------------------------------------------------------------
StreamInit ==
    /\ status = [m \in Messages |-> "unsent"] /\ tries = [m \in Messages |-> 0]
    /\ tasks = [w \in Workers |-> {}] /\ channel = {} /\ acks = {}
    /\ handled = {} /\ crashes = 0 /\ ackErrors = 0 /\ up \in Starts

JoinAny(w) == \E m \in Messages, res \in Results : Join(w, m, res)

StreamNext ==
    \/ \E m \in Messages : Publish(m) \/ Collect(m)
    \/ \E w \in NewWorkers : RecvNew(w)
    \/ RecvAgain \/ Ack \/ AckFails \/ IngesterCrash
    \/ \E w \in Workers : JoinAny(w)

StreamSpec == StreamInit /\ [][StreamNext]_streamVars

\* Workers and the ack worker are loops that tokio polls, and every task ends.
StreamFairness ==
    /\ WF_streamVars(RecvAgain) /\ \A w \in NewWorkers : WF_streamVars(RecvNew(w))
    /\ \A w \in Workers : WF_streamVars(JoinAny(w))
    /\ \A m \in Messages : WF_streamVars(Collect(m))
    /\ WF_streamVars(Ack \/ AckFails)

StreamFairSpec == StreamSpec /\ StreamFairness

-----------------------------------------------------------------------------
StreamTypeOK ==
    /\ status \in [Messages -> {"unsent", "new", "pending", "acked", "dropped"}]
    /\ tries \in [Messages -> 0..MaxTries]
    /\ tasks \in [Workers -> SUBSET Messages]
    /\ channel \subseteq Messages /\ acks \subseteq Messages /\ handled \subseteq Messages
    /\ up \in Starts

\* A message leaves the stream through an acknowledgement only if some execution ended
\* in a result that a retry would not change, however often it was redelivered while it
\* was still being handled and whatever acks were lost (capture_result, ack_worker).
AckedWasHandled ==
    \A m \in Messages : status[m] = "acked" \/ m \in channel \cup acks => m \in handled

\* The stream has a worker for new messages and one that takes them again.
Served == Redeliverer \in up /\ up \cap NewWorkers # {}

\* Every message comes to rest: "if the message is not ACK'd, it will be retried as long
\* as it is under the retry limit".  A failed acknowledgement, whose batch is forgotten,
\* an ack worker that did not start and a crash only delay it.  The workers of the stream
\* must have started, and must again after a crash, which the code does not see to: a
\* worker whose T::new fails ends without a word.
MessageSettles == \A m \in Messages :
    (Served /\ status[m] \in {"new", "pending"})
        ~> (status[m] \in {"acked", "dropped"} \/ ~Served)
=============================================================================
