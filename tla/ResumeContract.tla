---------------------------- MODULE ResumeContract ----------------------------
(***************************************************************************)
(* What the resume cursor of grpc_ingester promises to whoever reads the    *)
(* state directory: the persisted slot never claims an update that was      *)
(* neither dealt with nor logged as missed, and the first slot the claim is *)
(* about is fixed once a cursor exists.  How the cursor is computed, and    *)
(* what runs concurrently, is left to the implementation (GrpcIngest).      *)
(***************************************************************************)
EXTENDS Integers

CONSTANTS Update, SlotOf, None

VARIABLES done, gaps, cursor, base

Missed(s) == \E g \in gaps : g[1] <= s /\ s < g[2]

Claimable(x) ==
    \A u \in Update :
        base <= SlotOf[u] /\ SlotOf[u] <= x => u \in done \/ Missed(SlotOf[u])

Init == done = {} /\ gaps = {} /\ cursor = None /\ base \in Nat

DealWith == \E u \in Update : done' = done \cup {u} /\ UNCHANGED <<gaps, cursor, base>>

Miss == \E g \in gaps' : gaps' = gaps \cup {g} /\ UNCHANGED <<done, cursor, base>>

Persist ==
    /\ cursor' \in Nat /\ Claimable(cursor')
    /\ UNCHANGED <<done, gaps, base>>

StartLive == cursor = None /\ base' \in Nat /\ UNCHANGED <<done, gaps, cursor>>

Next == DealWith \/ Miss \/ Persist \/ StartLive

Spec == Init /\ [][Next]_<<done, gaps, cursor, base>>
=============================================================================
