---------------------------- MODULE MCGrpcIngest ----------------------------
(* Instances of GrpcIngest for TLC. *)
EXTENDS GrpcIngest, TLC

CONSTANTS a, b, w1, w2

VARIABLE live    \* TRUE: the process is started without --start-slot

MCUpdate == {a, b}

\* Slot 2 has no block; both updates are of one account.
MCSlotOf == (a :> 1) @@ (b :> 3)
MCStripeOf == (a :> 1) @@ (b :> 1)

\* Every slot has a block, and the updates are of two accounts.
MCSlotOfAll == (a :> 1) @@ (b :> 2)
MCStripeOfAll == (a :> 1) @@ (b :> 2)

\* Tasks are interchangeable: a permit has no identity in the code.
MCSymmetry == Permutations(Writers)

Live == INSTANCE GrpcIngest WITH StartSlot <- None

\* Without --start-slot one block is still to come.
MCInit ==
    \/ live = FALSE /\ Init
    \/ live = TRUE /\ Live!Init /\ tip = 2

\* The newest slot of all stays available.
MCNext ==
    /\ \/ ~live /\ Next
       \/ live /\ Live!Next
    /\ oldest' <= MaxSlot /\ UNCHANGED live

MCSpec == MCInit /\ [][MCNext]_<<vars, live>> /\ Fairness

\* Only without --start-slot.
LiveInit == live = TRUE /\ Init
LiveNext == Next /\ UNCHANGED live
LiveSpec == LiveInit /\ [][LiveNext]_<<vars, live>>

\* With --start-slot the cursor catches up.  (Without it, it may stay where the stream was
\* at the start: nothing is finalized after the newest block.)
StartedCatchesUp == ~live => CursorCatchesUp
=============================================================================
