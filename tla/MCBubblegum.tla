---------------------------- MODULE MCBubblegum ----------------------------
(* An instance of Bubblegum for TLC: three stories of one tree, told one at  *)
(* a time.  The leaves x, y and z are under the root r; instructions are     *)
(* numbered by their sequence number in the tree.                           *)
EXTENDS Bubblegum, TLC

CONSTANTS x, y, z, r, w1, w2

\* x lives through the instructions that rewrite its creators.
Life == {1, 5, 6, 7}
\* Two workers on neighbouring leaves of a tree that is seen from its second change.
Race == {2, 3, 4}
\* x is burnt while z, already decompressed, is replayed.
End == {8, 9, 10, 11}

MCIx == Life \cup Race \cup End

MCKindOf ==
    (1 :> "mint") @@ (5 :> "creator_verification") @@ (6 :> "update_metadata")
    @@ (7 :> "update_metadata")
    @@ (2 :> "redeem") @@ (3 :> "transfer") @@ (4 :> "cancel_redeem")
    @@ (8 :> "mint") @@ (9 :> "delegate") @@ (10 :> "collection_verification")
    @@ (11 :> "burn")

MCLeafOf == [i \in MCIx |-> CASE i \in {8, 10} -> z [] i = 3 -> y [] OTHER -> x]

MCPathOf == [l \in {x, y, z} |-> <<l, r>>]

MCSeqOf == [i \in MCIx |-> i]

\* In each story two instructions share a slot.
MCSlotOf ==
    [i \in MCIx \cup {Saved} |->
        CASE i = 1 -> 1 [] i \in {2, 3} -> 2 [] i = 4 -> 3 [] i \in {5, 6} -> 4 [] i = 7 -> 5
          [] i = 8 -> 6 [] i \in {9, 10} -> 7 [] OTHER -> 8]

\* The list of creators shrinks and vanishes.
MCCreatorCount ==
    [i \in MCIx \cup {Saved} |-> CASE i \in {1, 5, 8, 9} -> 2 [] i \in {7, 11} -> 0 [] OTHER -> 1]

MCStories == {Life, Race, End}

\* What the tables and the workers hold is of one story; only the race needs both workers,
\* and inserts of audit rows that fail, as nothing in this module reads those rows.
OneStory ==
    \E story \in MCStories :
        /\ \A w \in Workers : worker[w] = Idle \/ worker[w].ix \in story
        /\ \A n \in Node : cl_items[n] = Null \/ cl_items[n] \in story
        /\ cl_audits \subseteq story /\ committed \subseteq story
        /\ \/ story = Race
           \/ /\ \E w \in Workers : \A v \in Workers \ {w} : worker[v] = Idle
              /\ \A w \in Workers : worker[w].pc = "find" => worker[w].ix \in cl_audits

\* One story at a time.
StorySpec == Init /\ [][Next /\ OneStory']_vars

MCSymmetry == Permutations(Workers)
=============================================================================
