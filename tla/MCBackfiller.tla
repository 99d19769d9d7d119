---------------------------- MODULE MCBackfiller ----------------------------
(* An instance of Backfiller for TLC. *)
EXTENDS Backfiller

MCSlotOf == [s \in 0..MaxTip |-> s]

Before == {"idle", "read", "plug", "delete"}

\* A database that fails now and then; blocks that are fetched at the second try; every
\* kind of fault; rows that come in between the statements of the clean-up; and nothing
\* that fails, with room for every row, which come in between the passes or up to the
\* reading of the rows, or at any time.
MCEnvironments ==
    {[faults |-> {"db"}, window |-> Before, tip |-> 3, rows |-> 4],
     [faults |-> {"getBlock"}, window |-> Before, tip |-> 2, rows |-> 4],
     [faults |-> Kinds, window |-> Before, tip |-> 2, rows |-> 3],
     [faults |-> {"getBlock", "outage"}, window |-> Pcs, tip |-> 2, rows |-> 3],
     [faults |-> {}, window |-> {"idle", "read"}, tip |-> 3, rows |-> 8],
     [faults |-> {}, window |-> Pcs, tip |-> 2, rows |-> 4]}
=============================================================================
