---------------------------- MODULE MCCursorFile ----------------------------
(* An instance of CursorFile for TLC: two savers. *)
EXTENDS CursorFile, TLC

\* Inodes have no identity.
MCSymmetry == Permutations(Inodes)
=============================================================================
