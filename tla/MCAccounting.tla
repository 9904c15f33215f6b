---------------------------- MODULE MCAccounting ----------------------------
(***************************************************************************)
(* Accounting for TLC.  Two turns write at most four rows, so a list of    *)
(* two or three rows evicts, and two crashes give a turn of the first life *)
(* and one of the second the chance to meet in a third.                    *)
(***************************************************************************)
EXTENDS Accounting, TLC

Symmetry == Permutations(Turns)
=============================================================================
