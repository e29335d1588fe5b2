--------------------------- MODULE MCCommandRail ---------------------------
(***************************************************************************)
(* Small instances of CommandRail for TLC.                                 *)
(***************************************************************************)
EXTENDS CommandRail, TLC

\* The charts are interchangeable: nothing in the rail tells one from another.
ChartSymmetry == Permutations(Symbols)
=============================================================================
