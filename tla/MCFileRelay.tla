----------------------------- MODULE MCFileRelay -----------------------------
(***************************************************************************)
(* Small instances of FileRelay for TLC.                                   *)
(***************************************************************************)
EXTENDS FileRelay, TLC

\* Nothing tells one place to start a relay from another.
RelaySymmetry == Permutations(Relays)
=============================================================================
