--------------------------- MODULE MCCloseReports ---------------------------
(***************************************************************************)
(* Small instances of CloseReports for TLC.                                *)
(***************************************************************************)
EXTENDS CloseReports
=============================================================================
