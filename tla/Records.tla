------------------------------ MODULE Records ------------------------------
(***************************************************************************)
(* What the service keeps of the market and of the trades: the file of its *)
(* data base, its candles, and the bands of the baskets.  The three share  *)
(* no state: together they are StoreSpec /\ CandlesSpec /\ BandsSpec.      *)
(***************************************************************************)
EXTENDS Store, Candles, Bands

\* A start that succeeds serves what the file holds: the schema it needs, but for a
\* statement that failed and is not to be tried again; current statistics; candles
\* of which memory, table and dashboard agree, but for the overlays of the recent
\* series while the table lacks a bar of its window; and a band that is the same
\* pushed and asked for, with the target of its own first leg, or of the basket that
\* closed last when none is open.
ServesTheFile ==
    /\ StartedIsComplete /\ StatsAreFresh /\ CandlesAgree
    /\ StreamAgrees /\ TargetIsOwn /\ ClosedIsTheLast
=============================================================================
