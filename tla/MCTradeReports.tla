--------------------------- MODULE MCTradeReports ---------------------------
(* The twin readings of the trades table, for a gold and a bitcoin chart. *)
EXTENDS TradeReports

MCProfits == {-1, 2}
=============================================================================
