---------------------------- MODULE MCPriceAlerts ----------------------------
(***************************************************************************)
(* TLC instance of PriceAlerts: one user, one symbol, prices high and low;  *)
(* a1 and a2 ask for the same (above), a3 for the opposite (below).         *)
(***************************************************************************)
EXTENDS PriceAlerts

CONSTANTS a1, a2, a3, hi, lo, u1, s1, reader

MCUserOf == [a \in Alerts |-> u1]
MCSymbolOf == [a \in Alerts |-> s1]
MCMeets == [a \in Alerts |-> IF a = a3 THEN {lo} ELSE {hi}]
MCReaderUser == [r \in Readers |-> u1]
==============================================================================
