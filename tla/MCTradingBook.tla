---------------------------- MODULE MCTradingBook ----------------------------
(***************************************************************************)
(* TLC instance of TradingBook: a limit buy of three lots at one and a half *)
(* cents, a market buy of one lot, which the cash covers one at a time, and *)
(* a sell of the lot held at the start.  The third lot of b1 is never       *)
(* executed; its first two cost two cents each, and its reservation of four *)
(* is rounded once up and once to either side.                              *)
(***************************************************************************)
EXTENDS TradingBook, TLC

CONSTANTS b1, b2, s1, x1, x2, y1, z1, m1, v1, v2, v3, v4

MCInstrumentOf == [o \in Orders |-> m1]
MCQty == [o \in Orders |-> IF o = b1 THEN 3 ELSE 1]
MCPrice == [o \in Orders |-> IF o = b1 THEN 150 ELSE 200]
MCOrderOf == x1 :> b1 @@ x2 :> b1 @@ y1 :> b2 @@ z1 :> s1
MCFillPrice == x1 :> 150 @@ x2 :> 150 @@ y1 :> 200 @@ z1 :> 200
MCOpeningLots == m1 :> 1

\* No action tells one envelope from another.
AnyEnvelope == Permutations(Envelopes)
==============================================================================
