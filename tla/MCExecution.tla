----------------------------- MODULE MCExecution -----------------------------
(***************************************************************************)
(* TLC instance of Execution: buys of one lot per execution, all of them    *)
(* affordable.  Both executions belong to b1 unless b2 is traded too.       *)
(***************************************************************************)
EXTENDS Execution, TLC

CONSTANTS b1, b2, x1, x2, m1

MCInstrumentOf == [o \in Orders |-> m1]
MCOrderOf == [x \in Executions |-> IF x = x2 /\ b2 \in Orders THEN b2 ELSE b1]
MCTwoLots == [o \in Orders |-> 2]
MCQty == [o \in Orders |-> Cardinality({x \in Executions : MCOrderOf[x] = o})]
MCPrice == [o \in Orders |-> 200]
MCFillPrice == [x \in Executions |-> IF x = x1 THEN 200 ELSE 100]
MCOpeningLots == m1 :> 0
MCNull == -1

\* An order's tape: pending_new, new, pending_cancel, its executions, an end.
MCEnvelopes ==
  {<<"ulid", n>> : n \in 1..(4 * Cardinality(Orders) + Cardinality(Executions))}
    \cup {<<"recon", x>> : x \in Executions}
    \cup {<<"recon-status", o, s>> : o \in Orders, s \in VenueOpen \cup VenueDone}
    \cup {<<"recon-submit-failed", o>> : o \in Orders}
==============================================================================
