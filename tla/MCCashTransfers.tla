--------------------------- MODULE MCCashTransfers ---------------------------
(***************************************************************************)
(* TLC instance of CashTransfers: two transfers of two dollars on an        *)
(* account of four, and at most one buy of one lot at three.                *)
(***************************************************************************)
EXTENDS CashTransfers, TLC

CONSTANTS t1, t2, b1, x1, m1

MCAmount == [t \in Transfers |-> 2]
MCInstrumentOf == [o \in Orders |-> m1]
MCQty == [o \in Orders |-> 1]
MCPrice == [o \in Orders |-> 300]
MCOrderOf == [x \in Executions |-> b1]
MCFillPrice == [x \in Executions |-> 300]
MCOpeningLots == m1 :> 0

\* Three withdrawals that look alike, each requested when the previous one's call
\* was lost, and no pass before the last is past its grace period.
LostInTurn ==
  LET rows == InState(TransferStates) IN
  /\ \A t \in rows : call[t].at \in {"posted", "lost"} /\ venue[t].state # "FAILED"
                     /\ (now > row[t].created => venue[t].created = row[t].created)
  /\ \A n \in 0..LastRequest : now > n => \E t \in rows : row[t].created = n
  /\ \A p \in Syncs : sync[p] # Ready => now > LastRequest + Grace
===============================================================================
