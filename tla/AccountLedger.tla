----------------------------- MODULE AccountLedger -----------------------------
(***************************************************************************)
(* What the trading book promises about money (docs/architecture/           *)
(* FINANCIAL_INVARIANTS.md 6, 7 and 15), with nothing about orders, events  *)
(* or venues: an execution is booked at most once, and booking it moves     *)
(* cash and the position together by exactly that execution's amounts; the  *)
(* only other movement of cash is a settled transfer.                       *)
(***************************************************************************)
EXTENDS Integers

CONSTANTS
  Executions,   \* venue execution ids
  InstrumentOfExecution, \* Executions -> the instrument whose position moves
  CashOf,       \* Executions -> signed cash movement
  LotsOf,       \* Executions -> signed position movement
  TransferSizes, \* amounts of cash transfers
  OpeningCash, OpeningLots

VARIABLES booked, cash, lots

Init ==
  /\ booked = {}
  /\ cash = OpeningCash
  /\ lots = OpeningLots

BookExecution(x) ==
  LET i == InstrumentOfExecution[x]
  IN  /\ x \notin booked
      /\ booked' = booked \cup {x}
      /\ cash' = cash + CashOf[x]
      /\ lots' = [lots EXCEPT ![i] = @ + LotsOf[x]]
      /\ lots'[i] >= 0

SettleTransfer(a) ==
  /\ cash' = cash + a \/ (a <= cash /\ cash' = cash - a)
  /\ UNCHANGED <<booked, lots>>

Next ==
  \/ \E x \in Executions : BookExecution(x)
  \/ \E a \in TransferSizes : SettleTransfer(a)

Spec == Init /\ [][Next]_<<booked, cash, lots>>
================================================================================
