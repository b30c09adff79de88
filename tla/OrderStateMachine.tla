--------------------------- MODULE OrderStateMachine ---------------------------
(***************************************************************************)
(* The canonical order state machine: src/core/orders/state-machine.ts and  *)
(* the state sets of src/core/orders/types.ts.  Pure operators, no state.   *)
(*                                                                          *)
(* planTransitions(current, eventType) returns a list of steps or throws    *)
(* InvalidTransitionError.  Here the exception is the predicate             *)
(* ~Plannable(current, type), and the list is PlanTransitions.              *)
(***************************************************************************)
EXTENDS Sequences

OpenStates ==
  {"PENDING_SUBMISSION", "ACKNOWLEDGED", "ACCEPTED", "PARTIALLY_FILLED", "CANCEL_PENDING"}

TerminalStates == {"FILLED", "CANCELLED", "REJECTED", "EXPIRED", "SUBMIT_FAILED"}

OrderStates == OpenStates \cup TerminalStates

FillTypes == {"ORDER_PARTIALLY_FILLED", "ORDER_FILLED"}

StatusTypes ==
  {"ORDER_ACKNOWLEDGED", "ORDER_ACCEPTED", "ORDER_CANCEL_PENDING", "ORDER_CANCELLED",
   "ORDER_REJECTED", "ORDER_EXPIRED", "ORDER_SUBMIT_FAILED"}

Unknown == "UNKNOWN_VENDOR_STATUS"

EventTypes == FillTypes \cup StatusTypes \cup {Unknown}

\* EVENT_TARGET: the state an event drives the order into.
EventTarget ==
  [ORDER_ACKNOWLEDGED     |-> "ACKNOWLEDGED",
   ORDER_ACCEPTED         |-> "ACCEPTED",
   ORDER_PARTIALLY_FILLED |-> "PARTIALLY_FILLED",
   ORDER_FILLED           |-> "FILLED",
   ORDER_CANCEL_PENDING   |-> "CANCEL_PENDING",
   ORDER_CANCELLED        |-> "CANCELLED",
   ORDER_REJECTED         |-> "REJECTED",
   ORDER_EXPIRED          |-> "EXPIRED",
   ORDER_SUBMIT_FAILED    |-> "SUBMIT_FAILED"]

\* Mutant: every edge is legal.
LegalAlways == [s \in OrderStates |-> OrderStates]

\* LEGAL: the direct edges.  A terminal state has none.
Legal ==
  [s \in OrderStates |->
     CASE s = "PENDING_SUBMISSION" ->
            {"ACKNOWLEDGED", "ACCEPTED", "PARTIALLY_FILLED", "FILLED", "REJECTED", "SUBMIT_FAILED"}
       [] s = "ACKNOWLEDGED" ->
            {"ACCEPTED", "PARTIALLY_FILLED", "FILLED", "CANCEL_PENDING", "CANCELLED", "REJECTED", "EXPIRED"}
       [] s = "ACCEPTED" ->
            {"PARTIALLY_FILLED", "FILLED", "CANCEL_PENDING", "CANCELLED", "REJECTED", "EXPIRED"}
       [] s = "PARTIALLY_FILLED" ->
            {"PARTIALLY_FILLED", "FILLED", "CANCEL_PENDING", "CANCELLED", "EXPIRED"}
       [] s = "CANCEL_PENDING" -> {"PARTIALLY_FILLED", "FILLED", "CANCELLED", "EXPIRED"}
       [] OTHER -> {}]

\* A non-fill event that targets the current state: audited, no transition.
IsEcho(current, type) == type \notin FillTypes /\ EventTarget[type] = current

\* A fill that overtook the acknowledgement: the acceptance is inferred first.
InfersAcceptance(current, type) ==
  type \in FillTypes /\ current \in {"PENDING_SUBMISSION", "ACKNOWLEDGED"}

\* Mutant: the terminal states of a cancel are not edges of CANCEL_PENDING.
PlannableUnlessCanceling(current, type) ==
  \/ type = Unknown
  \/ IsEcho(current, type)
  \/ InfersAcceptance(current, type)
  \/ EventTarget[type] \in Legal[current] /\ current # "CANCEL_PENDING"

\* planTransitions does not throw.
Plannable(current, type) ==
  \/ type = Unknown
  \/ IsEcho(current, type)
  \/ InfersAcceptance(current, type)
  \/ EventTarget[type] \in Legal[current]

\* The states the order goes through, in order.
PlanTransitions(current, type) ==
  IF type = Unknown \/ IsEcho(current, type) THEN <<>>
  ELSE IF InfersAcceptance(current, type) THEN <<"ACCEPTED", EventTarget[type]>>
  ELSE <<EventTarget[type]>>

\* The state applyTransition leaves the order in: the last planned step's.
FinalState(current, type) ==
  LET steps == PlanTransitions(current, type)
  IN  IF steps = <<>> THEN current ELSE steps[Len(steps)]
================================================================================
