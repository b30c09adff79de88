------------------------------- MODULE Execution -------------------------------
(***************************************************************************)
(* The order pipeline around the trading book: the API's submit and cancel  *)
(* calls (ExecutionService, server/api/orders.ts), the worker's stream      *)
(* ingestion with its persisted cursor (worker/main.ts, the Alpaca          *)
(* adapter's subscribe), reconciliation passes (ReconciliationService), and *)
(* the venue as those use it.  Every transaction on the account is one of   *)
(* TradingBook's; this module says which events reach it, from where and in *)
(* which order, and what each caller still holds in memory in between.      *)
(*                                                                          *)
(* A fault is a lost request or answer, a failed read, a dropped            *)
(* connection or a process crash: at most MaxFaults of them happen.         *)
(* Exceptions the code itself throws are not faults and are not bounded.    *)
(***************************************************************************)
EXTENDS TradingBook, SequencesExt

CONSTANTS
  Passes,        \* reconciliation runs that may overlap: the worker's and the API's
  WorkerPass, ApiPass,
  Null,          \* no stream cursor: the stream starts with the next event
  InitialCursor, \* Null on a first deployment, else the position already consumed
  FirstStatuses, \* the statuses a received order starts with: pending_new, new
  ExpiryStatuses, \* the statuses its day ends with: expired, done_for_day
  ListLimit,     \* LIMIT of OrdersService.list (100)
  MaxFaults      \* bound on faults

ASSUME ExecutionAssumption ==
  /\ Passes \subseteq {WorkerPass, ApiPass}
  /\ InitialCursor \in {Null, 0} /\ Null \notin Nat
  /\ FirstStatuses \subseteq {"pending_new", "new"}
  /\ ExpiryStatuses \subseteq {"expired", "done_for_day"}
  /\ ListLimit \in Nat \ {0}
  /\ MaxFaults \in Nat

VARIABLES
  placed,   \* the order rows, oldest first (created_at)
  submit,   \* Orders -> progress of ExecutionService.submit
  cancel,   \* Orders -> progress of the API's cancel call
  vstatus,  \* Orders -> the venue's order status, or "none"
  tape,     \* the venue's trade events; an event's position is its ULID
  activities, \* the fill activities the venue lists for an order, oldest first
  worker,   \* the worker process: "down", "starting" (startup pass), "up"
  stream,   \* its connection: the next position, and whether the cursor write is due
  lastUlid, \* the adapter's in-memory cursor
  cursor,   \* stream_cursors.last_ulid
  pass,     \* Passes -> what a reconciliation run holds in memory
  faults    \* faults so far

venueVars == <<vstatus, tape, activities>>
streamVars == <<stream, lastUlid, cursor>>
pipelineVars == <<placed, submit, cancel, vstatus, tape, activities, worker, stream, lastUlid, cursor, pass, faults>>
execVars == <<vars, pipelineVars>>

VenueOpen == {"pending_new", "new", "partially_filled", "pending_cancel"}
VenueDone == {"filled", "canceled", "rejected", "expired", "done_for_day"}

\* submit: "posted"/"reposted" while a POST is out, "lookup" for the
\* reconcile-check, "aged" once PENDING_SUBMISSION_GRACE_MS have passed.
SubmitStates == {"none", "posted", "reposted", "lookup", "failing", "done", "aged"}

--------------------------------------------------------------------------------
(* Canonical events.                                                           *)

\* Mutant: a pending cancel reads as a cancel.
VendorStatusesEager ==
  [pending_new    |-> "ORDER_ACKNOWLEDGED",
   new            |-> "ORDER_ACCEPTED",
   partial_fill   |-> "ORDER_PARTIALLY_FILLED",
   fill           |-> "ORDER_FILLED",
   pending_cancel |-> "ORDER_CANCELLED",
   canceled       |-> "ORDER_CANCELLED",
   rejected       |-> "ORDER_REJECTED",
   expired        |-> "ORDER_EXPIRED",
   done_for_day   |-> "ORDER_EXPIRED"]

\* EVENT_MAP.  The order statuses "partially_filled" and "filled" have no entry.
VendorStatuses ==
  [pending_new    |-> "ORDER_ACKNOWLEDGED",
   new            |-> "ORDER_ACCEPTED",
   partial_fill   |-> "ORDER_PARTIALLY_FILLED",
   fill           |-> "ORDER_FILLED",
   pending_cancel |-> "ORDER_CANCEL_PENDING",
   canceled       |-> "ORDER_CANCELLED",
   rejected       |-> "ORDER_REJECTED",
   expired        |-> "ORDER_EXPIRED",
   done_for_day   |-> "ORDER_EXPIRED"]

Reported(o, vendorStatus) == [order |-> o, event |-> vendorStatus]
Executed(x, vendorStatus) == [order |-> OrderOf[x], event |-> vendorStatus, exec |-> x]

IsExecution(entry) == "exec" \in DOMAIN entry

\* translateTradeEvent for the event at position n of the tape.
StreamEvent(n) ==
  LET entry == tape[n]
      type == VendorStatuses[entry.event]
  IN  IF IsExecution(entry)
        THEN [exec |-> entry.exec, type |-> type, envelope |-> <<"ulid", n>>]
        ELSE [order |-> entry.order, type |-> type, envelope |-> <<"ulid", n>>]

\* The executions of o the venue has reported, oldest first.
VenueFills(o) == activities[o]

StatusEvent(o, status) ==
  IF status \in DOMAIN VendorStatuses
    THEN <<[order |-> o, type |-> VendorStatuses[status], envelope |-> <<"recon-status", o, status>>]>>
    ELSE <<>>

\* Mutant: no fill activities are read.
SnapshotEventsBlind(o, status, visible) == StatusEvent(o, status)

\* Mutant: the status is replayed before the executions.
SnapshotEventsStatusFirst(o, status, visible) ==
  StatusEvent(o, status) \o
    [k \in 1..Len(visible) |->
       [exec |-> visible[k], type |-> "ORDER_PARTIALLY_FILLED", envelope |-> <<"recon", visible[k]>>]]

\* eventsFromSnapshot: every visible execution, the last one final only if the
\* status read before says so, then the status itself if it maps to an event.
SnapshotEvents(o, status, visible) ==
  LET Final(k) == k = Len(visible) /\ status = "filled"
      executions == [k \in 1..Len(visible) |->
                       [exec |-> visible[k],
                        type |-> IF Final(k) THEN "ORDER_FILLED" ELSE "ORDER_PARTIALLY_FILLED",
                        envelope |-> <<"recon", visible[k]>>]]
  IN  executions \o StatusEvent(o, status)

SubmitFailedEvent(o) ==
  [order |-> o, type |-> "ORDER_SUBMIT_FAILED", envelope |-> <<"recon-submit-failed", o>>]

IsFill(e) == e.type \in FillTypes
Subject(e) == IF IsFill(e) THEN OrderOf[e.exec] ELSE e.order

\* onBrokerEvent commits without effect.
Duplicate(e) == e.envelope \in seen \/ (IsFill(e) /\ e.exec \in fills)

\* onBrokerEvent commits with effect: what remains throws and rolls back.
Accepted(e) ==
  LET o == Subject(e)
  IN  /\ state[o] # Absent
      /\ ~Duplicate(e)
      /\ \/ AuditOnly(o, e.type)
         \/ Allowed(o, e.type, IF IsFill(e) THEN filled[o] + 1 ELSE filled[o])
      /\ IsFill(e) => PositionCovers(e.exec)

Applied(e) == IF IsFill(e) THEN ApplyFill(e) ELSE ApplyStatus(e)

Throws(e) == ~Duplicate(e) /\ ~Accepted(e)

\* The event's transaction commits.
Deliver(e) == IF Duplicate(e) THEN UNCHANGED vars ELSE Applied(e)

--------------------------------------------------------------------------------
Idle == [at |-> "idle"]

ExecInit ==
  /\ Init
  /\ placed = <<>>
  /\ submit = [o \in Orders |-> "none"]
  /\ cancel = [o \in Orders |-> "none"]
  /\ vstatus = [o \in Orders |-> "none"]
  /\ tape = <<>>
  /\ activities = [o \in Orders |-> <<>>]
  /\ worker = "up"
  /\ stream = [next |-> Null, due |-> FALSE]
  /\ lastUlid = InitialCursor
  /\ cursor = InitialCursor
  /\ pass = [p \in Passes |-> Idle]
  /\ faults = 0

Fault == faults < MaxFaults /\ faults' = faults + 1

--------------------------------------------------------------------------------
(* The API: placeOrder and ExecutionService.submit.                            *)

PlaceOrder(o) ==
  /\ Place(o)
  /\ placed' = Append(placed, o)
  /\ UNCHANGED <<submit, cancel, venueVars, worker, streamVars, pass, faults>>

SubmitTo(o, next) ==
  /\ submit' = [submit EXCEPT ![o] = next]
  /\ UNCHANGED <<placed, cancel, venueVars, worker, streamVars, pass>>

\* The first transaction of submit: an order that has moved on is not sent.
StartSubmit(o) ==
  /\ submit[o] = "none"
  /\ state[o] # Absent
  /\ SubmitTo(o, IF state[o] = "PENDING_SUBMISSION" THEN "posted" ELSE "done")
  /\ UNCHANGED <<vars, faults>>

\* The answer (or the 409 of a duplicate client_order_id) reaches submit.
SubmitAnswered(o) ==
  /\ submit[o] \in {"posted", "reposted"}
  /\ vstatus[o] # "none"
  /\ SubmitTo(o, "done")
  /\ UNCHANGED <<vars, faults>>

\* The POST fails: one retry, then the reconcile-check.
PostFails(o) ==
  /\ submit[o] \in {"posted", "reposted"}
  /\ Fault
  /\ SubmitTo(o, IF submit[o] = "posted" THEN "reposted" ELSE "lookup")
  /\ UNCHANGED vars

\* getOrderByClientId: the venue has the order, so submit rethrows.
SubmitLookup(o) ==
  /\ submit[o] = "lookup"
  /\ SubmitTo(o, IF vstatus[o] = "none" THEN "failing" ELSE "done")
  /\ UNCHANGED <<vars, faults>>

\* .catch(() => null): a failed lookup reads as "the venue has no such order".
SubmitLookupFails(o) ==
  /\ submit[o] = "lookup"
  /\ Fault
  /\ SubmitTo(o, "failing")
  /\ UNCHANGED vars

\* Mutant: the state is written without a transition.
SubmitGivesUpBlindly(o) ==
  /\ submit[o] = "failing"
  /\ state' = [state EXCEPT ![o] = "SUBMIT_FAILED"]
  /\ UNCHANGED <<account, filled, reserved, attention, seen, fills, trades, transferred, cash, lots, holds>>
  /\ SubmitTo(o, "done")
  /\ UNCHANGED faults

\* The SUBMIT_FAILED transaction, or its rollback if the order has moved on.
SubmitGivesUp(o) ==
  /\ submit[o] = "failing"
  /\ IF AuditOnly(o, "ORDER_SUBMIT_FAILED") \/ Allowed(o, "ORDER_SUBMIT_FAILED", filled[o])
       THEN FailSubmission(o)
       ELSE UNCHANGED vars
  /\ SubmitTo(o, "done")
  /\ UNCHANGED faults

\* The API process dies between the placement's commit and the end of submit.
SubmitCrashes(o) ==
  /\ state[o] # Absent
  /\ submit[o] \notin {"done", "aged"}
  /\ Fault
  /\ SubmitTo(o, "done")
  /\ UNCHANGED vars

\* The grace period passes: longer than submit's requests, each aborted after 10 s.
GracePasses(o) ==
  /\ submit[o] = "done"
  /\ SubmitTo(o, "aged")
  /\ UNCHANGED <<vars, faults>>

--------------------------------------------------------------------------------
(* The API: cancelOrder.                                                       *)

CancelTo(o, next) ==
  /\ cancel' = [cancel EXCEPT ![o] = next]
  /\ UNCHANGED <<placed, submit, worker, streamVars>>

\* requestCancel commits the intent, or leaves a terminal or already cancelling
\* order as it is; the venue is asked either way.
CancelOrder(o) ==
  /\ cancel[o] = "none"
  /\ \/ RequestCancel(o)
     \/ state[o] \in TerminalStates \cup {"CANCEL_PENDING"} /\ UNCHANGED vars
  /\ CancelTo(o, "asked")
  /\ UNCHANGED <<venueVars, pass, faults>>

\* The venue's side of a DELETE: a working order becomes pending_cancel.
VenueCancels(o) ==
  /\ vstatus[o] \in VenueOpen \ {"pending_cancel"}
  /\ vstatus' = [vstatus EXCEPT ![o] = "pending_cancel"]
  /\ tape' = Append(tape, Reported(o, "pending_cancel"))
  /\ UNCHANGED activities

CancelAccepted(o) ==
  /\ cancel[o] = "asked"
  /\ VenueCancels(o) \/ (vstatus[o] = "pending_cancel" /\ UNCHANGED venueVars)
  /\ CancelTo(o, "none")
  /\ UNCHANGED <<vars, pass, faults>>

\* The venue refuses: the account is reconciled now.
CancelRefused(o) ==
  /\ cancel[o] = "asked"
  /\ vstatus[o] \in VenueDone \cup {"none"}
  /\ CancelTo(o, IF ApiPass \in Passes THEN "refused" ELSE "none")
  /\ UNCHANGED <<vars, venueVars, pass, faults>>

\* The request is lost, or the API process dies: the intent stays committed.
CancelLost(o) ==
  /\ cancel[o] # "none"
  /\ Fault
  /\ CancelTo(o, "none")
  /\ UNCHANGED <<vars, venueVars, pass>>

--------------------------------------------------------------------------------
(* The venue.                                                                  *)

Emit(o, status, entry) ==
  /\ vstatus' = [vstatus EXCEPT ![o] = status]
  /\ tape' = Append(tape, entry)
  /\ activities' = IF IsExecution(entry) THEN [activities EXCEPT ![o] = Append(@, entry.exec)]
                                         ELSE activities
  /\ UNCHANGED <<vars, placed, submit, cancel, worker, streamVars, pass, faults>>

\* A POST arrives: client_order_id is unique, so a second one changes nothing.
VenueReceives(o) ==
  /\ submit[o] \in {"posted", "reposted"}
  /\ vstatus[o] = "none"
  /\ \E status \in FirstStatuses : Emit(o, status, Reported(o, status))

VenueAccepts(o) ==
  /\ vstatus[o] = "pending_new"
  /\ Emit(o, "new", Reported(o, "new"))

VenueRejects(o) ==
  /\ vstatus[o] = "pending_new"
  /\ Emit(o, "rejected", Reported(o, "rejected"))

VenueFillsLot(x) ==
  LET o == OrderOf[x]
      done == Len(VenueFills(o)) + 1
  IN  /\ vstatus[o] \in {"new", "partially_filled", "pending_cancel"}
      /\ x \notin Range(VenueFills(o))
      /\ done <= Qty[o]
      /\ IF done = Qty[o]
           THEN Emit(o, "filled", Executed(x, "fill"))
           ELSE Emit(o, IF vstatus[o] = "pending_cancel" THEN "pending_cancel"
                                                         ELSE "partially_filled",
                     Executed(x, "partial_fill"))

VenueConfirmsCancel(o) ==
  /\ vstatus[o] = "pending_cancel"
  /\ Emit(o, "canceled", Reported(o, "canceled"))

\* Every order is a DAY order: nothing follows the end of its day.
VenueExpires(o) ==
  /\ vstatus[o] \in {"new", "partially_filled", "pending_cancel"}
  /\ \E status \in ExpiryStatuses : Emit(o, status, Reported(o, status))

--------------------------------------------------------------------------------
(* The worker's stream.                                                        *)

StreamStep(next) ==
  /\ stream' = next
  /\ UNCHANGED <<placed, submit, cancel, venueVars, worker, pass>>

\* (Re)connect: since_ulid if there is a cursor in memory, else live only.
Connect ==
  /\ worker = "up"
  /\ stream.next = Null
  /\ StreamStep([next |-> IF lastUlid = Null THEN Len(tape) + 1 ELSE lastUlid + 1, due |-> FALSE])
  /\ UNCHANGED <<vars, lastUlid, cursor, faults>>

\* Mutant: an exception is swallowed and the stream moves on.
ConsumeSwallowing ==
  /\ stream.next # Null
  /\ ~stream.due
  /\ stream.next <= Len(tape)
  /\ LET e == StreamEvent(stream.next)
     IN  IF Throws(e) THEN UNCHANGED vars ELSE Deliver(e)
  /\ StreamStep([stream EXCEPT !.due = TRUE])
  /\ UNCHANGED <<lastUlid, cursor, faults>>

\* onEvent applies the next event; an exception drops the connection.
Consume ==
  /\ stream.next # Null
  /\ ~stream.due
  /\ stream.next <= Len(tape)
  /\ LET e == StreamEvent(stream.next)
     IN  IF Throws(e)
           THEN StreamStep([next |-> Null, due |-> FALSE]) /\ UNCHANGED vars
           ELSE StreamStep([stream EXCEPT !.due = TRUE]) /\ Deliver(e)
  /\ UNCHANGED <<lastUlid, cursor, faults>>

\* Mutant: the cursor is one event ahead.
SaveCursorAhead ==
  /\ stream.due
  /\ cursor' = stream.next + 1
  /\ lastUlid' = stream.next + 1
  /\ StreamStep([next |-> stream.next + 1, due |-> FALSE])
  /\ UNCHANGED <<vars, faults>>

\* The cursor write, a transaction of its own; then the adapter moves on.
SaveCursor ==
  /\ stream.due
  /\ cursor' = stream.next
  /\ lastUlid' = stream.next
  /\ StreamStep([next |-> stream.next + 1, due |-> FALSE])
  /\ UNCHANGED <<vars, faults>>

\* The connection drops, or the cursor write fails.
Disconnect ==
  /\ stream.next # Null
  /\ Fault
  /\ StreamStep([next |-> Null, due |-> FALSE])
  /\ UNCHANGED <<vars, lastUlid, cursor>>

WorkerCrashes ==
  /\ worker # "down"
  /\ Fault
  /\ worker' = "down"
  /\ stream' = [next |-> Null, due |-> FALSE]
  /\ lastUlid' = Null
  /\ pass' = [p \in Passes |-> IF p = WorkerPass THEN Idle ELSE pass[p]]
  /\ UNCHANGED <<vars, placed, submit, cancel, venueVars, cursor>>

\* startIngestion, after the startup pass has ended one way or the other.
StartIngestion ==
  /\ worker = "starting"
  /\ pass[WorkerPass] = Idle
  /\ worker' = "up"
  /\ lastUlid' = cursor
  /\ UNCHANGED <<vars, placed, submit, cancel, venueVars, stream, cursor, pass, faults>>

--------------------------------------------------------------------------------
(* Reconciliation.                                                             *)

PassStep(p, next) ==
  /\ pass' = [pass EXCEPT ![p] = next]
  /\ UNCHANGED <<placed, submit, streamVars>>

Listed(o) == [order |-> o, state |-> state[o]]

PlacedAfter(o, p) == \E m, n \in DOMAIN placed : placed[m] = p /\ placed[n] = o /\ m < n

\* OrdersService.list: open orders, newest first, at most ListLimit.
OpenLists ==
  {[k \in 1..(IF Len(open) <= ListLimit THEN Len(open) ELSE ListLimit) |-> Listed(open[k])] :
     open \in {s \in SetToSeqs(OpenOrders) : \A i, j \in DOMAIN s : i < j => PlacedAfter(s[i], s[j])}}

\* The run turns to the first order of todo, or ends.
NextOrder(todo) == IF todo = <<>> THEN Idle ELSE [at |-> "order", todo |-> todo]

\* reconcileAccount lists the open orders: on startup, on POST /reconcile, or
\* after a refused cancel.
StartPass(p) ==
  /\ pass[p] = Idle
  /\ \/ p = WorkerPass /\ worker = "up" /\ account = "ACTIVE" /\ UNCHANGED <<worker, cancel>>
     \/ p = WorkerPass /\ worker = "down" /\ worker' = "starting" /\ UNCHANGED cancel
     \/ /\ p = ApiPass
        /\ \E o \in Orders : cancel[o] = "refused" /\ cancel' = [cancel EXCEPT ![o] = "none"]
        /\ UNCHANGED worker
  /\ \E list \in OpenLists : PassStep(p, NextOrder(list))
  /\ UNCHANGED <<vars, venueVars, faults>>

\* Mutant: only acknowledged orders are checked.
GraceOverAcknowledged(listed) == listed.state = "ACKNOWLEDGED" /\ submit[listed.order] = "aged"

\* The venue has no such order: PENDING_SUBMISSION past the grace has failed.
GraceOver(listed) == listed.state = "PENDING_SUBMISSION" /\ submit[listed.order] = "aged"

\* getOrderByClientId, first read: the order and its filled quantity.
ReadOrder(p) ==
  /\ pass[p].at = "order"
  /\ LET listed == Head(pass[p].todo)
         o == listed.order
         With(at, events) == [at |-> at, todo |-> pass[p].todo, status |-> vstatus[o], events |-> events]
     IN  PassStep(p,
           IF vstatus[o] = "none"
             THEN IF GraceOver(listed) THEN With("apply", <<SubmitFailedEvent(o)>>)
                                       ELSE NextOrder(Tail(pass[p].todo))
           ELSE IF VenueFills(o) # <<>> THEN With("fills", <<>>)
           ELSE With("apply", SnapshotEvents(o, vstatus[o], <<>>)))
  /\ UNCHANGED <<vars, cancel, venueVars, worker, faults>>

\* Second read: the fill activities, later than the status.
ReadFills(p) ==
  /\ pass[p].at = "fills"
  /\ LET o == Head(pass[p].todo).order
     IN  PassStep(p, [pass[p] EXCEPT !.at = "apply",
                                     !.events = SnapshotEvents(o, pass[p].status, VenueFills(o))])
  /\ UNCHANGED <<vars, cancel, venueVars, worker, faults>>

\* Pre-cancel statuses do not follow a cancel intent known when listing.
Skipped(p, e) ==
  /\ Head(pass[p].todo).state = "CANCEL_PENDING"
  /\ e.type \in {"ORDER_ACKNOWLEDGED", "ORDER_ACCEPTED"}

\* One event of the replay; an exception ends the run with status ERROR.
Replay(p) ==
  /\ pass[p].at = "apply"
  /\ pass[p].events # <<>>
  /\ LET e == Head(pass[p].events)
         rest == [pass[p] EXCEPT !.events = Tail(@)]
     IN  IF Skipped(p, e) THEN PassStep(p, rest) /\ UNCHANGED vars
         ELSE IF Throws(e) THEN PassStep(p, Idle) /\ UNCHANGED vars
         ELSE PassStep(p, rest) /\ Deliver(e)
  /\ UNCHANGED <<cancel, venueVars, worker, faults>>

Replayed(p) == pass[p].at = "apply" /\ pass[p].events = <<>>

\* Mutant: a cancel intent is never seen as stuck.
StuckCancelNever(p) == FALSE

StuckCancel(p) ==
  LET listed == Head(pass[p].todo)
  IN  listed.state = "CANCEL_PENDING" /\ state[listed.order] = "CANCEL_PENDING"

\* resendCancelIfStuck, past the threshold: ask again, whatever the answer.
ResendCancel(p) ==
  /\ Replayed(p)
  /\ StuckCancel(p)
  /\ LET o == Head(pass[p].todo).order
     IN  VenueCancels(o) \/ (vstatus[o] \notin VenueOpen \ {"pending_cancel"} /\ UNCHANGED venueVars)
  /\ PassStep(p, NextOrder(Tail(pass[p].todo)))
  /\ UNCHANGED <<vars, cancel, worker, faults>>

\* Nothing to resend, or not yet.
FinishOrder(p) ==
  /\ Replayed(p)
  /\ PassStep(p, NextOrder(Tail(pass[p].todo)))
  /\ UNCHANGED <<vars, cancel, venueVars, worker, faults>>

\* A read of the venue fails, or its fill activities lag behind the status
\* (IncompleteFillsError), or the API process dies: the run ends.
PassFails(p) ==
  /\ pass[p] # Idle
  /\ Fault
  /\ PassStep(p, Idle)
  /\ UNCHANGED <<vars, cancel, venueVars, worker>>

--------------------------------------------------------------------------------
Api ==
  \E o \in Orders :
    \/ PlaceOrder(o) \/ StartSubmit(o) \/ SubmitAnswered(o) \/ PostFails(o)
    \/ SubmitLookup(o) \/ SubmitLookupFails(o) \/ SubmitGivesUp(o) \/ SubmitCrashes(o)
    \/ GracePasses(o) \/ CancelOrder(o) \/ CancelAccepted(o) \/ CancelRefused(o) \/ CancelLost(o)

Venue ==
  \/ \E o \in Orders : \/ VenueReceives(o) \/ VenueAccepts(o) \/ VenueRejects(o)
                       \/ VenueConfirmsCancel(o) \/ VenueExpires(o)
  \/ \E x \in Executions : VenueFillsLot(x)

Worker == Connect \/ Consume \/ SaveCursor \/ Disconnect \/ WorkerCrashes \/ StartIngestion

Reconcile ==
  \E p \in Passes : \/ StartPass(p) \/ ReadOrder(p) \/ ReadFills(p) \/ Replay(p)
                    \/ ResendCancel(p) \/ FinishOrder(p) \/ PassFails(p)

ExecNext == Api \/ Venue \/ Worker \/ Reconcile

ExecSpec == ExecInit /\ [][ExecNext]_execVars

(***************************************************************************)
(* Fairness.  The worker process is restarted, its stream reconnects with   *)
(* backoff, and a schedule starts a pass every ten minutes; a pass that is  *)
(* running proceeds.  The API finishes a submit it began unless it crashes  *)
(* (a fault), and time passes: a grace period or a resend threshold ends.   *)
(* The venue processes what reaches it.  Nobody is obliged to place or      *)
(* cancel, and the venue owes an order neither an execution nor an end.     *)
(***************************************************************************)
SubmitProceeds(o) ==
  \/ StartSubmit(o) \/ SubmitAnswered(o) \/ SubmitLookup(o) \/ SubmitGivesUp(o)
  \/ GracePasses(o)

VenueProceeds(o) ==
  VenueReceives(o) \/ VenueAccepts(o) \/ CancelAccepted(o) \/ CancelRefused(o)

PassProceeds(p) ==
  StartPass(p) \/ ReadOrder(p) \/ ReadFills(p) \/ Replay(p) \/ FinishOrder(p)

Fairness ==
  /\ \A o \in Orders : WF_execVars(SubmitProceeds(o)) /\ WF_execVars(VenueProceeds(o))
  /\ WF_execVars(Connect \/ Consume \/ SaveCursor \/ StartIngestion)
  /\ \A p \in Passes : WF_execVars(PassProceeds(p)) /\ SF_execVars(ResendCancel(p))

FairSpec == ExecSpec /\ Fairness

--------------------------------------------------------------------------------
ExecTypeOK ==
  /\ placed \in BoundedSeq(Orders, Cardinality(Orders))
  /\ submit \in [Orders -> SubmitStates]
  /\ cancel \in [Orders -> {"none", "asked", "refused"}]
  /\ vstatus \in [Orders -> VenueOpen \cup VenueDone \cup {"none"}]
  /\ \A o \in Orders : ToSet(activities[o]) \subseteq {x \in Executions : OrderOf[x] = o}
  /\ worker \in {"down", "starting", "up"}
  /\ {lastUlid, cursor} \subseteq {Null} \cup 0..Len(tape)
  /\ stream.next \in {Null} \cup 1..(Len(tape) + 1)
  /\ stream.due \in BOOLEAN
  /\ \A p \in Passes : pass[p] = Idle \/ pass[p].at \in {"order", "fills", "apply"}
  /\ faults \in 0..MaxFaults

(***************************************************************************)
(* Canonical events are the only input of the book (execution.ts header):   *)
(* whatever the API, the stream and overlapping passes do, each step is one *)
(* of the book's transactions or leaves it alone.                           *)
(***************************************************************************)
ImplementsBook == Init /\ [][UNCHANGED vars \/ Next]_vars

\* The venue order statuses each terminal state claims.
VenueOutcome ==
  [FILLED |-> {"filled"}, CANCELLED |-> {"canceled"}, REJECTED |-> {"rejected"},
   EXPIRED |-> {"expired", "done_for_day"}]

(***************************************************************************)
(* The venue decides: an order is never terminal locally, other than by     *)
(* SUBMIT_FAILED, before the venue ended it and with the venue's outcome,   *)
(* whichever of stream and overlapping passes delivered it.                 *)
(***************************************************************************)
VenueDecides ==
  \A o \in Orders :
    state[o] \in DOMAIN VenueOutcome => vstatus[o] \in VenueOutcome[state[o]]

Consumed(n) == StreamEvent(n).envelope \in seen \/ (IsFill(StreamEvent(n)) /\ StreamEvent(n).exec \in fills)

(***************************************************************************)
(* The persisted cursor never passes an event that was not applied: a       *)
(* crash between the two transactions redelivers, it never loses.           *)
(***************************************************************************)
CursorNeverSkips ==
  InitialCursor # Null => \A n \in 1..cursor : Consumed(n)

(***************************************************************************)
(* With a cursor from before the order, an execution arrives late (booked   *)
(* without moving filled_qty) only for an order declared SUBMIT_FAILED: no  *)
(* interleaving of stream and passes makes another terminal order miss one. *)
(***************************************************************************)
LateOnlyAfterFalseFailure ==
  InitialCursor # Null => \A o \in LateFilled : state[o] = "SUBMIT_FAILED"

(***************************************************************************)
(* Missed fills import: every execution of the venue is eventually booked,  *)
(* through lost answers, dropped connections and crashes.                   *)
(***************************************************************************)
EveryExecutionBooked ==
  \A x \in Executions : (x \in Range(VenueFills(OrderOf[x]))) ~> (x \in fills)

(***************************************************************************)
(* An order the venue ended is eventually terminal locally, or completely   *)
(* filled.                                                                  *)
(***************************************************************************)
OrderSettles ==
  \A o \in Orders :
    (vstatus[o] \in VenueDone) ~> (state[o] \in TerminalStates \/ filled[o] = Qty[o])

(***************************************************************************)
(* No order dangles in PENDING_SUBMISSION, wherever submit was cut off.     *)
(***************************************************************************)
SubmissionResolves ==
  \A o \in Orders : (state[o] = "PENDING_SUBMISSION") ~> (state[o] # "PENDING_SUBMISSION")

(***************************************************************************)
(* A committed cancel intent reaches the venue, or stops being one.         *)
(***************************************************************************)
CancelReachesVenue ==
  \A o \in Orders :
    (state[o] = "CANCEL_PENDING")
      ~> (state[o] # "CANCEL_PENDING" \/ vstatus[o] \in VenueDone \cup {"pending_cancel"})

(***************************************************************************)
(* What the user asked for is not forgotten by a lost request or a crash:   *)
(* a placement and a cancellation both reach the venue or stop being open.  *)
(***************************************************************************)
IntentsReachVenue == SubmissionResolves /\ CancelReachesVenue

--------------------------------------------------------------------------------
(* What the repository says of this pipeline, and the code does not do.        *)

(***************************************************************************)
(* SUBMIT_FAILED: "delivery failed AND reconciliation confirmed the venue   *)
(* never received it" (docs/architecture/EXECUTION.md, state table).        *)
(***************************************************************************)
SubmitFailedMeansAbsent ==
  \A o \in Orders : state[o] = "SUBMIT_FAILED" => vstatus[o] = "none"

(***************************************************************************)
(* "or filledQty drifts from fills/cash/positions": the exactly-once gate   *)
(* of onBrokerEvent is there to prevent that (execution.ts).                *)
(***************************************************************************)
FilledQtyMatchesFills == LateFilled = {}

(***************************************************************************)
(* "stale states converge" (reconciliation.ts): an order the venue ended    *)
(* is eventually terminal locally.                                          *)
(***************************************************************************)
StaleStatesConverge ==
  \A o \in Orders : (vstatus[o] \in VenueDone) ~> (state[o] \in TerminalStates)

(***************************************************************************)
(* "Fills and terminal outcomes always apply" while CANCEL_PENDING          *)
(* (reconciliation.ts): the venue's rejection is a terminal outcome.        *)
(***************************************************************************)
CancellingOrderSettles ==
  \A o \in Orders :
    (state[o] = "CANCEL_PENDING" /\ vstatus[o] = "rejected") ~> (state[o] # "CANCEL_PENDING")

(***************************************************************************)
(* "For every local non-terminal order it fetches venue truth"              *)
(* (reconciliation.ts): a run starts from every open order.                 *)
(***************************************************************************)
PassListsEveryOpenOrder ==
  [][\A p \in Passes :
       pass[p] = Idle /\ pass'[p] # Idle =>
         {pass'[p].todo[k].order : k \in DOMAIN pass'[p].todo} = OpenOrders]_execVars
================================================================================
