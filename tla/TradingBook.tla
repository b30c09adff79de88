------------------------------ MODULE TradingBook ------------------------------
(***************************************************************************)
(* One paper account's execution-derived state and every transaction that   *)
(* changes it: OrdersService (place, applyTransition, requestCancel),       *)
(* ExecutionService.onBrokerEvent with its fill effects, the local          *)
(* SUBMIT_FAILED transition, and the two transactions of other components   *)
(* that move this account's cash or status (cash transfers, reset).         *)
(*                                                                          *)
(* Each action is one committed Postgres transaction.  The account row lock *)
(* serializes placements, broker events, transfers and archiving; the two   *)
(* transactions that lock only the order row (requestCancel, SUBMIT_FAILED) *)
(* write nothing but that row.  A transaction that throws rolls back, so it *)
(* is a stutter and has no action: its guard is what the code requires.     *)
(*                                                                          *)
(* The venue is arbitrary here: OnBrokerEvent accepts any event about any   *)
(* order, in any order, any number of times.  Execution.tla restricts the   *)
(* events to those a real venue, its stream and reconciliation deliver.     *)
(*                                                                          *)
(* Data: an execution covers one lot and Qty counts lots.  Prices are in    *)
(* ten-thousandths of a dollar, cash and reservations in cents, and what    *)
(* lies between is rounded as Money rounds it.                              *)
(***************************************************************************)
EXTENDS OrderStateMachine, Money, FiniteSets, Functions

CONSTANTS
  Orders,        \* (account, idempotency key) pairs: at most one order row each
  BuyOrders,     \* the orders with side BUY; the others are SELL
  MarketOrders,  \* the orders of type MARKET; the others are LIMIT
  Instruments,   \* the instruments traded
  InstrumentOf,  \* Orders -> Instruments
  Qty,           \* Orders -> lots ordered
  Price,         \* Orders -> limit price, or reference price, of a lot
  MarketBuyBuffer, \* what a market buy reserves beyond its reference price, in ten-thousandths
  Executions,    \* venue execution ids
  OrderOf,       \* Executions -> the order executed
  FillPrice,     \* Executions -> price of the lot
  Fee,           \* commission per execution, in cents
  Envelopes,     \* external event ids: stream ULIDs and synthesized recon-* ids
  OpeningCash,   \* the opening DEPOSIT
  OpeningLots,   \* Instruments -> lots held at the start
  TransferSizes, \* amounts of cash transfers
  CashBound      \* bound: deposits stop at this cash balance

ASSUME BookAssumption ==
  /\ BuyOrders \subseteq Orders
  /\ MarketOrders \subseteq Orders
  /\ InstrumentOf \in [Orders -> Instruments]
  /\ Qty \in [Orders -> Nat \ {0}]
  /\ Price \in [Orders -> Nat \ {0}]
  /\ MarketBuyBuffer \in Nat
  /\ IsFiniteSet(Executions)
  /\ OrderOf \in [Executions -> Orders]
  /\ FillPrice \in [Executions -> Nat \ {0}]
  /\ Fee \in Nat
  /\ OpeningCash \in Nat
  /\ OpeningLots \in [Instruments -> Nat]
  /\ TransferSizes \subseteq Nat \ {0}
  /\ CashBound \in Nat

Absent == "ABSENT"   \* no order row (yet)

VARIABLES
  account,     \* accounts.status
  state,       \* orders.state, or Absent
  filled,      \* orders.filled_qty
  reserved,    \* orders.reserved_cash
  attention,   \* orders.needs_attention
  seen,        \* order_events.external_event_id values recorded
  fills,       \* fills.execution_id values recorded
  trades,      \* ledger: how many TRADE entries refer to each execution
  transferred, \* ledger: sum of the CASH_TRANSFER entries
  cash,        \* accounts.cash_balance, the cached projection
  lots,        \* positions.qty per instrument
  holds        \* sum of the PENDING withdrawals (cash_transfers)

vars == <<account, state, filled, reserved, attention, seen, fills, trades,
          transferred, cash, lots, holds>>

\* Canonical broker events: a fill carries its execution, and with it its order.
StatusEvents == [order: Orders, type: StatusTypes \cup {Unknown}, envelope: Envelopes]
FillEvents == [exec: Executions, type: FillTypes, envelope: Envelopes]

--------------------------------------------------------------------------------
(* What the placement transaction reads.                                       *)

OpenOrders == {o \in Orders : state[o] \in OpenStates}

BuyReservations == SumFunctionOnSet(reserved, OpenOrders \cap BuyOrders)

OpenSells(i) == {o \in OpenOrders \ BuyOrders : InstrumentOf[o] = i}

SellRemainders(i) == SumFunctionOnSet([o \in Orders |-> Qty[o] - filled[o]], OpenSells(i))

\* Mutant: pending withdrawals do not hold their cash.
BuyingPowerWithoutHolds == cash - BuyReservations

BuyingPower == cash - BuyReservations - holds

\* What a buy of so many lots at the price of o is held to cost.
CostOf(o, n) ==
  IF o \in MarketOrders THEN ReserveWithBuffer(Price[o], n, MarketBuyBuffer)
                        ELSE Notional(Price[o], n)

BuyReservation(o) == CostOf(o, Qty[o])

\* Mutant: sells are not checked.
CoversPlacementOfBuys(o) == o \in BuyOrders => BuyReservation(o) <= BuyingPower

CoversPlacement(o) ==
  IF o \in BuyOrders
    THEN BuyReservation(o) <= BuyingPower
    ELSE Qty[o] <= lots[InstrumentOf[o]] - SellRemainders(InstrumentOf[o])

\* Mutant: a partial fill keeps the whole reservation.
NextReservationUnscaled(o, nextState, newFilled) ==
  IF o \notin BuyOrders \/ nextState \notin OpenStates THEN {0} ELSE {reserved[o]}

\* The cents nearest to n / d.  A tie goes to the even cent, except that the
\* code multiplies a quotient already cut to 40 digits, which may have moved
\* the product off the tie to either side: both cents are allowed then.
NearestCents(n, d) ==
  {c \in {n \div d, n \div d + 1} : 2 * (d * c - n) <= d /\ 2 * (n - d * c) <= d}

\* Reservation maintenance: zero for a SELL and outside the open states,
\* unchanged before the first fill, else the previous reservation scaled to
\* the unfilled remainder and rounded to cents.
NextReservation(o, nextState, newFilled) ==
  IF o \notin BuyOrders \/ nextState \notin OpenStates THEN {0}
  ELSE IF newFilled = 0 THEN {reserved[o]}
  ELSE IF newFilled = Qty[o] THEN {0}
  ELSE NearestCents(reserved[o] * (Qty[o] - newFilled), Qty[o] - filled[o])

--------------------------------------------------------------------------------
Init ==
  /\ account = "ACTIVE"
  /\ state = [o \in Orders |-> Absent]
  /\ filled = [o \in Orders |-> 0]
  /\ reserved = [o \in Orders |-> 0]
  /\ attention = [o \in Orders |-> FALSE]
  /\ seen = {}
  /\ fills = {}
  /\ trades = [x \in Executions |-> 0]
  /\ transferred = 0
  /\ cash = OpeningCash
  /\ lots = OpeningLots
  /\ holds = 0

\* OrdersService.place.  A key that already has a row is replayed: no change.
Place(o) ==
  /\ account = "ACTIVE"
  /\ state[o] = Absent
  /\ CoversPlacement(o)
  /\ state' = [state EXCEPT ![o] = "PENDING_SUBMISSION"]
  /\ reserved' = [reserved EXCEPT ![o] = IF o \in BuyOrders THEN BuyReservation(o) ELSE 0]
  /\ UNCHANGED <<account, filled, attention, seen, fills, trades, transferred, cash, lots, holds>>

\* Mutant: an incomplete final fill is accepted.
AllowedIncomplete(o, type, newFilled) ==
  Plannable(state[o], type) /\ newFilled <= Qty[o]

\* planTransitions and the two invariants of applyTransition do not throw.
Allowed(o, type, newFilled) ==
  /\ Plannable(state[o], type)
  /\ newFilled <= Qty[o]
  /\ FinalState(state[o], type) = "FILLED" => newFilled = Qty[o]

\* The order row after a transition that consumes newFilled lots in all.
Transition(o, type, newFilled) ==
  LET next == FinalState(state[o], type)
  IN  /\ Allowed(o, type, newFilled)
      /\ state' = [state EXCEPT ![o] = next]
      /\ filled' = [filled EXCEPT ![o] = newFilled]
      /\ \E r \in NextReservation(o, next, newFilled) : reserved' = [reserved EXCEPT ![o] = r]
      /\ UNCHANGED attention

\* An unknown vendor status, or an event a terminal state cannot follow: the
\* row is only flagged.
AuditOnly(o, type) == type = Unknown \/ (state[o] \in TerminalStates /\ ~Plannable(state[o], type))

\* Mutant: the row is not flagged.
FlagSilently(o) == UNCHANGED <<state, filled, reserved, attention>>

Flag(o) ==
  /\ attention' = [attention EXCEPT ![o] = TRUE]
  /\ UNCHANGED <<state, filled, reserved>>

FillCost(x) == Notional(FillPrice[x], 1)

CashDelta(x) == (IF OrderOf[x] \in BuyOrders THEN -FillCost(x) ELSE FillCost(x)) - Fee

LotsDelta(x) == IF OrderOf[x] \in BuyOrders THEN 1 ELSE -1

\* Executions are unique: the gate of onBrokerEvent and the fills table agree.
\* Mutant: stream and reconciliation name one execution differently.
NotYetBookedByEnvelope(x) == TRUE

NotYetBooked(x) == x \notin fills

\* applySellFill refuses to sell more than is held.
PositionCovers(x) == lots[InstrumentOf[OrderOf[x]]] + LotsDelta(x) >= 0

\* The ledger refuses an entry of nothing.
Postable(x) == FillCost(x) # 0

\* applyFillEffects: fills row, TRADE (and FEE) entry, projection, position.
Book(x) ==
  LET i == InstrumentOf[OrderOf[x]]
  IN  /\ NotYetBooked(x)
      /\ PositionCovers(x)
      /\ Postable(x)
      /\ fills' = fills \cup {x}
      /\ trades' = [trades EXCEPT ![x] = @ + 1]
      /\ cash' = cash + CashDelta(x)
      /\ lots' = [lots EXCEPT ![i] = @ + LotsDelta(x)]

\* applyTransition inserts the audit row before it plans nothing further.
Record(e) == e.envelope \notin seen /\ seen' = seen \cup {e.envelope}

\* Mutant: an event without a fill quantity resets filled_qty.
ApplyStatusResetting(e) ==
  /\ state[e.order] # Absent
  /\ Record(e)
  /\ IF AuditOnly(e.order, e.type) THEN Flag(e.order) ELSE Transition(e.order, e.type, 0)
  /\ UNCHANGED <<account, fills, trades, transferred, cash, lots, holds>>

\* onBrokerEvent for an event that carries no execution.
ApplyStatus(e) ==
  /\ state[e.order] # Absent
  /\ Record(e)
  /\ IF AuditOnly(e.order, e.type)
       THEN Flag(e.order)
       ELSE Transition(e.order, e.type, filled[e.order])
  /\ UNCHANGED <<account, fills, trades, transferred, cash, lots, holds>>

\* onBrokerEvent for a fill: the effects follow the audit-only branch too.
ApplyFill(e) ==
  LET o == OrderOf[e.exec]
  IN  /\ state[o] # Absent
      /\ NotYetBooked(e.exec)
      /\ Record(e)
      /\ IF AuditOnly(o, e.type)
           THEN Flag(o)
           ELSE Transition(o, e.type, filled[o] + 1)
      /\ Book(e.exec)
      /\ UNCHANGED <<account, transferred, holds>>

\* ExecutionService.submit, last resort: SUBMIT_FAILED without an envelope,
\* under the order lock alone.
FailSubmission(o) ==
  /\ state[o] # Absent
  /\ IF AuditOnly(o, "ORDER_SUBMIT_FAILED")
       THEN Flag(o)
       ELSE Transition(o, "ORDER_SUBMIT_FAILED", filled[o])
  /\ UNCHANGED <<account, seen, fills, trades, transferred, cash, lots, holds>>

\* OrdersService.requestCancel: the local cancel intent.
RequestCancel(o) ==
  /\ state[o] \in OpenStates \ {"PENDING_SUBMISSION", "CANCEL_PENDING"}
  /\ Transition(o, "ORDER_CANCEL_PENDING", filled[o])
  /\ UNCHANGED <<account, seen, fills, trades, transferred, cash, lots, holds>>

--------------------------------------------------------------------------------
(* Transactions of other components on this account, as far as the book sees   *)
(* them: core/cash-transfers and AccountService.archiveAndReprovision.         *)

\* A withdrawal request: at most the withdrawable cash, held while PENDING.
HoldWithdrawal(a) ==
  /\ account = "ACTIVE"
  /\ a <= BuyingPower
  /\ holds' = holds + a
  /\ UNCHANGED <<account, state, filled, reserved, attention, seen, fills, trades, transferred, cash, lots>>

\* Mutant: a hold is released again for a transfer that is already terminal.
ReleaseHoldAgain(a) ==
  /\ holds' = holds - a
  /\ UNCHANGED <<account, state, filled, reserved, attention, seen, fills, trades, transferred, cash, lots>>

\* The venue failed the withdrawal: the hold is released, nothing is posted.
ReleaseHold(a) ==
  /\ a <= holds
  /\ holds' = holds - a
  /\ UNCHANGED <<account, state, filled, reserved, attention, seen, fills, trades, transferred, cash, lots>>

\* Mutant: the cash is not checked again at settlement.
SettleWithdrawalUnchecked(a) ==
  /\ account = "ACTIVE"
  /\ a <= holds
  /\ holds' = holds - a
  /\ transferred' = transferred - a
  /\ cash' = cash - a
  /\ UNCHANGED <<account, state, filled, reserved, attention, seen, fills, trades, lots>>

\* settleLocked for a withdrawal: entry and projection together, hold released.
SettleWithdrawal(a) ==
  /\ account = "ACTIVE"
  /\ a <= holds
  /\ a <= cash
  /\ holds' = holds - a
  /\ transferred' = transferred - a
  /\ cash' = cash - a
  /\ UNCHANGED <<account, state, filled, reserved, attention, seen, fills, trades, lots>>

\* settleLocked for a deposit.
SettleDeposit(a) ==
  /\ account = "ACTIVE"
  /\ cash + a <= CashBound
  /\ transferred' = transferred + a
  /\ cash' = cash + a
  /\ UNCHANGED <<account, state, filled, reserved, attention, seen, fills, trades, lots, holds>>

\* archiveAndReprovision: the archive hook cancels the PENDING transfers.
ArchiveAccount ==
  /\ account = "ACTIVE"
  /\ account' = "ARCHIVED"
  /\ holds' = 0
  /\ UNCHANGED <<state, filled, reserved, attention, seen, fills, trades, transferred, cash, lots>>

Funds == \E a \in TransferSizes :
           HoldWithdrawal(a) \/ ReleaseHold(a) \/ SettleWithdrawal(a) \/ SettleDeposit(a)

Next ==
  \/ \E o \in Orders : Place(o) \/ RequestCancel(o) \/ FailSubmission(o)
  \/ \E e \in StatusEvents : ApplyStatus(e)
  \/ \E e \in FillEvents : ApplyFill(e)
  \/ Funds
  \/ ArchiveAccount

Spec == Init /\ [][Next]_vars

--------------------------------------------------------------------------------
TypeOK ==
  /\ account \in {"ACTIVE", "ARCHIVED"}
  /\ state \in [Orders -> OrderStates \cup {Absent}]
  /\ filled \in [Orders -> Nat]
  /\ reserved \in [Orders -> Nat]
  /\ attention \in [Orders -> BOOLEAN]
  /\ seen \subseteq Envelopes
  /\ fills \subseteq Executions
  /\ trades \in [Executions -> Nat]
  /\ transferred \in Int
  /\ cash \in Int
  /\ lots \in [Instruments -> Nat]
  /\ holds \in Nat

BookedFor(o) == {x \in fills : OrderOf[x] = o}

\* Orders for which an execution was booked without moving filled_qty.
LateFilled == {o \in Orders : filled[o] # Cardinality(BookedFor(o))}

(***************************************************************************)
(* Exactly-once booking (FINANCIAL_INVARIANTS 7, 10, 15): an execution has  *)
(* one TRADE entry if it has a fills row and none otherwise, whatever       *)
(* envelopes and duplicates delivered it.                                   *)
(***************************************************************************)
BookedExactlyOnce == \A x \in Executions : trades[x] = IF x \in fills THEN 1 ELSE 0

(***************************************************************************)
(* Fill accounting: filled_qty never overcounts the booked executions, and  *)
(* undercounts them only for an order that was already terminal when the    *)
(* execution arrived, which is then flagged needs_attention.                *)
(***************************************************************************)
FillAccounting ==
  \A o \in Orders :
    /\ filled[o] <= Qty[o]
    /\ filled[o] <= Cardinality(BookedFor(o))
    /\ filled[o] # Cardinality(BookedFor(o)) => attention[o]

(***************************************************************************)
(* A FILLED order is completely filled and reserves nothing; an order with  *)
(* no row has no executions (applyTransition's two invariants).             *)
(***************************************************************************)
FilledIsComplete ==
  \A o \in Orders :
    /\ state[o] = "FILLED" => filled[o] = Qty[o]
    /\ state[o] = Absent => BookedFor(o) = {} /\ filled[o] = 0

(***************************************************************************)
(* The three together: however often, in whatever order and under whatever  *)
(* envelopes an execution is reported, its order and the ledger count it    *)
(* once (FINANCIAL_INVARIANTS 7 and 8).                                     *)
(***************************************************************************)
FillsAddUp == BookedExactlyOnce /\ FillAccounting /\ FilledIsComplete

\* Rounding the whole order once is rounding each of its lots.
WholeCents(o) == BuyReservation(o) = Qty[o] * CostOf(o, 1)

(***************************************************************************)
(* Reservations follow the open orders (FINANCIAL_INVARIANTS 11): whatever  *)
(* path of partial fills and cancels an order took, it reserves nothing     *)
(* unless it is an open buy, and an open buy its placement's reservation    *)
(* less the filled lots' share of it, to within half a cent for each fill   *)
(* counted: to the cent when a lot costs whole cents, and nothing when all  *)
(* lots are filled.                                                         *)
(***************************************************************************)
ReservationsDerived ==
  \A o \in Orders :
    IF o \in BuyOrders /\ state[o] \in OpenStates
      THEN LET left == Qty[o] - filled[o]
           IN  /\ 2 * (reserved[o] * Qty[o] - BuyReservation(o) * left) <= filled[o] * Qty[o]
               /\ 2 * (BuyReservation(o) * left - reserved[o] * Qty[o]) <= filled[o] * Qty[o]
               /\ left = 0 => reserved[o] = 0
               /\ WholeCents(o) => reserved[o] = CostOf(o, 1) * left
      ELSE reserved[o] = 0

\* Executions of a buy cost at most a lot at its limit, those of a sell earn their fee.
WithinReservation ==
  \A x \in Executions :
    IF OrderOf[x] \in BuyOrders THEN FillCost(x) + Fee <= CostOf(OrderOf[x], 1)
                                 ELSE Fee <= FillCost(x)

\* The executions whose cost was rounded apart from their order's reservation.
RoundedApart == {x \in fills : OrderOf[x] \in BuyOrders /\ ~WholeCents(OrderOf[x])}

(***************************************************************************)
(* Buys, withdrawals and their fills never jointly exceed the cash          *)
(* (FINANCIAL_INVARIANTS 5 and 17) by more than the cent that rounding may  *)
(* cost at each execution of a buy whose lots are not whole cents, as long  *)
(* as fills respect the limit and no execution arrived after its order had  *)
(* released its reservation.                                                *)
(***************************************************************************)
NeverOverspent ==
  WithinReservation /\ LateFilled = {} =>
    holds + BuyReservations <= cash + Cardinality(RoundedApart)

(***************************************************************************)
(* The same to the cent, as FINANCIAL_INVARIANTS 17 states it.  It fails:   *)
(* the reservation is scaled and rounded apart from the cost of the fill.   *)
(***************************************************************************)
JointlyWithinCash ==
  WithinReservation /\ LateFilled = {} => holds + BuyReservations <= cash

(***************************************************************************)
(* Open sells are covered by held lots (FINANCIAL_INVARIANTS 3 and 4), with *)
(* the same proviso: so no legitimate sell fill can be refused for lack of  *)
(* a position.                                                              *)
(***************************************************************************)
SellsCovered ==
  LateFilled = {} => \A i \in Instruments : SellRemainders(i) <= lots[i]

(***************************************************************************)
(* Whatever fills, cancels, transfers and placements commit in between, what *)
(* is open can be paid for and delivered.                                   *)
(***************************************************************************)
OpenOrdersAreCovered == NeverOverspent /\ SellsCovered

(***************************************************************************)
(* No exit from a terminal state (FINANCIAL_INVARIANTS 2): neither the      *)
(* state nor the cumulative quantity of a terminal order changes.           *)
(***************************************************************************)
TerminalIsFinal ==
  [][\A o \in Orders : state[o] \in TerminalStates =>
       state'[o] = state[o] /\ filled'[o] = filled[o] /\ reserved'[o] = 0]_vars

(***************************************************************************)
(* An order's progress is monotone: filled_qty never goes down, and an      *)
(* order that has left PENDING_SUBMISSION, or the row itself, never goes    *)
(* back.                                                                    *)
(***************************************************************************)
ProgressIsMonotone ==
  [][\A o \in Orders :
       /\ filled'[o] >= filled[o]
       /\ state'[o] = Absent => state[o] = Absent
       /\ state'[o] = "PENDING_SUBMISSION" => state[o] \in {Absent, "PENDING_SUBMISSION"}]_vars

(***************************************************************************)
(* Both: no event, however late or repeated, takes an order backwards.      *)
(***************************************************************************)
OnlyForward == TerminalIsFinal /\ ProgressIsMonotone

(***************************************************************************)
(* The book implements the abstract ledger: an execution is booked when a   *)
(* TRADE entry refers to it, and every transaction either books exactly one *)
(* new execution with all its effects, settles one transfer, or moves no    *)
(* money at all (FINANCIAL_INVARIANTS 7, single transaction).               *)
(***************************************************************************)
Ledger == INSTANCE AccountLedger WITH
  booked <- {x \in Executions : trades[x] # 0},
  InstrumentOfExecution <- [x \in Executions |-> InstrumentOf[OrderOf[x]]],
  CashOf <- [x \in Executions |-> CashDelta(x)],
  LotsOf <- [x \in Executions |-> LotsDelta(x)]

ImplementsLedger == Ledger!Spec
================================================================================
