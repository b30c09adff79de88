--------------------------- MODULE TradingBookProofs ---------------------------
(***************************************************************************)
(* Theorems of TradingBook, for every set of orders, executions, envelopes  *)
(* and amounts, and for a venue that may deliver any event at any time.     *)
(* What an account's sums promise comes last: the cash is what the ledger's *)
(* entries add up to, and the open orders can be paid for and delivered.    *)
(***************************************************************************)
EXTENDS TradingBook, ArithmeticProofs


--------------------------------------------------------------------------------
(* The state machine.                                                          *)

LEMMA StatesDisjoint ==
  /\ Absent \notin OrderStates
  /\ OpenStates \cap TerminalStates = {}
BY DEF Absent, OrderStates, OpenStates, TerminalStates

\* A planned event leaves the order where it is, or in the event's target.
LEMMA FinalStateValue ==
  ASSUME NEW s \in OrderStates, NEW t \in EventTypes, Plannable(s, t)
  PROVE  \/ FinalState(s, t) = s /\ t \notin FillTypes
         \/ /\ t # Unknown
            /\ FinalState(s, t) = EventTarget[t]
            /\ EventTarget[t] \in Legal[s] \/ InfersAcceptance(s, t)
<1>1. CASE t = Unknown
  BY <1>1 DEF FinalState, PlanTransitions, InfersAcceptance, FillTypes, Unknown
<1>2. CASE t # Unknown /\ IsEcho(s, t)
  BY <1>2 DEF FinalState, PlanTransitions, IsEcho, InfersAcceptance
<1>3. CASE t # Unknown /\ ~IsEcho(s, t) /\ InfersAcceptance(s, t)
  BY <1>3 DEF FinalState, PlanTransitions, InfersAcceptance
<1>4. CASE t # Unknown /\ ~IsEcho(s, t) /\ ~InfersAcceptance(s, t)
  BY <1>4 DEF FinalState, PlanTransitions, Plannable
<1> QED BY <1>1, <1>2, <1>3, <1>4

LEMMA TargetType ==
  \A t \in EventTypes : t # Unknown =>
     EventTarget[t] \in OrderStates \ {"PENDING_SUBMISSION"}
BY DEF EventTypes, EventTarget, OrderStates, OpenStates, TerminalStates, FillTypes,
       StatusTypes, Unknown

LEMMA FinalStateType ==
  ASSUME NEW s \in OrderStates, NEW t \in EventTypes, Plannable(s, t)
  PROVE  /\ FinalState(s, t) \in OrderStates
         /\ FinalState(s, t) = "PENDING_SUBMISSION" => s = "PENDING_SUBMISSION"
BY FinalStateValue, TargetType

\* No planned event leaves a terminal state.
LEMMA TerminalHasNoExit ==
  ASSUME NEW s \in TerminalStates, NEW t \in EventTypes, Plannable(s, t)
  PROVE  FinalState(s, t) = s /\ t \notin FillTypes
<1>1. s \in OrderStates
  BY DEF OrderStates
<1>2. Legal[s] = {}
  BY <1>1 DEF Legal, TerminalStates
<1>3. ~InfersAcceptance(s, t)
  BY DEF InfersAcceptance, TerminalStates
<1> QED BY <1>1, <1>2, <1>3, FinalStateValue

--------------------------------------------------------------------------------
(* Arithmetic of the reservation: what rounding can gain and lose.             *)

\* A positive factor can be taken out of an inequality, and a quotient out of
\* a product.
LEMMA Cancel ==
  ASSUME NEW d \in Nat \ {0}, NEW a \in Int, NEW b \in Int, d * a <= d * b
  PROVE  a <= b
<1>1. SUFFICES ASSUME a >= b + 1 PROVE FALSE
  OBVIOUS
<1>2. d * (a - b) >= d /\ d * (a - b) = d * a - d * b
  BY <1>1
<1> QED BY <1>2

LEMMA QuotientWithin ==
  ASSUME NEW n \in Int, NEW d \in Nat \ {0}, NEW q \in Int
  PROVE  /\ n \div d \in Int
         /\ d * q <= n => q <= n \div d
         /\ n < d * (q + 1) => n \div d <= q
<1>1. PICK w \in Int, rest \in Int : /\ w = n \div d /\ 0 <= rest /\ rest < d
                                     /\ n = d * w + rest
  BY Division
<1>2. ASSUME d * q <= n PROVE q <= w
  <2>1. d * q < d * (w + 1)
    BY <1>1, <1>2
  <2> QED BY <2>1, Cancel
<1>3. ASSUME n < d * (q + 1) PROVE w <= q
  <2>1. d * w <= d * (q + 1) /\ d * w # d * (q + 1)
    BY <1>1, <1>3
  <2>2. w <= q + 1
    BY <2>1, Cancel
  <2> QED BY <2>1, <2>2
<1> QED BY <1>1, <1>2, <1>3

\* What lots cost is a price for each, rounded once.
LEMMA CostRounds ==
  ASSUME NEW o \in Orders
  PROVE  \E x \in Nat, d \in Nat \ {0} : \A n \in Nat :
           /\ CostOf(o, n) \in Nat
           /\ 2 * (d * CostOf(o, n) - x * n) <= d
           /\ 2 * (x * n - d * CostOf(o, n)) <= d
<1>1. ASSUME NEW m \in Nat, NEW d \in Nat \ {0} PROVE HalfEven(m, d) \in Nat
  <2>0. m \in Int /\ HalfEven(m, d) \in Int /\ 2 * (m - d * HalfEven(m, d)) <= d
    BY RoundsToNearest
  <2>1. PICK h \in Int : h = HalfEven(m, d) /\ 2 * (m - d * h) <= d
    BY <2>0
  <2>2. ASSUME h <= -1 PROVE FALSE
    <3>1. PICK g \in Nat \ {0} : h = -g
      BY <2>2
    <3>2. PICK z \in Nat : z = d * g /\ z >= d
      OBVIOUS
    <3>3. d * h = -z
      BY <3>1, <3>2
    <3> QED BY <2>1, <3>2, <3>3
  <2> QED BY <2>1, <2>2
<1>2. Price[o] \in Nat /\ MarketBuyBuffer \in Nat
  BY BookAssumption
<1>3. PICK x \in Nat, d \in Nat \ {0} : \A n \in Nat : CostOf(o, n) = HalfEven(x * n, d)
  <2>1. CASE o \in MarketOrders
    <3>1. PICK b \in Nat : b = 10000 + MarketBuyBuffer
      BY <1>2
    <3>2. PICK x \in Nat : x = Price[o] * b
      BY <1>2
    <3>3. ASSUME NEW n \in Nat PROVE CostOf(o, n) = HalfEven(x * n, 1000000)
      <4>1. Price[o] * n * b = x * n
        BY <1>2, <3>2
      <4> QED BY <2>1, <3>1, <4>1 DEF CostOf, ReserveWithBuffer, UnitsPerCent
    <3> QED BY <3>3
  <2>2. CASE o \notin MarketOrders
    <3>1. \A n \in Nat : CostOf(o, n) = HalfEven(Price[o] * n, 100)
      BY <2>2 DEF CostOf, Notional, UnitsPerCent
    <3>2. 100 \in Nat \ {0}
      OBVIOUS
    <3> QED BY <1>2, <3>1, <3>2
  <2> QED BY <2>1, <2>2
<1>4. ASSUME NEW n \in Nat
      PROVE  /\ CostOf(o, n) \in Nat
             /\ 2 * (d * CostOf(o, n) - x * n) <= d
             /\ 2 * (x * n - d * CostOf(o, n)) <= d
  <2>1. x * n \in Nat
    OBVIOUS
  <2> QED BY <1>1, <1>3, <2>1, RoundsToNearest
<1> QED BY <1>4

LEMMA ReservationType ==
  ASSUME NEW o \in Orders
  PROVE  /\ Qty[o] \in Nat \ {0} /\ BuyReservation(o) \in Nat /\ CostOf(o, 1) \in Nat
         /\ WholeCents(o) \in BOOLEAN
BY BookAssumption, CostRounds DEF BuyReservation, WholeCents

\* A lot alone costs at most half a cent, and its share of another half, more
\* than its part of the whole order.
LEMMA LotCostsItsShare ==
  ASSUME NEW o \in Orders
  PROVE  2 * (Qty[o] * CostOf(o, 1)) <= 2 * BuyReservation(o) + Qty[o] + 1
<1>1. PICK x \in Nat, d \in Nat \ {0} : \A n \in Nat :
           /\ CostOf(o, n) \in Nat
           /\ 2 * (d * CostOf(o, n) - x * n) <= d
           /\ 2 * (x * n - d * CostOf(o, n)) <= d
  BY CostRounds
<1>2. PICK q \in Nat, c \in Nat, r \in Nat : q = Qty[o] /\ c = CostOf(o, 1) /\ r = BuyReservation(o)
  BY ReservationType
<1>3. 2 * (d * c - x) <= d /\ 2 * (x * q - d * r) <= d
  <2>1. 2 * (d * c - x * 1) <= d
    BY <1>1, <1>2
  <2>2. 2 * (x * q - d * r) <= d
    BY <1>1, <1>2 DEF BuyReservation
  <2> QED BY <2>1, <2>2
<1>4. q * (2 * (d * c - x)) <= q * d
  BY <1>3
<1>5. q * (2 * (d * c - x)) = d * (2 * (q * c)) - 2 * (x * q)
  OBVIOUS
<1>6. d * (2 * (q * c)) <= d * (2 * r + q + 1)
  <2>1. PICK y \in Nat, z \in Int, w \in Nat, v \in Nat :
           y = x * q /\ z = d * (2 * (q * c)) /\ w = q * d /\ v = d * r
    OBVIOUS
  <2>2. z - 2 * y <= w /\ 2 * (y - v) <= d
    BY <1>3, <1>4, <1>5, <2>1
  <2>3. d * (2 * r + q + 1) = 2 * v + w + d
    BY <2>1
  <2> QED BY <2>1, <2>2, <2>3
<1>7. 2 * (q * c) <= 2 * r + q + 1
  BY <1>6, Cancel
<1> QED BY <1>2, <1>7

LEMMA NearestBounds ==
  ASSUME NEW n \in Nat, NEW d \in Nat \ {0}, NEW c \in NearestCents(n, d)
  PROVE  c \in Nat /\ 2 * (d * c - n) <= d /\ 2 * (n - d * c) <= d
<1>1. n \div d \in Nat
  BY Z3
<1> QED BY <1>1 DEF NearestCents

\* What an open buy reserves with k of its lots filled.
Follows(o, r, k) ==
  /\ 2 * (r * Qty[o] - BuyReservation(o) * (Qty[o] - k)) <= k * Qty[o]
  /\ 2 * (BuyReservation(o) * (Qty[o] - k) - r * Qty[o]) <= k * Qty[o]
  /\ Qty[o] - k = 0 => r = 0
  /\ WholeCents(o) => r = CostOf(o, 1) * (Qty[o] - k)

LEMMA DerivedRows ==
  ReservationsDerived <=>
    \A o \in Orders : IF o \in BuyOrders /\ state[o] \in OpenStates
                         THEN Follows(o, reserved[o], filled[o])
                         ELSE reserved[o] = 0
BY DEF ReservationsDerived, Follows

LEMMA RowsDerived ==
  ReservationsDerived' <=>
    \A o \in Orders : IF o \in BuyOrders /\ state'[o] \in OpenStates
                         THEN Follows(o, reserved'[o], filled'[o])
                         ELSE reserved'[o] = 0
BY DEF ReservationsDerived, Follows, WholeCents, BuyReservation, CostOf

\* Scaling what is reserved for m lots to n of them adds half a cent of error.
LEMMA ScalingFollows ==
  ASSUME NEW o \in Orders, NEW r \in Nat, NEW k \in Nat, k < Qty[o], Follows(o, r, k),
         NEW n \in Nat, n = k \/ n = k + 1, n < Qty[o],
         NEW c \in NearestCents(r * (Qty[o] - n), Qty[o] - k)
  PROVE  c \in Nat /\ Follows(o, c, n) /\ (n = k => c = r)
<1>1. PICK q \in Nat \ {0}, a \in Nat, one \in Nat :
        q = Qty[o] /\ a = BuyReservation(o) /\ one = CostOf(o, 1)
  BY ReservationType
<1>2. PICK m \in Nat \ {0}, left \in Nat \ {0} : m = q - k /\ left = q - n /\ left <= m
  BY <1>1
<1>3. /\ 2 * (r * q - a * m) <= k * q /\ 2 * (a * m - r * q) <= k * q
      /\ WholeCents(o) => r = one * m
  BY <1>1, <1>2 DEF Follows
<1>4. /\ c \in Nat /\ 2 * (m * c - r * left) <= m /\ 2 * (r * left - m * c) <= m
  <2>1. r * left \in Nat
    OBVIOUS
  <2>2. c \in NearestCents(r * left, m)
    BY <1>1, <1>2
  <2> QED BY <2>1, <2>2, NearestBounds
<1>5. ASSUME NEW b \in Nat, r * left = m * b PROVE c = b
  <2>1. m * (2 * (c - b)) <= m * 1 /\ m * (2 * (b - c)) <= m * 1
    BY <1>4, <1>5
  <2>2. 2 * (c - b) <= 1 /\ 2 * (b - c) <= 1
    BY <1>4, <2>1, Cancel
  <2> QED BY <1>4, <2>2
<1>6. n = k => c = r
  BY <1>1, <1>2, <1>5
<1>7. WholeCents(o) => c = one * left
  <2>1. ASSUME r = one * m PROVE c = one * left
    <3>1. r * left = m * (one * left) /\ one * left \in Nat
      BY <2>1
    <3> QED BY <1>5, <3>1
  <2> QED BY <1>3, <2>1
<1>8. 2 * (c * q - a * left) <= n * q /\ 2 * (a * left - c * q) <= n * q
  <2>1. CASE n = k
    BY <1>2, <1>3, <1>6, <2>1, m = left
  <2>2. CASE n = k + 1
    <3>1. /\ q * (2 * (m * c - r * left)) <= q * m
          /\ q * (2 * (r * left - m * c)) <= q * m
      BY <1>4
    <3>2. /\ left * (2 * (r * q - a * m)) <= left * (k * q)
          /\ left * (2 * (a * m - r * q)) <= left * (k * q)
      BY <1>3
    <3>3. left * (k * q) <= m * (k * q)
      BY <1>2
    <3>4. m * (2 * (c * q - a * left)) =
            q * (2 * (m * c - r * left)) + left * (2 * (r * q - a * m))
      BY <1>4
    <3>5. m * (2 * (a * left - c * q)) =
            q * (2 * (r * left - m * c)) + left * (2 * (a * m - r * q))
      BY <1>4
    <3>6. q * m + m * (k * q) = m * (n * q)
      BY <2>2
    <3>7. /\ m * (2 * (c * q - a * left)) <= m * (n * q)
          /\ m * (2 * (a * left - c * q)) <= m * (n * q)
      <4>1. PICK u \in Int, v \in Int, x \in Int, y \in Int, w \in Int, z \in Int, g \in Int :
              /\ u = q * (2 * (m * c - r * left)) /\ v = q * (2 * (r * left - m * c))
              /\ x = left * (2 * (r * q - a * m)) /\ y = left * (2 * (a * m - r * q))
              /\ w = q * m /\ z = m * (k * q) /\ g = left * (k * q)
        BY <1>4
      <4>2. u <= w /\ v <= w /\ x <= g /\ y <= g /\ g <= z
        BY <3>1, <3>2, <3>3, <4>1
      <4>3. u + x <= w + z /\ v + y <= w + z
        BY <4>2
      <4> QED BY <3>4, <3>5, <3>6, <4>1, <4>3
    <3>8. /\ 2 * (c * q - a * left) \in Int /\ 2 * (a * left - c * q) \in Int /\ n * q \in Int
      BY <1>4
    <3> QED BY <3>7, <3>8, Cancel
  <2> QED BY <2>1, <2>2
<1> QED BY <1>1, <1>2, <1>4, <1>6, <1>7, <1>8 DEF Follows

--------------------------------------------------------------------------------
(* Type correctness.                                                           *)

LEMMA NextReservationType ==
  ASSUME TypeOK, NEW o \in Orders, NEW s, NEW n \in Nat, filled[o] <= n, n <= Qty[o]
  PROVE  NextReservation(o, s, n) \subseteq Nat
<1>1. PICK q \in Nat, k \in Nat, r \in Nat : q = Qty[o] /\ k = filled[o] /\ r = reserved[o]
  BY BookAssumption DEF TypeOK
<1>2. CASE n # q
  <2>1. q - k \in Nat \ {0} /\ q - n \in Nat
    BY <1>1, <1>2
  <2>2. r * (q - n) \in Nat
    BY <2>1
  <2>3. NearestCents(r * (q - n), q - k) \subseteq Nat
    BY <2>1, <2>2, NearestBounds
  <2> QED BY <1>1, <1>2, <2>3 DEF NextReservation
<1>3. CASE n = q
  BY <1>1, <1>3 DEF NextReservation
<1> QED BY <1>2, <1>3

\* The order row a transition writes has its type.
LEMMA TransitionType ==
  ASSUME TypeOK, NEW o \in Orders, NEW t \in EventTypes, NEW n \in Nat,
         state[o] # Absent, n = filled[o] \/ n = filled[o] + 1,
         Transition(o, t, n)
  PROVE  /\ state' \in [Orders -> OrderStates \cup {Absent}]
         /\ filled' \in [Orders -> Nat]
         /\ reserved' \in [Orders -> Nat]
         /\ attention' \in [Orders -> BOOLEAN]
<1>1. state[o] \in OrderStates
  BY DEF TypeOK
<1>2. FinalState(state[o], t) \in OrderStates
  BY <1>1, FinalStateType DEF Transition, Allowed
<1>3. NextReservation(o, FinalState(state[o], t), n) \subseteq Nat
  <2>1. filled[o] \in Nat /\ n <= Qty[o]
    BY DEF TypeOK, Transition, Allowed
  <2>2. filled[o] <= n
    BY <2>1
  <2> QED BY <2>1, <2>2, NextReservationType
<1>4. PICK r \in Nat : reserved' = [reserved EXCEPT ![o] = r]
  BY <1>3 DEF Transition
<1> QED BY <1>2, <1>4 DEF TypeOK, Transition, Allowed

\* What an execution moves.
LEMMA MovesType ==
  ASSUME NEW x \in Executions
  PROVE  /\ FillCost(x) \in Int /\ CashDelta(x) \in Int /\ LotsDelta(x) \in Int
         /\ InstrumentOf[OrderOf[x]] \in Instruments
<1>1. FillPrice[x] * 1 \in Int /\ UnitsPerCent \in Nat \ {0} /\ Fee \in Int
  BY BookAssumption DEF UnitsPerCent
<1>2. FillCost(x) \in Int
  BY <1>1, RoundsToNearest DEF FillCost, Notional
<1> QED BY <1>1, <1>2, BookAssumption DEF CashDelta, LotsDelta

LEMMA InitType == Init => TypeOK
BY BookAssumption DEF Init, TypeOK, Absent

LEMMA NextType == TypeOK /\ [Next]_vars => TypeOK'
<1> SUFFICES ASSUME TypeOK, [Next]_vars PROVE TypeOK'
  OBVIOUS
<1> USE StatesDisjoint
<1>1. ASSUME NEW o \in Orders, Place(o) PROVE TypeOK'
  <2>1. "PENDING_SUBMISSION" \in OrderStates
    BY DEF OrderStates, OpenStates
  <2>2. BuyReservation(o) \in Nat
    BY ReservationType
  <2> QED BY <1>1, <2>1, <2>2 DEF Place, TypeOK
<1>2. ASSUME NEW o \in Orders, RequestCancel(o) PROVE TypeOK'
  <2>1. "ORDER_CANCEL_PENDING" \in EventTypes /\ state[o] # Absent /\ filled[o] \in Nat
    BY <1>2 DEF RequestCancel, EventTypes, StatusTypes, OrderStates, TypeOK
  <2>2. Transition(o, "ORDER_CANCEL_PENDING", filled[o])
    BY <1>2 DEF RequestCancel
  <2> QED BY <1>2, <2>1, <2>2, TransitionType DEF RequestCancel, TypeOK
<1>3. ASSUME NEW o \in Orders, FailSubmission(o) PROVE TypeOK'
  <2>1. "ORDER_SUBMIT_FAILED" \in EventTypes /\ state[o] # Absent /\ filled[o] \in Nat
    BY <1>3 DEF FailSubmission, EventTypes, StatusTypes, TypeOK
  <2>2. CASE Flag(o)
    BY <1>3, <2>2 DEF FailSubmission, Flag, TypeOK
  <2>3. CASE Transition(o, "ORDER_SUBMIT_FAILED", filled[o])
    BY <1>3, <2>1, <2>3, TransitionType DEF FailSubmission, TypeOK
  <2> QED BY <1>3, <2>2, <2>3 DEF FailSubmission
<1>4. ASSUME NEW e \in StatusEvents, ApplyStatus(e) PROVE TypeOK'
  <2>1. /\ e.order \in Orders /\ e.type \in EventTypes /\ e.envelope \in Envelopes
        /\ state[e.order] # Absent /\ filled[e.order] \in Nat
    BY <1>4 DEF StatusEvents, EventTypes, ApplyStatus, TypeOK
  <2>2. seen' \subseteq Envelopes
    BY <1>4, <2>1 DEF ApplyStatus, Record, TypeOK
  <2>3. CASE Flag(e.order)
    BY <1>4, <2>1, <2>2, <2>3 DEF ApplyStatus, Flag, TypeOK
  <2>4. CASE Transition(e.order, e.type, filled[e.order])
    BY <1>4, <2>1, <2>2, <2>4, TransitionType DEF ApplyStatus, TypeOK
  <2> QED BY <1>4, <2>3, <2>4 DEF ApplyStatus
<1>5. ASSUME NEW e \in FillEvents, ApplyFill(e) PROVE TypeOK'
  <2> DEFINE o == OrderOf[e.exec]
  <2>1. /\ e.exec \in Executions /\ o \in Orders /\ e.type \in EventTypes
        /\ e.envelope \in Envelopes /\ state[o] # Absent /\ filled[o] \in Nat
    BY <1>5, BookAssumption DEF FillEvents, EventTypes, ApplyFill, TypeOK
  <2>2. seen' \subseteq Envelopes
    BY <1>5, <2>1 DEF ApplyFill, Record, TypeOK
  <2>3. /\ fills' \subseteq Executions /\ trades' \in [Executions -> Nat]
        /\ cash' \in Int /\ lots' \in [Instruments -> Nat]
    BY <1>5, <2>1, MovesType, BookAssumption
    DEF ApplyFill, Book, PositionCovers, LotsDelta, TypeOK
  <2>4. CASE Flag(o)
    BY <1>5, <2>1, <2>2, <2>3, <2>4 DEF ApplyFill, Flag, TypeOK
  <2>5. CASE Transition(o, e.type, filled[o] + 1)
    <3> HIDE DEF o
    <3> QED BY <1>5, <2>1, <2>2, <2>3, <2>5, TransitionType DEF ApplyFill, TypeOK
  <2> QED BY <1>5, <2>4, <2>5 DEF ApplyFill
<1>6. CASE Funds
  BY <1>6, BookAssumption
  DEF Funds, HoldWithdrawal, ReleaseHold, SettleWithdrawal, SettleDeposit, TypeOK
<1>7. CASE ArchiveAccount
  BY <1>7 DEF ArchiveAccount, TypeOK
<1>8. CASE UNCHANGED vars
  BY <1>8 DEF vars, TypeOK
<1> QED BY <1>1, <1>2, <1>3, <1>4, <1>5, <1>6, <1>7, <1>8 DEF Next

\* Every variable keeps its type: in particular no lot balance and no
\* reservation ever becomes negative, whatever the venue reports.
THEOREM TypeCorrect == Spec => []TypeOK
BY InitType, NextType, PTL DEF Spec

--------------------------------------------------------------------------------
(* The inductive invariant of the book.  FillAccounting is not inductive       *)
(* alone: a placement needs filled_qty to be zero before it, and a booking     *)
(* needs the execution to be new to the order's bookings.                      *)

BookInv ==
  /\ TypeOK
  /\ BookedExactlyOnce
  /\ FillAccounting
  /\ FilledIsComplete
  /\ ReservationsDerived

\* A booking adds exactly one execution to its own order and to no other.
LEMMA BookingCounts ==
  ASSUME TypeOK, NEW x \in Executions, x \notin fills, fills' = fills \cup {x},
         NEW o \in Orders
  PROVE  /\ Cardinality(BookedFor(o)) \in Nat
         /\ OrderOf[x] = o => Cardinality(BookedFor(o)') = Cardinality(BookedFor(o)) + 1
         /\ OrderOf[x] # o => BookedFor(o)' = BookedFor(o)
<1>1. IsFiniteSet(fills)
  BY BookAssumption, FS_Subset DEF TypeOK
<1>2. IsFiniteSet(BookedFor(o)) /\ x \notin BookedFor(o)
  BY <1>1, FS_Subset DEF BookedFor
<1>3. OrderOf[x] = o => BookedFor(o)' = BookedFor(o) \cup {x}
  BY DEF BookedFor
<1>4. OrderOf[x] # o => BookedFor(o)' = BookedFor(o)
  BY DEF BookedFor
<1> QED BY <1>2, <1>3, <1>4, FS_AddElement, FS_CardinalityType

\* What a transition does to the row of o, under the invariant.
LEMMA TransitionRow ==
  ASSUME BookInv, NEW o \in Orders, NEW t \in EventTypes, NEW n \in Nat,
         state[o] # Absent, n = filled[o] \/ (n = filled[o] + 1 /\ t \in FillTypes),
         Transition(o, t, n)
  PROVE  /\ filled'[o] = n
         /\ n <= Qty[o]
         /\ state'[o] \in OrderStates
         /\ state'[o] = "FILLED" => n = Qty[o]
         /\ state[o] \in TerminalStates => state'[o] = state[o] /\ n = filled[o]
         /\ state'[o] = "PENDING_SUBMISSION" => state[o] = "PENDING_SUBMISSION"
         /\ reserved'[o] \in Nat
         /\ IF o \in BuyOrders /\ state'[o] \in OpenStates
              THEN Follows(o, reserved'[o], n) /\ (n = filled[o] => reserved'[o] = reserved[o])
              ELSE reserved'[o] = 0
<1> DEFINE s == FinalState(state[o], t)
<1>1. /\ state[o] \in OrderStates /\ filled[o] \in Nat /\ reserved[o] \in Nat
      /\ Qty[o] \in Nat \ {0} /\ BuyReservation(o) \in Nat
  BY BookAssumption, ReservationType DEF BookInv, TypeOK
<1>2. /\ state'[o] = s /\ filled'[o] = n /\ n <= Qty[o]
      /\ s = "FILLED" => n = Qty[o]
      /\ reserved'[o] \in NextReservation(o, s, n)
      /\ Plannable(state[o], t)
  BY DEF Transition, Allowed, BookInv, TypeOK
<1>3. s \in OrderStates /\ (s = "PENDING_SUBMISSION" => state[o] = "PENDING_SUBMISSION")
  BY <1>1, <1>2, FinalStateType
<1>4. state[o] \in TerminalStates => s = state[o] /\ n = filled[o]
  BY <1>1, <1>2, TerminalHasNoExit
<1> HIDE DEF s
<1>5. ASSUME o \in BuyOrders, s \in OpenStates, NEW c, c \in NextReservation(o, s, n)
      PROVE  c \in Nat /\ Follows(o, c, n) /\ (n = filled[o] => c = reserved[o])
  <2>1. state[o] \in OpenStates
    BY <1>1, <1>4, <1>5, StatesDisjoint DEF OrderStates
  <2>2. Follows(o, reserved[o], filled[o]) /\ filled[o] <= Qty[o]
    BY <1>5, <2>1, DerivedRows DEF BookInv, FillAccounting
  <2>3. CASE n = 0
    BY <1>1, <1>2, <1>5, <2>2, <2>3 DEF NextReservation
  <2>4. CASE n # 0 /\ n = Qty[o]
    <3>1. c = 0
      BY <1>1, <1>5, <2>4 DEF NextReservation
    <3>2. Follows(o, 0, n)
      BY <1>1, <2>4, ReservationType DEF Follows
    <3>3. n = filled[o] => reserved[o] = 0
      BY <1>1, <2>2, <2>4 DEF Follows
    <3> QED BY <3>1, <3>2, <3>3
  <2>5. CASE n # 0 /\ n # Qty[o]
    <3>1. c \in NearestCents(reserved[o] * (Qty[o] - n), Qty[o] - filled[o])
      BY <1>5, <2>5 DEF NextReservation
    <3>2. filled[o] < Qty[o] /\ n < Qty[o]
      BY <1>1, <1>2, <2>5
    <3> QED BY <1>1, <2>2, <3>1, <3>2, ScalingFollows
  <2> QED BY <2>3, <2>4, <2>5
<1>6. ~(o \in BuyOrders /\ s \in OpenStates) => NextReservation(o, s, n) = {0}
  BY DEF NextReservation
<1> QED BY <1>2, <1>3, <1>4, <1>5, <1>6

\* A transition or a flag leaves every other row alone.
LEMMA OtherRows ==
  ASSUME TypeOK, NEW o \in Orders, NEW t, NEW n, Flag(o) \/ Transition(o, t, n),
         NEW p \in Orders, p # o
  PROVE  /\ state'[p] = state[p] /\ filled'[p] = filled[p]
         /\ reserved'[p] = reserved[p] /\ attention'[p] = attention[p]
BY DEF TypeOK, Flag, Transition

\* The rows after a transaction that books nothing: a transition with the
\* quantity unchanged, or a flag.
LEMMA StatusStep ==
  ASSUME BookInv, TypeOK', NEW o \in Orders, NEW t \in EventTypes, state[o] # Absent,
         Flag(o) \/ Transition(o, t, filled[o]),
         UNCHANGED <<fills, trades>>
  PROVE  BookInv'
<1>1. ASSUME NEW p \in Orders
      PROVE  /\ BookedFor(p)' = BookedFor(p)
             /\ filled'[p] = filled[p]
             /\ attention[p] => attention'[p]
             /\ filled'[p] <= Qty[p]
             /\ state'[p] = "FILLED" => filled'[p] = Qty[p]
             /\ state'[p] = Absent => state[p] = Absent
             /\ IF p \in BuyOrders /\ state'[p] \in OpenStates
                  THEN Follows(p, reserved'[p], filled'[p]) ELSE reserved'[p] = 0
  <2>1. BookedFor(p)' = BookedFor(p)
    BY DEF BookedFor
  <2>2. CASE p # o \/ Flag(o)
    <3>1. /\ state'[p] = state[p] /\ filled'[p] = filled[p] /\ reserved'[p] = reserved[p]
          /\ attention[p] => attention'[p]
      BY <2>2, OtherRows DEF Flag, BookInv, TypeOK
    <3> QED BY <2>1, <3>1, DerivedRows
            DEF BookInv, FillAccounting, FilledIsComplete
  <2>3. CASE p = o /\ Transition(o, t, filled[o])
    <3>1. filled[o] \in Nat /\ attention'[o] = attention[o]
      BY <2>3 DEF BookInv, TypeOK, Transition
    <3> QED BY <2>1, <2>3, <3>1, TransitionRow, StatesDisjoint
  <2> QED BY <2>2, <2>3
<1>2. BookedExactlyOnce'
  BY DEF BookInv, BookedExactlyOnce
<1>3. FillAccounting'
  BY <1>1 DEF BookInv, FillAccounting
<1>4. FilledIsComplete'
  BY <1>1 DEF BookInv, FilledIsComplete
<1>5. ReservationsDerived'
  BY <1>1, RowsDerived
<1> QED BY <1>2, <1>3, <1>4, <1>5 DEF BookInv

\* The rows after a transaction that books execution x for its order.
LEMMA FillStep ==
  ASSUME BookInv, TypeOK', NEW e \in FillEvents, ApplyFill(e)
  PROVE  BookInv'
<1> DEFINE x == e.exec
           o == OrderOf[x]
           t == e.type
<1>1. /\ x \in Executions /\ o \in Orders /\ t \in FillTypes /\ t \in EventTypes
      /\ state[o] # Absent /\ filled[o] \in Nat /\ x \notin fills
      /\ fills' = fills \cup {x} /\ trades' = [trades EXCEPT ![x] = @ + 1]
      /\ Flag(o) \/ Transition(o, t, filled[o] + 1)
  BY BookAssumption
  DEF ApplyFill, FillEvents, NotYetBooked, Book, EventTypes, BookInv, TypeOK
<1>2. BookInv /\ TypeOK
  BY DEF BookInv
<1> HIDE DEF x, o, t
<1>3. ASSUME NEW p \in Orders, p # OrderOf[x]
      PROVE  /\ BookedFor(p)' = BookedFor(p)
             /\ state'[p] = state[p] /\ filled'[p] = filled[p]
             /\ reserved'[p] = reserved[p] /\ attention'[p] = attention[p]
  BY <1>1, <1>2, <1>3, BookingCounts, OtherRows DEF o
<1>4. /\ Cardinality(BookedFor(o)) \in Nat
      /\ Cardinality(BookedFor(o)') = Cardinality(BookedFor(o)) + 1
  BY <1>1, <1>2, BookingCounts DEF o
<1>5. filled[o] <= Cardinality(BookedFor(o)) /\ filled[o] <= Qty[o]
      /\ (filled[o] # Cardinality(BookedFor(o)) => attention[o])
  BY <1>1, <1>2 DEF BookInv, FillAccounting
<1>6. /\ filled'[o] <= Qty[o] /\ filled'[o] <= Cardinality(BookedFor(o)')
      /\ filled'[o] # Cardinality(BookedFor(o)') => attention'[o]
      /\ state'[o] = "FILLED" => filled'[o] = Qty[o]
      /\ state'[o] # Absent
      /\ IF o \in BuyOrders /\ state'[o] \in OpenStates
           THEN Follows(o, reserved'[o], filled'[o]) ELSE reserved'[o] = 0
  <2>1. CASE Flag(o)
    <3>1. attention'[o] /\ UNCHANGED <<state, filled, reserved>>
      BY <1>1, <1>2, <2>1 DEF Flag, TypeOK
    <3> QED BY <1>1, <1>2, <1>4, <1>5, <3>1, DerivedRows DEF BookInv, FilledIsComplete
  <2>2. CASE Transition(o, t, filled[o] + 1)
    <3>1. attention'[o] = attention[o] /\ filled[o] + 1 \in Nat
      BY <1>1, <2>2 DEF Transition, Allowed
    <3>2. /\ filled'[o] = filled[o] + 1 /\ filled[o] + 1 <= Qty[o]
          /\ state'[o] \in OrderStates
          /\ state'[o] = "FILLED" => filled[o] + 1 = Qty[o]
          /\ IF o \in BuyOrders /\ state'[o] \in OpenStates
               THEN Follows(o, reserved'[o], filled[o] + 1) ELSE reserved'[o] = 0
      BY <1>1, <1>2, <2>2, <3>1, TransitionRow
    <3>3. Absent \notin OrderStates
      BY StatesDisjoint
    <3> QED BY <1>1, <1>4, <1>5, <3>1, <3>2, <3>3
  <2> QED BY <1>1, <2>1, <2>2
<1>7. BookedExactlyOnce'
  BY <1>1, <1>2 DEF BookInv, BookedExactlyOnce, TypeOK
<1>8. FillAccounting'
  BY <1>2, <1>3, <1>6 DEF o, BookInv, FillAccounting
<1>9. FilledIsComplete'
  BY <1>2, <1>3, <1>6 DEF o, BookInv, FilledIsComplete
<1>10. ReservationsDerived'
  BY <1>2, <1>3, <1>6, DerivedRows, RowsDerived DEF o, BookInv
<1> QED BY <1>7, <1>8, <1>9, <1>10 DEF BookInv

\* The placement of a new row: nothing is filled or booked for it yet.
LEMMA PlaceStep ==
  ASSUME BookInv, TypeOK', NEW o \in Orders, Place(o)
  PROVE  BookInv'
<1>1. /\ state[o] = Absent /\ filled' = filled /\ attention' = attention
      /\ fills' = fills /\ trades' = trades
      /\ state' = [state EXCEPT ![o] = "PENDING_SUBMISSION"]
      /\ reserved' = [reserved EXCEPT ![o] = IF o \in BuyOrders THEN BuyReservation(o) ELSE 0]
  BY DEF Place
<1>2. filled[o] = 0 /\ BookedFor(o) = {}
  BY <1>1 DEF BookInv, FilledIsComplete
<1>3. \A p \in Orders : BookedFor(p)' = BookedFor(p)
  BY <1>1 DEF BookedFor
<1>4. IF o \in BuyOrders THEN Follows(o, reserved'[o], filled[o]) ELSE reserved'[o] = 0
  <2>1. reserved'[o] = IF o \in BuyOrders THEN BuyReservation(o) ELSE 0
    BY <1>1 DEF BookInv, TypeOK
  <2>2. Follows(o, BuyReservation(o), 0)
    <3>1. PICK q \in Nat \ {0}, a \in Nat, c \in Nat :
            q = Qty[o] /\ a = BuyReservation(o) /\ c = CostOf(o, 1)
      BY ReservationType
    <3>2. /\ 2 * (a * q - a * (q - 0)) <= 0 * q /\ 2 * (a * (q - 0) - a * q) <= 0 * q
          /\ q - 0 = 0 => a = 0
          /\ a = q * c => a = c * (q - 0)
      OBVIOUS
    <3> QED BY <3>1, <3>2 DEF Follows, WholeCents
  <2> QED BY <1>2, <2>1, <2>2
<1>5. "PENDING_SUBMISSION" \in OpenStates /\ "PENDING_SUBMISSION" # Absent
      /\ "PENDING_SUBMISSION" # "FILLED"
  BY DEF OpenStates, Absent
<1>6. BookedExactlyOnce' /\ FillAccounting'
  BY <1>1, <1>3 DEF BookInv, BookedExactlyOnce, FillAccounting
<1>7. FilledIsComplete'
  BY <1>1, <1>3, <1>5 DEF BookInv, TypeOK, FilledIsComplete
<1>8. ReservationsDerived'
  BY <1>1, <1>4, <1>5, DerivedRows, RowsDerived DEF BookInv, TypeOK
<1> QED BY <1>6, <1>7, <1>8 DEF BookInv

LEMMA InitInv == Init => BookInv
<1> SUFFICES ASSUME Init PROVE BookInv
  OBVIOUS
<1>1. \A o \in Orders : BookedFor(o) = {}
  BY DEF Init, BookedFor
<1>2. Absent \notin OpenStates /\ Absent # "FILLED" /\ Cardinality({}) = 0
  BY FS_EmptySet DEF Absent, OpenStates
<1>3. TypeOK
  BY InitType
<1>4. BookedExactlyOnce
  BY DEF Init, BookedExactlyOnce
<1>5. FillAccounting
  <2>1. \A o \in Orders : filled[o] = 0 /\ Cardinality(BookedFor(o)) = 0 /\ Qty[o] \in Nat
    BY <1>1, <1>2, BookAssumption DEF Init
  <2> QED BY <2>1 DEF FillAccounting
<1>6. FilledIsComplete
  BY <1>1, <1>2 DEF Init, FilledIsComplete
<1>7. ReservationsDerived
  BY <1>2 DEF Init, ReservationsDerived
<1> QED BY <1>3, <1>4, <1>5, <1>6, <1>7 DEF BookInv

LEMMA NextInv == BookInv /\ [Next]_vars => BookInv'
<1> SUFFICES ASSUME BookInv, [Next]_vars PROVE BookInv'
  OBVIOUS
<1>1. TypeOK'
  BY NextType DEF BookInv
<1>2. ASSUME NEW o \in Orders, Place(o) PROVE BookInv'
  BY <1>1, <1>2, PlaceStep
<1>3. ASSUME NEW o \in Orders, RequestCancel(o) PROVE BookInv'
  <2>1. "ORDER_CANCEL_PENDING" \in EventTypes /\ state[o] # Absent
    BY <1>3, StatesDisjoint DEF RequestCancel, EventTypes, StatusTypes, OrderStates
  <2> QED BY <1>1, <1>3, <2>1, StatusStep DEF RequestCancel
<1>4. ASSUME NEW o \in Orders, FailSubmission(o) PROVE BookInv'
  <2>1. "ORDER_SUBMIT_FAILED" \in EventTypes
    BY DEF EventTypes, StatusTypes
  <2> QED BY <1>1, <1>4, <2>1, StatusStep DEF FailSubmission
<1>5. ASSUME NEW e \in StatusEvents, ApplyStatus(e) PROVE BookInv'
  <2>1. e.order \in Orders /\ e.type \in EventTypes
    BY DEF StatusEvents, EventTypes
  <2> QED BY <1>1, <1>5, <2>1, StatusStep DEF ApplyStatus
<1>6. ASSUME NEW e \in FillEvents, ApplyFill(e) PROVE BookInv'
  BY <1>1, <1>6, FillStep
<1>7. ASSUME UNCHANGED <<state, filled, reserved, attention, fills, trades>> PROVE BookInv'
  <2>1. \A o \in Orders : BookedFor(o)' = BookedFor(o)
    BY <1>7 DEF BookedFor
  <2> QED BY <1>1, <1>7, <2>1
          DEF BookInv, BookedExactlyOnce, FillAccounting, FilledIsComplete, ReservationsDerived
<1>8. CASE Funds \/ ArchiveAccount \/ UNCHANGED vars
  BY <1>7, <1>8 DEF Funds, HoldWithdrawal, ReleaseHold, SettleWithdrawal, SettleDeposit,
                    ArchiveAccount, vars
<1> QED BY <1>2, <1>3, <1>4, <1>5, <1>6, <1>8 DEF Next

THEOREM BookInvariant == Spec => []BookInv
BY InitInv, NextInv, PTL DEF Spec

\* Exactly-once booking of venue executions, under any delivery.
THEOREM ExactlyOnce == Spec => []BookedExactlyOnce
BY BookInvariant, PTL DEF BookInv

\* Orders and ledger count every execution once; they differ only where flagged.
THEOREM FillsCorrect == Spec => []FillsAddUp
<1>1. BookInv => FillsAddUp
  BY DEF BookInv, FillsAddUp
<1> QED BY <1>1, BookInvariant, PTL

\* What is reserved follows the fills: an open buy's placement reservation less
\* the filled lots' share of it, to half a cent a fill, and nothing else.
THEOREM ReservationsFollow == Spec => []ReservationsDerived
BY BookInvariant, PTL DEF BookInv

--------------------------------------------------------------------------------
(* What a step may never do.                                                   *)

LEMMA RowStep ==
  ASSUME BookInv, BookInv', [Next]_vars, NEW o \in Orders
  PROVE  /\ filled'[o] >= filled[o]
         /\ state'[o] = Absent => state[o] = Absent
         /\ state'[o] = "PENDING_SUBMISSION" => state[o] \in {Absent, "PENDING_SUBMISSION"}
         /\ state[o] \in TerminalStates => state'[o] = state[o] /\ filled'[o] = filled[o]
<1> DEFINE Goal == /\ filled'[o] >= filled[o]
                   /\ state'[o] = Absent => state[o] = Absent
                   /\ state'[o] = "PENDING_SUBMISSION" => state[o] \in {Absent, "PENDING_SUBMISSION"}
                   /\ state[o] \in TerminalStates => state'[o] = state[o] /\ filled'[o] = filled[o]
<1>1. TypeOK /\ TypeOK' /\ filled[o] \in Nat /\ filled'[o] \in Nat
  BY DEF BookInv, TypeOK
<1>2. Absent \notin OrderStates /\ Absent \notin TerminalStates
  BY StatesDisjoint DEF OrderStates
<1>3. ASSUME NEW p \in Orders, NEW t \in EventTypes, NEW n \in Nat, state[p] # Absent,
             n = filled[p] \/ (n = filled[p] + 1 /\ t \in FillTypes),
             Flag(p) \/ Transition(p, t, n)
      PROVE  Goal
  <2>1. CASE p # o \/ Flag(p)
    BY <1>1, <1>3, <2>1, OtherRows DEF Flag
  <2>2. CASE p = o /\ Transition(p, t, n)
    BY <1>1, <1>2, <1>3, <2>2, TransitionRow
  <2> QED BY <1>3, <2>1, <2>2
<1>4. ASSUME NEW p \in Orders, Place(p) PROVE Goal
  BY <1>1, <1>2, <1>4 DEF Place, TypeOK, Absent
<1>5. ASSUME NEW p \in Orders, RequestCancel(p) PROVE Goal
  <2>1. "ORDER_CANCEL_PENDING" \in EventTypes /\ state[p] # Absent /\ filled[p] \in Nat
    BY <1>1, <1>2, <1>5 DEF RequestCancel, EventTypes, StatusTypes, OrderStates, TypeOK
  <2> QED BY <1>3, <1>5, <2>1 DEF RequestCancel
<1>6. ASSUME NEW p \in Orders, FailSubmission(p) PROVE Goal
  <2>1. "ORDER_SUBMIT_FAILED" \in EventTypes /\ filled[p] \in Nat
    BY <1>1 DEF EventTypes, StatusTypes, TypeOK
  <2> QED BY <1>3, <1>6, <2>1 DEF FailSubmission
<1>7. ASSUME NEW e \in StatusEvents, ApplyStatus(e) PROVE Goal
  <2>1. e.order \in Orders /\ e.type \in EventTypes /\ filled[e.order] \in Nat
    BY <1>1 DEF StatusEvents, EventTypes, TypeOK
  <2> QED BY <1>3, <1>7, <2>1 DEF ApplyStatus
<1>8. ASSUME NEW e \in FillEvents, ApplyFill(e) PROVE Goal
  <2>1. /\ OrderOf[e.exec] \in Orders /\ e.type \in FillTypes /\ e.type \in EventTypes
        /\ filled[OrderOf[e.exec]] + 1 \in Nat
    BY <1>1, BookAssumption DEF FillEvents, EventTypes, TypeOK
  <2> QED BY <1>3, <1>8, <2>1 DEF ApplyFill
<1>9. CASE Funds \/ ArchiveAccount \/ UNCHANGED vars
  BY <1>1, <1>9 DEF Funds, HoldWithdrawal, ReleaseHold, SettleWithdrawal, SettleDeposit,
                    ArchiveAccount, vars
<1> QED BY <1>4, <1>5, <1>6, <1>7, <1>8, <1>9 DEF Next

\* No exit from a terminal state, and nothing stays reserved there.
THEOREM TerminalFinality == Spec => TerminalIsFinal
<1>1. BookInv /\ BookInv' /\ [Next]_vars =>
        [\A o \in Orders : state[o] \in TerminalStates =>
           state'[o] = state[o] /\ filled'[o] = filled[o] /\ reserved'[o] = 0]_vars
  <2> SUFFICES ASSUME BookInv, BookInv', [Next]_vars, NEW o \in Orders,
                      state[o] \in TerminalStates
               PROVE  state'[o] = state[o] /\ filled'[o] = filled[o] /\ reserved'[o] = 0
    OBVIOUS
  <2>1. state'[o] = state[o] /\ filled'[o] = filled[o]
    BY RowStep
  <2>2. state'[o] \notin OpenStates
    BY <2>1, StatesDisjoint
  <2> QED BY <2>1, <2>2 DEF BookInv, ReservationsDerived
<1> QED BY <1>1, BookInvariant, PTL DEF Spec, TerminalIsFinal

\* filled_qty never decreases and no row returns to PENDING_SUBMISSION.
THEOREM MonotoneProgress == Spec => ProgressIsMonotone
<1>1. BookInv /\ BookInv' /\ [Next]_vars =>
        [\A o \in Orders :
           /\ filled'[o] >= filled[o]
           /\ state'[o] = Absent => state[o] = Absent
           /\ state'[o] = "PENDING_SUBMISSION" => state[o] \in {Absent, "PENDING_SUBMISSION"}]_vars
  BY RowStep
<1> QED BY <1>1, BookInvariant, PTL DEF Spec, ProgressIsMonotone

\* No event, however late or repeated, takes an order backwards.
THEOREM OrdersOnlyMoveForward == Spec => OnlyForward
BY TerminalFinality, MonotoneProgress, PTL DEF OnlyForward

--------------------------------------------------------------------------------
(* The book implements the abstract ledger.                                    *)

\* Every variable of the abstract ledger starts and moves as it promises.
THEOREM LedgerRefinement == Spec => ImplementsLedger
<1> DEFINE booked == {x \in Executions : trades[x] # 0}
<1>1. Init => Ledger!Init
  BY DEF Init, Ledger!Init
<1>2. BookInv /\ [Next]_vars => [Ledger!Next]_<<booked, cash, lots>>
  <2> SUFFICES ASSUME BookInv, [Next]_vars
               PROVE  Ledger!Next \/ UNCHANGED <<booked, cash, lots>>
    OBVIOUS
  <2> USE DEF BookInv
  <2>1. ASSUME UNCHANGED <<trades, cash, lots>>
        PROVE  UNCHANGED <<booked, cash, lots>>
    BY <2>1
  <2>2. ASSUME NEW o \in Orders, Place(o) \/ RequestCancel(o) \/ FailSubmission(o)
        PROVE  UNCHANGED <<trades, cash, lots>>
    BY <2>2 DEF Place, RequestCancel, FailSubmission
  <2>3. ASSUME NEW e \in StatusEvents, ApplyStatus(e)
        PROVE  UNCHANGED <<trades, cash, lots>>
    BY <2>3 DEF ApplyStatus
  <2>4. ASSUME NEW e \in FillEvents, ApplyFill(e)
        PROVE  Ledger!BookExecution(e.exec)
    <3> DEFINE x == e.exec
               i == InstrumentOf[OrderOf[x]]
    <3>1. /\ x \in Executions /\ x \notin fills /\ trades' = [trades EXCEPT ![x] = @ + 1]
          /\ cash' = cash + CashDelta(x) /\ lots' = [lots EXCEPT ![i] = @ + LotsDelta(x)]
          /\ lots[i] + LotsDelta(x) >= 0
      BY <2>4 DEF FillEvents, ApplyFill, NotYetBooked, Book, PositionCovers
    <3>2. i \in Instruments /\ lots \in [Instruments -> Nat] /\ trades \in [Executions -> Nat]
      BY <3>1, BookAssumption DEF TypeOK
    <3>3. trades[x] = 0
      BY <3>1 DEF BookedExactlyOnce
    <3>4. x \notin booked /\ booked' = booked \cup {x}
      BY <3>1, <3>2, <3>3
    <3>5. lots'[i] >= 0
      BY <3>1, <3>2 DEF LotsDelta
    <3> HIDE DEF booked, i
    <3> QED BY <3>1, <3>4, <3>5 DEF Ledger!BookExecution, booked, i
  <2>5. CASE Funds
    <3>1. PICK a \in TransferSizes :
            HoldWithdrawal(a) \/ ReleaseHold(a) \/ SettleWithdrawal(a) \/ SettleDeposit(a)
      BY <2>5 DEF Funds
    <3>2. CASE HoldWithdrawal(a) \/ ReleaseHold(a)
      BY <2>1, <3>2 DEF HoldWithdrawal, ReleaseHold
    <3>3. CASE SettleWithdrawal(a) \/ SettleDeposit(a)
      BY <3>3 DEF SettleWithdrawal, SettleDeposit, Ledger!Next, Ledger!SettleTransfer
    <3> QED BY <3>1, <3>2, <3>3
  <2>6. CASE ArchiveAccount \/ UNCHANGED vars
    BY <2>1, <2>6 DEF ArchiveAccount, vars
  <2>7. ASSUME NEW e \in FillEvents, ApplyFill(e) PROVE Ledger!Next
    BY <2>4, <2>7 DEF FillEvents, Ledger!Next
  <2> HIDE DEF booked, BookInv
  <2> QED BY <2>1, <2>2, <2>3, <2>5, <2>6, <2>7 DEF Next
<1> QED BY <1>1, <1>2, BookInvariant, PTL DEF Spec, ImplementsLedger, Ledger!Spec

--------------------------------------------------------------------------------
(* The rows the sums are over.                                                 *)

PlacedOrders == {o \in Orders : state[o] # Absent}

\* Only the row of o changes.
OnlyRow(o) == \A p \in Orders : p # o =>
  state'[p] = state[p] /\ filled'[p] = filled[p] /\ reserved'[p] = reserved[p]

OpenBuys == OpenOrders \cap BuyOrders

LEMMA FinitelyManyOpen ==
  ASSUME IsFiniteSet(PlacedOrders)
  PROVE  IsFiniteSet(OpenBuys) /\ \A i \in Instruments : IsFiniteSet(OpenSells(i))
<1>1. OpenOrders \subseteq PlacedOrders
  BY DEF OpenOrders, PlacedOrders, OpenStates, Absent
<1>2. OpenBuys \subseteq PlacedOrders /\ \A i \in Instruments : OpenSells(i) \subseteq PlacedOrders
  BY <1>1 DEF OpenBuys, OpenSells
<1> QED BY <1>2, FS_Subset

\* A sum over the open buys changes by what the changed row adds to it.
LEMMA OpenSumMoves ==
  ASSUME IsFiniteSet(PlacedOrders), NEW o \in Orders, OnlyRow(o), NEW f, NEW g,
         \A p \in Orders : f[p] \in Int /\ g[p] \in Int,
         \A p \in Orders : p # o => f[p] = g[p]
  PROVE  /\ SumFunctionOnSet(f, OpenBuys) \in Int
         /\ SumFunctionOnSet(g, OpenBuys') =
              SumFunctionOnSet(f, OpenBuys) - (IF o \in OpenBuys THEN f[o] ELSE 0)
                                            + (IF o \in OpenBuys' THEN g[o] ELSE 0)
<1> DEFINE S == OpenBuys
           T == OpenBuys'
<1>1. IsFiniteSet(S)
  BY FinitelyManyOpen
<1>2. S \subseteq Orders /\ T \subseteq Orders
  BY DEF OpenBuys, OpenOrders
<1>3. T \ {o} = S \ {o}
  BY DEF OpenBuys, OpenOrders, OnlyRow
<1> HIDE DEF S, T
<1>4. /\ \A x \in S : f[x] \in Int
      /\ \A x \in T : g[x] \in Int
      /\ \A x \in S \ {o} : f[x] = g[x]
  BY <1>2
<1>5. /\ SumFunctionOnSet(f, S) \in Int
      /\ SumFunctionOnSet(g, T) = SumFunctionOnSet(f, S) - Share(f, S, o) + Share(g, T, o)
  BY <1>1, <1>3, <1>4, SumMoves
<1> QED BY <1>5 DEF Share, S, T

\* The lots of order o that wait to be sold of instrument i.
Unsold(o, i) == IF o \in OpenSells(i) THEN Qty[o] - filled[o] ELSE 0

\* What waits to be sold changes by what the row waits for.
LEMMA RemaindersMove ==
  ASSUME TypeOK, TypeOK', IsFiniteSet(PlacedOrders), NEW o \in Orders, OnlyRow(o),
         NEW i \in Instruments
  PROVE  /\ SellRemainders(i) \in Int /\ Unsold(o, i) \in Int /\ Unsold(o, i)' \in Int
         /\ SellRemainders(i)' = SellRemainders(i) - Unsold(o, i) + Unsold(o, i)'
<1> DEFINE left == [p \in Orders |-> Qty[p] - filled[p]]
           S == OpenSells(i)
<1>1. IsFiniteSet(S) /\ S \subseteq Orders /\ S' \subseteq Orders
  BY FinitelyManyOpen DEF OpenSells, OpenOrders
<1>2. \A p \in Orders : left[p] \in Int /\ left'[p] \in Int
  BY BookAssumption DEF TypeOK
<1>3. \A p \in S \ {o} : left[p] = left'[p]
  BY <1>1 DEF OnlyRow
<1>4. S' \ {o} = S \ {o}
  BY DEF OpenSells, OpenOrders, OnlyRow
<1>5. /\ SellRemainders(i) = SumFunctionOnSet(left, S)
      /\ SellRemainders(i)' = SumFunctionOnSet(left', S')
  BY DEF SellRemainders
<1>6. /\ Unsold(o, i) = IF o \in S THEN left[o] ELSE 0
      /\ Unsold(o, i)' = IF o \in S' THEN left'[o] ELSE 0
  BY <1>1 DEF Unsold
<1>7. /\ SumFunctionOnSet(left, S) \in Int
      /\ SumFunctionOnSet(left', S') =
           SumFunctionOnSet(left, S) - Share(left, S, o) + Share(left', S', o)
  <2> DEFINE g == left'
             T == S'
  <2>1. \A x \in S : left[x] \in Int
    BY <1>1, <1>2
  <2>2. \A x \in T : g[x] \in Int
    BY <1>1, <1>2
  <2>3. IsFiniteSet(S)
    BY <1>1
  <2> HIDE DEF g, T, left, S
  <2>4. \A x \in S \ {o} : left[x] = g[x]
    BY <1>3 DEF g
  <2>5. T \ {o} = S \ {o}
    BY <1>4 DEF T
  <2>6. /\ SumFunctionOnSet(left, S) \in Int
        /\ SumFunctionOnSet(g, T) = SumFunctionOnSet(left, S) - Share(left, S, o) + Share(g, T, o)
    BY <2>1, <2>2, <2>3, <2>4, <2>5, SumMoves
  <2> QED BY <2>6 DEF g, T
<1> HIDE DEF left, S
<1>8. /\ Unsold(o, i) = Share(left, S, o) /\ Unsold(o, i)' = Share(left', S', o)
  BY <1>6 DEF Share
<1>9. Share(left, S, o) \in Int /\ Share(left', S', o) \in Int
  BY <1>2 DEF Share
<1> QED BY <1>5, <1>7, <1>8, <1>9

--------------------------------------------------------------------------------
(* What rounding may cost.                                                     *)

\* How far what is reserved for an order of q lots at r0 leans to the high
\* side of its due after k fills, in cents.
Lean(q, r0, r, k) == (2 * (q * r) - 2 * (r0 * (q - k)) + k * (q + 1)) \div (2 * q)

LEMMA LeanBounds ==
  ASSUME NEW q \in Nat \ {0}, NEW r0 \in Nat, NEW r \in Nat, NEW k \in Nat, k <= q
  PROVE  /\ Lean(q, r0, r, k) \in Int
         /\ /\ 2 * (r * q - r0 * (q - k)) <= k * q
            /\ 2 * (r0 * (q - k) - r * q) <= k * q
            => Lean(q, r0, r, k) \in Nat /\ Lean(q, r0, r, k) <= k
         /\ k = 0 /\ r = r0 => Lean(q, r0, r, k) = 0
         /\ r = 0 => Lean(q, r0, r, k) <= k
<1>1. PICK u \in Nat, v \in Nat, w \in Nat :
        u = q * r /\ v = r0 * (q - k) /\ w = k * q
  <2>1. q - k \in Nat
    OBVIOUS
  <2> QED BY <2>1
<1>2. PICK n \in Int : n = 2 * u - 2 * v + (w + k)
  BY <1>1
<1>3. Lean(q, r0, r, k) = n \div (2 * q)
  <2>1. k * (q + 1) = w + k
    BY <1>1
  <2> QED BY <1>1, <1>2, <2>1 DEF Lean
<1>4. 2 * q \in Nat \ {0}
  OBVIOUS
<1>5. n \div (2 * q) \in Int
  BY <1>4, QuotientWithin
<1>6. ASSUME n >= 0 PROVE 0 <= n \div (2 * q)
  <2>1. (2 * q) * 0 <= n
    BY <1>6
  <2> QED BY <1>4, <2>1, QuotientWithin
<1>7. ASSUME n <= 2 * w + k PROVE n \div (2 * q) <= k
  <2>1. (2 * q) * (k + 1) = 2 * w + 2 * q
    BY <1>1
  <2>2. n < (2 * q) * (k + 1)
    BY <1>7, <1>1, <2>1
  <2> QED BY <1>4, <2>2, QuotientWithin
<1>8. r * q = u
  BY <1>1
<1>9. ASSUME 2 * (u - v) <= w, 2 * (v - u) <= w
      PROVE  0 <= n \div (2 * q) /\ n \div (2 * q) <= k
  <2>1. n >= 0 /\ n <= 2 * w + k
    BY <1>2, <1>9
  <2> QED BY <1>6, <1>7, <2>1
<1>10. ASSUME k = 0, r = r0 PROVE n \div (2 * q) = 0
  <2>1. v = u /\ w = 0
    BY <1>1, <1>10
  <2> QED BY <1>2, <1>5, <1>9, <1>10, <2>1
<1>11. ASSUME r = 0 PROVE n \div (2 * q) <= k
  <2>1. u = 0
    BY <1>1, <1>11
  <2>2. n <= 2 * w + k
    BY <1>2, <2>1
  <2> QED BY <1>7, <2>2
<1> QED BY <1>1, <1>3, <1>5, <1>8, <1>9, <1>10, <1>11

\* A fill moves it by at least what the reservation keeps of the lot's cost.
LEMMA LeanMoves ==
  ASSUME NEW o \in Orders, NEW r \in Nat, NEW s \in Nat, NEW k \in Nat, k + 1 <= Qty[o]
  PROVE  Lean(Qty[o], BuyReservation(o), s, k + 1) >=
           Lean(Qty[o], BuyReservation(o), r, k) + s - r + CostOf(o, 1)
<1>1. PICK q \in Nat \ {0}, r0 \in Nat, c \in Nat :
        q = Qty[o] /\ r0 = BuyReservation(o) /\ c = CostOf(o, 1)
  BY ReservationType
<1>2. 2 * (q * c) <= 2 * r0 + q + 1
  BY <1>1, LotCostsItsShare
<1>3. PICK n \in Int : n = 2 * (q * r) - 2 * (r0 * (q - k)) + k * (q + 1)
  OBVIOUS
<1>4. PICK m \in Int : m = 2 * (q * s) - 2 * (r0 * (q - (k + 1))) + (k + 1) * (q + 1)
  OBVIOUS
<1>5. 2 * q \in Nat \ {0}
  OBVIOUS
<1>6. PICK a \in Int : a = n \div (2 * q)
  BY <1>5, QuotientWithin
<1>7. (2 * q) * a <= n
  <2>1. PICK d \in Nat \ {0} : d = 2 * q
    BY <1>5
  <2>2. n \div d \in Int /\ n % d \in Int /\ 0 <= n % d /\ n = d * (n \div d) + (n % d)
    BY Division
  <2>3. PICK b \in Int, e \in Int : b = d * a /\ e = n % d
    BY <2>2
  <2> QED BY <1>6, <2>1, <2>2, <2>3
<1>8. m = n + 2 * (q * s) - 2 * (q * r) + 2 * r0 + q + 1
  <2>1. r0 * (q - (k + 1)) = r0 * (q - k) - r0
    OBVIOUS
  <2>2. (k + 1) * (q + 1) = k * (q + 1) + q + 1
    OBVIOUS
  <2>3. PICK b \in Int, d \in Int, e \in Int, f \in Int :
          b = q * r /\ d = q * s /\ e = r0 * (q - k) /\ f = k * (q + 1)
    OBVIOUS
  <2> QED BY <1>3, <1>4, <2>1, <2>2, <2>3
<1>9. (2 * q) * (a + s - r + c) <= m
  <2>1. (2 * q) * (a + s - r + c) = (2 * q) * a + 2 * (q * s) - 2 * (q * r) + 2 * (q * c)
    OBVIOUS
  <2>2. PICK b \in Int, d \in Int, e \in Int, f \in Int :
          b = (2 * q) * a /\ d = q * s /\ e = q * r /\ f = q * c
    OBVIOUS
  <2> QED BY <1>2, <1>7, <1>8, <2>1, <2>2
<1>10. m \div (2 * q) \in Int /\ a + s - r + c <= m \div (2 * q)
  <2>1. a + s - r + c \in Int
    OBVIOUS
  <2> QED BY <1>5, <1>9, <2>1, QuotientWithin
<1>11. Lean(q, r0, s, k + 1) = m \div (2 * q) /\ Lean(q, r0, r, k) = a
  BY <1>3, <1>4, <1>6 DEF Lean
<1> QED BY <1>1, <1>10, <1>11

--------------------------------------------------------------------------------
(* The open orders are covered.  The sums are over finitely many rows: one     *)
(* placement at a time makes them.                                             *)

\* An order whose lots are not whole cents may have rounded apart once a fill;
\* the part of it its reservation has not made up for is its margin.
Tally(o) == IF WholeCents(o) THEN 0 ELSE filled[o]
Margin(o) == IF WholeCents(o) THEN 0
             ELSE filled[o] - Lean(Qty[o], BuyReservation(o), reserved[o], filled[o])

Tallies == [o \in Orders |-> Tally(o)]
Margins == [o \in Orders |-> Margin(o)]

TallySum == SumFunctionOnSet(Tallies, OpenBuys)
MarginSum == SumFunctionOnSet(Margins, OpenBuys)
Roundings == Cardinality(RoundedApart)

BuysCovered ==
  WithinReservation /\ LateFilled = {} =>
    holds + BuyReservations + MarginSum <= cash + Roundings

CoverInv ==
  /\ BookInv
  /\ IsFiniteSet(PlacedOrders)
  /\ TallySum <= Roundings
  /\ BuysCovered
  /\ SellsCovered

LEMMA MarginType ==
  ASSUME TypeOK, NEW o \in Orders
  PROVE  /\ filled[o] \in Nat /\ reserved[o] \in Nat
         /\ Tally(o) \in Nat
         /\ filled[o] <= Qty[o] => Margin(o) \in Int
         /\ filled[o] <= Qty[o] /\ Follows(o, reserved[o], filled[o])
              => Margin(o) \in Nat /\ Margin(o) <= Tally(o)
<1>1. PICK q \in Nat \ {0}, r0 \in Nat, r \in Nat, k \in Nat :
        q = Qty[o] /\ r0 = BuyReservation(o) /\ r = reserved[o] /\ k = filled[o]
  BY ReservationType DEF TypeOK
<1>2. Tally(o) \in Nat
  BY <1>1 DEF Tally
<1>3. ASSUME k <= q PROVE Margin(o) \in Int
  <2>1. Lean(q, r0, r, k) \in Int
    BY <1>3, LeanBounds
  <2> QED BY <1>1, <2>1 DEF Margin
<1>4. ASSUME k <= q, Follows(o, r, k) PROVE Margin(o) \in Nat /\ Margin(o) <= Tally(o)
  <2>1. /\ 2 * (r * q - r0 * (q - k)) <= k * q
        /\ 2 * (r0 * (q - k) - r * q) <= k * q
    BY <1>1, <1>4 DEF Follows
  <2>2. Lean(q, r0, r, k) \in Nat /\ Lean(q, r0, r, k) <= k
    BY <1>4, <2>1, LeanBounds
  <2> QED BY <1>1, <2>2 DEF Margin, Tally
<1> QED BY <1>1, <1>2, <1>3, <1>4

RowsTyped == \A o \in Orders : filled[o] <= Qty[o] =>
  reserved[o] \in Nat /\ Margin(o) \in Int /\ Tally(o) \in Nat

LEMMA RowTypes == TypeOK => RowsTyped
BY MarginType DEF RowsTyped

LEMMA RoundingsType == TypeOK => Roundings \in Nat /\ IsFiniteSet(RoundedApart)
<1> SUFFICES ASSUME TypeOK PROVE Roundings \in Nat /\ IsFiniteSet(RoundedApart)
  OBVIOUS
<1>1. IsFiniteSet(fills) /\ RoundedApart \subseteq fills
  BY BookAssumption, FS_Subset DEF TypeOK, RoundedApart
<1> QED BY <1>1, FS_Subset, FS_CardinalityType DEF Roundings

\* The margins are worth at most the roundings, and nothing less than nothing.
LEMMA MarginsWithin ==
  ASSUME BookInv, IsFiniteSet(PlacedOrders)
  PROVE  /\ BuyReservations \in Int
         /\ MarginSum \in Nat /\ TallySum \in Nat /\ MarginSum <= TallySum
<1> DEFINE S == OpenBuys
<1>1. IsFiniteSet(S) /\ S \subseteq Orders
  BY FinitelyManyOpen DEF OpenBuys, OpenOrders
<1>2. ASSUME NEW p \in S
      PROVE  /\ Margins[p] \in Nat /\ Tallies[p] \in Nat /\ Margins[p] <= Tallies[p]
             /\ reserved[p] \in Int
  <2>1. p \in Orders /\ p \in BuyOrders /\ state[p] \in OpenStates
    BY <1>2 DEF OpenBuys, OpenOrders
  <2>2. filled[p] <= Qty[p] /\ Follows(p, reserved[p], filled[p])
    BY <2>1, DerivedRows DEF BookInv, FillAccounting
  <2> QED BY <2>1, <2>2, MarginType DEF BookInv, Margins, Tallies
<1> HIDE DEF S
<1>3. SumFunctionOnSet(Margins, S) \in Nat /\ SumFunctionOnSet(Tallies, S) \in Nat
      /\ SumFunctionOnSet(Margins, S) <= SumFunctionOnSet(Tallies, S)
  BY <1>1, <1>2, SumAtMost
<1>4. SumFunctionOnSet(reserved, S) \in Int
  <2>1. S \in SUBSET S
    OBVIOUS
  <2> QED BY <1>1, <1>2, <2>1, SumType
<1>5. BuyReservations = SumFunctionOnSet(reserved, S) /\ MarginSum = SumFunctionOnSet(Margins, S)
      /\ TallySum = SumFunctionOnSet(Tallies, S)
  BY DEF BuyReservations, MarginSum, TallySum, S, OpenBuys
<1> QED BY <1>3, <1>4, <1>5

LEMMA CoverHolds == CoverInv => OpenOrdersAreCovered
<1> SUFFICES ASSUME CoverInv, WithinReservation, LateFilled = {}
             PROVE  holds + BuyReservations <= cash + Cardinality(RoundedApart)
  BY DEF CoverInv, OpenOrdersAreCovered, NeverOverspent
<1>1. holds + BuyReservations + MarginSum <= cash + Roundings
  BY DEF CoverInv, BuysCovered
<1>2. holds \in Nat /\ cash \in Int /\ Roundings \in Nat
  BY RoundingsType DEF CoverInv, BookInv, TypeOK
<1>3. BuyReservations \in Int /\ MarginSum \in Nat
  BY MarginsWithin DEF CoverInv
<1>4. holds + BuyReservations <= cash + Roundings
  BY <1>1, <1>2, <1>3
<1> QED BY <1>4 DEF Roundings

\* What the row of o claims of the cash, and what it counts as rounded apart.
Claim(o) == IF o \in OpenBuys THEN reserved[o] + Margin(o) ELSE 0
Count(o) == IF o \in OpenBuys THEN Tally(o) ELSE 0

\* The sums change by what the row does.
LEMMA SumsMove ==
  ASSUME BookInv, BookInv', IsFiniteSet(PlacedOrders), NEW o \in Orders, OnlyRow(o)
  PROVE  /\ BuyReservations \in Int /\ MarginSum \in Int /\ TallySum \in Int
         /\ Claim(o) \in Int /\ Claim(o)' \in Int /\ Count(o) \in Int /\ Count(o)' \in Int
         /\ BuyReservations' + MarginSum' = BuyReservations + MarginSum - Claim(o) + Claim(o)'
         /\ TallySum' = TallySum - Count(o) + Count(o)'
         /\ BuyReservations' \in Int /\ MarginSum' \in Int
<1> DEFINE in == o \in OpenBuys
           out == o \in OpenBuys'
           f == reserved
           g == reserved'
           m == Margins
           n == Margins'
           t == Tallies
           u == Tallies'
<1>1. ASSUME NEW p \in Orders
      PROVE  /\ reserved[p] \in Nat /\ Margin(p) \in Int /\ Tally(p) \in Nat
             /\ reserved'[p] \in Nat /\ Margin(p)' \in Int /\ Tally(p)' \in Nat
  <2>1. filled[p] <= Qty[p] /\ filled'[p] <= Qty[p] /\ TypeOK /\ TypeOK'
    BY DEF BookInv, FillAccounting
  <2>2. (TypeOK => RowsTyped)'
    BY RowTypes, PTL
  <2> QED BY <2>1, <2>2, RowTypes DEF RowsTyped
<1>2. ASSUME NEW p \in Orders, p # o
      PROVE  reserved'[p] = reserved[p] /\ Margin(p)' = Margin(p) /\ Tally(p)' = Tally(p)
  <2>1. reserved'[p] = reserved[p] /\ filled'[p] = filled[p]
    BY <1>2 DEF OnlyRow
  <2> QED BY <2>1 DEF Margin, Tally, Lean, WholeCents, BuyReservation, CostOf
<1>3. /\ \A p \in Orders : f[p] \in Int /\ g[p] \in Int
      /\ \A p \in Orders : p # o => f[p] = g[p]
  BY <1>1, <1>2
<1>4. /\ \A p \in Orders : m[p] \in Int /\ n[p] \in Int
      /\ \A p \in Orders : p # o => m[p] = n[p]
  BY <1>1, <1>2 DEF Margins
<1>5. /\ \A p \in Orders : t[p] \in Int /\ u[p] \in Int
      /\ \A p \in Orders : p # o => t[p] = u[p]
  BY <1>1, <1>2 DEF Tallies
<1>6. /\ m[o] = Margin(o) /\ n[o] = Margin(o)' /\ t[o] = Tally(o) /\ u[o] = Tally(o)'
      /\ f[o] = reserved[o] /\ g[o] = reserved'[o]
  BY DEF Margins, Tallies
<1> HIDE DEF f, g, m, n, t, u, in, out
<1>7. /\ SumFunctionOnSet(f, OpenBuys) \in Int
      /\ SumFunctionOnSet(g, OpenBuys') =
           SumFunctionOnSet(f, OpenBuys) - (IF in THEN f[o] ELSE 0) + (IF out THEN g[o] ELSE 0)
  BY <1>3, OpenSumMoves DEF in, out
<1>8. /\ SumFunctionOnSet(m, OpenBuys) \in Int
      /\ SumFunctionOnSet(n, OpenBuys') =
           SumFunctionOnSet(m, OpenBuys) - (IF in THEN m[o] ELSE 0) + (IF out THEN n[o] ELSE 0)
  BY <1>4, OpenSumMoves DEF in, out
<1>9. /\ SumFunctionOnSet(t, OpenBuys) \in Int
      /\ SumFunctionOnSet(u, OpenBuys') =
           SumFunctionOnSet(t, OpenBuys) - (IF in THEN t[o] ELSE 0) + (IF out THEN u[o] ELSE 0)
  BY <1>5, OpenSumMoves DEF in, out
<1>10. /\ BuyReservations = SumFunctionOnSet(f, OpenBuys)
       /\ BuyReservations' = SumFunctionOnSet(g, OpenBuys')
       /\ MarginSum = SumFunctionOnSet(m, OpenBuys) /\ MarginSum' = SumFunctionOnSet(n, OpenBuys')
       /\ TallySum = SumFunctionOnSet(t, OpenBuys) /\ TallySum' = SumFunctionOnSet(u, OpenBuys')
  BY DEF BuyReservations, MarginSum, TallySum, OpenBuys, f, g, m, n, t, u
<1>11. f[o] \in Int /\ g[o] \in Int /\ m[o] \in Int /\ n[o] \in Int /\ t[o] \in Int /\ u[o] \in Int
  BY <1>3, <1>4, <1>5
<1>12. /\ (IF in THEN f[o] ELSE 0) \in Int /\ (IF out THEN g[o] ELSE 0) \in Int
       /\ (IF in THEN m[o] ELSE 0) \in Int /\ (IF out THEN n[o] ELSE 0) \in Int
       /\ (IF in THEN t[o] ELSE 0) \in Int /\ (IF out THEN u[o] ELSE 0) \in Int
  BY <1>11
<1>13. PICK fo \in Int, go \in Int : fo = (IF in THEN f[o] ELSE 0) /\ go = (IF out THEN g[o] ELSE 0)
  BY <1>12
<1>14. PICK mo \in Int, no \in Int : mo = (IF in THEN m[o] ELSE 0) /\ no = (IF out THEN n[o] ELSE 0)
  BY <1>12
<1>15. PICK to \in Int, uo \in Int : to = (IF in THEN t[o] ELSE 0) /\ uo = (IF out THEN u[o] ELSE 0)
  BY <1>12
<1>16. /\ Claim(o) = fo + mo /\ Claim(o)' = go + no
       /\ Count(o) = to /\ Count(o)' = uo
  <2>1. /\ Claim(o) = IF in THEN f[o] + m[o] ELSE 0
        /\ Claim(o)' = IF out THEN g[o] + n[o] ELSE 0
        /\ Count(o) = IF in THEN t[o] ELSE 0
        /\ Count(o)' = IF out THEN u[o] ELSE 0
    BY <1>6 DEF Claim, Count, in, out
  <2> QED BY <1>11, <1>13, <1>14, <1>15, <2>1
<1>17. /\ BuyReservations \in Int /\ MarginSum \in Int /\ TallySum \in Int
       /\ BuyReservations' = BuyReservations - fo + go
       /\ MarginSum' = MarginSum - mo + no
       /\ TallySum' = TallySum - to + uo
  BY <1>7, <1>8, <1>9, <1>10, <1>13, <1>14, <1>15
<1>18. /\ BuyReservations' \in Int /\ MarginSum' \in Int
       /\ BuyReservations' + MarginSum' = BuyReservations + MarginSum - (fo + mo) + (go + no)
  BY <1>17
<1> QED BY <1>16, <1>17, <1>18

\* A step on the row of o keeps the cover if it claims no more than it brings.
LEMMA RowKeepsCover ==
  ASSUME CoverInv, BookInv', NEW o \in Orders, OnlyRow(o),
         LateFilled' = {} => LateFilled = {},
         Count(o)' - Count(o) <= Roundings' - Roundings,
         WithinReservation /\ LateFilled' = {} =>
           holds' - holds + (Claim(o)' - Claim(o)) <= cash' - cash + (Roundings' - Roundings),
         \A i \in Instruments : LateFilled' = {} =>
           Unsold(o, i)' - Unsold(o, i) <= lots'[i] - lots[i]
  PROVE  CoverInv'
<1>1. /\ BookInv /\ TypeOK /\ TypeOK' /\ IsFiniteSet(PlacedOrders)
      /\ TallySum <= Roundings /\ BuysCovered /\ SellsCovered
  BY DEF CoverInv, BookInv
<1>2. IsFiniteSet(PlacedOrders')
  <2>1. PlacedOrders' \subseteq PlacedOrders \cup {o}
    BY DEF PlacedOrders, OnlyRow
  <2> QED BY <1>1, <2>1, FS_AddElement, FS_Subset
<1>3. Roundings \in Nat /\ Roundings' \in Nat
  <2>1. TypeOK => Roundings \in Nat
    BY RoundingsType
  <2>2. (TypeOK => Roundings \in Nat)'
    BY RoundingsType, PTL
  <2> QED BY <1>1, <2>1, <2>2
<1>4. /\ BuyReservations \in Int /\ MarginSum \in Int /\ TallySum \in Int
      /\ Claim(o) \in Int /\ Claim(o)' \in Int /\ Count(o) \in Int /\ Count(o)' \in Int
      /\ BuyReservations' + MarginSum' = BuyReservations + MarginSum - Claim(o) + Claim(o)'
      /\ TallySum' = TallySum - Count(o) + Count(o)'
      /\ BuyReservations' \in Int /\ MarginSum' \in Int
  BY <1>1, SumsMove
<1>5. TallySum' <= Roundings'
  BY <1>1, <1>3, <1>4
<1>6. BuysCovered'
  <2>1. holds \in Nat /\ holds' \in Nat /\ cash \in Int /\ cash' \in Int
    BY <1>1 DEF TypeOK
  <2>2. WithinReservation' <=> WithinReservation
    BY DEF WithinReservation, FillCost, CostOf
  <2>3. SUFFICES ASSUME WithinReservation, LateFilled' = {}
                 PROVE  holds' + BuyReservations' + MarginSum' <= cash' + Roundings'
    BY <2>2 DEF BuysCovered
  <2>4. holds + BuyReservations + MarginSum <= cash + Roundings
    BY <1>1, <2>3 DEF BuysCovered
  <2>5. holds' - holds + (Claim(o)' - Claim(o)) <= cash' - cash + (Roundings' - Roundings)
    BY <2>3
  <2>6. holds' + (BuyReservations' + MarginSum') <= cash' + Roundings'
    BY <1>3, <1>4, <2>1, <2>4, <2>5
  <2> QED BY <1>4, <2>1, <2>6
<1>7. SellsCovered'
  <2>1. ASSUME NEW i \in Instruments, LateFilled' = {}
        PROVE  (SellRemainders(i) <= lots[i])'
    <3>1. /\ SellRemainders(i) \in Int /\ Unsold(o, i) \in Int /\ Unsold(o, i)' \in Int
          /\ SellRemainders(i)' = SellRemainders(i) - Unsold(o, i) + Unsold(o, i)'
      BY <1>1, RemaindersMove
    <3>2. lots[i] \in Nat /\ lots'[i] \in Nat
      BY <1>1 DEF TypeOK
    <3>3. SellRemainders(i) <= lots[i]
      BY <1>1, <2>1 DEF SellsCovered
    <3> QED BY <2>1, <3>1, <3>2, <3>3
  <2> QED BY <2>1 DEF SellsCovered
<1> QED BY <1>2, <1>5, <1>6, <1>7 DEF CoverInv

\* A transition without an execution frees what it does not keep.
LEMMA StatusKeepsCover ==
  ASSUME CoverInv, BookInv', NEW o \in Orders, NEW t \in EventTypes, state[o] # Absent,
         Flag(o) \/ Transition(o, t, filled[o]), UNCHANGED <<fills, cash, lots, holds>>
  PROVE  CoverInv'
<1>1. /\ BookInv /\ TypeOK /\ TypeOK' /\ filled[o] \in Nat /\ filled[o] <= Qty[o] /\ Qty[o] \in Nat
      /\ state[o] \in OrderStates /\ IsFiniteSet(PlacedOrders)
  BY BookAssumption DEF CoverInv, BookInv, TypeOK, FillAccounting
<1>2. OnlyRow(o)
  BY <1>1, OtherRows DEF OnlyRow
<1>3. filled' = filled
  <2>1. CASE Flag(o)
    BY <2>1 DEF Flag
  <2>2. CASE Transition(o, t, filled[o])
    BY <1>1, <2>2 DEF Transition, TypeOK
  <2> QED BY <2>1, <2>2
<1>4. /\ state'[o] \in OpenStates => state[o] \in OpenStates
      /\ o \in BuyOrders /\ state'[o] \in OpenStates => reserved'[o] = reserved[o]
  <2>1. CASE Flag(o)
    BY <2>1 DEF Flag
  <2>2. CASE Transition(o, t, filled[o])
    <3>1. state[o] \in TerminalStates => state'[o] = state[o]
      BY <1>1, <2>2, TransitionRow
    <3>2. o \in BuyOrders /\ state'[o] \in OpenStates => reserved'[o] = reserved[o]
      BY <1>1, <2>2, TransitionRow
    <3> QED BY <1>1, <3>1, <3>2, StatesDisjoint DEF OrderStates
  <2> QED BY <2>1, <2>2
<1>5. LateFilled' = LateFilled /\ Roundings' = Roundings
  BY <1>3 DEF LateFilled, BookedFor, Roundings, RoundedApart, WholeCents, BuyReservation, CostOf
<1>6. o \in OpenBuys' => o \in OpenBuys /\ reserved'[o] = reserved[o]
  BY <1>4 DEF OpenBuys, OpenOrders
<1>7. o \in OpenBuys' => Claim(o)' = Claim(o) /\ Count(o)' = Count(o)
  BY <1>3, <1>6 DEF Claim, Count, Margin, Tally, Lean, WholeCents, BuyReservation, CostOf
<1>8. o \notin OpenBuys' => Claim(o)' = 0 /\ Count(o)' = 0
  BY DEF Claim, Count
<1>9. Claim(o) \in Nat /\ Count(o) \in Nat
  <2>1. o \in OpenBuys => Follows(o, reserved[o], filled[o])
    BY <1>1, DerivedRows DEF BookInv, OpenBuys, OpenOrders
  <2> QED BY <1>1, <2>1, MarginType DEF Claim, Count
<1>10. Claim(o)' \in Int /\ Claim(o)' <= Claim(o) /\ Count(o)' \in Int /\ Count(o)' <= Count(o)
  BY <1>7, <1>8, <1>9
<1>11. Roundings \in Nat /\ cash \in Int /\ holds \in Nat
  BY <1>1, RoundingsType DEF TypeOK
<1>12. Count(o)' - Count(o) <= Roundings' - Roundings
  BY <1>5, <1>9, <1>10, <1>11
<1>13. holds' - holds + (Claim(o)' - Claim(o)) <= cash' - cash + (Roundings' - Roundings)
  <2>1. holds' = holds /\ cash' = cash
    OBVIOUS
  <2> QED BY <1>5, <1>9, <1>10, <1>11, <2>1
<1>14. ASSUME NEW i \in Instruments
       PROVE  Unsold(o, i)' - Unsold(o, i) <= lots'[i] - lots[i]
  <2>1. o \in OpenSells(i)' => o \in OpenSells(i)
    BY <1>4 DEF OpenSells, OpenOrders
  <2>2. Unsold(o, i) = IF o \in OpenSells(i) THEN Qty[o] - filled[o] ELSE 0
    BY DEF Unsold
  <2>3. Unsold(o, i)' = IF o \in OpenSells(i)' THEN Qty[o] - filled[o] ELSE 0
    BY <1>3 DEF Unsold
  <2>4. lots'[i] = lots[i] /\ lots[i] \in Nat
    BY <1>1 DEF TypeOK
  <2> QED BY <1>1, <2>1, <2>2, <2>3, <2>4
<1> QED BY <1>2, <1>5, <1>12, <1>13, <1>14, RowKeepsCover

\* Of a buy's row, an execution takes no more than the lot's cost, with the
\* cent its rounding may be apart.
LEMMA FillTakesItsShare ==
  ASSUME BookInv, BookInv', NEW o \in Orders, o \in BuyOrders, state[o] \in OpenStates,
         filled'[o] = filled[o] + 1
  PROVE  /\ Count(o)' - Count(o) <= (IF WholeCents(o) THEN 0 ELSE 1)
         /\ Claim(o)' - Claim(o) <= (IF WholeCents(o) THEN 0 ELSE 1) - CostOf(o, 1)
<1>1. PICK q \in Nat \ {0}, r0 \in Nat, c \in Nat :
        q = Qty[o] /\ r0 = BuyReservation(o) /\ c = CostOf(o, 1)
  BY ReservationType
<1>2. PICK k \in Nat, r \in Nat, s \in Nat : k = filled[o] /\ r = reserved[o] /\ s = reserved'[o]
  BY DEF BookInv, TypeOK
<1>3. k + 1 <= q /\ filled'[o] = k + 1 /\ filled'[o] \in Nat
  <2>1. filled'[o] <= Qty[o]
    BY DEF BookInv, FillAccounting
  <2> QED BY <1>1, <1>2, <2>1
<1>4. o \in OpenBuys /\ Follows(o, r, k)
  BY <1>2, DerivedRows DEF BookInv, OpenBuys, OpenOrders
<1>5. o \in OpenBuys' => Follows(o, s, k + 1)
  BY <1>2, <1>3, RowsDerived DEF BookInv, OpenBuys, OpenOrders
<1>6. /\ Claim(o) = r + Margin(o) /\ Count(o) = Tally(o)
      /\ o \in OpenBuys' => Claim(o)' = s + Margin(o)' /\ Count(o)' = Tally(o)'
      /\ o \notin OpenBuys' => Claim(o)' = 0 /\ Count(o)' = 0
  BY <1>2, <1>4 DEF Claim, Count
<1>7. CASE WholeCents(o)
  <2>1. Margin(o) = 0 /\ Tally(o) = 0 /\ Margin(o)' = 0 /\ Tally(o)' = 0
    BY <1>7 DEF Margin, Tally, WholeCents, BuyReservation, CostOf
  <2>2. r = c * (q - k) /\ (o \in OpenBuys' => s = c * (q - (k + 1)))
    BY <1>1, <1>4, <1>5, <1>7 DEF Follows
  <2>3. c * (q - (k + 1)) = c * (q - k) - c /\ c * (q - (k + 1)) \in Nat
    BY <1>3
  <2>4. c * (q - k) \in Int
    OBVIOUS
  <2> QED BY <1>1, <1>6, <1>7, <2>1, <2>2, <2>3, <2>4
<1>8. CASE ~WholeCents(o)
  <2>1. PICK a \in Int, b \in Int, z \in Int :
          a = Lean(q, r0, r, k) /\ b = Lean(q, r0, s, k + 1) /\ z = Lean(q, r0, 0, k + 1)
    <3>1. k <= q /\ k + 1 <= q /\ k + 1 \in Nat /\ 0 \in Nat
      BY <1>3
    <3>2. Lean(q, r0, r, k) \in Int
      BY <3>1, LeanBounds
    <3>3. Lean(q, r0, s, k + 1) \in Int
      BY <3>1, LeanBounds
    <3>4. Lean(q, r0, 0, k + 1) \in Int
      BY <3>1, LeanBounds
    <3> QED BY <3>2, <3>3, <3>4
  <2>2. Tally(o) = k /\ Tally(o)' = k + 1 /\ Margin(o) = k - a /\ Margin(o)' = (k + 1) - b
    BY <1>1, <1>2, <1>3, <1>8, <2>1
    DEF Tally, Margin, WholeCents, BuyReservation, CostOf
  <2>3. b >= a + s - r + c /\ z >= a + 0 - r + c
    BY <1>1, <1>3, <2>1, LeanMoves
  <2>4. z <= k + 1
    <3>1. k + 1 <= q /\ k + 1 \in Nat /\ 0 \in Nat
      BY <1>3
    <3> QED BY <2>1, <3>1, LeanBounds
  <2>5. CASE o \in OpenBuys'
    BY <1>1, <1>6, <1>8, <2>2, <2>3, <2>5
  <2>6. CASE o \notin OpenBuys'
    BY <1>1, <1>6, <1>8, <2>2, <2>3, <2>4, <2>6
  <2> QED BY <2>5, <2>6
<1> QED BY <1>7, <1>8

\* An execution of an open order uses what was set aside for it; one of a
\* terminal order is late.
LEMMA FillKeepsCover ==
  ASSUME CoverInv, BookInv', NEW e \in FillEvents, ApplyFill(e)
  PROVE  CoverInv'
<1> DEFINE x == e.exec
           o == OrderOf[x]
           t == e.type
           i == InstrumentOf[o]
<1>1. /\ x \in Executions /\ o \in Orders /\ t \in FillTypes /\ t \in EventTypes /\ i \in Instruments
      /\ state[o] # Absent /\ x \notin fills /\ fills' = fills \cup {x}
      /\ Flag(o) \/ Transition(o, t, filled[o] + 1)
      /\ cash' = cash + CashDelta(x) /\ lots' = [lots EXCEPT ![i] = @ + LotsDelta(x)]
      /\ holds' = holds
  BY BookAssumption DEF ApplyFill, FillEvents, NotYetBooked, Book, EventTypes
<1>2. /\ BookInv /\ TypeOK /\ TypeOK' /\ filled[o] \in Nat /\ Qty[o] \in Nat
      /\ state[o] \in OrderStates /\ FillCost(x) \in Int /\ CostOf(o, 1) \in Nat /\ Fee \in Nat
      /\ IsFiniteSet(PlacedOrders)
  BY <1>1, BookAssumption, MovesType, ReservationType DEF CoverInv, BookInv, TypeOK
<1> HIDE DEF x, o, t, i
<1>3. OnlyRow(o)
  BY <1>1, <1>2, OtherRows DEF OnlyRow
<1>4. /\ Cardinality(BookedFor(o)) \in Nat
      /\ Cardinality(BookedFor(o)') = Cardinality(BookedFor(o)) + 1
  BY <1>1, <1>2, BookingCounts DEF o
<1>5. /\ Roundings \in Nat
      /\ Roundings' = Roundings + (IF o \in BuyOrders /\ ~WholeCents(o) THEN 1 ELSE 0)
  <2>1. Roundings \in Nat /\ IsFiniteSet(RoundedApart) /\ x \notin RoundedApart
    BY <1>1, <1>2, RoundingsType DEF RoundedApart
  <2>2. \A p \in Orders : WholeCents(p)' <=> WholeCents(p)
    BY DEF WholeCents, BuyReservation, CostOf
  <2>3. OrderOf \in [Executions -> Orders] /\ fills \subseteq Executions
    BY <1>2, BookAssumption DEF TypeOK
  <2>4. CASE o \in BuyOrders /\ ~WholeCents(o)
    <3>1. RoundedApart' = RoundedApart \cup {x}
      BY <1>1, <2>2, <2>3, <2>4 DEF RoundedApart, o
    <3>2. Cardinality(RoundedApart \cup {x}) = Cardinality(RoundedApart) + 1
      BY <2>1, FS_AddElement
    <3> QED BY <2>1, <2>4, <3>1, <3>2 DEF Roundings
  <2>5. CASE ~(o \in BuyOrders /\ ~WholeCents(o))
    <3>1. RoundedApart' = RoundedApart
      BY <1>1, <2>2, <2>3, <2>5 DEF RoundedApart, o
    <3> QED BY <2>1, <2>5, <3>1 DEF Roundings
  <2> QED BY <2>4, <2>5
<1>6. CASE Flag(o)
  <2>1. filled'[o] = filled[o] /\ filled[o] <= Cardinality(BookedFor(o))
    BY <1>1, <1>2, <1>6 DEF Flag, BookInv, FillAccounting
  <2>2. filled'[o] # Cardinality(BookedFor(o)')
    BY <1>2, <1>4, <2>1
  <2>3. LateFilled' # {}
    BY <1>1, <2>2 DEF LateFilled
  <2>4. Count(o)' = Count(o) /\ Count(o) \in Int
    <3>1. Count(o)' = Count(o)
      BY <1>6 DEF Flag, Count, Tally, OpenBuys, OpenOrders, WholeCents, BuyReservation, CostOf
    <3> QED BY <1>1, <1>2, <3>1, MarginType DEF Count
  <2>5. Count(o)' - Count(o) <= Roundings' - Roundings
    BY <1>5, <2>4
  <2> QED BY <1>1, <1>3, <2>3, <2>5, RowKeepsCover
<1>7. CASE Transition(o, t, filled[o] + 1)
  <2>1. /\ filled'[o] = filled[o] + 1 /\ filled[o] + 1 <= Qty[o]
        /\ state[o] \notin TerminalStates
        /\ ~(o \in BuyOrders /\ state'[o] \in OpenStates) => reserved'[o] = 0
    <3>1. filled[o] + 1 \in Nat /\ filled[o] + 1 # filled[o]
      BY <1>2
    <3> QED BY <1>1, <1>2, <1>7, <3>1, TransitionRow
  <2>2. state[o] \in OpenStates
    BY <1>2, <2>1 DEF OrderStates
  <2>3. ASSUME LateFilled' = {} PROVE LateFilled = {}
    <3>1. ASSUME NEW p \in Orders, p # o PROVE p \notin LateFilled
      <4>1. filled'[p] = filled[p] /\ BookedFor(p)' = BookedFor(p)
        BY <1>1, <1>2, <1>3, <3>1, BookingCounts DEF OnlyRow, o
      <4>2. p \notin LateFilled'
        BY <2>3
      <4> QED BY <3>1, <4>1, <4>2 DEF LateFilled
    <3>2. o \notin LateFilled
      <4>1. o \notin LateFilled'
        BY <2>3
      <4>2. filled'[o] = Cardinality(BookedFor(o)')
        BY <1>1, <4>1 DEF LateFilled
      <4> QED BY <1>2, <1>4, <2>1, <4>2 DEF LateFilled
    <3> QED BY <3>1, <3>2 DEF LateFilled
  <2>4. /\ Count(o) \in Int /\ Count(o)' \in Int /\ Claim(o) \in Int /\ Claim(o)' \in Int
    BY <1>1, <1>2, <1>3, SumsMove
  <2>5. o \notin BuyOrders => Claim(o) = 0 /\ Claim(o)' = 0 /\ Count(o) = 0 /\ Count(o)' = 0
    BY DEF Claim, Count, OpenBuys
  <2>6. o \in BuyOrders =>
          /\ Count(o)' - Count(o) <= (IF WholeCents(o) THEN 0 ELSE 1)
          /\ Claim(o)' - Claim(o) <= (IF WholeCents(o) THEN 0 ELSE 1) - CostOf(o, 1)
    BY <1>1, <1>2, <2>1, <2>2, FillTakesItsShare
  <2>7. Count(o)' - Count(o) <= Roundings' - Roundings
    BY <1>5, <2>4, <2>5, <2>6
  <2>8. ASSUME WithinReservation
        PROVE  holds' - holds + (Claim(o)' - Claim(o)) <= cash' - cash + (Roundings' - Roundings)
    <3>1. holds \in Int /\ cash \in Int /\ holds' = holds
      BY <1>1, <1>2 DEF TypeOK
    <3>2. CASE o \in BuyOrders
      <4>1. cash' = cash - FillCost(x) - Fee /\ FillCost(x) + Fee <= CostOf(o, 1)
        BY <1>1, <1>2, <2>8, <3>1, <3>2 DEF CashDelta, WithinReservation, o
      <4>2. WholeCents(o) \in BOOLEAN
        BY DEF WholeCents
      <4> QED BY <1>2, <1>5, <2>4, <2>6, <3>1, <3>2, <4>1, <4>2
    <3>3. CASE o \notin BuyOrders
      <4>1. cash' = cash + FillCost(x) - Fee /\ Fee <= FillCost(x)
        BY <1>1, <1>2, <2>8, <3>1, <3>3 DEF CashDelta, WithinReservation, o
      <4> QED BY <1>2, <1>5, <2>5, <3>1, <3>3, <4>1
    <3> QED BY <3>2, <3>3
  <2>9. ASSUME NEW j \in Instruments
        PROVE  Unsold(o, j)' - Unsold(o, j) <= lots'[j] - lots[j]
    <3>1. lots[j] \in Nat /\ lots'[j] \in Nat
      BY <1>2 DEF TypeOK
    <3>2. Unsold(o, j) = IF o \in OpenSells(j) THEN Qty[o] - filled[o] ELSE 0
      BY DEF Unsold
    <3>3. Unsold(o, j)' = IF o \in OpenSells(j)' THEN Qty[o] - filled'[o] ELSE 0
      BY DEF Unsold
    <3>4. o \in OpenSells(j) <=> o \notin BuyOrders /\ j = i
      BY <1>1, <2>2 DEF OpenSells, OpenOrders, i
    <3>5. o \in OpenSells(j)' => o \notin BuyOrders /\ j = i
      BY <1>1 DEF OpenSells, OpenOrders, i
    <3>6. lots'[j] = IF j = i THEN lots[j] + LotsDelta(x) ELSE lots[j]
      BY <1>1, <1>2 DEF TypeOK
    <3>7. LotsDelta(x) = IF o \in BuyOrders THEN 1 ELSE -1
      BY DEF LotsDelta, o
    <3> QED BY <1>2, <2>1, <3>1, <3>2, <3>3, <3>4, <3>5, <3>6, <3>7
  <2> QED BY <1>1, <1>3, <2>3, <2>7, <2>8, <2>9, RowKeepsCover
<1> QED BY <1>1, <1>6, <1>7

\* A placement adds what it was checked for, and nothing else.
LEMMA PlaceKeepsCover ==
  ASSUME CoverInv, BookInv', NEW o \in Orders, Place(o)
  PROVE  CoverInv'
<1> DEFINE i == InstrumentOf[o]
<1>1. /\ state[o] = Absent /\ CoversPlacement(o)
      /\ state' = [state EXCEPT ![o] = "PENDING_SUBMISSION"]
      /\ reserved' = [reserved EXCEPT ![o] = IF o \in BuyOrders THEN BuyReservation(o) ELSE 0]
      /\ filled' = filled /\ fills' = fills /\ cash' = cash /\ lots' = lots /\ holds' = holds
  BY DEF Place
<1>2. /\ BookInv /\ TypeOK /\ TypeOK' /\ IsFiniteSet(PlacedOrders) /\ TallySum <= Roundings
      /\ BuysCovered /\ SellsCovered /\ filled[o] = 0
  BY <1>1 DEF CoverInv, BookInv, FilledIsComplete
<1>3. OnlyRow(o)
  BY <1>1, <1>2 DEF OnlyRow, TypeOK
<1>4. IsFiniteSet(PlacedOrders')
  <2>1. PlacedOrders' \subseteq PlacedOrders \cup {o}
    BY <1>3 DEF PlacedOrders, OnlyRow
  <2> QED BY <1>2, <2>1, FS_AddElement, FS_Subset
<1>5. LateFilled' = LateFilled /\ Roundings' = Roundings
  BY <1>1 DEF LateFilled, BookedFor, Roundings, RoundedApart, WholeCents, BuyReservation, CostOf
<1>6. state[o] \notin OpenStates /\ i \in Instruments /\ Qty[o] \in Nat \ {0}
  BY <1>1, BookAssumption DEF OpenStates, Absent
<1> HIDE DEF i
<1>7. o \notin OpenBuys /\ (o \in OpenBuys' <=> o \in BuyOrders)
  <2>1. state'[o] \in OpenStates
    BY <1>1, <1>2 DEF TypeOK, OpenStates
  <2> QED BY <1>6, <2>1 DEF OpenBuys, OpenOrders
<1>8. Claim(o) = 0 /\ Count(o) = 0
  BY <1>7 DEF Claim, Count
<1>9. Claim(o)' = (IF o \in BuyOrders THEN BuyReservation(o) ELSE 0) /\ Count(o)' = 0
  <2>1. filled'[o] = 0 /\ (o \in BuyOrders => reserved'[o] = BuyReservation(o))
    BY <1>1, <1>2 DEF TypeOK
  <2>2. Tally(o)' = 0
    BY <2>1 DEF Tally
  <2>3. BuyReservation(o) \in Nat /\ (WholeCents(o)' <=> WholeCents(o))
    BY ReservationType DEF WholeCents, BuyReservation, CostOf
  <2>4. Margin(o)' = IF WholeCents(o) THEN 0 ELSE 0 - Lean(Qty[o], BuyReservation(o), reserved'[o], 0)
    BY <2>1, <2>3 DEF Margin, BuyReservation, CostOf
  <2>5. Lean(Qty[o], BuyReservation(o), BuyReservation(o), 0) = 0
    <3>1. 0 \in Nat /\ 0 <= Qty[o]
      BY <1>6
    <3> QED BY <1>6, <2>3, <3>1, LeanBounds
  <2>6. o \in BuyOrders => Margin(o)' = 0
    BY <2>1, <2>4, <2>5
  <2> QED BY <1>7, <2>1, <2>2, <2>3, <2>6 DEF Claim, Count
<1>10. /\ BuyReservations \in Int /\ MarginSum \in Nat /\ TallySum \in Nat
       /\ MarginSum <= TallySum /\ Roundings \in Nat
  BY <1>2, MarginsWithin, RoundingsType
<1>11. /\ BuyReservations' + MarginSum' = BuyReservations + MarginSum - Claim(o) + Claim(o)'
       /\ TallySum' = TallySum - Count(o) + Count(o)'
       /\ BuyReservations' \in Int /\ MarginSum' \in Int
  BY <1>2, <1>3, SumsMove
<1>12. TallySum' <= Roundings'
  BY <1>2, <1>5, <1>8, <1>9, <1>10, <1>11
<1>13. BuysCovered'
  <2>1. WithinReservation' <=> WithinReservation
    BY DEF WithinReservation, FillCost, CostOf
  <2>2. SUFFICES ASSUME WithinReservation, LateFilled = {}
                 PROVE  holds' + BuyReservations' + MarginSum' <= cash' + Roundings'
    BY <1>5, <2>1 DEF BuysCovered
  <2>3. holds \in Nat /\ cash \in Int /\ BuyReservation(o) \in Nat
    BY <1>2, ReservationType DEF TypeOK
  <2>4. o \in BuyOrders => BuyReservation(o) <= cash - BuyReservations - holds
    BY <1>1 DEF CoversPlacement, BuyingPower
  <2>5. holds + BuyReservations + MarginSum <= cash + Roundings
    BY <1>2, <2>2 DEF BuysCovered
  <2>6. PICK b \in Int, m \in Nat, b1 \in Int, m1 \in Int, rs \in Nat :
           /\ b = BuyReservations /\ m = MarginSum /\ b1 = BuyReservations' /\ m1 = MarginSum'
           /\ rs = Roundings
    BY <1>10, <1>11
  <2>7. /\ holds + b + m <= cash + rs
        /\ o \in BuyOrders => BuyReservation(o) <= cash - b - holds
    BY <2>4, <2>5, <2>6
  <2>8. m <= rs
    BY <1>2, <1>10, <2>6
  <2>9. b1 + m1 = b + m + (IF o \in BuyOrders THEN BuyReservation(o) ELSE 0)
    BY <1>8, <1>9, <1>11, <2>3, <2>6
  <2>10. holds + b1 + m1 <= cash + rs
    <3>1. PICK h \in Nat, c \in Int, r \in Nat : h = holds /\ c = cash /\ r = BuyReservation(o)
      BY <2>3
    <3>2. CASE o \in BuyOrders
      <4>1. b1 + m1 = b + m + r /\ r <= c - b - h
        BY <2>7, <2>9, <3>1, <3>2
      <4>2. h + b1 + m1 <= c + rs
        BY <2>8, <4>1
      <4> QED BY <3>1, <4>2
    <3>3. CASE o \notin BuyOrders
      <4>1. b1 + m1 = b + m /\ h + b + m <= c + rs
        BY <2>7, <2>9, <3>1, <3>3
      <4>2. h + b1 + m1 <= c + rs
        BY <4>1
      <4> QED BY <3>1, <4>2
    <3> QED BY <3>2, <3>3
  <2> QED BY <1>1, <1>5, <2>6, <2>10
<1>14. SellsCovered'
  <2>1. ASSUME NEW j \in Instruments, LateFilled' = {}
        PROVE  (SellRemainders(j) <= lots[j])'
    <3>1. /\ SellRemainders(j) \in Int
          /\ SellRemainders(j)' = SellRemainders(j) - Unsold(o, j) + Unsold(o, j)'
      BY <1>2, <1>3, RemaindersMove
    <3>2. lots[j] \in Nat /\ lots'[j] = lots[j]
      BY <1>1, <1>2 DEF TypeOK
    <3>3. SellRemainders(j) <= lots[j]
      BY <1>2, <1>5, <2>1 DEF SellsCovered
    <3>4. Unsold(o, j) = 0
      BY <1>6 DEF Unsold, OpenSells, OpenOrders
    <3>5. Unsold(o, j)' = IF o \in OpenSells(j)' THEN Qty[o] ELSE 0
      BY <1>1, <1>2, <1>6 DEF Unsold
    <3>6. o \in OpenSells(j)' => o \notin BuyOrders /\ j = i
      BY DEF OpenSells, OpenOrders, i
    <3>7. o \notin BuyOrders => Qty[o] <= lots[i] - SellRemainders(i)
      BY <1>1 DEF CoversPlacement, i
    <3> QED BY <1>6, <3>1, <3>2, <3>3, <3>4, <3>5, <3>6, <3>7
  <2> QED BY <2>1 DEF SellsCovered
<1> QED BY <1>4, <1>12, <1>13, <1>14 DEF CoverInv

\* The transactions of the other components leave what they do not take.
LEMMA FundsKeepCover ==
  ASSUME CoverInv, BookInv', Funds \/ ArchiveAccount \/ UNCHANGED vars
  PROVE  CoverInv'
<1>1. UNCHANGED <<state, filled, reserved, fills, lots>>
  BY DEF Funds, HoldWithdrawal, ReleaseHold, SettleWithdrawal, SettleDeposit, ArchiveAccount, vars
<1>2. /\ BookInv /\ TypeOK /\ TypeOK' /\ IsFiniteSet(PlacedOrders) /\ TallySum <= Roundings
      /\ BuysCovered /\ SellsCovered
  BY DEF CoverInv, BookInv
<1>3. /\ BuyReservations' = BuyReservations /\ LateFilled' = LateFilled
      /\ PlacedOrders' = PlacedOrders /\ OpenBuys' = OpenBuys
      /\ \A i \in Instruments : SellRemainders(i)' = SellRemainders(i)
  BY <1>1 DEF BuyReservations, LateFilled, BookedFor, PlacedOrders, SellRemainders, OpenSells,
              OpenOrders, OpenBuys
<1>4. MarginSum' = MarginSum /\ TallySum' = TallySum /\ Roundings' = Roundings
  BY <1>1, <1>3 DEF MarginSum, TallySum, Margins, Tallies, Margin, Tally, Lean, Roundings,
                    RoundedApart, WholeCents, BuyReservation, CostOf
<1>5. /\ BuyReservations \in Int /\ MarginSum \in Nat /\ TallySum \in Nat
      /\ MarginSum <= TallySum /\ Roundings \in Nat
  BY <1>2, MarginsWithin, RoundingsType
<1>6. BuysCovered'
  <2> DEFINE b == BuyReservations
             h == holds'
             c == cash'
             mr == MarginSum
             rs == Roundings
  <2>1. /\ holds \in Nat /\ h \in Nat /\ cash \in Int /\ c \in Int
        /\ b \in Int /\ mr \in Nat /\ rs \in Nat /\ mr <= rs
    BY <1>2, <1>5 DEF TypeOK
  <2>2. WithinReservation' <=> WithinReservation
    BY DEF WithinReservation, FillCost, CostOf
  <2>3. SUFFICES ASSUME WithinReservation, LateFilled = {} PROVE h + b + mr <= c + rs
    BY <1>3, <1>4, <2>2 DEF BuysCovered
  <2>4. holds + b + mr <= cash + rs
    BY <1>2, <2>3 DEF BuysCovered
  <2> HIDE DEF b, h, c, mr, rs
  <2>5. ASSUME h - holds <= c - cash PROVE h + b + mr <= c + rs
    BY <2>1, <2>4, <2>5
  <2>6. ASSUME NEW a \in TransferSizes, HoldWithdrawal(a) PROVE h + b + mr <= c + rs
    <3>1. a \in Nat /\ a <= cash - b - holds /\ h = holds + a /\ c = cash
      BY <2>6, BookAssumption DEF HoldWithdrawal, BuyingPower, b, h, c
    <3> QED BY <2>1, <3>1
  <2>7. ASSUME NEW a \in TransferSizes, ReleaseHold(a) \/ SettleWithdrawal(a) \/ SettleDeposit(a)
        PROVE  h - holds <= c - cash
    <3>1. a \in Nat
      BY BookAssumption
    <3>2. CASE ReleaseHold(a)
      <4>1. h = holds - a /\ c = cash
        BY <3>2 DEF ReleaseHold, h, c
      <4> QED BY <2>1, <3>1, <4>1
    <3>3. CASE SettleWithdrawal(a)
      <4>1. h = holds - a /\ c = cash - a
        BY <3>3 DEF SettleWithdrawal, h, c
      <4> QED BY <2>1, <3>1, <4>1
    <3>4. CASE SettleDeposit(a)
      <4>1. h = holds /\ c = cash + a
        BY <3>4 DEF SettleDeposit, h, c
      <4> QED BY <2>1, <3>1, <4>1
    <3> QED BY <2>7, <3>2, <3>3, <3>4
  <2>8. CASE Funds
    BY <2>5, <2>6, <2>7, <2>8 DEF Funds
  <2>9. CASE ArchiveAccount \/ UNCHANGED vars
    <3>1. c = cash /\ (h = 0 \/ h = holds)
      BY <2>9 DEF ArchiveAccount, vars, h, c
    <3> QED BY <2>1, <2>5, <3>1
  <2> QED BY <2>8, <2>9
<1>7. SellsCovered'
  BY <1>1, <1>2, <1>3 DEF SellsCovered
<1> QED BY <1>2, <1>3, <1>4, <1>6, <1>7 DEF CoverInv

LEMMA InitCover == Init => CoverInv
<1> SUFFICES ASSUME Init PROVE CoverInv
  OBVIOUS
<1>1. BookInv
  BY InitInv
<1>2. Absent \notin OpenStates
  BY DEF Absent, OpenStates
<1>3. PlacedOrders = {} /\ OpenOrders = {} /\ OpenBuys = {} /\ RoundedApart = {}
  BY <1>2 DEF Init, PlacedOrders, OpenOrders, OpenBuys, RoundedApart
<1>4. \A fun : SumFunctionOnSet(fun, {}) = 0
  BY SumTurn, FS_EmptySet
<1>5. /\ BuyReservations = 0 /\ MarginSum = 0 /\ TallySum = 0 /\ Roundings = 0
      /\ \A i \in Instruments : SellRemainders(i) = 0
  <2>1. OpenOrders \cap BuyOrders = {} /\ \A i \in Instruments : OpenSells(i) = {}
    BY <1>3 DEF OpenSells
  <2> QED BY <1>3, <1>4, <2>1, FS_EmptySet
          DEF BuyReservations, SellRemainders, MarginSum, TallySum, Roundings
<1>6. BuysCovered /\ SellsCovered
  BY <1>5, BookAssumption DEF Init, BuysCovered, SellsCovered
<1> QED BY <1>1, <1>3, <1>5, <1>6, FS_EmptySet DEF CoverInv

LEMMA NextCover == CoverInv /\ [Next]_vars => CoverInv'
<1> SUFFICES ASSUME CoverInv, [Next]_vars PROVE CoverInv'
  OBVIOUS
<1>1. BookInv' /\ TypeOK
  BY NextInv DEF CoverInv, BookInv
<1>2. ASSUME NEW o \in Orders, Place(o) PROVE CoverInv'
  BY <1>1, <1>2, PlaceKeepsCover
<1>3. ASSUME NEW o \in Orders, RequestCancel(o) PROVE CoverInv'
  <2>1. "ORDER_CANCEL_PENDING" \in EventTypes /\ state[o] # Absent
    BY <1>3, StatesDisjoint DEF RequestCancel, EventTypes, StatusTypes, OrderStates
  <2> QED BY <1>1, <1>3, <2>1, StatusKeepsCover DEF RequestCancel
<1>4. ASSUME NEW o \in Orders, FailSubmission(o) PROVE CoverInv'
  <2>1. "ORDER_SUBMIT_FAILED" \in EventTypes
    BY DEF EventTypes, StatusTypes
  <2> QED BY <1>1, <1>4, <2>1, StatusKeepsCover DEF FailSubmission
<1>5. ASSUME NEW e \in StatusEvents, ApplyStatus(e) PROVE CoverInv'
  <2>1. e.order \in Orders /\ e.type \in EventTypes
    BY DEF StatusEvents, EventTypes
  <2> QED BY <1>1, <1>5, <2>1, StatusKeepsCover DEF ApplyStatus
<1>6. ASSUME NEW e \in FillEvents, ApplyFill(e) PROVE CoverInv'
  BY <1>1, <1>6, FillKeepsCover
<1>7. CASE Funds \/ ArchiveAccount \/ UNCHANGED vars
  BY <1>1, <1>7, FundsKeepCover
<1> QED BY <1>2, <1>3, <1>4, <1>5, <1>6, <1>7 DEF Next

\* Buys, sells and withdrawals are covered at all times, for any number of
\* orders, as long as no execution came later than its order's end.
THEOREM OpenOrdersStayCovered == Spec => []OpenOrdersAreCovered
BY CoverHolds, InitCover, NextCover, PTL DEF Spec

--------------------------------------------------------------------------------
(* The balances are sums.                                                      *)

\* What an execution moves of the cash, and of the position in instrument i.
CashMoves == [x \in Executions |-> CashDelta(x)]
LotMoves(i) == [x \in Executions |-> IF InstrumentOf[OrderOf[x]] = i THEN LotsDelta(x) ELSE 0]

(***************************************************************************)
(* The cached cash is what the ledger's entries add up to, and a position   *)
(* what its fills do (FINANCIAL_INVARIANTS 6 and 7): a reader who recounts  *)
(* the immutable rows finds the projections (reconciliation.ts, projection  *)
(* checks).                                                                 *)
(***************************************************************************)
BalancesAreSums ==
  /\ cash = OpeningCash + transferred + SumFunctionOnSet(CashMoves, fills)
  /\ \A i \in Instruments : lots[i] = OpeningLots[i] + SumFunctionOnSet(LotMoves(i), fills)

\* One more execution adds its own part.
LEMMA SumGains ==
  ASSUME NEW fun, fun \in [Executions -> Int], TypeOK, NEW x \in Executions,
         x \notin fills, fills' = fills \cup {x}
  PROVE  /\ SumFunctionOnSet(fun, fills) \in Int
         /\ SumFunctionOnSet(fun, fills') = fun[x] + SumFunctionOnSet(fun, fills)
<1> DEFINE S == fills'
<1>1. IsFiniteSet(S)
  BY BookAssumption, FS_Subset DEF TypeOK
<1>2. \A y \in S : fun[y] \in Int
  BY DEF TypeOK
<1>3. S \in SUBSET S /\ fills \in SUBSET S /\ x \in S /\ S \ {x} = fills
  OBVIOUS
<1> HIDE DEF S
<1>4. SumFunctionOnSet(fun, fills) \in Int
  BY <1>1, <1>2, <1>3, SumType
<1>5. SumFunctionOnSet(fun, S) = fun[x] + SumFunctionOnSet(fun, S \ {x})
  BY <1>1, <1>2, <1>3, SumRemove
<1> QED BY <1>3, <1>4, <1>5 DEF S

LEMMA SumMovesType ==
  CashMoves \in [Executions -> Int] /\ \A i \in Instruments : LotMoves(i) \in [Executions -> Int]
<1>1. \A x \in Executions : CashDelta(x) \in Int /\ LotsDelta(x) \in Int
  BY MovesType
<1> QED BY <1>1 DEF CashMoves, LotMoves

LEMMA InitSums == Init => BalancesAreSums
<1>1. \A fun : SumFunctionOnSet(fun, {}) = 0
  BY SumTurn, FS_EmptySet
<1> QED BY <1>1, BookAssumption DEF Init, BalancesAreSums

LEMMA NextSums == TypeOK /\ BalancesAreSums /\ [Next]_vars => BalancesAreSums'
<1> SUFFICES ASSUME TypeOK, BalancesAreSums, [Next]_vars PROVE BalancesAreSums'
  OBVIOUS
<1>1. IsFiniteSet(fills) /\ fills \in SUBSET Executions
  BY BookAssumption, FS_Subset DEF TypeOK
<1>2. /\ SumFunctionOnSet(CashMoves, fills) \in Int
      /\ cash \in Int /\ transferred \in Int /\ OpeningCash \in Int
  <2>1. \A x \in fills : CashMoves[x] \in Int
    BY <1>1, SumMovesType
  <2>2. fills \in SUBSET fills
    OBVIOUS
  <2> QED BY <1>1, <2>1, <2>2, SumType, BookAssumption DEF TypeOK
<1>3. ASSUME UNCHANGED <<fills, cash, lots, transferred>> PROVE BalancesAreSums'
  BY <1>3 DEF BalancesAreSums, CashMoves, LotMoves, CashDelta, LotsDelta
<1>4. ASSUME NEW a \in Int, UNCHANGED <<fills, lots>>, cash' = cash + a, transferred' = transferred + a
      PROVE  BalancesAreSums'
  <2>1. /\ SumFunctionOnSet(CashMoves, fills)' = SumFunctionOnSet(CashMoves, fills)
        /\ \A i \in Instruments :
             SumFunctionOnSet(LotMoves(i), fills)' = SumFunctionOnSet(LotMoves(i), fills)
    BY <1>4 DEF CashMoves, LotMoves, CashDelta, LotsDelta
  <2>2. cash = OpeningCash + transferred + SumFunctionOnSet(CashMoves, fills)
    BY DEF BalancesAreSums
  <2>3. cash' = OpeningCash + transferred' + SumFunctionOnSet(CashMoves, fills)
    BY <1>2, <1>4, <2>2
  <2> QED BY <1>4, <2>1, <2>3 DEF BalancesAreSums
<1>5. ASSUME NEW e \in FillEvents, ApplyFill(e) PROVE BalancesAreSums'
  <2> DEFINE x == e.exec
             i == InstrumentOf[OrderOf[x]]
  <2>1. /\ x \in Executions /\ i \in Instruments /\ x \notin fills /\ fills' = fills \cup {x}
        /\ cash' = cash + CashDelta(x) /\ lots' = [lots EXCEPT ![i] = @ + LotsDelta(x)]
        /\ transferred' = transferred
    BY <1>5, BookAssumption DEF ApplyFill, FillEvents, NotYetBooked, Book
  <2>2. CashMoves[x] = CashDelta(x)
    BY <2>1 DEF CashMoves
  <2> HIDE DEF x
  <2>3. SumFunctionOnSet(CashMoves, fills') = CashMoves[x] + SumFunctionOnSet(CashMoves, fills)
    BY <2>1, SumMovesType, SumGains
  <2>4. CashMoves' = CashMoves /\ \A j \in Instruments : LotMoves(j)' = LotMoves(j)
    BY DEF CashMoves, LotMoves, CashDelta, LotsDelta
  <2>5. cash' = OpeningCash + transferred' + SumFunctionOnSet(CashMoves, fills')
    <3>1. cash = OpeningCash + transferred + SumFunctionOnSet(CashMoves, fills)
      BY DEF BalancesAreSums
    <3>2. CashMoves[x] \in Int
      BY <2>1, SumMovesType
    <3> QED BY <1>2, <2>1, <2>2, <2>3, <3>1, <3>2
  <2>6. ASSUME NEW j \in Instruments
        PROVE  lots'[j] = OpeningLots[j] + SumFunctionOnSet(LotMoves(j), fills')
    <3> DEFINE f == LotMoves(j)
    <3>1. lots[j] = OpeningLots[j] + SumFunctionOnSet(f, fills) /\ OpeningLots[j] \in Int
      BY BookAssumption DEF BalancesAreSums
    <3>2. f[x] = IF j = i THEN LotsDelta(x) ELSE 0
      BY <2>1 DEF LotMoves
    <3>3. lots'[j] = lots[j] + f[x]
      BY <2>1, <3>2 DEF TypeOK
    <3>4. f \in [Executions -> Int]
      BY SumMovesType
    <3> HIDE DEF f
    <3>5. /\ SumFunctionOnSet(f, fills) \in Int
          /\ SumFunctionOnSet(f, fills') = f[x] + SumFunctionOnSet(f, fills)
      BY <2>1, <3>4, SumGains
    <3>6. f[x] \in Int
      BY <2>1, <3>4
    <3>7. lots'[j] = OpeningLots[j] + SumFunctionOnSet(f, fills')
      BY <3>1, <3>3, <3>5, <3>6
    <3> QED BY <3>7 DEF f
  <2> QED BY <2>4, <2>5, <2>6 DEF BalancesAreSums
<1>6. ASSUME NEW a \in TransferSizes,
             HoldWithdrawal(a) \/ ReleaseHold(a) \/ SettleWithdrawal(a) \/ SettleDeposit(a)
      PROVE  BalancesAreSums'
  <2>1. a \in Int /\ -a \in Int
    BY BookAssumption
  <2>2. CASE HoldWithdrawal(a) \/ ReleaseHold(a)
    BY <1>3, <2>2 DEF HoldWithdrawal, ReleaseHold
  <2>3. CASE SettleWithdrawal(a)
    <3>1. cash' = cash + (-a) /\ transferred' = transferred + (-a) /\ UNCHANGED <<fills, lots>>
      BY <1>2, <2>1, <2>3 DEF SettleWithdrawal
    <3> QED BY <1>4, <2>1, <3>1
  <2>4. CASE SettleDeposit(a)
    BY <1>4, <2>1, <2>4 DEF SettleDeposit
  <2> QED BY <1>6, <2>2, <2>3, <2>4
<1>7. ASSUME NEW o \in Orders, Place(o) \/ RequestCancel(o) \/ FailSubmission(o)
      PROVE  BalancesAreSums'
  BY <1>3, <1>7 DEF Place, RequestCancel, FailSubmission
<1>8. ASSUME NEW e \in StatusEvents, ApplyStatus(e) PROVE BalancesAreSums'
  BY <1>3, <1>8 DEF ApplyStatus
<1>9. CASE ArchiveAccount \/ UNCHANGED vars
  BY <1>3, <1>9 DEF ArchiveAccount, vars
<1> QED BY <1>5, <1>6, <1>7, <1>8, <1>9 DEF Next, Funds

\* Cash and positions never drift from the rows they are projected from.
THEOREM ProjectionsHold == Spec => []BalancesAreSums
BY TypeCorrect, InitSums, NextSums, PTL DEF Spec

================================================================================
