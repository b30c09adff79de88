------------------------------ MODULE Portfolio ------------------------------
(***************************************************************************)
(* One account's fills, ledger and positions as executions are booked, and *)
(* the two views derived from them on read: GET /portfolio (positions with *)
(* their sellable quantity, equity, realized P&L) and GET                  *)
(* /portfolio/history (the net-worth series).                              *)
(*                                                                         *)
(* The venue executes an order at one time and the stream or a              *)
(* reconciliation books it at that time or later, in any order; a view is   *)
(* several statements at READ COMMITTED, and anything may commit between    *)
(* two of them.                                                            *)
(*                                                                         *)
(* Each order is a limit order executed in one fill (TradingBook has the    *)
(* partial fills and the other endings); withdrawal holds, which the view   *)
(* subtracts from the buying power it shows, are CashTransfers'.            *)
(***************************************************************************)
EXTENDS EquityHistory

CONSTANTS Symbols,
          Orders,      \* records sym, side, qty, limit: each placed at most once
          Prices,      \* the ten-thousandths an execution may print
          Fee,         \* cents charged per fill
          Opening,     \* cents of the opening deposit
          Flows,       \* cents a later transfer may move, signed
          Bar, Lookback, \* a bar's duration and the window, in ticks
          BarChoices,  \* the bars the vendor may have, per symbol
          Quote,       \* Quote[sym][t]: the last price at t, and the close there
          Kinds,       \* the requests served: "portfolio", "history"
          MaxTime      \* bound on the clock

ASSUME PortfolioAssumption ==
  /\ IsFiniteSet(Symbols) /\ IsFiniteSet(Orders)
  /\ \A o \in Orders : o.sym \in Symbols /\ o.side \in { "BUY", "SELL" } /\ o.qty \in Nat \ {0}
  /\ Prices \subseteq Nat /\ Fee \in Nat /\ Opening \in Int /\ Flows \subseteq Int

ASSUME HistoryAssumption ==
  /\ Bar \in Nat \ {0} /\ Lookback \in Nat /\ MaxTime \in Nat
  /\ \A choice \in BarChoices : \A sym \in Symbols : choice[sym] \subseteq Nat /\ IsFiniteSet(choice[sym])
  /\ \A sym \in Symbols : \A t \in 0..MaxTime : Quote[sym][t] \in Nat

VARIABLES now,         \* the clock
          orders,      \* orders[o]: its state and its fill
          positions,   \* positions[sym]: qty and costBasisTotal
          ledger,      \* the account's ledger entries, in createdAt order
          bars,        \* the candles the vendor has for a symbol
          read,        \* the request being served
          was          \* was[t]: cash and quantities as instant t ended

vars == << now, orders, positions, ledger, bars, read, was >>
market == << now, bars, was >>

Unplaced == [ state |-> "NONE", px |-> 0, at |-> 0, booked |-> 0, seq |-> 0 ]
NoRead == [ pc |-> "idle" ]
Flat == [ qty |-> 0, basis |-> 0 ]

Booked == { o \in Orders : orders[o].state = "FILLED" }

(* A fill as the replay sees it, and the fills in order of occurrence, then *)
(* of arrival.                                                             *)
FillOf(o) == [ sym |-> o.sym, side |-> o.side, qty |-> o.qty, at |-> orders[o].at,
               notional |-> Notional(orders[o].px, o.qty) ]
EarlierTiesReversed(a, b) ==
  \/ orders[a].at < orders[b].at
  \/ orders[a].at = orders[b].at /\ orders[a].seq > orders[b].seq
Earlier(a, b) == \/ orders[a].at < orders[b].at
                 \/ orders[a].at = orders[b].at /\ orders[a].seq < orders[b].seq

FillsChronological ==
  LET InPlace(i) ==
        CHOOSE o \in Booked : Cardinality({ p \in Booked : Earlier(p, o) }) = i - 1
  IN  [ i \in 1..Cardinality(Booked) |-> FillOf(InPlace(i)) ]

IsOpen(o) == orders[o].state \in { "OPEN", "EXECUTED" }
OpenSells(sym) ==
  SumFunctionOnSet([ o \in Orders |-> o.qty ],
                   { o \in Orders : IsOpen(o) /\ o.side = "SELL" /\ o.sym = sym })
OpenBuyReservations ==
  FoldSet(LAMBDA o, sum : sum + Notional(o.limit, o.qty), 0,
          { o \in Orders : IsOpen(o) /\ o.side = "BUY" })

-----------------------------------------------------------------------------
(* A buy capitalizes its notional and fee, a sale gives up its share of the *)
(* basis: what a fill makes of a position, booked or replayed.             *)
ApplyBuyFill(position, qty, notional) ==
  [ qty |-> position.qty + qty,
    basis |-> AddMoney(AddMoney(position.basis, notional), Fee) ]
ApplySellFill(position, qty) ==
  [ qty |-> position.qty - qty,
    basis |-> Remaining(position.basis, qty, position.qty) ]
Apply(position, fill) ==
  IF fill.side = "BUY" THEN ApplyBuyFill(position, fill.qty, fill.notional)
                       ELSE ApplySellFill(position, fill.qty)

(* The realized P&L: every fill replayed over an empty book. *)
Gain(position, fill) ==
  IF fill.side = "BUY" THEN 0
  ELSE fill.notional - Fee - Allocated(position.basis, fill.qty, position.qty)
ReplayStep(done, fill) ==
  LET position == done.book[fill.sym]
      over == fill.side = "SELL" /\ position.qty < fill.qty
  IN  IF done.over \/ over
        THEN [ done EXCEPT !.over = TRUE ]
        ELSE [ done EXCEPT !.book[fill.sym] = Apply(position, fill),
                           !.realized = @ + Gain(position, fill) ]
Replay(fills) ==
  FoldLeft(ReplayStep,
           [ book |-> [ sym \in Symbols |-> Flat ], realized |-> 0, over |-> FALSE ],
           fills)

-----------------------------------------------------------------------------
Init ==
  /\ now = 0
  /\ orders = [ o \in Orders |-> Unplaced ]
  /\ positions = [ sym \in Symbols |-> Flat ]
  /\ ledger = << [ amount |-> Opening, at |-> 0, external |-> TRUE ] >>
  /\ bars \in BarChoices
  /\ read = NoRead
  /\ was = << >>

(* The clock moves on; was keeps what the instant ended with. *)
Tick ==
  /\ now < MaxTime
  /\ now' = now + 1
  /\ was' = Append(was, [ cash |-> Cash(ledger),
                          qty |-> [ sym \in Symbols |-> positions[sym].qty ] ])
  /\ UNCHANGED << orders, positions, ledger, bars, read >>

(* An order is placed within the buying power or the sellable quantity. *)
Affordable(o) ==
  \/ /\ o.side = "BUY"
     /\ Notional(o.limit, o.qty) <= Cash(ledger) - OpenBuyReservations
  \/ /\ o.side = "SELL"
     /\ o.qty <= positions[o.sym].qty - OpenSells(o.sym)
Place(o) ==
  /\ orders[o].state = "NONE"
  /\ Affordable(o)
  /\ orders' = [ orders EXCEPT ![o].state = "OPEN" ]
  /\ UNCHANGED << positions, ledger, read, market >>

(* The venue executes it. *)
Execute(o) ==
  /\ orders[o].state = "OPEN"
  /\ \E px \in { p \in Prices : IF o.side = "BUY" THEN p <= o.limit ELSE p >= o.limit } :
       orders' = [ orders EXCEPT ![o].state = "EXECUTED", ![o].px = px, ![o].at = now ]
  /\ UNCHANGED << positions, ledger, read, market >>

(* Its fill is booked: the fill, the ledger entries and the position. *)
BookFill(o) ==
  /\ orders[o].state = "EXECUTED"
  /\ LET fill == FillOf(o)
         trade == IF o.side = "BUY" THEN -fill.notional ELSE fill.notional
         entries == << trade >> \o (IF Fee = 0 THEN << >> ELSE << -Fee >>)
     IN  /\ positions' = [ positions EXCEPT ![o.sym] = Apply(@, fill) ]
         /\ ledger' = ledger \o [ i \in DOMAIN entries |->
                        [ amount |-> entries[i], at |-> now, external |-> FALSE ] ]
  /\ orders' = [ orders EXCEPT ![o].state = "FILLED", ![o].booked = now,
                               ![o].seq = Cardinality(Booked) + 1 ]
  /\ UNCHANGED << read, market >>

(* A deposit or withdrawal settles. *)
Transfer(amount) ==
  /\ Cash(ledger) - OpenBuyReservations + amount >= 0
  /\ \A i \in 2..Len(ledger) : ~ledger[i].external
  /\ ledger' = Append(ledger, [ amount |-> amount, at |-> now, external |-> TRUE ])
  /\ UNCHANGED << orders, positions, read, market >>

-----------------------------------------------------------------------------
(* GET /portfolio and /portfolio/history: the account row first. *)
Start(kind) ==
  /\ read.pc = "idle"
  /\ read' = [ pc |-> IF kind = "history" THEN "fills" ELSE "positions",
               kind |-> kind, now |-> now, cash |-> Cash(ledger) ]
  /\ UNCHANGED << orders, positions, ledger, market >>

(* What a statement adds to what the request has. *)
Learn(facts) ==
  read' = [ k \in DOMAIN facts \cup DOMAIN read |->
              IF k \in DOMAIN facts THEN facts[k] ELSE read[k] ]

(* The series' facts, one statement each. *)
ReadFills ==
  /\ read.pc = "fills"
  /\ Learn([ pc |-> "ledger", fills |-> FillsChronological ])
  /\ UNCHANGED << orders, positions, ledger, market >>
ReadLedger ==
  /\ read.pc = "ledger"
  /\ Learn([ pc |-> "positions", ledger |-> ledger ])
  /\ UNCHANGED << orders, positions, ledger, market >>

(* The view: the positions held, and their quotes.  Every holding has one here: *)
(* the code leaves a holding without a quote out of the equity, which is the   *)
(* value of today's point only, and fails the request when the quotes cannot   *)
(* be read, which changes nothing.                                            *)
ReadPositions ==
  /\ read.pc = "positions"
  /\ Learn([ pc |-> "openSells",
             positions |-> positions,
             equity |-> read.cash
                        + FoldSet(LAMBDA sym, sum :
                                    sum + Notional(Quote[sym][now], positions[sym].qty),
                                  0, Symbols) ])
  /\ UNCHANGED << orders, positions, ledger, market >>

(* What is left to sell of a position; a row cannot be shown when more is  *)
(* on offer than was held, or when a share's average cost rounds to none.   *)
Sellable(sym) == read.positions[sym].qty - OpenSells(sym)
RowFails(sym) ==
  /\ read.positions[sym].qty > 0
  /\ \/ Sellable(sym) < 0
     \/ ~IsPx(AvgPx(read.positions[sym].basis, read.positions[sym].qty))
ReadOpenSells ==
  /\ read.pc = "openSells"
  /\ Learn([ pc |-> IF \E sym \in Symbols : RowFails(sym) THEN "failed" ELSE "realized" ])
  /\ UNCHANGED << orders, positions, ledger, market >>

(* The realized P&L ends the view; the series is then drawn from what was   *)
(* read, its candles fetched now.                                          *)
History ==
  [ fills |-> read.fills, ledger |-> read.ledger, created |-> 0, now |-> read.now,
    bar |-> Bar, lookback |-> Lookback, live |-> read.equity,
    candles |-> [ sym \in Symbols |->
                    [ t \in { t \in bars[sym] : t <= now } |->
                        Quote[sym][IF t + Bar <= now THEN t + Bar ELSE now] ] ] ]
ReadRealized ==
  /\ read.pc = "realized"
  /\ LET replay == Replay(FillsChronological)
         drawn == read.kind = "history" /\ ~replay.over
         unpriced == drawn /\ Unavailable(History)
     IN  Learn([ pc |-> IF replay.over THEN "failed"
                        ELSE IF unpriced THEN "unavailable" ELSE "shown",
                 realized |-> replay.realized,
                 points |-> IF drawn /\ ~unpriced THEN EquitySeries(History) ELSE << >> ])
  /\ UNCHANGED << orders, positions, ledger, market >>

(* The answer is sent. *)
Answer ==
  /\ read.pc \in { "shown", "unavailable", "failed" }
  /\ read' = NoRead
  /\ UNCHANGED << orders, positions, ledger, market >>

Reading == ReadFills \/ ReadLedger \/ ReadPositions \/ ReadOpenSells \/ ReadRealized

Next ==
  \/ Tick
  \/ \E o \in Orders : Place(o) \/ Execute(o) \/ BookFill(o)
  \/ \E amount \in Flows : Transfer(amount)
  \/ \E kind \in Kinds : Start(kind)
  \/ Reading
  \/ Answer

Spec == Init /\ [][Next]_vars

-----------------------------------------------------------------------------
TypeOK ==
  /\ now \in 0..MaxTime /\ Len(was) = now
  /\ \A o \in Orders : orders[o].state \in { "NONE", "OPEN", "EXECUTED", "FILLED" }
  /\ \A sym \in Symbols : /\ positions[sym].qty \in Nat
                          /\ positions[sym].basis \in Nat
                          /\ positions[sym].basis % UnitsPerCent = 0
  /\ read.pc \in { "idle", "fills", "ledger", "positions", "openSells", "realized",
                   "shown", "unavailable", "failed" }

(* Whether the fills were booked in the order they occurred, and at once. *)
BookedInOrder ==
  \A a, b \in Booked : orders[a].seq < orders[b].seq => orders[a].at <= orders[b].at
BookedAtOnce == \A o \in Booked : orders[o].booked = orders[o].at

(* Cash not paid in is what the fills earned less what the positions cost. *)
GainsMatchLedger ==
  (Cash(ledger) - NetDeposits(ledger) - Replay(FillsChronological).realized) * UnitsPerCent
    = -SumFunctionOnSet([ sym \in Symbols |-> positions[sym].basis ], Symbols)

(* Replayed in the order they occurred, the fills never sell what is not    *)
(* held and leave the quantities booked in the order they arrived; booked   *)
(* in order, they leave the same basis too, so realized and unrealized P&L  *)
(* add up to the ledger.                                                   *)
ReplayAgrees ==
  LET replay == Replay(FillsChronological)
  IN  /\ ~replay.over
      /\ \A sym \in Symbols : replay.book[sym].qty = positions[sym].qty
      /\ BookedInOrder => /\ replay.book = positions
                          /\ GainsMatchLedger

(* The close of the last bar over by t, of those the vendor has. *)
LastClose(sym, t) ==
  LET over == { b \in bars[sym] : b + Bar <= t } IN Quote[sym][Max(over) + Bar]

(* A point of the series is what the account was worth at that instant, by  *)
(* its own books then and the last close, and the points ascend: if every   *)
(* fill was booked as it occurred, whatever commits while the series is     *)
(* read; and a series of bars fails only when a symbol held at a point has  *)
(* no close by then, or one traded no candle at all.  (A series of ledger   *)
(* instants one of which is also the start of a bar is priced from there at *)
(* that bar's close, not known yet: left out.)                              *)
WorthThen(sym, ended, t) ==
  IF was[ended].qty[sym] = 0 THEN 0 ELSE Notional(LastClose(sym, t), was[ended].qty[sym])
PointIsTrue(p, ended) ==
  p.value = was[ended].cash
            + SumFunctionOnSet([ sym \in Symbols |-> WorthThen(sym, ended, p.t) ], Symbols)
OnBars == BarGrid(History) # {}
Unpriced ==
  \E o \in Booked :
    \/ \A b \in bars[o.sym] : b > read.now
    \/ \E t \in BarGrid(History) : orders[o].at < t + Bar /\ \A b \in bars[o.sym] : b > t
PointsAreTrue ==
  /\ (read.pc = "unavailable" /\ OnBars) => Unpriced
  /\ (read.pc = "shown" /\ read.kind = "history" /\ BookedAtOnce) =>
       LET past == Front(read.points)
       IN  \A i \in DOMAIN past :
             /\ past[i].t < read.now
             /\ i > 1 => past[i-1].t < past[i].t
             /\ \/ ~OnBars /\ \E j \in 1..i : \E sym \in Symbols : past[j].t \in bars[sym]
                \/ PointIsTrue(past[i], IF OnBars THEN past[i].t ELSE past[i].t + 1)

(* Each fill counts at a point in both cash and holdings, or in neither. *)
PointsBalance ==
  (read.pc = "shown" /\ read.kind = "history") =>
    \A i \in 1..(Len(read.points) - 1) : \A o \in Booked :
      (orders[o].at < read.points[i].t) = (orders[o].booked < read.points[i].t)

(* A portfolio can always be shown. *)
ViewNeverFails == read.pc = "failed" => read.kind = "history"
=============================================================================
