---------------------------- MODULE EquityHistory ----------------------------
(***************************************************************************)
(* The net-worth series of core/portfolio/equity-series, as operators on    *)
(* its input h:                                                            *)
(*   fills     a sequence, ascending in at:  sym, side, qty, at             *)
(*   ledger    a sequence, ascending in at:  amount, at, external           *)
(*   candles   per symbol a function from bar starts to closes              *)
(*   created, now, bar, lookback (times) and live (today's equity)          *)
(* A candle's time is the START of its bar and its close the price at the   *)
(* END, so cash and holdings are cut at the end.                           *)
(***************************************************************************)
EXTENDS Money, Sequences, SequencesExt, FiniteSetsExt

SignedQty(fill) == IF fill.side = "BUY" THEN fill.qty ELSE -fill.qty

(* The rows of before t, by number; what they leave of a symbol; cash, and  *)
(* of it what was paid in and out.                                         *)
Before(rows, t) == { i \in DOMAIN rows : rows[i].at < t }
HeldBefore(fills, t, sym) ==
  SumFunctionOnSet([ i \in DOMAIN fills |-> SignedQty(fills[i]) ],
                   { i \in Before(fills, t) : fills[i].sym = sym })
SumOf(ledger, rows) == SumFunctionOnSet([ i \in rows |-> ledger[i].amount ], rows)
Cash(ledger) == SumOf(ledger, DOMAIN ledger)
NetDeposits(ledger) == SumOf(ledger, { i \in DOMAIN ledger : ledger[i].external })

WindowStart(h) ==
  IF h.now - h.lookback > h.created THEN h.now - h.lookback ELSE h.created

(* The symbols that need prices: traded in the window, or held as it opens. *)
InvolvedSymbols(h) ==
  { sym \in DOMAIN h.candles :
      \/ \E i \in DOMAIN h.fills : /\ h.fills[i].sym = sym
                                   /\ h.fills[i].at >= WindowStart(h)
      \/ HeldBefore(h.fills, WindowStart(h), sym) > 0 }

(* The bars that end inside the window and the account's life, and are over. *)
BarGrid(h) ==
  { t \in UNION { DOMAIN h.candles[sym] : sym \in InvolvedSymbols(h) } :
      /\ t >= WindowStart(h) - h.bar
      /\ t + h.bar > h.created
      /\ t + h.bar < h.now }

(* Without a bar the instants of the account's own ledger rows. *)
EventGrid(h) ==
  { t \in { h.ledger[i].at : i \in DOMAIN h.ledger } :
      t >= WindowStart(h) /\ t < h.now }

Ascending(S) ==
  [ i \in 1..Cardinality(S) |-> CHOOSE t \in S : Cardinality({ u \in S : u < t }) = i - 1 ]
Grid(h) ==
  LET bars == BarGrid(h)
  IN  [ at |-> Ascending(IF bars # {} THEN bars ELSE EventGrid(h)),
        bar |-> IF bars # {} THEN h.bar ELSE 0 ]

(* An event is its own end, and counts. *)
CutoffAtStart(grid, i) == IF grid.bar > 0 THEN grid.at[i] ELSE grid.at[i] + 1
Cutoff(grid, i) == IF grid.bar > 0 THEN grid.at[i] + grid.bar ELSE grid.at[i] + 1

(* The bars whose closes a symbol carries into grid point i: those over by *)
(* the first point, and those of the points so far.                        *)
Carried(h, grid, i, sym) ==
  { t \in DOMAIN h.candles[sym] :
      \/ t + h.bar <= grid.at[1] + grid.bar
      \/ \E j \in 1..i : grid.at[j] = t }

HeldAt(h, grid, i) ==
  { sym \in DOMAIN h.candles : HeldBefore(h.fills, Cutoff(grid, i), sym) > 0 }

Close(h, grid, i, sym) == h.candles[sym][Max(Carried(h, grid, i, sym))]

Worth(h, grid, i, sym) ==
  Notional(Close(h, grid, i, sym), HeldBefore(h.fills, Cutoff(grid, i), sym))
PointAt(h, grid, i) ==
  LET rows == Before(h.ledger, Cutoff(grid, i))
      held == HeldAt(h, grid, i)
  IN  [ t |-> grid.at[i] + grid.bar,
        value |-> SumOf(h.ledger, rows)
                  + SumFunctionOnSet([ sym \in held |-> Worth(h, grid, i, sym) ], held),
        netDeposits |-> SumOf(h.ledger, { r \in rows : h.ledger[r].external }) ]

(* A held symbol without a price fails the whole series. *)
Unavailable(h) ==
  \/ \E sym \in InvolvedSymbols(h) : DOMAIN h.candles[sym] = {}
  \/ LET grid == Grid(h)
     IN  \E i \in DOMAIN grid.at : \E sym \in HeldAt(h, grid, i) :
           \/ sym \notin InvolvedSymbols(h)
           \/ Carried(h, grid, i, sym) = {}

LivePoint(h) ==
  [ t |-> h.now, value |-> h.live,
    netDeposits |-> NetDeposits(h.ledger) ]

(* The points up to the last that is over, then today's. *)
EquitySeries(h) ==
  LET grid == Grid(h)
      past == [ i \in DOMAIN grid.at |-> PointAt(h, grid, i) ]
      over == Max({ 0 } \cup { i \in DOMAIN past : past[i].t < h.now })
  IN  [ i \in 1..over |-> past[i] ] \o << LivePoint(h) >>

Change(points) ==
  LET from == points[1].value
      to == points[Len(points)].value
  IN  [ absolute |-> to - from, percent |-> PercentChange(from, to) ]
=============================================================================
