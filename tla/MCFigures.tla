------------------------------- MODULE MCFigures -------------------------------
(***************************************************************************)
(* TLC instance of the figures derived on read: the portfolio and its       *)
(* history, the Top 100, and an instrument's key stats.  They share no       *)
(* state, and a behaviour follows one of them, the others at rest.           *)
(***************************************************************************)
EXTENDS Portfolio

CONSTANTS
  Screens, s1, s2, r1, r2, v1, v2,
  Runners, Filers, Filings, QuoteSets, Eligible, Overrides, Vehicles,
  Size, Lead, Keep, Batch, Page, Seed, MaxSnapshots,
  Views, Earned, FirstFiled, Ttl, PerTick, MaxClock,
  q1, q2, w1, w2, Pages, Lists, Servers, Server, QuoteOpen, QuoteClosed, StatusTtl, MaxTick, Listing

VARIABLES
  screen,
  run, snapshots, shares, browse,
  clock, filed, filedAt, row, view, requests,
  tick, session, opened, feed, instruments, cached, memo, status, sync, request

\* A year is filed as the model starts; an open market's quotes live no longer
\* than a closed one's (TTL_MS).
ASSUME FiguresAssumption ==
  /\ Earned \in Seq(Int) /\ FirstFiled \in 4..Len(Earned) /\ Ttl \in Nat
  /\ Server \in [Pages \cup Lists -> Servers]
  /\ QuoteOpen \in Nat \ {0} /\ QuoteClosed \in Nat /\ QuoteOpen <= QuoteClosed
  /\ StatusTtl \in Nat

\* A cik is one filer's; counts, prices and symbols are numbers.
ASSUME MarketAssumption ==
  /\ IsFiniteSet(Filers) /\ \A f, g \in Filers : f.cik \in Int /\ (f.cik = g.cik => f = g)
  /\ Eligible \subseteq Int /\ \A c \in DOMAIN Overrides : Overrides[c].exclude \/ Overrides[c].shares \in Nat
  /\ \A filings \in Filings : \A f \in Filers :
       filings[f].cover \in Nat /\ filings[f].weighted \in Nat /\ filings[f].float \in Nat
  /\ \A quotes \in QuoteSets : \A t \in DOMAIN quotes : quotes[t] \in Nat
  /\ Size \in Nat \ {0} /\ Lead \in 0..Size /\ Keep \in Nat

Markets == INSTANCE MarketRanking
Stats == INSTANCE KeyStats
Quotes == INSTANCE QuoteCache WITH Symbols <- Listing

marketVars == << run, snapshots, shares, browse >>
statVars == << clock, filed, filedAt, row, view, requests >>
quoteVars == << tick, session, opened, feed, instruments, cached, memo,
                status, sync, request >>
figureVars == << vars, marketVars, statVars, quoteVars, screen >>

FiguresInit ==
  /\ screen \in Screens
  /\ Init /\ Markets!RankingInit /\ Stats!StatsInit /\ Quotes!QuoteInit
  /\ screen # "portfolio" => bars = CHOOSE choice \in BarChoices : TRUE
  /\ screen # "quotes" => session = "CLOSED"

FiguresNext ==
  \/ screen = "portfolio" /\ Next /\ UNCHANGED << marketVars, statVars, quoteVars, screen >>
  \/ screen = "markets" /\ Markets!RankingNext /\ UNCHANGED << vars, statVars, quoteVars, screen >>
  \/ screen = "stats" /\ Stats!StatsNext /\ UNCHANGED << vars, marketVars, quoteVars, screen >>
  \/ screen = "quotes" /\ Quotes!QuoteNext /\ UNCHANGED << vars, marketVars, statVars, screen >>

FiguresSpec == FiguresInit /\ [][FiguresNext]_figureVars

\* The properties of the three modules under one name each.
ListIsTheLargest == Markets!ListIsTheLargest
HeadIsKept == Markets!HeadIsKept
PublishedListsHold == Markets!PublishedListsHold
NoRowTwice == Markets!NoRowTwice
SavedCountsAreChecked == Markets!SavedCountsAreChecked
EpsIsCurrent == Stats!EpsIsCurrent
FairAccess == Stats!FairAccess
FreshEnough == Quotes!FreshEnough
CachesAreCurrent == EpsIsCurrent /\ FreshEnough
HolderHasAnExit == Quotes!HolderHasAnExit
KeepsWhatItLoaded == Quotes!KeepsWhatItLoaded
NamesAreKept == Quotes!NamesAreKept
-----------------------------------------------------------------------------
\* The portfolio: two symbols, one the vendor has gaps of, or no candle at all.
MCSymbols == { s1, s2 }
Buy(sym, qty, limit) == [ sym |-> sym, side |-> "BUY", qty |-> qty, limit |-> limit ]
Sell(sym, qty, limit) == [ sym |-> sym, side |-> "SELL", qty |-> qty, limit |-> limit ]
TwoLots == { Buy(s1, 1, 10050), Buy(s1, 2, 20150), Sell(s1, 2, 10050) }
TwoSymbols == { Buy(s1, 2, 10050), Sell(s1, 1, 10050), Buy(s2, 1, 10050) }
OnePrice == { 10050 }
TwoPrices == { 10050, 20150 }
MCQuote == [ sym \in MCSymbols |->
               [ t \in 0..8 |-> 10000 + 150 * t + IF sym = s1 THEN 0 ELSE 7000 ] ]
MCFlows == { -200 }
NoFlows == {}
Gaps == { [ sym \in MCSymbols |-> IF sym = s1 THEN 0..3 ELSE { 0, 2 } ] }
SomeBars == Gaps \cup { [ sym \in MCSymbols |-> IF sym = s1 THEN 0..3 ELSE {} ] }
-----------------------------------------------------------------------------
\* The ranking: five filers, of which one has two classes, one is an
\* investment vehicle and one is corrected by hand.
single == [ cik |-> 1, tickers |-> << 1 >> ]
twoClasses == [ cik |-> 2, tickers |-> << 2, 3 >> ]
scaled == [ cik |-> 3, tickers |-> << 4 >> ]
vehicle == [ cik |-> 4, tickers |-> << 5 >> ]
byHand == [ cik |-> 5, tickers |-> << 6 >> ]
MCFilers == { single, twoClasses, scaled, vehicle, byHand }

Filed(cover, weighted, float) == [ cover |-> cover, weighted |-> weighted, float |-> float ]
(* One cover holds one class of two, or a figure scaled a hundred times; one *)
(* count is right, or scaled a hundred times.                               *)
MCFilings ==
  { [ f \in MCFilers |->
        CASE f = single -> Filed(30, 29, 3000)
          [] f = twoClasses -> Filed(20, bw, 3500)
          [] f = scaled -> Filed(cc, 0, 2000)
          [] f = vehicle -> Filed(90, 0, 0)
          [] f = byHand -> Filed(0, 0, 9000) ] : bw \in { 35, 2000 }, cc \in { 20, 2000 } }
Dollars(n) == n * 10000
MCQuotes ==
  { (1 :> Dollars(1) @@ 2 :> Dollars(1) @@ 3 :> Dollars(1) @@ 4 :> Dollars(1) @@ 5 :> Dollars(1) @@ 6 :> Dollars(1)),
    (1 :> Dollars(2) @@ 3 :> Dollars(1) @@ 4 :> Dollars(3) @@ 5 :> Dollars(1) @@ 6 :> Dollars(2)),
    (1 :> Dollars(1)) }
MCOverrides == 5 :> [ exclude |-> FALSE, symbol |-> 6, shares |-> 25 ]
MCSeed == << 1, 2, 6 >>
-----------------------------------------------------------------------------
\* What eight quarters earned, in ten-thousandths of a dollar a share.
MCEarned == << 100, 250, -400, 700, 300, -100, 900, 50 >>
-----------------------------------------------------------------------------
\* The quotes: a page and a list, each served by a server of its own.
MCServer == (q1 :> w1 @@ q2 :> w2)
=============================================================================
