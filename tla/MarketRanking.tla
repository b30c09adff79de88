----------------------------- MODULE MarketRanking -----------------------------
(***************************************************************************)
(* The Top 100: the worker's job that ranks companies by market value       *)
(* (worker/jobs/top100, core/discovery/ranking, the SEC's share counts),    *)
(* the snapshots it appends, the share counts it saves on the way, and the  *)
(* browse pages that show the newest snapshot.                              *)
(*                                                                         *)
(* A filer is a record cik, tickers; its filing of one run is cover,        *)
(* weighted and float, 0 for a figure the bulk data lacks.  Symbols are     *)
(* numbers, in the order ties break.  ScheduledJobs says when two runs      *)
(* overlap; here they simply may, with as many runners as given.            *)
(***************************************************************************)
EXTENDS Money, Sequences, SequencesExt, FiniteSetsExt

CONSTANTS
  Runners,
  Filers,       \* every filer of the ticker file
  Filings,      \* the filings a run may be given: functions on Filers
  QuoteSets,    \* the quotes a run may be given: functions from symbols to prices
  Eligible,     \* the active instruments that are not depositary receipts
  Overrides,    \* function from ciks to records exclude, symbol, shares
  Vehicles,     \* the ciks whose industry code is an investment vehicle's
  Size,         \* how many companies the list has (100)
  Lead, Keep,   \* how many of the first Lead must stay (10, 7)
  Batch,        \* rows saved in one statement (500)
  Page,         \* rows of a browse page (25)
  Seed,         \* the dated seed: a sequence of symbols
  MaxSnapshots  \* bound on the snapshots published

VARIABLES
  run,          \* run[r]: the run of the job a runner is in
  snapshots,    \* the snapshots published, oldest first
  shares,       \* company_fundamentals: symbol to the count saved
  browse        \* the list a user pages through

rankingVars == << run, snapshots, shares, browse >>

NoRun == [ pc |-> "idle" ]
NoList == [ pc |-> "closed", page |-> 0, rows |-> << >> ]

-----------------------------------------------------------------------------
(* Which count to trust: the cover's, unless a filer of several classes has *)
(* a weighted average that is not implausibly far from it.                  *)
ChooseCount(filer, filing) ==
  LET c == filing.cover
      w == filing.weighted
      far == w > 50 * c \/ 2 * w < c
  IN  IF c > 0 /\ (Len(filer.tickers) = 1 \/ w = 0 \/ far) THEN c ELSE w

(* The filers listed: with a count or at least a public float. *)
Listed(filings) ==
  { f \in Filers : ChooseCount(f, filings[f]) > 0 \/ filings[f].float > 0 }

Overridden(f) == f.cik \in DOMAIN Overrides
Excluded(f) == Overridden(f) /\ Overrides[f.cik].exclude

EligibleTickers(f) == SelectSeq(f.tickers, LAMBDA t : t \in Eligible)

(* What is priced: the classes of what can be valued, and the overrides'.   *)
Priceable(filings) ==
  UNION { Range(EligibleTickers(f)) :
            f \in { g \in Listed(filings) : /\ ChooseCount(g, filings[g]) > 0
                                            /\ ~Overridden(g) } }
  \cup { Overrides[c].symbol : c \in { d \in DOMAIN Overrides : ~Overrides[d].exclude } }

(* A filer's symbol and count as the ranking takes them; 0 is none. *)
SymbolOf(f, quotes) ==
  LET quoted == SelectSeq(EligibleTickers(f), LAMBDA t : t \in DOMAIN quotes)
  IN  IF Overridden(f) THEN Overrides[f.cik].symbol
      ELSE IF quoted = << >> THEN 0 ELSE quoted[1]
SharesOf(f, filings) ==
  IF Overridden(f) THEN Overrides[f.cik].shares ELSE ChooseCount(f, filings[f])

Valued(filings, quotes) ==
  { f \in Listed(filings) \cup { g \in Filers : Overridden(g) } :
      /\ ~Excluded(f)
      /\ SharesOf(f, filings) > 0
      /\ SymbolOf(f, quotes) \in Eligible \cap DOMAIN quotes }
Value(f, filings, quotes) ==
  Notional(quotes[SymbolOf(f, quotes)], SharesOf(f, filings))

(* The float band: from a fifth to twenty-five times the public float. *)
NoUpperBand(value, float) == 5 * value >= float
WithinFloatBand(value, float) == 5 * value >= float /\ value <= 25 * float

Implausible(filings, quotes) ==
  { f \in Valued(filings, quotes) :
      /\ ~Overridden(f) /\ filings[f].float > 0
      /\ ~WithinFloatBand(Value(f, filings, quotes), filings[f].float) }

(* The candidates: vehicles are passed over. *)
Companies(filings, quotes) ==
  { f \in Valued(filings, quotes) \ Implausible(filings, quotes) : f.cik \notin Vehicles }

(* By value, ties by symbol; one symbol of two filers by the ticker file's    *)
(* order, which their ciks stand for.                                       *)
Above(f, g, filings, quotes) ==
  LET more == Value(f, filings, quotes) - Value(g, filings, quotes)
      first == SymbolOf(f, quotes) - SymbolOf(g, quotes)
  IN  \/ more > 0
      \/ more = 0 /\ first < 0
      \/ more = 0 /\ first = 0 /\ f.cik < g.cik

(* In place i is the one that i - 1 are above; the list is cut to size. *)
RankByMarketCap(filings, quotes) ==
  LET companies == Companies(filings, quotes)
      At(i) == CHOOSE f \in companies :
                 Cardinality({ g \in companies : Above(g, f, filings, quotes) }) = i - 1
  IN  [ i \in 1..Min({ Size, Cardinality(companies) }) |->
          LET f == At(i)
          IN  [ cik |-> f.cik, symbol |-> SymbolOf(f, quotes),
                value |-> Value(f, filings, quotes) ] ]

(* The share counts to keep for the key stats: a set of rows. *)
ShareRows(filings, quotes) ==
  LET rejected == { SymbolOf(f, quotes) : f \in Implausible(filings, quotes) }
      kept == { f \in Listed(filings) :
                  /\ ChooseCount(f, filings[f]) > 0 /\ ~Overridden(f)
                  /\ Range(EligibleTickers(f)) \cap rejected = {} }
      sound == { c \in DOMAIN Overrides : ~Overrides[c].exclude }
  IN  UNION { { [ symbol |-> t, cik |-> f.cik, shares |-> ChooseCount(f, filings[f]) ] :
                  t \in Range(EligibleTickers(f)) } : f \in kept }
      \cup { [ symbol |-> Overrides[c].symbol, cik |-> c, shares |-> Overrides[c].shares ] :
               c \in { d \in sound : Overrides[d].symbol \in Eligible } }

(* A degraded run is refused: too short, too few prices, a head that moved. *)
HeadOf(entries) ==
  { entries[i].symbol : i \in { j \in DOMAIN entries : j <= Lead } }
Coverage(filings, quotes) ==
  LET asked == Priceable(filings)
  IN  asked # {} /\ 10 * Cardinality(asked \cap DOMAIN quotes) >= 8 * Cardinality(asked)
KeepsSomewhere(previous, next) ==
  LET listed == { next[i].symbol : i \in DOMAIN next }
  IN  Len(previous) >= Lead => Cardinality(HeadOf(previous) \cap listed) >= Keep
KeepsHead(previous, next) ==
  Len(previous) >= Lead => Cardinality(HeadOf(previous) \cap HeadOf(next)) >= Keep

ValidSnapshot(previous, next, filings, quotes) ==
  Len(next) >= Size /\ Coverage(filings, quotes) /\ KeepsHead(previous, next)

Latest == IF snapshots = << >> THEN << >> ELSE Last(snapshots).entries

-----------------------------------------------------------------------------
RankingInit ==
  /\ run = [ r \in Runners |-> NoRun ]
  /\ snapshots = << >>
  /\ shares = << >>
  /\ browse = NoList

Step(r, next) == run' = [ run EXCEPT ![r] = next ]

(* The run gathers the filings and the instruments, *)
Gather(r) ==
  /\ run[r].pc = "idle" /\ Len(snapshots) < MaxSnapshots
  /\ \E filings \in Filings : Step(r, [ pc |-> "quotes", filings |-> filings ])
  /\ UNCHANGED << snapshots, shares, browse >>

(* then quotes what it can price and ranks it, *)
Rank(r) ==
  /\ run[r].pc = "quotes"
  /\ \E market \in QuoteSets :
       LET filings == run[r].filings
           quotes == Restrict(market, DOMAIN market \cap Priceable(filings))
       IN  Step(r, [ pc |-> "shares", filings |-> filings, quotes |-> quotes,
                     ranked |-> RankByMarketCap(filings, quotes),
                     rows |-> ShareRows(filings, quotes) ])
  /\ UNCHANGED << snapshots, shares, browse >>

(* saves the share counts, a batch a statement, *)
SaveShares(r) ==
  /\ run[r].pc = "shares" /\ run[r].rows # {}
  /\ LET Before(row) == { other \in run[r].rows : other.symbol < row.symbol }
         batch == { row \in run[r].rows : Cardinality(Before(row)) < Batch }
     IN  /\ shares' = [ t \in { row.symbol : row \in batch } |->
                          CHOOSE row \in batch : row.symbol = t ] @@ shares
         /\ Step(r, [ run[r] EXCEPT !.rows = @ \ batch ])
  /\ UNCHANGED << snapshots, browse >>

(* reads the newest snapshot, against which its own may be refused, *)
Validate(r) ==
  /\ run[r].pc = "shares" /\ run[r].rows = {}
  /\ LET ok == ValidSnapshot(Latest, run[r].ranked, run[r].filings, run[r].quotes)
     IN  Step(r, IF ok THEN [ run[r] EXCEPT !.pc = "save" ] ELSE NoRun)
  /\ UNCHANGED << snapshots, shares, browse >>

(* and publishes it. *)
Save(r) ==
  /\ run[r].pc = "save"
  /\ snapshots' = Append(snapshots, [ entries |-> run[r].ranked,
                                      filings |-> run[r].filings,
                                      quotes |-> run[r].quotes ])
  /\ Step(r, NoRun)
  /\ UNCHANGED << shares, browse >>

(* A request to the SEC or the venue, or a statement, fails; or a crash. *)
Fail(r) ==
  /\ run[r].pc # "idle"
  /\ Step(r, NoRun)
  /\ UNCHANGED << snapshots, shares, browse >>

-----------------------------------------------------------------------------
(* The list a page is cut from: the newest snapshot, or the seed while there *)
(* is none or the store cannot be read.                                     *)
Top100(readable) ==
  IF readable /\ Latest # << >> THEN [ i \in DOMAIN Latest |-> Latest[i].symbol ] ELSE Seed

OpenList ==
  /\ browse.pc = "closed"
  /\ browse' = [ NoList EXCEPT !.pc = "open" ]
  /\ UNCHANGED << run, snapshots, shares >>
LoadPage ==
  /\ browse.pc = "open"
  /\ \E readable \in BOOLEAN :
       LET list == Top100(readable)
           from == browse.page * Page
           rows == SubSeq(list, from + 1, Min({ Len(list), from + Page }))
       IN  browse' = [ pc |-> IF from + Page < Len(list) THEN "open" ELSE "whole",
                       page |-> browse.page + 1, rows |-> browse.rows \o rows ]
  /\ UNCHANGED << run, snapshots, shares >>
CloseList ==
  /\ browse.pc = "whole"
  /\ browse' = NoList
  /\ UNCHANGED << run, snapshots, shares >>

RankingNext ==
  \/ \E r \in Runners :
       Gather(r) \/ Rank(r) \/ SaveShares(r) \/ Validate(r) \/ Save(r) \/ Fail(r)
  \/ OpenList \/ LoadPage \/ CloseList

-----------------------------------------------------------------------------
(* The newest list is the largest companies there were: of that run's        *)
(* filings, whatever was left out was no eligible company, could not be      *)
(* valued, was implausible or is no larger than the last; none is twice.     *)
Fits(f, s) ==
  /\ f \in Valued(s.filings, s.quotes) /\ f.cik \notin Vehicles
  /\ ~Overridden(f) /\ s.filings[f].float > 0 =>
       LET value == Value(f, s.filings, s.quotes)
       IN  5 * value >= s.filings[f].float /\ value <= 25 * s.filings[f].float
ListIsTheLargest ==
  snapshots # << >> =>
    LET s == Last(snapshots)
        listed == { s.entries[i].cik : i \in DOMAIN s.entries }
    IN  /\ Len(s.entries) = Size /\ Cardinality(listed) = Size
        /\ \A f \in Filers :
             /\ f.cik \in listed => Fits(f, s)
             /\ Fits(f, s) /\ f.cik \notin listed =>
                  Value(f, s.filings, s.quotes) <= Last(s.entries).value
        /\ \A i \in 1..(Size - 1) : s.entries[i].value >= s.entries[i+1].value

(* A published list keeps the head of the list it takes the place of.        *)
HeadIsKept ==
  \A i \in 1..(Len(snapshots) - 1) :
    Cardinality(HeadOf(snapshots[i].entries) \cap HeadOf(snapshots[i+1].entries)) >= Keep

(* What a run of the job publishes deserves its place: complete, correct of  *)
(* its own data, and continuous with the list before it.                     *)
PublishedListsHold == ListIsTheLargest /\ HeadIsKept

(* A list paged through shows no company twice.                              *)
NoRowTwice == IsInjective(browse.rows)

(* A share count kept for the key stats was held against the public float.   *)
SavedCountsAreChecked ==
  \A r \in Runners : run[r].pc = "save" =>
    \A f \in Filers :
      (~Overridden(f) /\ run[r].filings[f].float > 0) =>
        \A t \in Range(EligibleTickers(f)) \cap DOMAIN shares :
          shares[t].shares = ChooseCount(f, run[r].filings[f]) => Fits(f, run[r])
=============================================================================
