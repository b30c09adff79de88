------------------------------- MODULE KeyStats -------------------------------
(***************************************************************************)
(* The key stats of an instrument page (server/api/key-stats): a company's  *)
(* trailing earnings, fetched from the SEC when a view finds the cached      *)
(* figure more than a day old, and kept for the views that follow.  Views    *)
(* are concurrent requests; each has a client of its own.                   *)
(*                                                                         *)
(* The company's filings are quarters: after quarter n the SEC lists, of     *)
(* every fiscal year so far, the year-to-date figures of its first three     *)
(* quarters and, at its end, the year.  (An empty history, which is saved as *)
(* no figure over whatever was cached, is left out: every company here files.) *)
(***************************************************************************)
EXTENDS Money, Sequences, SequencesExt, FiniteSetsExt

CONSTANTS
  Views,
  Earned,       \* Earned[i]: what quarter i earned, in ten-thousandths a share
  FirstFiled,   \* how many quarters are filed as the model starts
  Ttl,          \* ticks a cached figure serves (a day)
  PerTick,      \* requests a tick the SEC allows
  MaxClock      \* bound on the clock

VARIABLES
  clock,
  filed,        \* how many quarters are filed
  filedAt,      \* filedAt[t]: how many were as tick t began
  row,          \* the company's row: its figure and when it was checked
  view,         \* view[v]: a request being served
  requests      \* how often the SEC was asked this tick

statsVars == << clock, filed, filedAt, row, view, requests >>

NoEps == [ eps |-> 0, basis |-> "none", periodEnd |-> 0 ]
Never == -1
Idle == [ pc |-> "idle", now |-> 0, eps |-> NoEps, failed |-> FALSE ]

(* The day quarter i ends, and the facts on file after n quarters. *)
Day(i) == 365 * (i \div 4) + 91 * (i % 4)
Fact(from, to) ==
  [ start |-> Day(from), end |-> Day(to),
    value |-> SumFunctionOnSet(Earned, (from + 1)..to) ]
Facts(n) ==
  { Fact(4 * (i \div 4), i) : i \in { j \in 1..n : j % 4 # 0 } }
  \cup { Fact(i - 4, i) : i \in { j \in 1..n : j % 4 = 0 } }
  \cup { Fact(i - 1, i) : i \in { j \in 1..n : j % 4 # 0 } }

Days(f) == f.end - f.start
Away(x, y) == IF x > y THEN x - y ELSE y - x

(* The last fiscal year, plus this year to date, minus the same of last year. *)
TrailingEps(facts, today) ==
  LET years == { f \in facts : Days(f) >= 350 /\ Days(f) <= 380 }
      annual == CHOOSE f \in years : \A g \in years : g.end <= f.end
      toDate == { f \in facts : f.end > annual.end /\ Days(f) < 350 /\ Days(f) >= 80 }
      ytd == CHOOSE f \in toDate : \A g \in toDate :
               g.end < f.end \/ (g.end = f.end /\ Days(g) <= Days(f))
      priors == { f \in facts : /\ Away(f.end, ytd.end - 365) <= 15
                                /\ Away(Days(f), Days(ytd)) <= 10 }
      prior == CHOOSE f \in priors : TRUE
  IN  IF years = {} \/ today - Max({ f.end : f \in years } \cup { 0 }) > 456 THEN NoEps
      ELSE IF toDate # {} /\ priors # {}
        THEN [ eps |-> annual.value + ytd.value - prior.value, basis |-> "ttm",
               periodEnd |-> ytd.end ]
        ELSE [ eps |-> annual.value, basis |-> "fy", periodEnd |-> annual.end ]

-----------------------------------------------------------------------------
StatsInit ==
  /\ clock = 0 /\ filed = FirstFiled /\ filedAt = << FirstFiled >>
  /\ row = [ eps |-> NoEps, checkedAt |-> Never ]
  /\ view = [ v \in Views |-> Idle ]
  /\ requests = 0

Pass ==
  /\ clock < MaxClock
  /\ clock' = clock + 1 /\ filedAt' = Append(filedAt, filed) /\ requests' = 0
  /\ UNCHANGED << filed, row, view >>
File ==
  /\ filed < Len(Earned)
  /\ filed' = filed + 1
  /\ UNCHANGED << clock, filedAt, row, view, requests >>

(* A view reads the row; a figure never checked or a day old is refreshed.   *)
Stale(now) == row.checkedAt = Never \/ now - row.checkedAt > Ttl
Open(v) ==
  /\ view[v].pc = "idle"
  /\ view' = [ view EXCEPT ![v] = [ Idle EXCEPT !.now = clock, !.eps = row.eps,
                                    !.pc = IF Stale(clock) THEN "fetch" ELSE "shown" ] ]
  /\ UNCHANGED << clock, filed, filedAt, row, requests >>

(* What the SEC was asked this tick, counted up to one too many. *)
Asked == IF requests > PerTick THEN requests ELSE requests + 1

(* The SEC answers with what is on file, through a client that has waited    *)
(* for nobody; or it is down and what was cached is shown.                   *)
FetchEps(v) ==
  /\ view[v].pc = "fetch"
  /\ view' = [ view EXCEPT ![v].pc = "save",
                           ![v].eps = TrailingEps(Facts(filed), Day(filed) + 40) ]
  /\ requests' = Asked
  /\ UNCHANGED << clock, filed, filedAt, row >>
FetchFails(v) ==
  /\ view[v].pc = "fetch"
  /\ view' = [ view EXCEPT ![v].pc = "shown", ![v].failed = TRUE ]
  /\ requests' = Asked
  /\ UNCHANGED << clock, filed, filedAt, row >>

(* The figure is kept as checked when the view began. *)
CheckedWhenSaved(v) == clock
CheckedAt(v) == view[v].now

SaveEps(v) ==
  /\ view[v].pc = "save"
  /\ row' = [ eps |-> view[v].eps, checkedAt |-> CheckedAt(v) ]
  /\ view' = [ view EXCEPT ![v].pc = "shown" ]
  /\ UNCHANGED << clock, filed, filedAt, requests >>

(* The save fails: the view shows the figure, and the next one asks again.   *)
SaveFails(v) ==
  /\ view[v].pc = "save"
  /\ view' = [ view EXCEPT ![v].pc = "shown" ]
  /\ UNCHANGED << clock, filed, filedAt, row, requests >>

Leave(v) ==
  /\ view[v].pc = "shown"
  /\ view' = [ view EXCEPT ![v] = Idle ]
  /\ UNCHANGED << clock, filed, filedAt, row, requests >>

StatsNext ==
  \/ Pass \/ File
  \/ \E v \in Views : Open(v) \/ FetchEps(v) \/ FetchFails(v)
                        \/ SaveEps(v) \/ SaveFails(v) \/ Leave(v)

-----------------------------------------------------------------------------
(* A cached figure is of every quarter filed when it was checked, and what a *)
(* view shows of every quarter filed a day before it, unless the SEC failed  *)
(* it: although slow views save over faster ones.  It is what the last four  *)
(* quarters earned.                                                         *)
LastFour(eps) ==
  LET n == CHOOSE i \in 1..Len(Earned) : Day(i) = eps.periodEnd
  IN  eps.eps = SumFunctionOnSet(Earned, (n - 3)..n)
UpTo(eps, t) == eps.periodEnd >= Day(filedAt[t + 1])
EpsIsCurrent ==
  /\ row.checkedAt # Never => UpTo(row.eps, row.checkedAt) /\ LastFour(row.eps)
  /\ \A v \in Views :
       (view[v].pc = "shown" /\ ~view[v].failed /\ view[v].now >= Ttl) =>
         UpTo(view[v].eps, view[v].now - Ttl)

(* The SEC is asked no more often than its fair-access rule allows.          *)
FairAccess == requests <= PerTick
=============================================================================
