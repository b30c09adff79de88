------------------------------ MODULE MCDashboard ------------------------------
(***************************************************************************)
(* TLC instance of what the dashboard ((app)/page.tsx) stands on: the       *)
(* account's opening, the watchlist and the orders.  They share no state,   *)
(* so one of them moves at a time, and the others stay at rest.             *)
(***************************************************************************)
EXTENDS MCAccounts

CONSTANTS
  Symbols, MaxClicks, MaxOutages,
  MaxProgress, MaxActs, MaxLosses

VARIABLES
  part,
  items, cache, calls, place, button, clicks, outages, last,
  book, data, fetch, stale, page, seen, cancel, acts, losses, told

Watch == INSTANCE Watchlist
Pages == INSTANCE OrderPages

watchVars == <<items, cache, calls, place, button, clicks, outages, last>>
pageVars == <<book, data, fetch, stale, page, seen, cancel, acts, losses, told>>
vars == <<part, accountVars, watchVars, pageVars>>

DashboardInit ==
  /\ part \in {"account", "watchlist", "orders"}
  /\ Init /\ Watch!Init /\ Pages!Init

DashboardNext ==
  \/ part = "account" /\ Next /\ UNCHANGED <<part, watchVars, pageVars>>
  \/ part = "watchlist" /\ Watch!WatchNext /\ UNCHANGED <<part, accountVars, pageVars>>
  \/ part = "orders" /\ Pages!PagesNext /\ UNCHANGED <<part, accountVars, watchVars>>

\* The fairness of each part: see FairAccountSpec; polls come again, requests are
\* handled and answered.  The user owes nothing.
DashboardSpec ==
  /\ DashboardInit /\ [][DashboardNext]_vars
  /\ \A c \in Calls : WF_accountVars(part = "account" /\ CallStep(c))
  /\ \A c \in Sweeps : WF_accountVars(part = "account" /\ Sweep(c))
  /\ \A a \in Ids : WF_accountVars(part = "account" /\ FundingSettles(a))
  /\ WF_watchVars(part = "watchlist" /\ Watch!StartPoll)
  /\ \A n \in Watch!Ids :
       WF_watchVars(part = "watchlist" /\ (Watch!Commit(n) \/ Watch!ReadList(n) \/ Watch!Arrive(n)))
  /\ \A q \in Pages!Queries :
       WF_pageVars(part = "orders" /\ (Pages!Poll(q) \/ Pages!ReadAtServer(q) \/ Pages!Arrive(q)))

\* The properties of the parts under one name each.
DashboardTypeOK == AccountsTypeOK /\ Watch!WatchTypeOK /\ Pages!PagesTypeOK
PagesAgree == Watch!KeptOnceAdded /\ Pages!BalancesFollowTable
PagesSettle == <>[](part = "watchlist" => Watch!ListAgrees) /\ Pages!EndIsShown

\* What the pages do not keep (README, section 5).
BalancesAgree == Pages!BalancesAgree
PlacedIsListed == Pages!PlacedIsListed
FailedMeansKept == Watch!FailedMeansKept
================================================================================
