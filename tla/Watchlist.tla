-------------------------------- MODULE Watchlist --------------------------------
(***************************************************************************)
(* A user's watchlist: the rows (infra/db/repositories/watchlists.ts), the  *)
(* handlers of server/api/portfolio.ts, and the browser's one copy, which   *)
(* the dashboard and the page of each instrument show and change.           *)
(*                                                                          *)
(* A change answers with the whole list, read after its commit, and the     *)
(* browser takes any answer as the list; a poll does the same.  A row is    *)
(* named by the call that inserted it.                                      *)
(***************************************************************************)
EXTENDS Naturals, FiniteSets

CONSTANTS
  Symbols,
  MaxClicks,   \* bound on clicks
  MaxOutages   \* bound on answers that do not arrive

VARIABLES
  items,    \* watchlist_items
  cache,    \* the ["watchlist"] query: its data
  calls,    \* requests under way
  place,    \* the page the user is on: the dashboard, or a symbol's
  button,   \* the mutation of that page: its latest call; the symbol it failed for
  clicks,
  outages,
  last      \* history: what the last click on each symbol has come to

watchVars == <<items, cache, calls, place, button, clicks, outages, last>>

Dashboard == "dashboard"
NoSymbol == "none"
Poll == 0
Idle == [call |-> Poll, error |-> NoSymbol]

Row(n, s) == [id |-> n, symbol |-> s]
Ids == 0 .. MaxClicks
Lists == SUBSET [id : Ids, symbol : Symbols]
SymbolsOf(list) == {r.symbol : r \in list}

Stages == {"sent", "committed", "read"}
Call(n, op, row) ==
  [n |-> n, op |-> op, row |-> row, stage |-> "sent", list |-> {}, awaited |-> TRUE]
CallOf(n) == CHOOSE c \in calls : c.n = n
Running == {c.n : c \in calls}

\* The mutation the page waits for.
IsPending == button.call # Poll /\ \E c \in calls : c.n = button.call /\ c.awaited

Init ==
  /\ items \in {{}} \cup {{Row(0, s)} : s \in Symbols}
  /\ cache = [known |-> FALSE, list |-> {}]
  /\ calls = {}
  /\ place = Dashboard /\ button = Idle
  /\ clicks = 0 /\ outages = 0
  /\ last = [s \in Symbols |-> "untouched"]

--------------------------------------------------------------------------------
(* The pages.                                                                   *)

\* A page that is opened has a mutation of its own; calls of the one left go on.
GoTo(p) ==
  /\ p # place /\ clicks < MaxClicks
  /\ place' = p /\ button' = Idle
  /\ UNCHANGED <<items, cache, calls, clicks, outages, last>>

Click(op, row) ==
  /\ clicks < MaxClicks
  /\ clicks' = clicks + 1
  /\ calls' = calls \cup {Call(clicks', op, row)}
  /\ button' = [call |-> clicks', error |-> NoSymbol]
  /\ last' = [last EXCEPT ![row.symbol] = op]
  /\ UNCHANGED <<items, cache, place, outages>>

\* The dashboard: the row of the latest removal is disabled, the others are not.
RemoveRow ==
  /\ place = Dashboard
  /\ \E r \in cache.list :
       /\ ~(IsPending /\ CallOf(button.call).row = r)
       /\ Click("remove", r)

\* An instrument's page: one button that adds or removes, as the copy has it.
Toggle ==
  /\ place # Dashboard /\ cache.known /\ ~IsPending
  /\ LET shown == {r \in cache.list : r.symbol = place}
     IN \/ \E r \in shown : Click("remove", r)
        \/ shown = {} /\ Click("add", Row(clicks + 1, place))

\* Mutant: the list is fetched once.
DueOnce == ~cache.known

\* Every 15 seconds, on any page that shows it.
Due == TRUE

StartPoll ==
  /\ Due /\ Poll \notin Running
  /\ calls' = calls \cup {[Call(Poll, "list", Row(0, NoSymbol)) EXCEPT !.stage = "committed"]}
  /\ UNCHANGED <<items, cache, place, button, clicks, outages, last>>

--------------------------------------------------------------------------------
(* The server.                                                                  *)

\* Mutant: a removal names the symbol.
GoneBySymbol(row) == {r \in items : r.symbol = row.symbol}

\* remove: by the row's id.
Gone(row) == {r \in items : r.id = row.id}

\* add: onConflictDoNothing on the symbol.
Changed(c) ==
  IF c.op = "remove" THEN items \ Gone(c.row)
  ELSE IF c.row.symbol \in SymbolsOf(items) THEN items ELSE items \cup {c.row}

\* addWatchlistItem, removeWatchlistItem: the transaction.
Commit(n) ==
  /\ \E c \in calls :
       /\ c.n = n /\ c.stage = "sent"
       /\ items' = Changed(c)
       /\ calls' = (calls \ {c}) \cup {[c EXCEPT !.stage = "committed"]}
       /\ last' = IF c.row \in items' \ items /\ last[c.row.symbol] = "add"
                    THEN [last EXCEPT ![c.row.symbol] = "added"] ELSE last
  /\ UNCHANGED <<cache, place, button, clicks, outages>>

\* getWatchlist, in a transaction of its own.
ReadList(n) ==
  /\ \E c \in calls :
       /\ c.n = n /\ c.stage = "committed"
       /\ calls' = (calls \ {c}) \cup {[c EXCEPT !.stage = "read", !.list = items]}
  /\ UNCHANGED <<items, cache, place, button, clicks, outages, last>>

--------------------------------------------------------------------------------
(* The answers.                                                                 *)

\* setQueryData, or the poll's result: whatever is there is replaced.
Arrive(n) ==
  /\ \E c \in calls :
       /\ c.n = n /\ c.stage = "read"
       /\ calls' = calls \ {c}
       /\ cache' = IF c.awaited THEN [known |-> TRUE, list |-> c.list] ELSE cache
  /\ UNCHANGED <<items, place, button, clicks, outages, last>>

\* The connection is lost, or the quotes of the answer fail (503): the request may
\* still be handled, but the page hears no more of it.
Lose(n) ==
  /\ outages < MaxOutages
  /\ \E c \in calls :
       /\ c.n = n /\ c.awaited
       /\ calls' \in {calls \ {c}, (calls \ {c}) \cup {[c EXCEPT !.awaited = FALSE]}}
       /\ button' = IF n = button.call /\ n # Poll THEN [button EXCEPT !.error = c.row.symbol] ELSE button
  /\ outages' = outages + 1
  /\ UNCHANGED <<items, cache, place, clicks, last>>

WatchNext ==
  \/ \E p \in Symbols \cup {Dashboard} : GoTo(p)
  \/ RemoveRow \/ Toggle \/ StartPoll
  \/ \E n \in Ids : Commit(n) \/ ReadList(n) \/ Arrive(n) \/ Lose(n)

WatchSpec == Init /\ [][WatchNext]_watchVars

--------------------------------------------------------------------------------
WatchTypeOK ==
  /\ items \in Lists /\ cache.list \in Lists
  /\ \A c \in calls : c.n \in Ids /\ c.stage \in Stages
  /\ Cardinality(calls) = Cardinality(Running)
  /\ place \in Symbols \cup {Dashboard}

\* However answers and polls overtake each other, and though each holds a list read
\* before another's commit, the list shown is in the end, and stays, the list kept
\* (lib/queries.ts: the poll; (app)/page.tsx, (app)/i/[symbol]/page.tsx: onSuccess).
ListAgrees == cache = [known |-> TRUE, list |-> items]

\* A symbol whose last click was an add that inserted its row is on the list: no
\* removal clicked before, of a row since gone, takes the new row with it.
KeptOnceAdded ==
  \A s \in Symbols : last[s] = "added" => s \in SymbolsOf(items)

\* What (app)/page.tsx:334 says under the list: "couldn't be removed. Try again."
FailedMeansKept ==
  place = Dashboard /\ button.error # NoSymbol => button.error \in SymbolsOf(items)
================================================================================
