-------------------------------- MODULE OrderPages --------------------------------
(***************************************************************************)
(* An order as the pages follow it after its placement: the table of the    *)
(* dashboard (components/finance/OrdersTable.tsx), the order's own page     *)
(* ((app)/orders/[id]/page.tsx), the cancel they share (useCancelOrder.ts)  *)
(* and the refresh of the balances (order-queries.ts).                      *)
(*                                                                          *)
(* One order is followed.  What a copy shows of it is its state, here one   *)
(* of four, and how often it has made progress: a fill is progress without  *)
(* a change of state.  The balances are the order as they account for it.   *)
(* Fetches are the query library's: one of a query at a time, finished      *)
(* though its page is left; an invalidation restarts one under way if the   *)
(* query has data, and leaves a query's first fetch to go on.               *)
(***************************************************************************)
EXTENDS Naturals

CONSTANTS
  MaxProgress,  \* bound on the order's progress
  MaxActs,      \* bound on changes of page and cancels
  MaxLosses     \* bound on fetches that fail

VARIABLES
  book,    \* the order at the server
  data,    \* each query's data
  fetch,   \* each query's fetch under way
  stale,   \* queries that an invalidation or a failure has marked
  page,    \* the page the user is on
  seen,    \* useRefreshOnOrderProgress: what it saw last
  cancel,  \* the cancel request under way
  acts,
  losses,
  told     \* history: progress this page has shown as a change beside balances

pageVars == <<book, data, fetch, stale, page, seen, cancel, acts, losses, told>>

Queries == {"open", "order", "balances"}
Pages == {"instrument", "dashboard", "order"}
OpenStates == {"submitting", "working", "canceling"}

\* The queries of a page; the one it shows the order from.
Mounted(p) ==
  CASE p = "instrument" -> {"balances"}
    [] p = "dashboard" -> {"open", "balances"}
    [] p = "order" -> {"order"}
ShownBy(p) == Mounted(p) \ {"balances"}
BalancesShown(p, d) == "balances" \in Mounted(p) /\ d["balances"].known

\* The open list is without an order that ended.
Answer(q) ==
  IF q = "open" /\ book.state = "ended" THEN [book EXCEPT !.state = "absent"] ELSE book

Unseen == [known |-> FALSE, copy |-> [state |-> "none", at |-> 0]]
NoFetch == [stage |-> "none", copy |-> Unseen.copy]
Sent == [NoFetch EXCEPT !.stage = "sent"]

Init ==
  /\ book = Unseen.copy
  /\ data = [q \in Queries |-> Unseen]
  /\ fetch = [q \in Queries |-> IF q = "balances" THEN Sent ELSE NoFetch]
  /\ stale = {}
  /\ page = "instrument" /\ seen = Unseen
  /\ cancel = "none"
  /\ acts = 0 /\ losses = 0 /\ told = 0

--------------------------------------------------------------------------------
(* Queries.                                                                     *)

\* Mutant: an invalidation lets the fetch under way go on.
RestartedIdle(p, f, d) ==
  [q \in Queries |-> IF q \in Mounted(p) /\ f[q].stage = "none" THEN Sent ELSE f[q]]

\* Queries on screen are fetched anew, but for a first fetch under way (the library
\* cancels one only where there is data d); the others are only marked.
Restarted(p, f, d) ==
  [q \in Queries |->
     IF q \in Mounted(p) /\ (d[q].known \/ f[q].stage = "none") THEN Sent ELSE f[q]]

\* orderProgressSignature: an order that is not listed adds nothing to it.
Signature(copy) == IF copy.state \in {"none", "absent"} THEN Unseen.copy ELSE copy

\* The effect of useRefreshOnOrderProgress on page p with the data d, when the
\* fetches under way are f, the stale queries s and what it has told of is t.
Effect(p, last, d, f, s, t) ==
  LET now == {d[q].copy : q \in {r \in ShownBy(p) : d[r].known}} IN
  IF now = {} THEN seen' = last /\ fetch' = f /\ stale' = s /\ told' = t
  ELSE \E copy \in now :
         /\ seen' = [known |-> TRUE, copy |-> copy]
         /\ IF last.known /\ Signature(last.copy) # Signature(copy)
              THEN /\ fetch' = Restarted(p, f, d)
                   /\ stale' = Queries
                   /\ told' = IF BalancesShown(p, d) THEN copy.at ELSE t
              ELSE fetch' = f /\ stale' = s /\ told' = t

\* Mutant: a table polls while it shows an order that can be cancelled.
WorkingPolls(copy) == copy.state = "working"

\* isOrderOpen.
OpenPolls(copy) == copy.state \in OpenStates

\* The refetchInterval of each query on screen.
IsPolled(q) ==
  CASE q = "balances" -> TRUE
    [] q = "order" -> data[q].known => OpenPolls(data[q].copy)
    [] OTHER -> data[q].known /\ OpenPolls(data[q].copy)

\* A poll, or the window's focus on what is stale.
Refetch(q) ==
  /\ q \in Mounted(page) /\ fetch[q].stage = "none"
  /\ IsPolled(q) \/ q \in stale
  /\ fetch' = [fetch EXCEPT ![q] = Sent]
  /\ UNCHANGED <<book, data, stale, page, seen, cancel, acts, losses, told>>

Poll(q) == IsPolled(q) /\ Refetch(q)

ReadAtServer(q) ==
  /\ fetch[q].stage = "sent"
  /\ fetch' = [fetch EXCEPT ![q] = [stage |-> "read", copy |-> Answer(q)]]
  /\ UNCHANGED <<book, data, stale, page, seen, cancel, acts, losses, told>>

\* A success makes the query fresh again, whatever marked it meanwhile.
Arrive(q) ==
  /\ fetch[q].stage = "read"
  /\ data' = [data EXCEPT ![q] = [known |-> TRUE, copy |-> fetch[q].copy]]
  /\ Effect(page, seen, data', [fetch EXCEPT ![q] = NoFetch], stale \ {q}, told)
  /\ UNCHANGED <<book, page, cancel, acts, losses>>

Fail(q) ==
  /\ fetch[q].stage # "none" /\ losses < MaxLosses
  /\ losses' = losses + 1
  /\ fetch' = [fetch EXCEPT ![q] = NoFetch]
  /\ stale' = stale \cup {q}
  /\ UNCHANGED <<book, data, page, seen, cancel, acts, told>>

--------------------------------------------------------------------------------
(* The user.                                                                    *)

\* A page starts anew, with the data that is there, which it fetches again when it is
\* marked or older than the staleTime.
GoTo(p) ==
  /\ p # page /\ acts < MaxActs
  /\ acts' = acts + 1
  /\ page' = p
  /\ LET idle == {q \in Mounted(p) \ Mounted(page) : fetch[q].stage = "none"}
     IN \E old \in SUBSET idle :
          LET due == old \cup {q \in idle : ~data[q].known \/ q \in stale} IN
          Effect(p, Unseen, data, [q \in Queries |-> IF q \in due THEN Sent ELSE fetch[q]], stale, 0)
  /\ UNCHANGED <<book, data, cancel, losses>>

\* The ticket of the instrument's page; its onSuccess invalidates every view.
Place ==
  /\ page = "instrument" /\ book.state = "none"
  /\ book' = [state |-> "submitting", at |-> 1]
  /\ fetch' = Restarted(page, fetch, data) /\ stale' = Queries
  /\ UNCHANGED <<data, page, seen, cancel, acts, losses, told>>

\* isCancellable, as the page shows the order.
Cancel ==
  /\ cancel = "none" /\ acts < MaxActs
  /\ \E q \in ShownBy(page) : data[q].known /\ data[q].copy.state = "working"
  /\ cancel' = "sent" /\ acts' = acts + 1
  /\ UNCHANGED <<book, data, fetch, stale, page, seen, losses, told>>

\* useCancelOrder: onSettled, whatever the answer, and whatever the page.
Settled ==
  /\ cancel = "handled"
  /\ cancel' = "none"
  /\ fetch' = Restarted(page, fetch, data) /\ stale' = Queries
  /\ UNCHANGED <<book, data, page, seen, acts, losses, told>>

--------------------------------------------------------------------------------
(* The server.                                                                  *)

Becomes(state) == book' = [state |-> state, at |-> book.at + 1]

\* requestCancel; the order may be past it, or the request may be lost.
HandleCancel ==
  /\ cancel = "sent"
  /\ cancel' = "handled"
  /\ UNCHANGED book \/ (book.state = "working" /\ book.at < MaxProgress /\ Becomes("canceling"))
  /\ UNCHANGED <<data, fetch, stale, page, seen, acts, losses, told>>

\* An event of the venue; a fill may take an order back from canceling.
Progress ==
  /\ book.at < MaxProgress
  /\ \/ book.state \in OpenStates /\ Becomes("working")
     \/ book.state \in OpenStates /\ Becomes("ended")
  /\ UNCHANGED <<data, fetch, stale, page, seen, cancel, acts, losses, told>>

PagesNext ==
  \/ \E q \in Queries : Refetch(q) \/ ReadAtServer(q) \/ Arrive(q) \/ Fail(q)
  \/ \E p \in Pages : GoTo(p)
  \/ Place \/ Cancel \/ Settled \/ HandleCancel \/ Progress

PagesSpec == Init /\ [][PagesNext]_pageVars

--------------------------------------------------------------------------------
Copies == [state : {"none", "absent", "ended"} \cup OpenStates, at : 0 .. MaxProgress]
PagesTypeOK ==
  /\ book \in Copies /\ page \in Pages /\ stale \subseteq Queries
  /\ \A q \in Queries : data[q].copy \in Copies /\ fetch[q].copy \in Copies
  /\ seen.copy \in Copies /\ told \in 0 .. MaxProgress

\* On a page with an order and the balances, the balances account for every change
\* of the order that the page has shown since they first arrived, or they are being
\* fetched, or their fetch failed (order-queries.ts: "each of those moments refreshes
\* every cash-derived view").
BalancesFollowTable ==
  BalancesShown(page, data) =>
    data["balances"].copy.at >= told \/ fetch["balances"].stage # "none" \/ "balances" \in stale

ShowsOpen ==
  \E q \in ShownBy(page) : data[q].known /\ data[q].copy.state \in OpenStates

\* A page does not go on showing an order as open that has ended, without a reload
\* (OrdersTable.tsx: "order status advances without manual refresh").
EndIsShown == []<>~(book.state = "ended" /\ ShowsOpen)

\* What lib/queries.ts:21 says of the invalidation: "so balances never disagree across
\* screens".  It fails of what the page shows first, and of a change shown while the
\* balances' first fetch is under way, which the invalidation leaves to go on.
BalancesAgree ==
  \A q \in ShownBy(page) :
    BalancesShown(page, data) /\ data[q].known =>
      data["balances"].copy.at >= data[q].copy.at
        \/ fetch["balances"].stage # "none" \/ "balances" \in stale

\* The table lists an order placed before the table was opened, or is being fetched,
\* or is marked.
PlacedIsListed ==
  page = "dashboard" /\ data["open"].known /\ book.state # "none" =>
    data["open"].copy.at # 0 \/ fetch["open"].stage # "none" \/ "open" \in stale
================================================================================
