------------------------------- MODULE AlertSheet -------------------------------
(***************************************************************************)
(* Price alerts in the browser: the sheet that sets and deletes them        *)
(* (components/finance/AlertSheet.tsx), the bell and the panel that shows   *)
(* and marks them read (AlertsBell.tsx, AlertsPanel.tsx), the list they     *)
(* share, and the handlers of server/api/alerts.ts.                         *)
(*                                                                          *)
(* A condition is a direction with a threshold; the price shown is either   *)
(* side of each.  Alerts are numbered in the order of created_at.  How the  *)
(* server evaluates them is the matter of PriceAlerts.                      *)
(***************************************************************************)
EXTENDS Naturals, FiniteSets

CONSTANTS
  Conditions,
  MaxActive,    \* MAX_ACTIVE_ALERTS
  ListLimit,    \* alerts of one list answer
  MaxAlerts,    \* bound on the alerts ever set
  MaxVisits     \* bound on openings of the panel and of the sheet

VARIABLES
  alerts,    \* price_alerts of the user
  list,      \* the browser's copy of the list: what it shows of each alert
  fetching,  \* a list answer on its way
  unread,    \* the bell's copy of the unread count
  panel,     \* AlertsPanel
  marking,   \* mark-read requests the server has not handled
  form,      \* AlertSheet
  met,       \* conditions the price shown already meets
  shown      \* history: triggered alerts an open panel has shown

alertVars == <<alerts, list, fetching, unread, panel, marking, form, met, shown>>

AlertIds == 1 .. MaxAlerts
AlertStates == {"none", "ACTIVE", "TRIGGERED", "CANCELED"}
None == [state |-> "none", read |-> FALSE, condition |-> 0]

InState(copy, states) == {i \in AlertIds : copy[i].state \in states}
Unread(copy) == {i \in InState(copy, {"TRIGGERED"}) : ~copy[i].read}

\* The newest ListLimit that are not canceled.
Listed ==
  LET kept == InState(alerts, {"ACTIVE", "TRIGGERED"})
  IN [i \in AlertIds |-> IF i \in kept /\ Cardinality({j \in kept : j > i}) < ListLimit
                           THEN alerts[i] ELSE None]

Init ==
  /\ alerts = [i \in AlertIds |-> None]
  /\ list = [known |-> FALSE, rows |-> [i \in AlertIds |-> None]]
  /\ fetching = {}
  /\ unread = 0
  /\ panel = [open |-> FALSE, marked |-> FALSE, fresh |-> {}, visits |-> 0]
  /\ marking = {}
  /\ form = [open |-> FALSE, condition |-> 0, waiting |-> FALSE, error |-> FALSE, saved |-> FALSE]
  /\ met = {}
  /\ shown = {}

--------------------------------------------------------------------------------
(* The server.                                                                  *)

\* PriceAlertService.create; the number of active alerts is checked last.
Create(c) ==
  LET same == {i \in InState(alerts, {"ACTIVE"}) : alerts[i].condition = c}
      new == Cardinality({i \in AlertIds : alerts[i] # None}) + 1
  IN IF same # {} \/ Cardinality(InState(alerts, {"ACTIVE"})) >= MaxActive
       THEN UNCHANGED alerts
       ELSE /\ new \in AlertIds
            /\ alerts' = [alerts EXCEPT ![new] = [state |-> "ACTIVE", read |-> FALSE, condition |-> c]]

Trigger ==
  /\ \E i \in InState(alerts, {"ACTIVE"}) : alerts' = [alerts EXCEPT ![i].state = "TRIGGERED"]
  /\ UNCHANGED <<list, fetching, unread, panel, marking, form, met, shown>>

\* Mutant: a request without ids, which names all.
NamedAll(ids) == AlertIds

\* Exactly the alerts the request names.
Named(ids) == ids

\* markRead; the answer carries the count that is left.
MarkRead ==
  /\ \E ids \in marking :
       /\ alerts' = [i \in AlertIds |->
                      IF i \in Named(ids) /\ alerts[i].state = "TRIGGERED" THEN [alerts[i] EXCEPT !.read = TRUE]
                                                                        ELSE alerts[i]]
       /\ marking' = marking \ {ids}
       /\ unread' \in {unread, Cardinality(Unread(alerts'))}
  /\ UNCHANGED <<list, fetching, panel, form, met, shown>>

--------------------------------------------------------------------------------
(* The list and the bell.                                                       *)

\* A poll, an invalidation or an opening starts a fetch; what it answers is read
\* at the server before it reaches the browser.
Fetch ==
  /\ fetching' = {Listed}
  /\ UNCHANGED <<alerts, list, unread, panel, marking, form, met, shown>>

\* AlertsPanel's effect: with the panel open, the first data marks what it shows.
Rendered(p, l) ==
  IF ~p.open \/ ~l.known
    THEN /\ panel' = p
         /\ UNCHANGED <<marking, shown>>
    ELSE LET first == IF p.marked THEN {} ELSE Unread(l.rows) IN
         /\ panel' = [p EXCEPT !.marked = TRUE, !.fresh = IF p.marked THEN @ ELSE first]
         /\ marking' = IF first = {} THEN marking ELSE marking \cup {first}
         /\ shown' = shown \cup InState(l.rows, {"TRIGGERED"})

Fetched ==
  /\ \E rows \in fetching :
       /\ list' = [known |-> TRUE, rows |-> rows]
       /\ Rendered(panel, list')
  /\ fetching' = {}
  /\ UNCHANGED <<alerts, unread, form, met>>

BellPolls ==
  /\ unread' = Cardinality(Unread(alerts))
  /\ UNCHANGED <<alerts, list, fetching, panel, marking, form, met, shown>>

OpenPanel ==
  /\ ~panel.open /\ panel.visits < MaxVisits
  /\ Rendered([panel EXCEPT !.open = TRUE, !.visits = @ + 1], list)
  /\ UNCHANGED <<alerts, list, fetching, unread, form, met>>

ClosePanel ==
  /\ panel.open
  /\ panel' = [panel EXCEPT !.open = FALSE, !.marked = FALSE, !.fresh = {}]
  /\ UNCHANGED <<alerts, list, fetching, unread, marking, form, met, shown>>

\* Delete, in the panel or in the sheet; an alert that is gone answers 404.
Delete ==
  /\ panel.open \/ form.open
  /\ \E i \in InState(list.rows, {"ACTIVE", "TRIGGERED"}) :
       alerts' = [alerts EXCEPT ![i].state = "CANCELED"]
  /\ UNCHANGED <<list, fetching, unread, panel, marking, form, met, shown>>

\* A new alert with the terms of a triggered one; no check against the price.
Rearm ==
  /\ panel.open
  /\ \E i \in InState(list.rows, {"TRIGGERED"}) : Create(list.rows[i].condition)
  /\ UNCHANGED <<list, fetching, unread, panel, marking, form, met, shown>>

--------------------------------------------------------------------------------
(* The sheet.                                                                   *)

\* The field starts at the last price, which is no condition.
OpenForm ==
  /\ ~form.open /\ ~panel.open
  /\ form' = [form EXCEPT !.open = TRUE, !.condition = 0, !.waiting = FALSE, !.error = FALSE, !.saved = FALSE]
  /\ UNCHANGED <<alerts, list, fetching, unread, panel, marking, met, shown>>

CloseForm ==
  /\ form.open
  /\ form' = [form EXCEPT !.open = FALSE]
  /\ UNCHANGED <<alerts, list, fetching, unread, panel, marking, met, shown>>

EditForm ==
  /\ form.open
  /\ \E c \in Conditions : form' = [form EXCEPT !.condition = c, !.error = FALSE, !.saved = FALSE]
  /\ UNCHANGED <<alerts, list, fetching, unread, panel, marking, met, shown>>

PriceMoves ==
  /\ met' \in SUBSET Conditions
  /\ UNCHANGED <<alerts, list, fetching, unread, panel, marking, form, shown>>

AtCap == Cardinality(InState(list.rows, {"ACTIVE"})) >= MaxActive

\* submit(); the server may handle the request whether or not it answers.
Submit ==
  /\ form.open /\ ~form.waiting /\ ~AtCap
  /\ form.condition \in Conditions \ met
  /\ Create(form.condition) \/ UNCHANGED alerts
  /\ form' = [form EXCEPT !.waiting = TRUE, !.error = FALSE]
  /\ UNCHANGED <<list, fetching, unread, panel, marking, met, shown>>

\* onSuccess or onError, in whatever opening they arrive.
Answered ==
  /\ form.waiting
  /\ form' \in {[form EXCEPT !.waiting = FALSE, !.saved = TRUE, !.condition = 0],
                [form EXCEPT !.waiting = FALSE, !.error = TRUE]}
  /\ UNCHANGED <<alerts, list, fetching, unread, panel, marking, met, shown>>

AlertSheetNext ==
  \/ Trigger \/ MarkRead \/ Fetch \/ Fetched \/ BellPolls
  \/ OpenPanel \/ ClosePanel \/ Delete \/ Rearm
  \/ OpenForm \/ CloseForm \/ EditForm \/ PriceMoves \/ Submit \/ Answered

AlertSheetSpec == Init /\ [][AlertSheetNext]_alertVars

--------------------------------------------------------------------------------
AlertSheetTypeOK ==
  /\ \A i \in AlertIds : alerts[i].state \in AlertStates
  /\ Cardinality(fetching) <= 1 /\ unread \in 0 .. MaxAlerts
  /\ panel.visits \in 0 .. MaxVisits /\ panel.fresh \subseteq AlertIds
  /\ marking \subseteq SUBSET AlertIds

\* An alert is marked read only if an open panel has shown it as triggered, though
\* alerts trigger between the list's answer, its rendering and the request that
\* marks it (AlertsPanel.tsx: "exactly the unread alerts this sheet is showing").
ReadOnlyIfShown ==
  \A i \in AlertIds : alerts[i].read => i \in shown

\* What AlertsPanel.tsx says of opening it: it "marks what it shows as read".
PanelMarksWhatItShows ==
  panel.open /\ list.known =>
    \A i \in Unread(list.rows) : alerts[i].read \/ i \in UNION marking
================================================================================
