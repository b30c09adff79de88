------------------------------- MODULE MCSheets -------------------------------
(***************************************************************************)
(* TLC instance of the client modules: the user is on one screen, the       *)
(* ticket, the cash sheet or the alerts, and what one keeps the others do   *)
(* not touch.                                                               *)
(***************************************************************************)
EXTENDS OrderTicket

CONSTANTS
  portfolio,
  Amounts, MaxReviews, MaxSubmits, MaxOpenings,
  Conditions, MaxActive, ListLimit, MaxAlerts, MaxVisits

VARIABLES
  screen,
  sheet, limit, submission, flights, requests, transfers, reviews, card,
  alerts, list, fetching, unread, panel, marking, alertForm, met, shown

Cash == INSTANCE CashSheet
Alerts == INSTANCE AlertSheet WITH form <- alertForm

cashVars == <<sheet, limit, submission, flights, requests, transfers, reviews, card>>
alertVars == <<alerts, list, fetching, unread, panel, marking, alertForm, met, shown>>
vars == <<ticketVars, cashVars, alertVars, screen>>

Init ==
  /\ screen \in {"ticket", "cash", "alerts"}
  /\ TicketInit /\ Cash!Init /\ Alerts!Init

Next ==
  \/ screen = "ticket" /\ TicketNext /\ UNCHANGED <<cashVars, alertVars, screen>>
  \/ screen = "cash" /\ Cash!SheetNext /\ UNCHANGED <<ticketVars, alertVars, screen>>
  \/ screen = "alerts" /\ Alerts!AlertSheetNext /\ UNCHANGED <<ticketVars, cashVars, screen>>

Spec == Init /\ [][Next]_vars

\* The properties of the three modules under one name each.
SheetsTypeOK == TicketTypeOK /\ Cash!SheetTypeOK /\ Alerts!AlertSheetTypeOK
OneTransferPerReview == Cash!OneTransferPerReview
ReadOnlyIfShown == Alerts!ReadOnlyIfShown
LandingRefreshesViews == Cash!LandingRefreshesViews
PanelMarksWhatItShows == Alerts!PanelMarksWhatItShows
===============================================================================
