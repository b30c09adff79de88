------------------------------- MODULE CashSheet -------------------------------
(***************************************************************************)
(* The deposit and withdrawal sheet and the card that holds it              *)
(* (components/finance/CashTransferSheet.tsx, CashCard.tsx): amount, review *)
(* with an idempotency key of its own, confirm, outcome; closing and        *)
(* opening again while a submission is under way; limits that move under    *)
(* an open review.                                                          *)
(*                                                                          *)
(* An amount stands for its size and limit for the largest amount that      *)
(* checkTransferAmount lets through.  The server is requestTransfer with    *)
(* CashTransferService.request, whose rules CashTransfers models.           *)
(***************************************************************************)
EXTENDS Naturals, FiniteSets

CONSTANTS
  Amounts,     \* amounts a user may enter
  MaxReviews,  \* bound on reviews
  MaxSubmits,  \* bound on confirm clicks
  MaxOpenings  \* bound on openings of the sheet

VARIABLES
  sheet,      \* the component's state
  limit,      \* cash.limits and cash.withdrawable, as the card last saw them
  submission, \* the mutation observed: the number of the submission pending, or 0
  flights,    \* submissions whose callbacks have not run
  requests,   \* requests the server has not handled
  transfers,  \* rows of cash_transfers
  reviews,    \* history: the amount each review showed, by its key
  card        \* CashCard: pending transfers last seen; do the other views lack one that landed

sheetVars == <<sheet, limit, submission, flights, requests, transfers, reviews, card>>

Steps == {"edit", "review", "done"}
States == {"PENDING", "SETTLED", "FAILED"}
Errors == {"none", "failed", "conflict"}
NoResult == [amount |-> 0, state |-> "none"]

\* checkTransferAmount: null unless the amount is within the limit.
AmountOf(s, l) == IF s.input <= l THEN s.input ELSE 0
Amount == AmountOf(sheet, limit)

Init ==
  /\ sheet = [open |-> FALSE, step |-> "edit", input |-> 0, key |-> 0, error |-> "none",
              result |-> NoResult, opening |-> 0, submits |-> 0]
  /\ limit = 0
  /\ submission = 0
  /\ flights = {} /\ requests = {} /\ transfers = {}
  /\ reviews = <<>>
  /\ card = [pending |-> 0, behind |-> FALSE]

Reviews == DOMAIN reviews

\* The effect after a render: a review whose amount is gone goes back to the
\* amount step, unless its submission is pending.
Rendered(s, l, sub) ==
  IF s.step = "review" /\ AmountOf(s, l) = 0 /\ sub = 0 THEN [s EXCEPT !.step = "edit"] ELSE s

--------------------------------------------------------------------------------
(* The user.                                                                    *)

Open ==
  /\ ~sheet.open /\ sheet.opening < MaxOpenings
  /\ sheet' = [sheet EXCEPT !.open = TRUE, !.step = "edit", !.input = 0, !.key = 0, !.error = "none",
                            !.result = NoResult, !.opening = @ + 1]
  /\ submission' = 0
  /\ UNCHANGED <<limit, flights, requests, transfers, reviews, card>>

\* The close button, Done, Escape: the state stays as it is.
Close ==
  /\ sheet.open
  /\ sheet' = [sheet EXCEPT !.open = FALSE]
  /\ UNCHANGED <<limit, submission, flights, requests, transfers, reviews, card>>

Edit ==
  /\ sheet.open /\ sheet.step = "edit"
  /\ \E a \in {0} \cup Amounts : sheet' = [sheet EXCEPT !.input = a, !.error = "none"]
  /\ UNCHANGED <<limit, submission, flights, requests, transfers, reviews, card>>

\* review(): a key of its own.
ReviewKey == Cardinality(Reviews) + 1

\* Mutant: a key is drawn only where there is none.
ReviewKeyIfNone == IF sheet.key = 0 THEN Cardinality(Reviews) + 1 ELSE sheet.key

Review ==
  /\ sheet.open /\ sheet.step = "edit" /\ Amount # 0
  /\ Cardinality(Reviews) < MaxReviews
  /\ sheet' = [sheet EXCEPT !.key = ReviewKey, !.error = "none", !.step = "review"]
  /\ reviews' = [k \in Reviews \cup {Cardinality(Reviews) + 1} |-> IF k \in Reviews THEN reviews[k] ELSE Amount]
  /\ UNCHANGED <<limit, submission, flights, requests, transfers, card>>

Back ==
  /\ sheet.open /\ sheet.step = "review" /\ submission = 0
  /\ sheet' = [sheet EXCEPT !.key = 0, !.error = "none", !.step = "edit"]
  /\ UNCHANGED <<limit, submission, flights, requests, transfers, reviews, card>>

\* Mutant: each submission draws a key.
SubmitKeyPerClick == MaxReviews + 1 + sheet.submits

\* A retry of one submission is a replay.
SubmitKey == sheet.key

Confirm ==
  /\ sheet.open /\ sheet.step = "review" /\ Amount # 0 /\ sheet.key # 0
  /\ submission = 0 /\ sheet.submits < MaxSubmits
  /\ LET r == [n |-> sheet.submits + 1, key |-> SubmitKey, review |-> sheet.key, amount |-> Amount]
     IN /\ submission' = r.n
        /\ flights' = flights \cup {r} /\ requests' = requests \cup {r}
  /\ sheet' = [sheet EXCEPT !.error = "none", !.submits = @ + 1]
  /\ UNCHANGED <<limit, transfers, reviews, card>>

--------------------------------------------------------------------------------
(* The server.                                                                  *)

Recorded(r) == {t \in transfers : t.key = r.key}

\* A new row, pending or with the venue's outcome.
Accept(r) ==
  /\ r \in requests /\ Recorded(r) = {}
  /\ requests' = requests \ {r}
  /\ \E st \in States :
       /\ transfers' = transfers \cup {[key |-> r.key, review |-> r.review, amount |-> r.amount, state |-> st]}
       /\ card' = [card EXCEPT !.behind = @ \/ st = "SETTLED"]
  /\ UNCHANGED <<sheet, limit, submission, flights, reviews>>

\* The venue settles or fails a pending transfer.
Resolve ==
  /\ \E t \in transfers :
       /\ t.state = "PENDING"
       /\ \E st \in States \ {"PENDING"} : transfers' = (transfers \ {t}) \cup {[t EXCEPT !.state = st]}
  /\ card' = [card EXCEPT !.behind = TRUE]
  /\ UNCHANGED <<sheet, limit, submission, flights, requests, reviews>>

--------------------------------------------------------------------------------
(* The callbacks of a submission, which run whether or not the sheet was        *)
(* closed and opened since.                                                     *)

Landed(r) ==
  /\ flights' = flights \ {r}
  /\ submission' = IF submission = r.n THEN 0 ELSE submission

Pending == {t \in transfers : t.state = "PENDING"}

\* The answer to a key that has a row: onSuccess with the row and a fresh cash
\* summary, which seeds the card; onError with 409 if the amount is another.
Answered(r) ==
  /\ r \in flights
  /\ \E t \in Recorded(r), l \in {0} \cup Amounts :
       IF t.amount = r.amount
         THEN /\ sheet' = [sheet EXCEPT !.result = [amount |-> t.amount, state |-> t.state], !.step = "done"]
              /\ card' = [pending |-> Cardinality(Pending), behind |-> FALSE]
              /\ limit' = l
         ELSE /\ sheet' = [sheet EXCEPT !.input = 0, !.key = 0, !.step = "edit", !.error = "conflict"]
              /\ UNCHANGED <<limit, card>>
  /\ requests' = requests \ {r}
  /\ Landed(r)
  /\ UNCHANGED <<transfers, reviews>>

\* onError otherwise: a refusal (nothing recorded), or no answer, whatever
\* happened or will happen to the request.
Fail(r) ==
  /\ r \in flights
  /\ \/ Recorded(r) = {} /\ requests' = requests \ {r}
     \/ UNCHANGED requests
  /\ Landed(r)
  /\ sheet' = Rendered([sheet EXCEPT !.error = "failed"], limit, submission')
  /\ UNCHANGED <<limit, transfers, reviews, card>>

--------------------------------------------------------------------------------
(* CashCard.                                                                    *)

\* The query's answer: the limits move, and if fewer transfers are pending than
\* were last seen, every other cash-derived view is fetched again.
Polls ==
  /\ card' = [pending |-> Cardinality(Pending), behind |-> card.behind /\ Cardinality(Pending) >= card.pending]
  /\ \E l \in {0} \cup Amounts : limit' = l /\ sheet' = Rendered(sheet, l, submission)
  /\ UNCHANGED <<submission, flights, requests, transfers, reviews>>

SheetNext ==
  \/ Open \/ Close \/ Edit \/ Review \/ Back \/ Confirm
  \/ \E r \in requests : Accept(r)
  \/ \E r \in flights : Answered(r) \/ Fail(r)
  \/ Resolve \/ Polls

SheetSpec == Init /\ [][SheetNext]_sheetVars

--------------------------------------------------------------------------------
SheetTypeOK ==
  /\ sheet.step \in Steps /\ sheet.error \in Errors /\ sheet.input \in {0} \cup Amounts
  /\ sheet.opening \in 0 .. MaxOpenings /\ sheet.submits \in 0 .. MaxSubmits
  /\ limit \in {0} \cup Amounts /\ submission \in 0 .. MaxSubmits
  /\ \A r \in requests : r.n \in 1 .. MaxSubmits
  /\ \A t \in transfers : t.state \in States

\* A review moves money at most once, and the amount it showed, through lost
\* answers, retries, limits that close the review and open it again, and sheets
\* closed with a submission under way (CashTransferSheet.tsx: "One
\* Idempotency-Key per review").
OneTransferPerReview ==
  /\ \A t \in transfers : t.amount = reviews[t.review]
  /\ \A t, u \in transfers : t.review = u.review => t = u
  /\ sheet.error # "conflict"

\* What CashCard.tsx says of its polling: it "refreshes every cash-derived view the
\* moment one lands".
LandingRefreshesViews ==
  [][Polls => ~card'.behind]_sheetVars
================================================================================
