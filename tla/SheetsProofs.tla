------------------------------ MODULE SheetsProofs ------------------------------
(***************************************************************************)
(* Theorems of the ticket, the cash sheet and the alerts of the client, for *)
(* every set of quantities and amounts and every number of edits, clicks,   *)
(* reviews, openings and alerts.                                            *)
(***************************************************************************)
EXTENDS MCSheets, FiniteSetTheorems, TLAPS

--------------------------------------------------------------------------------
(* The ticket: what a key stands for.                                          *)

Keys == Nat \ {0}
TermRows == [side : Sides, type : Types, qty : Nat]
RequestRows == [key : Keys, terms : TermRows, intent : Keys, click : Nat]
Orders == [key : Keys, terms : TermRows, intent : Keys, progress : Nat, click : Nat]
Placements == [intent : Keys, asked : TermRows, got : Orders]
Kinds == {"placed", "refused", "retry"}
AnswerRows == [to : RequestRows, kind : Kinds, order : {NoOrder} \cup Orders]
Forms ==
  [side : Sides, chosen : Types, qty : Nat, limit : BOOLEAN, reviewing : BOOLEAN, key : Keys,
   intent : Keys, error : Errors, placed : {NoOrder} \cup Placements, clicks : Nat]
Pages == [quote : BOOLEAN, buyable : BOOLEAN, buyingPower : Nat, sellable : Nat]

TicketRows ==
  /\ form \in Forms
  /\ page \in Pages
  /\ waiting \subseteq RequestRows
  /\ wire \subseteq RequestRows
  /\ orders \subseteq Orders
  /\ answers \subseteq AnswerRows
  /\ chip \in [order : Nat, shown : Nat]
  /\ views \in [Views -> [shows : SUBSET Orders, fetching : BOOLEAN]]
  /\ market \in [tradable : BOOLEAN, active : BOOLEAN]

\* The terms that count: the type may change under the same key.
SameTerms(s, t) == s.side = t.side /\ s.qty = t.qty

Sent == wire \cup waiting

\* A request or an order carries the key of an intent the user has had, and what
\* the form shows as long as that is the intent.
OfIntent(x) ==
  /\ x.key = x.intent
  /\ x.intent <= form.intent
  /\ x.intent = form.intent => x.terms.side = form.side /\ x.terms.qty = form.qty

KeyedByIntent ==
  /\ form.key = form.intent
  /\ \A x \in Sent \cup orders : OfIntent(x)

\* One key stands for one side and quantity, wherever it got to.
OneMeaning == \A x, y \in Sent \cup orders : x.key = y.key => SameTerms(x.terms, y.terms)

OneOrderPerKey == \A o, p \in orders : o.key = p.key => o = p

AnswersHold ==
  \A a \in answers :
    a.kind = "placed" =>
      /\ a.order \in Orders
      /\ SameTerms(a.order.terms, a.to.terms)
      /\ \E o \in orders : o.key = a.order.key /\ o.progress >= a.order.progress

KeyInv == KeyedByIntent /\ OneMeaning /\ OneOrderPerKey /\ AnswersHold /\ ShownIsConfirmed

ChipHolds == chip.order # 0 => \E o \in orders : o.key = chip.order /\ o.progress >= chip.shown

TicketInv == TicketRows /\ KeyInv /\ ChipHolds /\ ViewsFollowOrder

LEMMA Apart == \A x : x \in Placements \/ x \in Orders => x # NoOrder
<1>1. ASSUME NEW x \in Placements PROVE x # NoOrder
  <2>1. DOMAIN x = {"intent", "asked", "got"} /\ DOMAIN NoOrder = {"intent"}
    BY <1>1 DEF Placements, NoOrder
  <2> QED BY <2>1
<1>2. ASSUME NEW x \in Orders PROVE x # NoOrder
  <2>1. DOMAIN x = {"key", "terms", "intent", "progress", "click"} /\ DOMAIN NoOrder = {"intent"}
    BY <1>2 DEF Orders, NoOrder
  <2> QED BY <2>1
<1> QED BY <1>1, <1>2

LEMMA TicketInitInv == TicketInit => TicketInv
<1> SUFFICES ASSUME TicketInit PROVE TicketInv
  OBVIOUS
<1>1. TicketRows
  BY DEF TicketInit, TicketRows, Forms, Pages, Keys, Sides, Types, Errors
<1>2. KeyInv
  BY Apart DEF TicketInit, KeyInv, KeyedByIntent, OneMeaning, OneOrderPerKey, AnswersHold, ShownIsConfirmed,
     Sent
<1>3. ChipHolds /\ ViewsFollowOrder
  BY DEF TicketInit, ChipHolds, ViewsFollowOrder
<1> QED BY <1>1, <1>2, <1>3 DEF TicketInv

--------------------------------------------------------------------------------
(* What the form does.                                                         *)

LEMMA TermsTyped == ASSUME TicketRows PROVE Terms \in TermRows /\ Terms.side = form.side /\ Terms.qty = form.qty
BY DEF TicketRows, Forms, Pages, TermRows, Terms, Type, Sides, Types

\* A step that draws a new key changes what the form shows as it likes.
LEMMA FreshIntent ==
  ASSUME TicketInv, form' \in Forms, form'.key = form.key + 1, form'.intent = form.intent + 1,
         wire' = wire, waiting' \subseteq waiting, orders' = orders
  PROVE  KeyedByIntent' /\ OneMeaning' /\ OneOrderPerKey'
<1>1. form.intent \in Nat /\ form.key \in Nat /\ form.key = form.intent
  BY DEF TicketInv, TicketRows, Forms, Keys, KeyInv, KeyedByIntent
<1>2. Sent' \subseteq Sent
  BY DEF Sent
<1>3. ASSUME NEW x \in (Sent \cup orders)' PROVE OfIntent(x)'
  <2>1. x \in Sent \cup orders
    BY <1>2
  <2>2. OfIntent(x) /\ x.intent \in Nat
    BY <2>1 DEF TicketInv, KeyInv, KeyedByIntent, TicketRows, Sent, RequestRows, Orders, Keys
  <2>3. x.intent < form'.intent
    BY <2>2, <1>1 DEF OfIntent
  <2> QED BY <2>2, <2>3, <1>1 DEF OfIntent
<1>4. KeyedByIntent'
  BY <1>1, <1>3 DEF KeyedByIntent
<1> QED BY <1>2, <1>4 DEF TicketInv, KeyInv, OneMeaning, OneOrderPerKey

\* A step that keeps the intent and what the form shows of it.
LEMMA SameIntent ==
  ASSUME TicketInv, form'.key = form.key, form'.intent = form.intent, form'.side = form.side,
         form'.qty = form.qty, wire' \subseteq Sent, waiting' \subseteq Sent, orders' = orders
  PROVE  KeyedByIntent' /\ OneMeaning' /\ OneOrderPerKey'
<1>1. Sent' \subseteq Sent
  BY DEF Sent
<1> QED BY <1>1 DEF TicketInv, KeyInv, KeyedByIntent, OfIntent, OneMeaning, OneOrderPerKey

LEMMA Unmoved ==
  ASSUME TicketInv, orders' = orders, answers' \subseteq answers
  PROVE  AnswersHold'
BY DEF TicketInv, KeyInv, AnswersHold

LEMMA ChipUnmoved ==
  ASSUME TicketInv, orders' = orders, chip' = chip, views' = views
  PROVE  ChipHolds' /\ ViewsFollowOrder'
BY DEF TicketInv, ChipHolds, ViewsFollowOrder

LEMMA EditKeeps == ASSUME TicketInv, Edit PROVE TicketInv'
<1>1. PICK f \in {[form EXCEPT !.side = s] : s \in Sides}
             \cup {[form EXCEPT !.chosen = t] : t \in IF page.quote THEN Types ELSE {"LIMIT"}}
             \cup {[form EXCEPT !.qty = q] : q \in Quantities}
             \cup {[form EXCEPT !.limit = l] : l \in IF Type = "LIMIT" THEN BOOLEAN ELSE {form.limit}} :
       form' = [f EXCEPT !.error = "none", !.reviewing = FALSE, !.key = NewKey, !.intent = @ + 1]
  BY DEF Edit
<1>2. f \in Forms /\ f.intent = form.intent /\ f.placed = form.placed
  <2>1. form \in Forms
    BY DEF TicketInv, TicketRows
  <2>2. CASE \E s \in Sides : f = [form EXCEPT !.side = s]
    BY <2>1, <2>2 DEF Forms
  <2>3. CASE \E t \in Types : f = [form EXCEPT !.chosen = t]
    BY <2>1, <2>3 DEF Forms
  <2>4. CASE \E q \in Quantities : f = [form EXCEPT !.qty = q]
    BY <2>1, <2>4, TicketAssumption DEF Forms
  <2>5. CASE \E l \in BOOLEAN : f = [form EXCEPT !.limit = l]
    BY <2>1, <2>5 DEF Forms
  <2>6. form.limit \in BOOLEAN
    BY <2>1 DEF Forms
  <2>7. \/ \E s \in Sides : f = [form EXCEPT !.side = s]
        \/ \E t \in Types : f = [form EXCEPT !.chosen = t]
        \/ \E q \in Quantities : f = [form EXCEPT !.qty = q]
        \/ \E l \in BOOLEAN : f = [form EXCEPT !.limit = l]
    BY <1>1, <2>6, Zenon DEF Types
  <2> QED BY <2>2, <2>3, <2>4, <2>5, <2>7
<1>3. form' \in Forms /\ form'.key = form.key + 1 /\ form'.intent = form.intent + 1 /\ form'.placed = form.placed
  <2>1. form.key + 1 \in Keys /\ form.intent + 1 \in Keys
    BY DEF TicketInv, TicketRows, Forms, Keys
  <2>2. form' = [f EXCEPT !.error = "none", !.reviewing = FALSE, !.key = form.key + 1, !.intent = @ + 1]
    BY <1>1 DEF NewKey
  <2> QED BY <1>2, <2>1, <2>2 DEF Forms, Errors
<1>4. UNCHANGED <<page, waiting, wire, answers, orders, market, chip, views>>
  BY DEF Edit
<1>5. TicketRows'
  BY <1>3, <1>4 DEF TicketInv, TicketRows
<1>6. KeyInv'
  BY <1>3, <1>4, FreshIntent, Unmoved DEF TicketInv, KeyInv, ShownIsConfirmed
<1> QED BY <1>4, <1>5, <1>6, ChipUnmoved DEF TicketInv

LEMMA ReviewKeeps == ASSUME TicketInv, Review \/ Back PROVE TicketInv'
<1>1. form' \in Forms /\ form'.key = form.key /\ form'.intent = form.intent /\ form'.placed = form.placed
      /\ form'.side = form.side /\ form'.qty = form.qty
  BY DEF Review, Back, Forms, Errors, TicketInv, TicketRows
<1>2. UNCHANGED <<page, waiting, wire, answers, orders, market, chip, views>>
  BY DEF Review, Back
<1>3. TicketRows'
  BY <1>1, <1>2 DEF TicketInv, TicketRows
<1>4. KeyInv'
  BY <1>1, <1>2, SameIntent, Unmoved DEF TicketInv, KeyInv, ShownIsConfirmed, Sent
<1> QED BY <1>2, <1>3, <1>4, ChipUnmoved DEF TicketInv

LEMMA ConfirmKeeps == ASSUME TicketInv, Confirm PROVE TicketInv'
<1> DEFINE r == [key |-> ConfirmKey, terms |-> Terms, intent |-> form.intent, click |-> form.clicks]
<1>1. r \in RequestRows /\ r.key = form.key /\ r.intent = form.intent
      /\ r.terms.side = form.side /\ r.terms.qty = form.qty
  BY TermsTyped DEF RequestRows, TicketInv, TicketRows, Forms, ConfirmKey
<1>2. waiting' = {r} /\ wire' = wire \cup {r}
  BY DEF Confirm
<1> HIDE DEF r
<1>3. form' \in Forms /\ form'.key = form.key /\ form'.intent = form.intent /\ form'.placed = form.placed
      /\ form'.side = form.side /\ form'.qty = form.qty
  <2>1. form \in Forms
    BY DEF TicketInv, TicketRows
  <2>2. form' = [form EXCEPT !.error = "none", !.clicks = @ + 1]
    BY DEF Confirm
  <2>3. form.clicks + 1 \in Nat
    BY <2>1 DEF Forms
  <2> QED BY <2>1, <2>2, <2>3 DEF Forms, Errors
<1>4. UNCHANGED <<page, answers, orders, market, chip, views>>
  BY DEF Confirm
<1>5. TicketRows'
  BY <1>1, <1>2, <1>3, <1>4 DEF TicketInv, TicketRows
<1>6. form.key \in Nat /\ form.intent \in Nat /\ form.key = form.intent
  BY DEF TicketInv, TicketRows, Forms, Keys, KeyInv, KeyedByIntent
<1>7. (Sent \cup orders)' \subseteq Sent \cup orders \cup {r}
  BY <1>2, <1>4 DEF Sent
<1>8. OfIntent(r)
  BY <1>1, <1>6 DEF OfIntent
<1>9. \A x \in (Sent \cup orders)' : OfIntent(x)
  BY <1>7, <1>8 DEF TicketInv, KeyInv, KeyedByIntent
<1>10. KeyedByIntent'
  BY <1>9, <1>3, <1>6 DEF KeyedByIntent, OfIntent
<1>11. \A x \in Sent \cup orders : x.key = r.key => SameTerms(x.terms, r.terms)
  BY <1>1, <1>6 DEF TicketInv, KeyInv, KeyedByIntent, OfIntent, SameTerms
<1>12. OneMeaning'
  BY <1>7, <1>11 DEF TicketInv, KeyInv, OneMeaning, SameTerms
<1>13. AnswersHold' /\ OneOrderPerKey' /\ ShownIsConfirmed'
  BY <1>3, <1>4 DEF TicketInv, KeyInv, AnswersHold, OneOrderPerKey, ShownIsConfirmed
<1> QED BY <1>4, <1>5, <1>10, <1>12, <1>13, ChipUnmoved DEF TicketInv, KeyInv

LEMMA LeaveKeeps == ASSUME TicketInv, Leave PROVE TicketInv'
<1>1. form' \in Forms /\ form'.key = form.key + 1 /\ form'.intent = form.intent + 1 /\ form'.placed = NoOrder
  <2>1. form \in Forms
    BY DEF TicketInv, TicketRows
  <2>2. form' = [form EXCEPT !.side = "BUY", !.chosen = "MARKET", !.qty = 0, !.limit = FALSE,
                             !.reviewing = FALSE, !.error = "none", !.placed = NoOrder,
                             !.key = form.key + 1, !.intent = @ + 1]
    BY DEF Leave, NewKey
  <2>3. form.key + 1 \in Keys /\ form.intent + 1 \in Keys
    BY <2>1 DEF Forms, Keys
  <2> QED BY <2>1, <2>2, <2>3 DEF Forms, Errors, Sides, Types
<1>2. UNCHANGED <<page, wire, orders, market, views>> /\ waiting' = {} /\ answers' = {}
  BY DEF Leave
<1>3. chip' \in [order : Nat, shown : Nat] /\ chip'.order = 0
  BY DEF Leave
<1>4. TicketRows'
  BY <1>1, <1>2, <1>3 DEF TicketInv, TicketRows
<1>5. KeyInv'
  BY <1>1, <1>2, FreshIntent, Unmoved DEF TicketInv, KeyInv, ShownIsConfirmed
<1>6. \A o \in orders' : o.key # chip'.order
  BY <1>3, <1>4 DEF TicketRows, Orders, Keys
<1>7. ChipHolds' /\ ViewsFollowOrder'
  BY <1>3, <1>6 DEF ChipHolds, ViewsFollowOrder
<1> QED BY <1>4, <1>5, <1>7 DEF TicketInv

LEMMA PageKeeps == ASSUME TicketInv, PropsChange \/ MarketChanges PROVE TicketInv'
<1>1. page' \in Pages /\ market' \in [tradable : BOOLEAN, active : BOOLEAN]
  <2>1. CASE PropsChange
    BY <2>1, TicketAssumption DEF PropsChange, Pages, TicketInv, TicketRows
  <2>2. CASE MarketChanges
    BY <2>2 DEF MarketChanges, Pages, TicketInv, TicketRows
  <2> QED BY <2>1, <2>2
<1>2. UNCHANGED <<form, waiting, wire, answers, orders, chip, views>>
  BY DEF PropsChange, MarketChanges
<1>3. TicketRows'
  BY <1>1, <1>2 DEF TicketInv, TicketRows
<1>4. KeyInv'
  BY <1>2, SameIntent, Unmoved DEF TicketInv, KeyInv, ShownIsConfirmed, Sent
<1> QED BY <1>2, <1>3, <1>4, ChipUnmoved DEF TicketInv

--------------------------------------------------------------------------------
(* What the server does.                                                       *)

\* Where an answer comes from: the request it answers and, if it says the order is
\* placed, an order under that key.
LEMMA AnswerHolds ==
  ASSUME TicketInv, NEW r \in wire, NEW kind \in Kinds, NEW o \in {NoOrder} \cup Orders,
         Answer(r, kind, o),
         kind = "placed" => o \in Orders /\ o \in orders' /\ SameTerms(o.terms, r.terms),
         \A p \in orders : p \in orders'
  PROVE  AnswersHold' /\ answers' \subseteq AnswerRows /\ wire' \subseteq Sent
<1> DEFINE b == [to |-> r, kind |-> kind, order |-> o]
<1>1. b.to = r /\ b.kind = kind /\ b.order = o /\ b \in AnswerRows
  BY DEF TicketInv, TicketRows, AnswerRows
<1>2. wire' \subseteq wire /\ answers' \subseteq answers \cup {b}
  BY DEF Answer
<1> HIDE DEF b
<1>3. AnswersHold /\ answers \subseteq AnswerRows /\ orders \subseteq Orders
  BY DEF TicketInv, TicketRows, KeyInv
<1>5. kind = "placed" => o \in Orders /\ o.progress \in Nat
  BY DEF Orders
<1>6. ASSUME NEW a \in answers', a.kind = "placed"
      PROVE  /\ a.order \in Orders /\ SameTerms(a.order.terms, a.to.terms)
             /\ \E p \in orders' : p.key = a.order.key /\ p.progress >= a.order.progress
  <2>1. CASE a = b
    <3>1. o \in orders' /\ o.progress >= o.progress
      BY <1>1, <1>5, <1>6, <2>1
    <3> QED BY <1>1, <1>5, <1>6, <2>1, <3>1
  <2>2. CASE a \in answers
    BY <2>2, <1>3, <1>6 DEF AnswersHold
  <2> QED BY <2>1, <2>2, <1>2
<1> QED BY <1>1, <1>2, <1>3, <1>6 DEF AnswersHold, Sent

\* An answer that places nothing.
LEMMA DeclineKeeps == ASSUME TicketInv, NEW r \in wire, Refuse(r) \/ NotNow(r) PROVE TicketInv'
<1>1. UNCHANGED <<form, page, waiting, orders, market, chip, views>>
  BY DEF Refuse, NotNow
<1>2. AnswersHold' /\ answers' \subseteq AnswerRows /\ wire' \subseteq Sent
  <2>1. CASE Refuse(r)
    <3>1. Answer(r, "refused", NoOrder)
      BY <2>1 DEF Refuse
    <3> QED BY <3>1, <1>1, AnswerHolds DEF Kinds
  <2>2. CASE NotNow(r)
    <3>1. Answer(r, "retry", NoOrder)
      BY <2>2 DEF NotNow
    <3> QED BY <3>1, <1>1, AnswerHolds DEF Kinds
  <2> QED BY <2>1, <2>2
<1>3. wire' \subseteq RequestRows
  BY <1>2 DEF TicketInv, TicketRows, Sent
<1>4. TicketRows'
  BY <1>1, <1>2, <1>3 DEF TicketInv, TicketRows
<1>5. KeyInv'
  BY <1>1, <1>2, SameIntent DEF TicketInv, KeyInv, ShownIsConfirmed, Sent
<1> QED BY <1>1, <1>4, <1>5, ChipUnmoved DEF TicketInv

LEMMA ReplayKeeps == ASSUME TicketInv, NEW r \in wire, Accept(r), Recorded(r) # {} PROVE TicketInv'
<1>1. UNCHANGED <<form, page, waiting, orders, market, chip, views>>
  BY DEF Accept
<1>2. PICK o \in Recorded(r) : Answer(r, "placed", o)
  BY DEF Accept
<1>3. o \in orders /\ o.key = r.key /\ o \in Orders
  BY DEF Recorded, TicketInv, TicketRows
<1>4. SameTerms(o.terms, r.terms)
  BY <1>3 DEF TicketInv, KeyInv, OneMeaning, Sent
<1>5. AnswersHold' /\ answers' \subseteq AnswerRows /\ wire' \subseteq Sent
  BY <1>1, <1>2, <1>3, <1>4, AnswerHolds DEF Kinds
<1>6. wire' \subseteq RequestRows
  BY <1>5 DEF TicketInv, TicketRows, Sent
<1>7. TicketRows'
  BY <1>1, <1>5, <1>6 DEF TicketInv, TicketRows
<1>8. KeyInv'
  BY <1>1, <1>5, SameIntent DEF TicketInv, KeyInv, ShownIsConfirmed, Sent
<1> QED BY <1>1, <1>7, <1>8, ChipUnmoved DEF TicketInv

LEMMA PlaceKeeps == ASSUME TicketInv, NEW r \in wire, Accept(r), Recorded(r) = {} PROVE TicketInv'
<1> DEFINE o == [key |-> r.key, terms |-> r.terms, intent |-> r.intent, progress |-> 0, click |-> r.click]
<1>1. UNCHANGED <<form, page, waiting, market, chip, views>>
  BY DEF Accept
<1>2. orders' = orders \cup {o} /\ Answer(r, "placed", o)
  BY DEF Accept
<1>3. o \in Orders /\ o.key = r.key /\ o.intent = r.intent /\ o.terms = r.terms
  BY DEF Orders, TicketInv, TicketRows, RequestRows
<1> HIDE DEF o
<1>4. AnswersHold' /\ answers' \subseteq AnswerRows /\ wire' \subseteq Sent
  BY <1>2, <1>3, AnswerHolds DEF Kinds, SameTerms
<1>5. wire' \subseteq RequestRows /\ orders' \subseteq Orders
  BY <1>2, <1>3, <1>4 DEF TicketInv, TicketRows, Sent
<1>6. TicketRows'
  BY <1>1, <1>4, <1>5 DEF TicketInv, TicketRows
<1>7. Sent' \subseteq Sent /\ r \in Sent
  BY <1>1, <1>4 DEF Sent
<1>8. OfIntent(o)
  BY <1>3, <1>7 DEF TicketInv, KeyInv, KeyedByIntent, OfIntent
<1>9. KeyedByIntent'
  BY <1>1, <1>2, <1>7, <1>8 DEF TicketInv, KeyInv, KeyedByIntent, OfIntent
<1>10. \A x \in Sent \cup orders : x.key = o.key => SameTerms(x.terms, o.terms)
  BY <1>3, <1>7 DEF TicketInv, KeyInv, OneMeaning
<1>11. OneMeaning'
  <2>1. (Sent \cup orders)' \subseteq Sent \cup orders \cup {o}
    BY <1>2, <1>7
  <2> QED BY <2>1, <1>10 DEF TicketInv, KeyInv, OneMeaning, SameTerms
<1>12. \A p \in orders : p.key # o.key
  BY <1>3 DEF Recorded
<1>13. OneOrderPerKey'
  BY <1>2, <1>12 DEF TicketInv, KeyInv, OneOrderPerKey
<1>14. KeyInv'
  BY <1>1, <1>4, <1>9, <1>11, <1>13 DEF TicketInv, KeyInv, ShownIsConfirmed
<1>15. ChipHolds'
  BY <1>1, <1>2 DEF TicketInv, ChipHolds
<1>16. o.key # chip.order
  BY <1>3, <1>12 DEF TicketInv, ChipHolds, Orders, Keys
<1>17. ViewsFollowOrder'
  BY <1>1, <1>2, <1>16 DEF TicketInv, ViewsFollowOrder
<1> QED BY <1>6, <1>14, <1>15, <1>17 DEF TicketInv

\* A placed order moves on: what was known of it stays true.
LEMMA ProgressKeeps == ASSUME TicketInv, Progress PROVE TicketInv'
<1>1. PICK o \in orders : orders' = (orders \ {o}) \cup {[o EXCEPT !.progress = @ + 1]}
  BY DEF Progress
<1>2. PICK n : n = [o EXCEPT !.progress = @ + 1]
  OBVIOUS
<1>3. o \in Orders /\ o.progress + 1 \in Nat /\ o.progress \in Nat
  BY DEF TicketInv, TicketRows, Orders
<1>4. n \in Orders /\ n.key = o.key /\ n.terms = o.terms /\ n.intent = o.intent /\ n.progress = o.progress + 1
  BY <1>2, <1>3 DEF Orders
<1>5. orders' = (orders \ {o}) \cup {n}
  BY <1>1, <1>2
<1>6. UNCHANGED <<form, page, waiting, wire, answers, market, chip, views>>
  BY DEF Progress
<1>7. TicketRows'
  BY <1>4, <1>5, <1>6 DEF TicketInv, TicketRows
<1>8. OfIntent(n)
  BY <1>4 DEF TicketInv, KeyInv, KeyedByIntent, OfIntent
<1>9. KeyedByIntent'
  BY <1>5, <1>6, <1>8 DEF TicketInv, KeyInv, KeyedByIntent, OfIntent, Sent
<1>10. \A x \in Sent \cup orders : x.key = n.key => SameTerms(x.terms, n.terms)
  BY <1>4 DEF TicketInv, KeyInv, OneMeaning
<1>11. OneMeaning'
  <2>1. (Sent \cup orders)' \subseteq Sent \cup orders \cup {n}
    BY <1>5, <1>6 DEF Sent
  <2> QED BY <2>1, <1>10 DEF TicketInv, KeyInv, OneMeaning, SameTerms
<1>12. OneOrderPerKey'
  BY <1>4, <1>5 DEF TicketInv, KeyInv, OneOrderPerKey
<1>13. ASSUME NEW k, NEW m \in Nat, \E p \in orders : p.key = k /\ p.progress >= m
       PROVE  \E p \in orders' : p.key = k /\ p.progress >= m
  <2>1. PICK p \in orders : p.key = k /\ p.progress >= m
    BY <1>13
  <2>2. CASE p = o
    BY <2>1, <2>2, <1>3, <1>4, <1>5
  <2>3. CASE p # o
    BY <2>1, <2>3, <1>5
  <2> QED BY <2>2, <2>3
<1>14. AnswersHold'
  <2>1. \A a \in answers : a.order \in Orders => a.order.progress \in Nat
    BY DEF Orders
  <2> QED BY <2>1, <1>6, <1>13 DEF TicketInv, KeyInv, AnswersHold
<1>15. ChipHolds'
  <2>1. chip.shown \in Nat
    BY DEF TicketInv, TicketRows
  <2> QED BY <2>1, <1>6, <1>13 DEF TicketInv, ChipHolds
<1>16. ViewsFollowOrder'
  BY <1>4, <1>5, <1>6 DEF TicketInv, ViewsFollowOrder
<1> QED BY <1>6, <1>7, <1>9, <1>11, <1>12, <1>14, <1>15, <1>16 DEF TicketInv, KeyInv, ShownIsConfirmed

--------------------------------------------------------------------------------
(* What comes back.                                                            *)

LEMMA AllFetched == ASSUME TicketRows PROVE /\ Invalidated \in [Views -> [shows : SUBSET Orders, fetching : BOOLEAN]]
                                            /\ \A v \in Views : Invalidated[v].fetching
<1> SUFFICES ASSUME NEW v \in Views
             PROVE  /\ [views[v] EXCEPT !.fetching = TRUE] \in [shows : SUBSET Orders, fetching : BOOLEAN]
                    /\ [views[v] EXCEPT !.fetching = TRUE].fetching
  BY DEF Invalidated
<1> QED BY DEF TicketRows

LEMMA SuccessKeeps == ASSUME TicketInv, NEW a \in answers, Success(a) PROVE TicketInv'
<1>1. UNCHANGED <<page, wire, orders, market>> /\ waiting' = {} /\ answers' = {}
  BY DEF Success
<1>2. PICK p : p = [intent |-> a.to.intent, asked |-> a.to.terms, got |-> a.order]
  OBVIOUS
<1>3. a \in AnswerRows /\ a.order \in Orders /\ SameTerms(a.order.terms, a.to.terms)
      /\ \E o \in orders : o.key = a.order.key /\ o.progress >= a.order.progress
  BY DEF Success, TicketInv, TicketRows, KeyInv, AnswersHold
<1>4. p \in Placements /\ p.asked = a.to.terms /\ p.got = a.order
  BY <1>2, <1>3 DEF Placements, AnswerRows, RequestRows
<1>5. form' \in Forms /\ form'.key = form.key + 1 /\ form'.intent = form.intent + 1 /\ form'.placed = p
  <2>1. form' = [form EXCEPT !.placed = p, !.qty = 0, !.limit = FALSE, !.reviewing = FALSE,
                             !.key = form.key + 1, !.intent = @ + 1]
    BY <1>2 DEF Success, NewKey
  <2>2. form \in Forms /\ form.key + 1 \in Keys /\ form.intent + 1 \in Keys
    BY DEF TicketInv, TicketRows, Forms, Keys
  <2> QED BY <1>4, <2>1, <2>2 DEF Forms
<1>6. chip' \in [order : Nat, shown : Nat] /\ chip'.order = a.order.key /\ chip'.shown = a.order.progress
  BY <1>3 DEF Success, Orders, Keys
<1>7. views' = Invalidated
  BY DEF Success
<1>8. TicketRows'
  BY <1>1, <1>5, <1>6, <1>7, AllFetched DEF TicketInv, TicketRows
<1>9. KeyInv'
  BY <1>1, <1>3, <1>4, <1>5, FreshIntent, Unmoved DEF TicketInv, KeyInv, ShownIsConfirmed, SameTerms
<1>10. ChipHolds'
  BY <1>1, <1>3, <1>6 DEF ChipHolds
<1>11. ViewsFollowOrder'
  BY <1>7, AllFetched DEF ViewsFollowOrder, TicketInv
<1> QED BY <1>8, <1>9, <1>10, <1>11 DEF TicketInv

LEMMA ErrorKeeps == ASSUME TicketInv, NEW kind \in Errors, OnError(kind) PROVE TicketInv'
<1>1. form' \in Forms /\ form'.key = form.key /\ form'.intent = form.intent /\ form'.placed = form.placed
      /\ form'.side = form.side /\ form'.qty = form.qty
  <2>1. form' = [form EXCEPT !.error = kind, !.reviewing = form.reviewing /\ kind # "refused"]
    BY DEF OnError
  <2>2. form \in Forms /\ (form.reviewing /\ kind # "refused") \in BOOLEAN
    BY DEF TicketInv, TicketRows
  <2> QED BY <2>1, <2>2 DEF Forms
<1>2. UNCHANGED <<page, wire, orders, market, chip, views>> /\ waiting' = {} /\ answers' = {}
  BY DEF OnError
<1>3. TicketRows'
  BY <1>1, <1>2 DEF TicketInv, TicketRows
<1>4. KeyInv'
  BY <1>1, <1>2, SameIntent, Unmoved DEF TicketInv, KeyInv, ShownIsConfirmed, Sent
<1> QED BY <1>2, <1>3, <1>4, ChipUnmoved DEF TicketInv

LEMMA PollKeeps == ASSUME TicketInv, ChipPolls PROVE TicketInv'
<1>1. UNCHANGED <<form, page, waiting, wire, answers, orders, market>> /\ views' = Invalidated
  BY DEF ChipPolls
<1>2. PICK o \in orders : o.key = chip.order /\ chip' = [chip EXCEPT !.shown = o.progress]
  BY DEF ChipPolls
<1>3. o.progress \in Nat
  BY DEF TicketInv, TicketRows, Orders
<1>4. chip' \in [order : Nat, shown : Nat] /\ chip'.order = chip.order /\ chip'.shown = o.progress
  BY <1>2, <1>3 DEF TicketInv, TicketRows
<1>5. TicketRows'
  BY <1>1, <1>4, AllFetched DEF TicketInv, TicketRows
<1>6. KeyInv'
  BY <1>1, SameIntent, Unmoved DEF TicketInv, KeyInv, ShownIsConfirmed, Sent
<1>7. ChipHolds'
  BY <1>1, <1>2, <1>3, <1>4 DEF ChipHolds
<1>8. ViewsFollowOrder'
  BY <1>1, AllFetched DEF ViewsFollowOrder, TicketInv
<1> QED BY <1>5, <1>6, <1>7, <1>8 DEF TicketInv

LEMMA RefetchKeeps == ASSUME TicketInv, NEW v \in Views, Refetched(v) PROVE TicketInv'
<1>1. UNCHANGED <<form, page, waiting, wire, answers, orders, market, chip>>
  BY DEF Refetched
<1>2. PICK w : w = [shows |-> orders, fetching |-> FALSE]
  OBVIOUS
<1>3. w \in [shows : SUBSET Orders, fetching : BOOLEAN] /\ w.shows = orders
  BY <1>2 DEF TicketInv, TicketRows
<1>4. views' = [views EXCEPT ![v] = w]
  BY <1>2 DEF Refetched
<1>5. TicketRows'
  BY <1>1, <1>3, <1>4 DEF TicketInv, TicketRows
<1>6. KeyInv'
  BY <1>1, SameIntent, Unmoved DEF TicketInv, KeyInv, ShownIsConfirmed, Sent
<1>7. ChipHolds'
  BY <1>1 DEF TicketInv, ChipHolds
<1>8. ASSUME NEW o \in orders, o.key = chip.order
      PROVE  o.progress >= chip.shown
  BY <1>8 DEF TicketInv, ChipHolds, KeyInv, OneOrderPerKey, TicketRows, Orders, Keys
<1>9. ViewsFollowOrder'
  <2>1. \A u \in Views : views'[u] = IF u = v THEN w ELSE views[u]
    BY <1>4 DEF TicketInv, TicketRows
  <2> QED BY <2>1, <1>1, <1>3, <1>8 DEF TicketInv, ViewsFollowOrder
<1> QED BY <1>5, <1>6, <1>7, <1>9 DEF TicketInv

LEMMA TicketNextInv == TicketInv /\ (TicketNext \/ UNCHANGED ticketVars) => TicketInv'
<1> SUFFICES ASSUME TicketInv, TicketNext \/ UNCHANGED ticketVars PROVE TicketInv'
  OBVIOUS
<1>1. CASE UNCHANGED ticketVars
  BY <1>1 DEF ticketVars, TicketInv, TicketRows, KeyInv, KeyedByIntent, OfIntent, OneMeaning, OneOrderPerKey,
     AnswersHold, ShownIsConfirmed, ChipHolds, ViewsFollowOrder, Sent
<1>2. CASE Edit \/ Review \/ Back \/ Confirm \/ Leave \/ PropsChange \/ MarketChanges \/ Progress
  BY <1>2, EditKeeps, ReviewKeeps, ConfirmKeeps, LeaveKeeps, PageKeeps, ProgressKeeps
<1>3. CASE \E r \in wire : Accept(r) \/ Refuse(r) \/ NotNow(r)
  BY <1>3, PlaceKeeps, ReplayKeeps, DeclineKeeps
<1>4. CASE \E a \in answers : Success(a) \/ Failure(a)
  <2>1. \A a \in answers : a.kind # "placed" => a.kind \in Errors
    BY DEF TicketInv, TicketRows, AnswerRows, Kinds, Errors
  <2> QED BY <1>4, <2>1, SuccessKeeps, ErrorKeeps DEF Failure
<1>5. CASE Uncertain \/ ChipPolls \/ \E v \in Views : Refetched(v)
  <2>1. "uncertain" \in Errors
    BY DEF Errors
  <2> QED BY <1>5, <2>1, ErrorKeeps, PollKeeps, RefetchKeeps DEF Uncertain
<1> QED BY <1>1, <1>2, <1>3, <1>4, <1>5 DEF TicketNext

--------------------------------------------------------------------------------
(* The cash sheet: what a key stands for is the review that drew it.           *)

Sums == {0} \cup Amounts
Results == [amount : Sums, state : {"none"} \cup Cash!States]
SheetRows ==
  [open : BOOLEAN, step : Cash!Steps, input : Sums, key : Nat, error : Cash!Errors, result : Results,
   opening : Nat, submits : Nat]
Transfers == [key : Nat, review : Nat, amount : Sums, state : Cash!States]

\* A request, a submission or a transfer is under the key of a review, for its amount.
OfReview(x) ==
  /\ x.key = x.review
  /\ x.review \in DOMAIN reviews
  /\ x.amount = reviews[x.review]
  /\ x.amount \in Sums

CashInv ==
  /\ \E n \in Nat : DOMAIN reviews = 1 .. n
  /\ sheet \in SheetRows
  /\ sheet.key \in {0} \cup DOMAIN reviews
  /\ sheet.step = "review" /\ sheet.key # 0 => sheet.input = reviews[sheet.key]
  /\ \A x \in flights \cup requests \cup transfers : OfReview(x)
  /\ transfers \subseteq Transfers
  /\ \A t, u \in transfers : t.key = u.key => t = u
  /\ sheet.error # "conflict"

LEMMA CashOne == CashInv => OneTransferPerReview
BY DEF CashInv, OfReview, OneTransferPerReview, Cash!OneTransferPerReview

LEMMA CashInitInv == Cash!Init => CashInv
<1> SUFFICES ASSUME Cash!Init PROVE CashInv
  OBVIOUS
<1>1. DOMAIN reviews = 1 .. 0
  BY DEF Cash!Init
<1>2. sheet \in SheetRows /\ sheet.key = 0 /\ sheet.step = "edit" /\ sheet.error = "none"
  BY DEF Cash!Init, SheetRows, Sums, Results, Cash!NoResult, Cash!Steps, Cash!Errors
<1> QED BY <1>1, <1>2 DEF CashInv, Cash!Init

\* A step of the sheet that leaves the review, if one is open, as it is.
LEMMA SheetMoves ==
  ASSUME CashInv, sheet' \in SheetRows, sheet'.key \in {0, sheet.key}, sheet'.error # "conflict",
         sheet'.step = "review" => sheet.step = "review" /\ sheet'.input = sheet.input,
         reviews' = reviews, flights' \subseteq flights, requests' \subseteq requests, transfers' = transfers
  PROVE  CashInv'
BY DEF CashInv, OfReview

\* What the render's effect may do to a sheet.
LEMMA RenderedIs ==
  ASSUME NEW s \in SheetRows, NEW l, NEW sub
  PROVE  /\ Cash!Rendered(s, l, sub) \in SheetRows
         /\ Cash!Rendered(s, l, sub).key = s.key
         /\ Cash!Rendered(s, l, sub).error = s.error
         /\ Cash!Rendered(s, l, sub).step = "review" => s.step = "review"
         /\ Cash!Rendered(s, l, sub).input = s.input
BY DEF Cash!Rendered, SheetRows, Cash!Steps

LEMMA OpenKeeps == ASSUME CashInv, Cash!Open \/ Cash!Close \/ Cash!Edit \/ Cash!Back PROVE CashInv'
<1>1. sheet \in SheetRows /\ sheet.error # "conflict"
  BY DEF CashInv
<1>2. reviews' = reviews /\ flights' = flights /\ requests' = requests /\ transfers' = transfers
  BY DEF Cash!Open, Cash!Close, Cash!Edit, Cash!Back
<1>3. CASE Cash!Open
  <2>1. sheet.opening + 1 \in Nat /\ Cash!NoResult \in Results
    BY <1>1 DEF SheetRows, Results, Cash!NoResult, Sums
  <2>2. sheet' \in SheetRows /\ sheet'.key = 0 /\ sheet'.error = "none" /\ sheet'.step = "edit"
    BY <1>1, <1>3, <2>1 DEF Cash!Open, SheetRows, Cash!Steps, Cash!Errors, Sums
  <2> QED BY <1>2, <2>2, SheetMoves
<1>4. CASE Cash!Close
  <2>1. sheet' \in SheetRows /\ sheet'.key = sheet.key /\ sheet'.error = sheet.error /\ sheet'.step = sheet.step
        /\ sheet'.input = sheet.input
    BY <1>1, <1>4 DEF Cash!Close, SheetRows
  <2> QED BY <1>1, <1>2, <2>1, SheetMoves
<1>5. CASE Cash!Edit
  <2>1. sheet' \in SheetRows /\ sheet'.key = sheet.key /\ sheet'.error = "none" /\ sheet'.step = "edit"
    BY <1>1, <1>5 DEF Cash!Edit, SheetRows, Cash!Errors, Sums
  <2> QED BY <1>2, <2>1, SheetMoves
<1>6. CASE Cash!Back
  <2>1. sheet' \in SheetRows /\ sheet'.key = 0 /\ sheet'.error = "none" /\ sheet'.step = "edit"
    BY <1>1, <1>6 DEF Cash!Back, SheetRows, Cash!Errors, Cash!Steps
  <2> QED BY <1>2, <2>1, SheetMoves
<1> QED BY <1>3, <1>4, <1>5, <1>6

LEMMA CashCardinality == \A S : Cash!Cardinality(S) = Cardinality(S)
BY DEF Cash!Cardinality, Cardinality

\* A review draws a key no review had.
LEMMA CashReviewKeeps == ASSUME CashInv, Cash!Review PROVE CashInv'
<1>1. PICK n \in Nat : DOMAIN reviews = 1 .. n
  BY DEF CashInv
<1>2. Cash!Cardinality(Cash!Reviews) = n /\ Cash!Reviews = 1 .. n
  <2>1. Cash!Reviews = 1 .. n
    BY <1>1 DEF Cash!Reviews
  <2>2. Cardinality(1 .. n) = n
    BY FS_Interval
  <2> QED BY <2>1, <2>2, CashCardinality
<1>3. DOMAIN reviews' = 1 .. n + 1 /\ reviews'[n + 1] = Cash!Amount
      /\ \A k \in 1 .. n : reviews'[k] = reviews[k]
  <2>1. reviews' = [k \in (1 .. n) \cup {n + 1} |-> IF k \in 1 .. n THEN reviews[k] ELSE Cash!Amount]
    BY <1>2, Zenon DEF Cash!Review
  <2>2. (1 .. n) \cup {n + 1} = 1 .. n + 1 /\ n + 1 \notin 1 .. n
    OBVIOUS
  <2> QED BY <2>1, <2>2
<1>4. sheet \in SheetRows /\ sheet.step = "edit" /\ Cash!Amount = sheet.input
  BY DEF CashInv, Cash!Review, Cash!Amount, Cash!AmountOf
<1>5. sheet' \in SheetRows /\ sheet'.key = n + 1 /\ sheet'.error = "none" /\ sheet'.input = sheet.input
  <2>1. sheet' = [sheet EXCEPT !.key = n + 1, !.error = "none", !.step = "review"]
    BY <1>2, Zenon DEF Cash!Review, Cash!ReviewKey
  <2>2. n + 1 \in Nat
    OBVIOUS
  <2> QED BY <1>4, <2>1, <2>2 DEF SheetRows, Cash!Errors, Cash!Steps
<1>6. flights' = flights /\ requests' = requests /\ transfers' = transfers
  BY DEF Cash!Review
<1>7. \A x \in (flights \cup requests \cup transfers)' : OfReview(x)'
  BY <1>1, <1>3, <1>6 DEF CashInv, OfReview
<1> QED BY <1>3, <1>4, <1>5, <1>6, <1>7 DEF CashInv

\* A confirm sends what the review showed.
LEMMA CashConfirmKeeps == ASSUME CashInv, Cash!Confirm PROVE CashInv'
<1> DEFINE r == [n |-> sheet.submits + 1, key |-> Cash!SubmitKey, review |-> sheet.key, amount |-> Cash!Amount]
<1>1. flights' = flights \cup {r} /\ requests' = requests \cup {r}
  BY DEF Cash!Confirm
<1>2. r.key = sheet.key /\ r.review = sheet.key /\ r.amount = Cash!Amount
  BY DEF Cash!SubmitKey
<1> HIDE DEF r
<1>3. reviews' = reviews /\ transfers' = transfers
  BY DEF Cash!Confirm
<1>4. sheet \in SheetRows /\ sheet.step = "review" /\ sheet.key # 0 /\ Cash!Amount = sheet.input
  BY DEF CashInv, Cash!Confirm, Cash!Amount, Cash!AmountOf
<1>5. OfReview(r)
  BY <1>2, <1>4 DEF CashInv, OfReview, SheetRows
<1>6. sheet' \in SheetRows /\ sheet'.key = sheet.key /\ sheet'.error = "none" /\ sheet'.input = sheet.input
      /\ sheet'.step = sheet.step
  <2>1. sheet' = [sheet EXCEPT !.error = "none", !.submits = @ + 1] /\ sheet.submits + 1 \in Nat
    BY <1>4 DEF Cash!Confirm, SheetRows
  <2> QED BY <1>4, <2>1 DEF SheetRows, Cash!Errors
<1> QED BY <1>1, <1>3, <1>5, <1>6 DEF CashInv, OfReview

LEMMA CashAcceptKeeps == ASSUME CashInv, NEW r \in requests, Cash!Accept(r) PROVE CashInv'
<1>1. PICK st \in Cash!States :
        transfers' = transfers \cup {[key |-> r.key, review |-> r.review, amount |-> r.amount, state |-> st]}
  BY DEF Cash!Accept
<1>2. PICK t : t = [key |-> r.key, review |-> r.review, amount |-> r.amount, state |-> st]
  OBVIOUS
<1>3. t.key = r.key /\ t.review = r.review /\ t.amount = r.amount /\ OfReview(r)
  BY <1>2 DEF CashInv
<1>4. r.review \in Nat /\ r.key \in Nat /\ r.amount \in Sums
  BY <1>3 DEF CashInv, OfReview
<1>5. t \in Transfers /\ OfReview(t)
  BY <1>2, <1>3, <1>4 DEF Transfers, OfReview
<1>6. \A u \in transfers : u.key # t.key
  BY <1>3 DEF Cash!Accept, Cash!Recorded
<1>7. sheet' = sheet /\ reviews' = reviews /\ flights' = flights /\ requests' \subseteq requests
      /\ transfers' = transfers \cup {t}
  BY <1>1, <1>2 DEF Cash!Accept
<1> QED BY <1>5, <1>6, <1>7 DEF CashInv, OfReview

LEMMA CashResolveKeeps == ASSUME CashInv, Cash!Resolve PROVE CashInv'
<1>1. PICK t \in transfers : \E st \in Cash!States :
        transfers' = (transfers \ {t}) \cup {[t EXCEPT !.state = st]}
  BY DEF Cash!Resolve
<1>2. PICK st \in Cash!States : transfers' = (transfers \ {t}) \cup {[t EXCEPT !.state = st]}
  BY <1>1
<1>3. PICK u : u = [t EXCEPT !.state = st]
  OBVIOUS
<1>4. t \in Transfers /\ OfReview(t)
  BY DEF CashInv
<1>5. u \in Transfers /\ u.key = t.key /\ u.review = t.review /\ u.amount = t.amount
  BY <1>3, <1>4 DEF Transfers
<1>6. OfReview(u)
  BY <1>4, <1>5 DEF OfReview
<1>7. sheet' = sheet /\ reviews' = reviews /\ flights' = flights /\ requests' = requests
      /\ transfers' = (transfers \ {t}) \cup {u}
  BY <1>2, <1>3 DEF Cash!Resolve
<1> QED BY <1>5, <1>6, <1>7 DEF CashInv, OfReview

\* The answer to a submission is the row of its own review: no conflict.
LEMMA CashAnsweredKeeps == ASSUME CashInv, NEW r \in flights, Cash!Answered(r) PROVE CashInv'
<1>1. \A t \in Cash!Recorded(r) : t.amount = r.amount /\ t \in Transfers
  BY DEF CashInv, OfReview, Cash!Recorded
<1>2. PICK t \in Cash!Recorded(r) :
        sheet' = [sheet EXCEPT !.result = [amount |-> t.amount, state |-> t.state], !.step = "done"]
  BY <1>1 DEF Cash!Answered
<1>3. [amount |-> t.amount, state |-> t.state] \in Results
  BY <1>1 DEF Transfers, Results
<1>4. sheet \in SheetRows /\ sheet.error # "conflict"
  BY DEF CashInv
<1>5. sheet' \in SheetRows /\ sheet'.key = sheet.key /\ sheet'.error = sheet.error /\ sheet'.step = "done"
  BY <1>2, <1>3, <1>4 DEF SheetRows, Cash!Steps
<1>6. reviews' = reviews /\ flights' \subseteq flights /\ requests' \subseteq requests /\ transfers' = transfers
  BY DEF Cash!Answered, Cash!Landed
<1> QED BY <1>4, <1>5, <1>6, SheetMoves

LEMMA CashFailKeeps == ASSUME CashInv, NEW r \in flights, Cash!Fail(r) PROVE CashInv'
<1>1. PICK s : s = [sheet EXCEPT !.error = "failed"]
  OBVIOUS
<1>2. s \in SheetRows /\ s.key = sheet.key /\ s.step = sheet.step /\ s.input = sheet.input /\ s.error = "failed"
  BY <1>1 DEF CashInv, SheetRows, Cash!Errors
<1>3. sheet' = Cash!Rendered(s, limit, submission')
  BY <1>1 DEF Cash!Fail
<1>4. reviews' = reviews /\ flights' \subseteq flights /\ requests' \subseteq requests /\ transfers' = transfers
  BY DEF Cash!Fail, Cash!Landed
<1> QED BY <1>2, <1>3, <1>4, RenderedIs, SheetMoves

LEMMA CashPollsKeeps == ASSUME CashInv, Cash!Polls PROVE CashInv'
<1>1. PICK l : sheet' = Cash!Rendered(sheet, l, submission)
  BY DEF Cash!Polls
<1>2. sheet \in SheetRows /\ sheet.error # "conflict"
  BY DEF CashInv
<1>3. reviews' = reviews /\ flights' = flights /\ requests' = requests /\ transfers' = transfers
  BY DEF Cash!Polls
<1> QED BY <1>1, <1>2, <1>3, RenderedIs, SheetMoves

LEMMA CashNextInv == CashInv /\ (Cash!SheetNext \/ UNCHANGED cashVars) => CashInv'
<1> SUFFICES ASSUME CashInv, Cash!SheetNext \/ UNCHANGED cashVars PROVE CashInv'
  OBVIOUS
<1>1. CASE UNCHANGED cashVars
  BY <1>1 DEF cashVars, CashInv, OfReview
<1>2. CASE Cash!SheetNext
  BY <1>2, OpenKeeps, CashReviewKeeps, CashConfirmKeeps, CashAcceptKeeps, CashResolveKeeps, CashAnsweredKeeps,
     CashFailKeeps, CashPollsKeeps DEF Cash!SheetNext
<1> QED BY <1>1, <1>2

--------------------------------------------------------------------------------
(* The alerts: what is on its way to be marked has been shown.                 *)

Marks == {0} \cup Conditions
AlertRows == [state : Alerts!AlertStates, read : BOOLEAN, condition : Marks]
Copies == [Alerts!AlertIds -> AlertRows]

AlertInv ==
  /\ alerts \in Copies
  /\ list.rows \in Copies
  /\ fetching \subseteq Copies
  /\ alertForm \in [open : BOOLEAN, condition : Marks, waiting : BOOLEAN, error : BOOLEAN, saved : BOOLEAN]
  /\ UNION marking \subseteq shown
  /\ \A i \in Alerts!AlertIds : alerts[i].read => i \in shown

LEMMA AlertOne == AlertInv => ReadOnlyIfShown
BY DEF AlertInv, ReadOnlyIfShown, Alerts!ReadOnlyIfShown

LEMMA NoneTyped == Alerts!None \in AlertRows /\ ~Alerts!None.read
BY DEF Alerts!None, AlertRows, Alerts!AlertStates, Marks

LEMMA AlertInitInv == Alerts!Init => AlertInv
<1> SUFFICES ASSUME Alerts!Init PROVE AlertInv
  OBVIOUS
<1>1. alerts = [i \in Alerts!AlertIds |-> Alerts!None] /\ list.rows = [i \in Alerts!AlertIds |-> Alerts!None]
  BY DEF Alerts!Init
<1>2. alerts \in Copies /\ list.rows \in Copies /\ \A i \in Alerts!AlertIds : ~alerts[i].read
  BY <1>1, NoneTyped DEF Copies
<1>3. alertForm \in [open : BOOLEAN, condition : Marks, waiting : BOOLEAN, error : BOOLEAN, saved : BOOLEAN]
  BY DEF Alerts!Init, Marks
<1> QED BY <1>2, <1>3 DEF Alerts!Init, AlertInv

LEMMA CreateKeeps ==
  ASSUME AlertInv, NEW c \in Marks, Alerts!Create(c)
  PROVE  /\ alerts' \in Copies
         /\ \A i \in Alerts!AlertIds : alerts'[i].read => alerts[i].read
<1> DEFINE row == [state |-> "ACTIVE", read |-> FALSE, condition |-> c]
<1>1. row \in AlertRows /\ ~row.read
  BY DEF AlertRows, Alerts!AlertStates
<1>2. alerts' = alerts \/ \E n \in Alerts!AlertIds : alerts' = [alerts EXCEPT ![n] = row]
  BY DEF Alerts!Create
<1> HIDE DEF row
<1>3. alerts \in Copies
  BY DEF AlertInv
<1>4. CASE alerts' = alerts
  BY <1>3, <1>4
<1>5. CASE \E n \in Alerts!AlertIds : alerts' = [alerts EXCEPT ![n] = row]
  BY <1>1, <1>3, <1>5 DEF Copies
<1> QED BY <1>2, <1>4, <1>5

\* A step that reads no alert and shows what it marks.
LEMMA AlertMoves ==
  ASSUME AlertInv, alerts' \in Copies, list' = list, fetching' \subseteq Copies,
         alertForm' \in [open : BOOLEAN, condition : Marks, waiting : BOOLEAN, error : BOOLEAN, saved : BOOLEAN],
         UNION marking' \subseteq shown', shown \subseteq shown',
         \A i \in Alerts!AlertIds : alerts'[i].read => alerts[i].read \/ i \in shown
  PROVE  AlertInv'
BY DEF AlertInv

\* A change of an alert's state.
LEMMA StateKeeps ==
  ASSUME AlertInv, NEW i \in Alerts!AlertIds, NEW st \in Alerts!AlertStates,
         alerts' = [alerts EXCEPT ![i].state = st]
  PROVE  /\ alerts' \in Copies
         /\ \A j \in Alerts!AlertIds : alerts'[j].read => alerts[j].read
<1>1. PICK row : row = [alerts[i] EXCEPT !.state = st]
  OBVIOUS
<1>2. alerts \in Copies /\ alerts[i] \in AlertRows
  BY DEF AlertInv, Copies
<1>3. row \in AlertRows /\ row.read = alerts[i].read
  BY <1>1, <1>2 DEF AlertRows
<1>4. alerts' = [alerts EXCEPT ![i] = row]
  BY <1>1
<1> QED BY <1>2, <1>3, <1>4 DEF Copies

\* The panel marks only what it shows.
LEMMA RenderedShows ==
  ASSUME UNION marking \subseteq shown, NEW p, NEW l, Alerts!Rendered(p, l)
  PROVE  UNION marking' \subseteq shown' /\ shown \subseteq shown'
<1>1. CASE ~p.open \/ ~l.known
  BY <1>1 DEF Alerts!Rendered
<1>2. CASE ~(~p.open \/ ~l.known)
  <2> DEFINE first == IF p.marked THEN {} ELSE Alerts!Unread(l.rows)
  <2>1. first \subseteq Alerts!InState(l.rows, {"TRIGGERED"})
    BY DEF Alerts!Unread
  <2>2. marking' = IF first = {} THEN marking ELSE marking \cup {first}
    BY <1>2 DEF Alerts!Rendered
  <2>3. shown' = shown \cup Alerts!InState(l.rows, {"TRIGGERED"})
    BY <1>2 DEF Alerts!Rendered
  <2> HIDE DEF first
  <2> QED BY <2>1, <2>2, <2>3
<1> QED BY <1>1, <1>2

LEMMA AlertNextInv == AlertInv /\ (Alerts!AlertSheetNext \/ UNCHANGED alertVars) => AlertInv'
<1> SUFFICES ASSUME AlertInv, Alerts!AlertSheetNext \/ UNCHANGED alertVars PROVE AlertInv'
  OBVIOUS
<1> DEFINE FormRows == [open : BOOLEAN, condition : Marks, waiting : BOOLEAN, error : BOOLEAN, saved : BOOLEAN]
<1>0. /\ alerts \in Copies /\ list.rows \in Copies /\ fetching \subseteq Copies /\ alertForm \in FormRows
      /\ UNION marking \subseteq shown
  BY DEF AlertInv
<1>1. CASE UNCHANGED alertVars
  BY <1>1 DEF alertVars, AlertInv
<1>2. CASE Alerts!Trigger
  <2>1. PICK i \in Alerts!AlertIds : alerts' = [alerts EXCEPT ![i].state = "TRIGGERED"]
    BY <1>2 DEF Alerts!Trigger, Alerts!InState
  <2>2. UNCHANGED <<list, fetching, marking, alertForm, shown>>
    BY <1>2 DEF Alerts!Trigger
  <2>3. "TRIGGERED" \in Alerts!AlertStates
    BY DEF Alerts!AlertStates
  <2> QED BY <1>0, <2>1, <2>2, <2>3, StateKeeps, AlertMoves
<1>3. CASE Alerts!MarkRead
  <2>1. PICK ids \in marking :
          /\ alerts' = [i \in Alerts!AlertIds |->
                          IF i \in Alerts!Named(ids) /\ alerts[i].state = "TRIGGERED"
                            THEN [alerts[i] EXCEPT !.read = TRUE] ELSE alerts[i]]
          /\ marking' = marking \ {ids}
    BY <1>3 DEF Alerts!MarkRead
  <2>2. UNCHANGED <<list, fetching, alertForm, shown>>
    BY <1>3 DEF Alerts!MarkRead
  <2>3. ASSUME NEW i \in Alerts!AlertIds
        PROVE  alerts'[i] \in AlertRows /\ (alerts'[i].read => alerts[i].read \/ i \in shown)
    <3>1. alerts[i] \in AlertRows
      BY <1>0 DEF Copies
    <3>2. PICK row : row = [alerts[i] EXCEPT !.read = TRUE]
      OBVIOUS
    <3>3. row \in AlertRows
      BY <3>1, <3>2 DEF AlertRows
    <3>4. alerts'[i] = IF i \in ids /\ alerts[i].state = "TRIGGERED" THEN row ELSE alerts[i]
      BY <2>1, <3>2 DEF Alerts!Named
    <3>5. i \in ids => i \in shown
      BY <1>0
    <3> QED BY <3>1, <3>3, <3>4, <3>5
  <2>4. alerts' \in Copies
    BY <2>1, <2>3 DEF Copies
  <2>5. UNION marking' \subseteq shown'
    BY <1>0, <2>1, <2>2
  <2> QED BY <1>0, <2>2, <2>3, <2>4, <2>5, AlertMoves
<1>4. CASE Alerts!Fetch
  <2>1. \A i \in Alerts!AlertIds : alerts[i] \in AlertRows
    BY <1>0 DEF Copies
  <2>2. Alerts!Listed \in Copies
    BY <2>1, NoneTyped DEF Alerts!Listed, Copies
  <2> QED BY <1>0, <1>4, <2>2, AlertMoves DEF Alerts!Fetch
<1>5. CASE Alerts!Fetched
  <2>1. PICK rows \in fetching : list' = [known |-> TRUE, rows |-> rows] /\ Alerts!Rendered(panel, list')
    BY <1>5 DEF Alerts!Fetched
  <2>2. PICK l : l = list'
    OBVIOUS
  <2>3. l.rows = rows /\ Alerts!Rendered(panel, l)
    BY <2>1, <2>2
  <2>4. UNION marking' \subseteq shown' /\ shown \subseteq shown'
    BY <1>0, <2>3, RenderedShows
  <2>5. fetching' = {} /\ alerts' = alerts /\ alertForm' = alertForm
    BY <1>5 DEF Alerts!Fetched
  <2> QED BY <1>0, <2>2, <2>3, <2>4, <2>5 DEF AlertInv
<1>6. CASE Alerts!OpenPanel
  <2>1. UNION marking' \subseteq shown' /\ shown \subseteq shown'
    BY <1>0, <1>6, RenderedShows DEF Alerts!OpenPanel
  <2> QED BY <1>0, <1>6, <2>1, AlertMoves DEF Alerts!OpenPanel
<1>7. CASE Alerts!BellPolls \/ Alerts!ClosePanel \/ Alerts!PriceMoves
  <2>1. UNCHANGED <<alerts, list, fetching, marking, alertForm, shown>>
    BY <1>7 DEF Alerts!BellPolls, Alerts!ClosePanel, Alerts!PriceMoves
  <2> QED BY <1>0, <2>1, AlertMoves
<1>8. CASE Alerts!Delete
  <2>1. PICK i \in Alerts!AlertIds : alerts' = [alerts EXCEPT ![i].state = "CANCELED"]
    BY <1>8 DEF Alerts!Delete, Alerts!InState
  <2>2. UNCHANGED <<list, fetching, marking, alertForm, shown>>
    BY <1>8 DEF Alerts!Delete
  <2>3. "CANCELED" \in Alerts!AlertStates
    BY DEF Alerts!AlertStates
  <2> QED BY <1>0, <2>1, <2>2, <2>3, StateKeeps, AlertMoves
<1>9. CASE Alerts!Rearm
  <2>1. PICK i \in Alerts!AlertIds : Alerts!Create(list.rows[i].condition)
    BY <1>9 DEF Alerts!Rearm, Alerts!InState
  <2>2. list.rows[i].condition \in Marks
    BY <1>0 DEF Copies, AlertRows
  <2>3. UNCHANGED <<list, fetching, marking, alertForm, shown>>
    BY <1>9 DEF Alerts!Rearm
  <2> QED BY <1>0, <2>1, <2>2, <2>3, CreateKeeps, AlertMoves
<1>10. CASE Alerts!OpenForm \/ Alerts!CloseForm \/ Alerts!EditForm \/ Alerts!Answered
  <2>1. alertForm' \in FormRows
    BY <1>0, <1>10 DEF Alerts!OpenForm, Alerts!CloseForm, Alerts!EditForm, Alerts!Answered, Marks
  <2>2. UNCHANGED <<alerts, list, fetching, marking, shown>>
    BY <1>10 DEF Alerts!OpenForm, Alerts!CloseForm, Alerts!EditForm, Alerts!Answered
  <2> QED BY <1>0, <2>1, <2>2, AlertMoves
<1>11. CASE Alerts!Submit
  <2>1. alertForm' \in FormRows
    BY <1>0, <1>11 DEF Alerts!Submit
  <2>2. UNCHANGED <<list, fetching, marking, shown>>
    BY <1>11 DEF Alerts!Submit
  <2>3. alertForm.condition \in Marks
    BY <1>0
  <2>4. alerts' \in Copies /\ \A i \in Alerts!AlertIds : alerts'[i].read => alerts[i].read
    <3>1. CASE Alerts!Create(alertForm.condition)
      BY <2>3, <3>1, CreateKeeps
    <3>2. CASE UNCHANGED alerts
      BY <1>0, <3>2
    <3> QED BY <1>11, <3>1, <3>2 DEF Alerts!Submit
  <2> QED BY <1>0, <2>1, <2>2, <2>4, AlertMoves
<1> QED
  BY <1>1, <1>2, <1>3, <1>4, <1>5, <1>6, <1>7, <1>8, <1>9, <1>10, <1>11 DEF Alerts!AlertSheetNext

--------------------------------------------------------------------------------
(* The three screens together.                                                 *)

SheetsInv == TicketInv /\ CashInv /\ AlertInv

LEMMA SheetsInvHolds == Spec => []SheetsInv
<1>1. Init => SheetsInv
  BY TicketInitInv, CashInitInv, AlertInitInv DEF Init, SheetsInv
<1>2. SheetsInv /\ [Next]_vars => SheetsInv'
  <2> SUFFICES ASSUME SheetsInv, [Next]_vars PROVE SheetsInv'
    OBVIOUS
  <2>1. /\ TicketNext \/ UNCHANGED ticketVars
        /\ Cash!SheetNext \/ UNCHANGED cashVars
        /\ Alerts!AlertSheetNext \/ UNCHANGED alertVars
    BY DEF Next, vars
  <2> QED BY <2>1, TicketNextInv, CashNextInv, AlertNextInv DEF SheetsInv
<1> QED BY <1>1, <1>2, PTL DEF Spec

\* However often an order is confirmed after lost answers, however late the lost
\* requests arrive and however the user edits meanwhile, one order intent places
\* one order, and the chip shows an order of the side and quantity confirmed
\* (TradingTicket.tsx, the idempotency key of an order intent).
THEOREM ConfirmsPlaceOnce == Spec => []ConfirmPlacesOnce
<1>1. SheetsInv => ConfirmPlacesOnce
  <2> SUFFICES ASSUME SheetsInv PROVE ConfirmPlacesOnce
    OBVIOUS
  <2>1. KeyInv
    BY DEF SheetsInv, TicketInv
  <2>2. OneOrderPerIntent
    BY <2>1 DEF KeyInv, KeyedByIntent, OfIntent, OneOrderPerKey, OneOrderPerIntent
  <2> QED BY <2>1, <2>2 DEF KeyInv, ConfirmPlacesOnce
<1> QED BY <1>1, SheetsInvHolds, PTL

\* No cash-derived view of the page stays behind the progress the chip has shown
\* of the placed order (components/finance/order-queries.ts: useRefreshOnOrderProgress).
THEOREM ViewsKeepUp == Spec => []ViewsFollowOrder
<1>1. SheetsInv => ViewsFollowOrder
  BY DEF SheetsInv, TicketInv
<1> QED BY <1>1, SheetsInvHolds, PTL

\* One review of the cash sheet moves the amount it showed, once: lost answers,
\* retries, moving limits and a sheet opened again never make two transfers or a
\* conflict of one key (CashTransferSheet.tsx, "One Idempotency-Key per review").
THEOREM ReviewsMoveOnce == Spec => []OneTransferPerReview
<1>1. SheetsInv => OneTransferPerReview
  BY CashOne DEF SheetsInv
<1> QED BY <1>1, SheetsInvHolds, PTL

\* Only alerts an open panel has shown are marked read, whatever triggers while
\* the list, its rendering and the request that marks it follow one another
\* (AlertsPanel.tsx).
THEOREM ReadsWereShown == Spec => []ReadOnlyIfShown
<1>1. SheetsInv => ReadOnlyIfShown
  BY AlertOne DEF SheetsInv
<1> QED BY <1>1, SheetsInvHolds, PTL

================================================================================
