------------------------------ MODULE OrderTicket ------------------------------
(***************************************************************************)
(* The trading ticket (components/finance/TradingTicket.tsx,                *)
(* lib/order-ticket.ts) and the chip that follows the placed order: what    *)
(* the user enters, the review, the confirm with its idempotency key, the   *)
(* server's answer, and the cash-derived views the page refreshes.          *)
(*                                                                          *)
(* A quantity stands for any quantity of its size, and buyingPower and      *)
(* sellable for the largest quantity they allow.  An awaited answer may     *)
(* fail to arrive while the request is still on its way.                    *)
(***************************************************************************)
EXTENDS Naturals, FiniteSets

CONSTANTS
  Quantities,   \* quantities a user may enter
  Views,        \* CASH_DERIVED_KEYS
  MaxEdits,     \* bound on edits, placements and visits
  MaxClicks,    \* bound on confirm clicks
  MaxProgress   \* bound on fills and state changes of the placed order

ASSUME TicketAssumption ==
  /\ Quantities \subseteq Nat \ {0}
  /\ {MaxEdits, MaxClicks, MaxProgress} \subseteq Nat

VARIABLES
  form,     \* the component's state
  page,     \* its props: the quote, and what the account is said to allow
  waiting,  \* the request whose answer the mutation waits for, if any
  wire,     \* requests the server has not handled yet
  answers,  \* answers on their way back
  orders,   \* orders of the account
  market,   \* is the instrument tradable, and the account ACTIVE
  chip,     \* PlacedOrderChip: the progress it has shown; useRefreshOnOrderProgress
  views     \* each cash-derived view: the orders as it shows them; is it being fetched

ticketVars == <<form, page, waiting, wire, answers, orders, market, chip, views>>

Sides == {"BUY", "SELL"}
Types == {"MARKET", "LIMIT"}
Errors == {"none", "uncertain", "retry", "refused"}

NoOrder == [intent |-> 0]
(* The ticket's own derivations.                                                *)

\* No quote, no market order.
Type == IF page.quote THEN form.chosen ELSE "LIMIT"

\* ticketPrecheck and buyBlocked.
Allowed == IF form.side = "BUY" THEN page.buyingPower ELSE page.sellable
Ready ==
  /\ form.qty # 0
  /\ Type = "LIMIT" => form.limit
  /\ form.side = "BUY" => page.buyable
  /\ form.qty <= Allowed

Terms == [side |-> form.side, type |-> Type, qty |-> form.qty]

TicketInit ==
  /\ form = [side |-> "BUY", chosen |-> "MARKET", qty |-> 0, limit |-> FALSE, reviewing |-> FALSE,
             key |-> 1, intent |-> 1, error |-> "none", placed |-> NoOrder, clicks |-> 0]
  /\ page = [quote |-> TRUE, buyable |-> TRUE, buyingPower |-> 2, sellable |-> 0]
  /\ waiting = {} /\ wire = {} /\ answers = {} /\ orders = {}
  /\ market = [tradable |-> TRUE, active |-> TRUE]
  /\ chip = [order |-> 0, shown |-> 0]
  /\ views = [v \in Views |-> [shows |-> {}, fetching |-> FALSE]]

--------------------------------------------------------------------------------
(* The user and the page.                                                       *)

\* Mutant: an edit keeps the key.
SameKey == form.key

NewKey == form.key + 1

\* edit().
Edit ==
  /\ form.intent < MaxEdits
  /\ \E f \in {[form EXCEPT !.side = s] : s \in Sides}
             \cup {[form EXCEPT !.chosen = t] : t \in IF page.quote THEN Types ELSE {"LIMIT"}}
             \cup {[form EXCEPT !.qty = q] : q \in Quantities}
             \cup {[form EXCEPT !.limit = l] : l \in IF Type = "LIMIT" THEN BOOLEAN ELSE {form.limit}} :
       form' = [f EXCEPT !.error = "none", !.reviewing = FALSE, !.key = NewKey, !.intent = @ + 1]
  /\ UNCHANGED <<page, waiting, wire, answers, orders, market, chip, views>>

Review ==
  /\ ~form.reviewing /\ Ready /\ waiting = {}
  /\ form' = [form EXCEPT !.error = "none", !.reviewing = TRUE]
  /\ UNCHANGED <<page, waiting, wire, answers, orders, market, chip, views>>

Back ==
  /\ form.reviewing /\ waiting = {}
  /\ form' = [form EXCEPT !.reviewing = FALSE]
  /\ UNCHANGED <<page, waiting, wire, answers, orders, market, chip, views>>

\* Mutant: every click draws a key.
ConfirmKeyPerClick == MaxEdits + 1 + form.clicks

\* place.mutate(), with the key of this order intent.
ConfirmKey == form.key

Confirm ==
  /\ form.reviewing /\ Ready /\ waiting = {}
  /\ form.clicks < MaxClicks
  /\ LET r == [key |-> ConfirmKey, terms |-> Terms, intent |-> form.intent, click |-> form.clicks]
     IN waiting' = {r} /\ wire' = wire \cup {r}
  /\ form' = [form EXCEPT !.error = "none", !.clicks = @ + 1]
  /\ UNCHANGED <<page, answers, orders, market, chip, views>>

\* The props follow the server's data as the page polls it: the feed may lose the
\* quote or find it again.
PropsChange ==
  /\ page' \in {[page EXCEPT !.quote = ~@]} \cup {[page EXCEPT !.buyable = market.tradable]}
               \cup {[page EXCEPT !.buyingPower = n] : n \in Quantities}
               \cup {[page EXCEPT !.sellable = n] : n \in Quantities}
  /\ UNCHANGED <<form, waiting, wire, answers, orders, market, chip, views>>

--------------------------------------------------------------------------------
(* The server: placeOrder and OrdersService.place.                              *)

Recorded(r) == {o \in orders : o.key = r.key}

\* An answer nobody waits for any more is dropped.
Answer(r, kind, o) ==
  /\ wire' = wire \ {r}
  /\ answers' = IF r \in waiting THEN {[to |-> r, kind |-> kind, order |-> o]} ELSE answers

\* The account and the instrument are checked first.
Admissible(r) == market.active /\ (r.terms.side = "BUY" => market.tradable)

Accept(r) ==
  /\ r \in wire /\ Admissible(r)
  /\ IF Recorded(r) # {}
       THEN /\ \E o \in Recorded(r) : Answer(r, "placed", o)
            /\ UNCHANGED orders
       ELSE LET o == [key |-> r.key, terms |-> r.terms, intent |-> r.intent, progress |-> 0, click |-> r.click]
            IN orders' = orders \cup {o} /\ Answer(r, "placed", o)
  /\ UNCHANGED <<form, page, waiting, market, chip, views>>

\* Inactive account or instrument, or the money or the shares are not there.
Refuse(r) ==
  /\ r \in wire
  /\ ~Admissible(r) \/ Recorded(r) = {}
  /\ Answer(r, "refused", NoOrder)
  /\ UNCHANGED <<form, page, waiting, orders, market, chip, views>>

\* The rate limit; no price for a market buy.
NotNow(r) ==
  /\ r \in wire
  /\ Answer(r, "retry", NoOrder)
  /\ UNCHANGED <<form, page, waiting, orders, market, chip, views>>

\* A delisting, or a reset from another tab.
MarketChanges ==
  /\ \E f \in {"tradable", "active"} : market' = [market EXCEPT ![f] = FALSE]
  /\ UNCHANGED <<form, page, waiting, wire, answers, orders, chip, views>>

\* Fills and the order's other changes: each moves cash or shares.
Progress ==
  /\ \E o \in orders :
       /\ o.progress < MaxProgress
       /\ orders' = (orders \ {o}) \cup {[o EXCEPT !.progress = @ + 1]}
  /\ UNCHANGED <<form, page, waiting, wire, answers, market, chip, views>>

--------------------------------------------------------------------------------
(* What comes back: onSuccess, onError, the chip's polling, the refetches.      *)

\* invalidateOrderViews: a fetch under way is started again, as the views have data.
Invalidated == [v \in Views |-> [views[v] EXCEPT !.fetching = TRUE]]

\* setPlaced; the chip's first sight is the placement response.
Success(a) ==
  /\ a.kind = "placed"
  /\ waiting' = {} /\ answers' = {}
  /\ form' = [form EXCEPT !.placed = [intent |-> a.to.intent, asked |-> a.to.terms, got |-> a.order],
                          !.qty = 0, !.limit = FALSE, !.reviewing = FALSE,
                          !.key = NewKey, !.intent = @ + 1]
  /\ chip' = [order |-> a.order.key, shown |-> a.order.progress]
  /\ views' = Invalidated
  /\ UNCHANGED <<page, wire, orders, market>>

OnError(kind) ==
  /\ waiting' = {} /\ answers' = {}
  /\ form' = [form EXCEPT !.error = kind, !.reviewing = @ /\ kind # "refused"]
  /\ UNCHANGED <<page, wire, orders, market, chip, views>>

Failure(a) ==
  /\ a.kind # "placed"
  /\ OnError(a.kind)

\* The connection fails, or a 5xx: the request may be handled before or after.
Uncertain ==
  /\ waiting # {}
  /\ OnError("uncertain")

\* The user leaves the page and comes back to a new ticket: the answer of what
\* was pending no longer reaches it.
Leave ==
  /\ form.intent < MaxEdits
  /\ form' = [form EXCEPT !.side = "BUY", !.chosen = "MARKET", !.qty = 0, !.limit = FALSE,
                          !.reviewing = FALSE, !.error = "none", !.placed = NoOrder,
                          !.key = NewKey, !.intent = @ + 1]
  /\ waiting' = {} /\ answers' = {} /\ chip' = [order |-> 0, shown |-> 0]
  /\ UNCHANGED <<page, wire, orders, market, views>>

\* Mutant: the first sight of the order never refreshes, as where no initial
\* signature is given.
ChipPollsFirstSight ==
  /\ \E o \in orders :
       /\ o.key = chip.order /\ o.progress > chip.shown
       /\ chip' = [chip EXCEPT !.shown = o.progress]
       /\ views' = IF chip.shown = 0 THEN views ELSE Invalidated
  /\ UNCHANGED <<form, page, waiting, wire, answers, orders, market>>

\* A poll of the order: progress beyond what was seen invalidates the views.
ChipPolls ==
  /\ \E o \in orders :
       /\ o.key = chip.order /\ o.progress > chip.shown
       /\ chip' = [chip EXCEPT !.shown = o.progress]
  /\ views' = Invalidated
  /\ UNCHANGED <<form, page, waiting, wire, answers, orders, market>>

Refetched(v) ==
  /\ views[v].fetching
  /\ views' = [views EXCEPT ![v] = [shows |-> orders, fetching |-> FALSE]]
  /\ UNCHANGED <<form, page, waiting, wire, answers, orders, market, chip>>

TicketNext ==
  \/ Edit \/ Review \/ Back \/ Confirm \/ Leave \/ PropsChange
  \/ \E r \in wire : Accept(r) \/ Refuse(r) \/ NotNow(r)
  \/ MarketChanges \/ Progress
  \/ \E a \in answers : Success(a) \/ Failure(a)
  \/ Uncertain \/ ChipPolls
  \/ \E v \in Views : Refetched(v)

TicketSpec == TicketInit /\ [][TicketNext]_ticketVars

--------------------------------------------------------------------------------
TicketTypeOK ==
  /\ form.side \in Sides /\ form.chosen \in Types /\ form.error \in Errors
  /\ {form.limit, form.reviewing} \subseteq BOOLEAN
  /\ form.qty \in {0} \cup Quantities
  /\ form.intent \in 1 .. MaxEdits + MaxClicks + 1 /\ form.clicks \in 0 .. MaxClicks
  /\ Cardinality(waiting) <= 1 /\ Cardinality(answers) <= 1
  /\ \A o \in orders : o.progress \in 0 .. MaxProgress
  /\ chip.shown \in 0 .. MaxProgress

\* However often an order is confirmed after lost answers, however late the lost
\* requests arrive, one order intent (what the user last edited) places one order.
OneOrderPerIntent ==
  \A o, p \in orders : o.intent = p.intent => o = p

\* The order the chip shows is for the side and quantity of the confirm it
\* answers, also when that confirm replayed an earlier one.  (Its type may
\* differ: a lost quote turns a market order under review into a limit order
\* under the same key.)
ShownIsConfirmed ==
  form.placed # NoOrder =>
    /\ form.placed.got.terms.side = form.placed.asked.side
    /\ form.placed.got.terms.qty = form.placed.asked.qty

\* A confirm places the order it shows, and places it once.
ConfirmPlacesOnce == OneOrderPerIntent /\ ShownIsConfirmed

\* No cash-derived view is left behind the progress the chip has shown: it shows
\* that progress or is being fetched again.
ViewsFollowOrder ==
  \A v \in Views, o \in orders :
    o.key = chip.order =>
      views[v].fetching \/ \E x \in views[v].shows : x.key = o.key /\ x.progress >= chip.shown

\* What place says of its replay, "same key returns the original", and
\* placeOrderError of a retry, "a replay returns that order": a request under the
\* key of a recorded order is not refused.
SameKeyReturnsTheOriginal ==
  [][\A r \in wire :
       Recorded(r) # {} => ~\E a \in answers' : a.to = r /\ a.kind = "refused"]_ticketVars
================================================================================
