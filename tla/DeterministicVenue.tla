------------------------- MODULE DeterministicVenue -------------------------
(* The in-process venue that executes orders in tests, in CI and offline
   (src/src/core/brokers/deterministic/deterministic-broker.ts).

   Every method is an async function of one Node process: it runs without
   interruption from one await to the next, and any other call may run while
   it waits.  A call is a record of `calls`; `at` is the await it is parked
   on.  An event is pushed to the log and then handed to the listeners one
   after the other, each awaited, so every emission parks the call.

   Abstracted: prices, fees and slippage; the order in which tick visits the
   resting orders; the market status and the quote, which are read afresh at
   every evaluation and are a choice here.  The cash half of the class is
   module VenueCash. *)
EXTENDS Integers, Sequences, FiniteSets, FiniteSetsExt

CONSTANTS
  Orders,        \* client order ids
  MarketOrders,  \* those of type MARKET; the others are LIMIT
  Qty,           \* quantity of every order
  Chunk,         \* config.chunkFills, 0 for a single fill
  Listeners,     \* subscribers of the event stream
  MaxCalls,      \* bound: calls of submit, cancel, tick and expireDayOrders
  MaxFaults,     \* bound: listeners that throw
  MaxTicks,      \* bound: calls of tick
  MaxBehind,     \* bound: events a listener with a known cursor is behind
  MaxMutes       \* bound: times the stream is muted or unmuted

ASSUME VenueAssumption ==
  /\ MarketOrders \subseteq Orders
  /\ Qty \in Nat \ {0}
  /\ Chunk \in Nat
  /\ {MaxCalls, MaxFaults, MaxTicks, MaxBehind, MaxMutes} \subseteq Nat

VARIABLES
  log,        \* every event the venue ever emitted
  submitted,  \* client id -> venue order id, 0 before the first submit
  resting,    \* client id -> [filled, status] of the orders that reached the book
  calls,      \* the async calls made so far
  live,       \* this.listeners
  replay,     \* listener -> indexes of the log it is still to be replayed
  got,        \* listener -> indexes of the log it was handed
  muted,      \* the stream is disconnected
  mutes,      \* times muted was switched
  from,       \* history: listener -> the cursor it subscribed with, -1 before
  hidden,     \* history: indexes logged while muted or lost to a throwing listener
  lost        \* history: listener -> indexes left of the replay it threw in

vars == <<log, submitted, resting, calls, live, replay, got, muted, mutes, from, hidden, lost>>
streamVars == <<live, replay, got, muted, mutes, from, lost>>

NoBook == [filled |-> 0, status |-> "none"]
Idle == "done"
Kinds == {"submit", "cancel", "tick", "expire"}
Parked == {"emitting", "judge", "rest", "next", "priced", "fill", "filled",
           "cancelling", "cancelled", "expired", Idle}
Types == {"ACKNOWLEDGED", "REJECTED", "ACCEPTED", "PARTIALLY_FILLED", "FILLED",
          "CANCEL_PENDING", "CANCELLED", "EXPIRED"}

\* A call of kind k about order o, parked at `at`; `todo` is what is left of a sweep.
Call(k, o, at, todo) ==
  [kind |-> k, order |-> o, at |-> at, then |-> at, event |-> 0, told |-> {}, todo |-> todo]

Emitting(k) == k.at = "emitting"
AnyOrder == CHOOSE o \in Orders : TRUE
LessOf(a, b) == IF a < b THEN a ELSE b

\* emit(): the event enters the log; unless muted, the call k parks on each
\* listener before it goes on at `then`.
Emit(c, k, o, type, qty, then) ==
  /\ log' = Append(log, [order |-> o, venue |-> submitted'[o], type |-> type, qty |-> qty])
  /\ calls' = [x \in DOMAIN calls \union {c} |->
        IF x # c THEN calls[x]
        ELSE [k EXCEPT !.order = o, !.at = IF muted \/ live = {} THEN then ELSE "emitting",
                       !.then = then, !.event = Len(log) + 1, !.told = {}]]
  /\ hidden' = IF muted THEN hidden \union {Len(log) + 1} ELSE hidden

\* The call c goes on at `at`; one that is over keeps nothing.
Goto(c, at) ==
  calls' = [calls EXCEPT ![c] =
              IF at \in {Idle, "thrown"} THEN Call(@.kind, AnyOrder, at, {})
              ELSE [@ EXCEPT !.at = at, !.told = {}]]
NewCall == Len(calls) + 1
CallsLeft == Len(calls) < MaxCalls

-----------------------------------------------------------------------------
Init ==
  /\ log = << >>
  /\ submitted = [o \in Orders |-> 0]
  /\ resting = [o \in Orders |-> NoBook]
  /\ calls = << >>
  /\ live = {} /\ replay = [l \in Listeners |-> << >>] /\ got = [l \in Listeners |-> {}]
  /\ muted = FALSE /\ mutes = 0
  /\ from = [l \in Listeners |-> -1]
  /\ hidden = {} /\ lost = [l \in Listeners |-> {}]

\* submit(): a client id seen before answers with the id it was given; a new one
\* is recorded before the first await.
Submitted(o) == [submitted EXCEPT ![o] = Cardinality({x \in Orders : submitted[x] # 0}) + 1]

Submit(o) ==
  /\ CallsLeft
  /\ submitted[o] = 0
  /\ submitted' = Submitted(o)
  /\ Emit(NewCall, Call("submit", o, "judge", {}), o, "ACKNOWLEDGED", 0, "judge")
  /\ UNCHANGED <<resting, streamVars>>

SubmitAgain(o) ==
  /\ CallsLeft
  /\ submitted[o] # 0
  /\ calls' = Append(calls, Call("submit", o, Idle, {}))
  /\ UNCHANGED <<log, submitted, resting, hidden, streamVars>>

\* The market status, then the quote: a closed market rejects every order, a
\* stale quote a market order.
Judge(c) ==
  /\ calls[c].at = "judge"
  /\ UNCHANGED submitted
  /\ \E verdict \in {"closed", "ok"} \union
                    (IF calls[c].order \in MarketOrders THEN {"stale"} ELSE {}) :
        IF verdict = "ok"
        THEN Emit(c, calls[c], calls[c].order, "ACCEPTED", 0, "rest")
        ELSE Emit(c, calls[c], calls[c].order, "REJECTED", 0, Idle)
  /\ UNCHANGED <<resting, streamVars>>

\* The accepted order enters the map; a market order starts to fill, a limit
\* order is evaluated at once.
Rest(c) ==
  /\ calls[c].at = "rest"
  /\ resting' = [resting EXCEPT ![calls[c].order] = [filled |-> 0, status |-> "accepted"]]
  /\ Goto(c, IF calls[c].order \in MarketOrders THEN "fill" ELSE "priced")
  /\ UNCHANGED <<log, submitted, hidden, streamVars>>

\* tick(): the keys of the map as they are now, evaluated one after the other.
Tick ==
  /\ CallsLeft
  /\ Cardinality({c \in DOMAIN calls : calls[c].kind = "tick"}) < MaxTicks
  /\ calls' = Append(calls, Call("tick", AnyOrder, "next",
                                 {o \in Orders : resting[o] # NoBook}))
  /\ UNCHANGED <<log, submitted, resting, hidden, streamVars>>

\* evaluateResting(): only an accepted limit order is priced; the market status
\* and the quote are awaited next.
Evaluable(o) == resting[o].status = "accepted" /\ o \notin MarketOrders

TickNext(c) ==
  /\ calls[c].at = "next" /\ calls[c].kind = "tick"
  /\ IF calls[c].todo = {} THEN Goto(c, Idle)
     ELSE \E o \in calls[c].todo :
            calls' = [calls EXCEPT ![c].todo = @ \ {o}, ![c].order = o,
                                   ![c].at = IF Evaluable(o) THEN "priced" ELSE "next"]
  /\ UNCHANGED <<log, submitted, resting, hidden, streamVars>>

\* A sweep goes on with its next order, any other call returns.
After(k) == IF k.kind \in {"tick", "expire"} THEN "next" ELSE Idle

\* The answer: the market is open and the quote crosses the limit, or not.
Priced(c) ==
  /\ calls[c].at = "priced"
  /\ \E crosses \in BOOLEAN : Goto(c, IF crosses THEN "fill" ELSE After(calls[c]))
  /\ UNCHANGED <<log, submitted, resting, hidden, streamVars>>

\* One turn of fill(): the quantity is booked before the event is emitted, so a
\* second loop on the same order sees it.
Portion(o) ==
  IF Chunk > 0 THEN LessOf(Chunk, Qty - resting[o].filled) ELSE Qty - resting[o].filled

\* Mutant: fill() books the quantity only for the final chunk.
BookedIfFinal(o) ==
  IF resting[o].filled + Portion(o) = Qty THEN [resting EXCEPT ![o].filled = Qty] ELSE resting

Booked(o) == [resting EXCEPT ![o].filled = @ + Portion(o)]

Fill(c) ==
  LET o == calls[c].order IN
  /\ calls[c].at = "fill"
  /\ UNCHANGED <<submitted, streamVars>>
  /\ IF resting[o].filled < Qty
     THEN /\ resting' = Booked(o)
          /\ Emit(c, calls[c], o,
                  IF resting[o].filled + Portion(o) = Qty THEN "FILLED" ELSE "PARTIALLY_FILLED",
                  Portion(o), "filled")
     ELSE /\ Goto(c, After(calls[c]))
          /\ UNCHANGED <<log, resting, hidden>>

\* The emission returned: the final fill ends the order, a chunk goes round again.
Filled(c) ==
  LET o == calls[c].order
      final == log[calls[c].event].type = "FILLED"
  IN
  /\ calls[c].at = "filled"
  /\ resting' = IF final THEN [resting EXCEPT ![o].status = "terminal"] ELSE resting
  /\ Goto(c, IF final \/ Chunk = 0 THEN After(calls[c]) ELSE "fill")
  /\ UNCHANGED <<log, submitted, hidden, streamVars>>

\* cancel(): refused unless the order is in the map and not terminal.  (The call
\* that fails in transport never reaches the venue and changes nothing.)
Cancellable(o) == resting[o].status \in {"accepted", "cancel_pending"}

Cancel(o) ==
  /\ CallsLeft
  /\ Cancellable(o)
  /\ resting' = [resting EXCEPT ![o].status = "cancel_pending"]
  /\ UNCHANGED submitted
  /\ Emit(NewCall, Call("cancel", o, "cancelling", {}), o, "CANCEL_PENDING", 0, "cancelling")
  /\ UNCHANGED streamVars

CancelConfirms(c) ==
  /\ calls[c].at = "cancelling"
  /\ UNCHANGED submitted
  /\ Emit(c, calls[c], calls[c].order, "CANCELLED", 0, "cancelled")
  /\ UNCHANGED <<resting, streamVars>>

\* The order is terminal once the confirmation (or the expiry) was delivered.
Ends(c) ==
  /\ calls[c].at \in {"cancelled", "expired"}
  /\ resting' = [resting EXCEPT ![calls[c].order].status = "terminal"]
  /\ Goto(c, After(calls[c]))
  /\ UNCHANGED <<log, submitted, hidden, streamVars>>

\* expireDayOrders(): a live iteration of the map; `todo` holds what it has passed.
Expire ==
  /\ CallsLeft
  /\ \A c \in DOMAIN calls : calls[c].kind # "expire"
  /\ calls' = Append(calls, Call("expire", AnyOrder, "next", {}))
  /\ UNCHANGED <<log, submitted, resting, hidden, streamVars>>

ExpireNext(c) ==
  LET ahead == {o \in Orders \ calls[c].todo : resting[o].status \in {"accepted", "cancel_pending"}}
  IN
  /\ calls[c].at = "next" /\ calls[c].kind = "expire"
  /\ UNCHANGED <<submitted, resting, streamVars>>
  /\ IF ahead = {} THEN Goto(c, Idle) /\ UNCHANGED <<log, hidden>>
     ELSE \E o \in ahead :
            Emit(c, [calls[c] EXCEPT !.todo = @ \union {o}], o, "EXPIRED", 0, "expired")

-----------------------------------------------------------------------------
\* One listener is handed the event being emitted; the iteration of the Set also
\* reaches a listener that subscribed meanwhile.
Deliver(c) ==
  /\ Emitting(calls[c])
  /\ \E l \in live \ calls[c].told :
        /\ got' = [got EXCEPT ![l] = @ \union {calls[c].event}]
        /\ IF live \subseteq calls[c].told \union {l} THEN Goto(c, calls[c].then)
           ELSE calls' = [calls EXCEPT ![c].told = @ \union {l}]
  /\ UNCHANGED <<log, submitted, resting, live, replay, muted, mutes, from, hidden, lost>>

\* A listener throws: the rejection leaves emit and the whole call.
Faults == Cardinality({c \in DOMAIN calls : calls[c].at = "thrown"})

DeliverThrows(c) ==
  /\ Emitting(calls[c])
  /\ Faults < MaxFaults
  /\ Goto(c, "thrown")
  /\ hidden' = hidden \union {calls[c].event}
  /\ UNCHANGED <<log, submitted, resting, streamVars>>

\* subscribe(): the tail of the log after the cursor is copied, and the listener
\* is live at once; no cursor means live only, an unknown one the whole log.

\* Mutant: the slice starts one event after the first the cursor has not seen.
MissedSkipsOne(cursor) == [i \in 1..(Len(log) - cursor - 1) |-> cursor + i + 1]

Missed(cursor) == [i \in 1..(Len(log) - cursor) |-> cursor + i]

Subscribe(l) ==
  /\ from[l] = -1
  /\ \E cursor \in {i \in 0..Len(log) : i = 0 \/ i + MaxBehind >= Len(log)} :
        /\ replay' = [replay EXCEPT ![l] = Missed(cursor)]
        /\ from' = [from EXCEPT ![l] = cursor]
  /\ live' = live \union {l}
  /\ UNCHANGED <<log, submitted, resting, calls, got, muted, mutes, hidden, lost>>

\* The replay loop, concurrent with the live stream.
Replay(l) ==
  /\ replay[l] # << >>
  /\ got' = [got EXCEPT ![l] = @ \union {Head(replay[l])}]
  /\ replay' = [replay EXCEPT ![l] = SubSeq(@, 2, Len(@))]
  /\ UNCHANGED <<log, submitted, resting, calls, live, muted, mutes, from, hidden, lost>>

\* The listener throws within the loop: the rest is not replayed, and the listener
\* stays live.
Unreplayed(l) == {replay[l][j] : j \in DOMAIN replay[l]}

ReplayThrows(l) ==
  /\ replay[l] # << >>
  /\ lost' = [lost EXCEPT ![l] = @ \union Unreplayed(l)]
  /\ replay' = [replay EXCEPT ![l] = << >>]
  /\ UNCHANGED <<log, submitted, resting, calls, live, got, muted, mutes, from, hidden>>

\* muteEvents(): events go on being logged but reach nobody.
Mute ==
  /\ mutes < MaxMutes
  /\ muted' = ~muted
  /\ mutes' = mutes + 1
  /\ UNCHANGED <<log, submitted, resting, calls, live, replay, got, from, hidden, lost>>

-----------------------------------------------------------------------------
Step(c) ==
  \/ Judge(c) \/ Rest(c) \/ TickNext(c) \/ Priced(c) \/ Fill(c) \/ Filled(c)
  \/ CancelConfirms(c) \/ Ends(c) \/ ExpireNext(c)
  \/ Deliver(c) \/ DeliverThrows(c)

Next ==
  \/ \E o \in Orders : Submit(o) \/ SubmitAgain(o) \/ Cancel(o)
  \/ Tick \/ Expire \/ Mute
  \/ \E c \in DOMAIN calls : Step(c)
  \/ \E l \in Listeners : Subscribe(l) \/ Replay(l) \/ ReplayThrows(l)

Spec == Init /\ [][Next]_vars

-----------------------------------------------------------------------------
Indexes(o, types) == {i \in DOMAIN log : log[i].order = o /\ log[i].type \in types}
LoggedQty(o) ==
  SumFunctionOnSet([i \in DOMAIN log |-> log[i].qty], Indexes(o, {"PARTIALLY_FILLED", "FILLED"}))

\* Every variable has its type.
VenueTypeOK ==
  /\ \A i \in DOMAIN log :
       /\ log[i].order \in Orders /\ log[i].type \in Types
       /\ log[i].qty \in 0..Qty /\ log[i].venue \in 1..Cardinality(Orders)
  /\ submitted \in [Orders -> 0..Cardinality(Orders)]
  /\ resting \in [Orders -> [filled : 0..Qty,
                             status : {"none", "accepted", "cancel_pending", "terminal"}]]
  /\ \A c \in DOMAIN calls : calls[c].kind \in Kinds /\ calls[c].at \in Parked \union {"thrown"}
  /\ live \subseteq Listeners /\ hidden \subseteq DOMAIN log
  /\ \A l \in Listeners : got[l] \subseteq DOMAIN log

\* Whatever ticks, retries, cancels and throwing listeners overlap, an order is
\* never filled beyond its quantity, the snapshot's filledQty is what its logged
\* executions add up to, it is FILLED exactly when that is the whole quantity, and
\* all its events carry the one venue id its first submission was given.
NeverOverfilled ==
  \A o \in Orders :
    /\ LoggedQty(o) = resting[o].filled
    /\ resting[o].filled <= Qty
    /\ Cardinality(Indexes(o, {"FILLED"})) = (IF resting[o].filled = Qty THEN 1 ELSE 0)
    /\ Cardinality(Indexes(o, {"ACKNOWLEDGED"})) <= 1
    /\ Cardinality({log[i].venue : i \in Indexes(o, Types)}) <= 1

\* Once nothing is being handed over, a listener holds every event after its
\* cursor, apart from those the stream dropped while it was muted, those a throwing
\* listener lost and the rest of a replay it threw in itself: replay and live stream
\* leave no gap between them.
Settled == (\A c \in DOMAIN calls : ~Emitting(calls[c])) /\ \A l \in Listeners : replay[l] = << >>
NoGapAfterCursor ==
  Settled => \A l \in live : {i \in DOMAIN log : i > from[l]} \ (hidden \union lost[l]) \subseteq got[l]

\* subscribe() says "Replay from the cursor, then stream live"
\* (deterministic-broker.ts:367): no live event is handed to a listener whose
\* replay is still running.
ReplayThenLive ==
  [][\A l \in Listeners :
       (replay[l] # << >> /\ got'[l] # got[l]) => replay'[l] # replay[l]]_vars

\* The venue "implements the SAME contract as the external venue"
\* (deterministic-broker.ts:27): an order that was cancelled, expired or rejected
\* emits nothing more.
NothingAfterTheEnd ==
  \A o \in Orders : \A i \in Indexes(o, {"CANCELLED", "EXPIRED", "REJECTED"}) :
    \A j \in Indexes(o, Types) : j <= i

\* Once every call returned or threw, an order the venue acknowledged was rejected
\* or is in the map that cancel, the ticks and listOpenOrders read.
AcknowledgedIsTracked ==
  (\A c \in DOMAIN calls : calls[c].at \in {Idle, "thrown"}) =>
    \A o \in Orders : submitted[o] # 0 =>
      resting[o] # NoBook \/ Indexes(o, {"REJECTED"}) # {}

=============================================================================
