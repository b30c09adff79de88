------------------------------ MODULE VenueProofs ------------------------------
(***************************************************************************)
(* Theorems of the in-process venue: its orders, for any number of orders,  *)
(* listeners, calls, ticks and faults, and its cash, for any funding,       *)
(* amounts and number of transfers.                                         *)
(***************************************************************************)
EXTENDS MCVenue, ArithmeticProofs

--------------------------------------------------------------------------------
(* Calls and the log as sequences.                                             *)

Awaits == Parked \ {"emitting"}
CallRows ==
  [kind : Kinds, order : Orders \cup {AnyOrder}, at : Parked \cup {"thrown"}, then : Awaits \cup {"thrown"},
   event : Nat, told : SUBSET Listeners, todo : SUBSET Orders]
LogRows == [order : Orders, venue : Nat, type : Types, qty : Nat]
Statuses == {"none", "accepted", "cancel_pending", "terminal"}

Typed ==
  /\ log \in Seq(LogRows)
  /\ submitted \in [Orders -> Nat]
  /\ resting \in [Orders -> [filled : 0 .. Qty, status : Statuses]]
  /\ calls \in Seq(CallRows)
  /\ live \subseteq Listeners
  /\ replay \in [Listeners -> Seq(Nat)]
  /\ got \in [Listeners -> SUBSET Nat]
  /\ from \in [Listeners -> Int]
  /\ hidden \subseteq Nat

LEMMA FunctionIsSeq ==
  ASSUME NEW S, NEW n \in Nat, NEW f \in [1 .. n -> S]
  PROVE  f \in Seq(S) /\ Len(f) = n
OBVIOUS

LEMMA AppendIs ==
  ASSUME NEW S, NEW s \in Seq(S), NEW x \in S
  PROVE  /\ Append(s, x) \in Seq(S) /\ Len(Append(s, x)) = Len(s) + 1
         /\ DOMAIN Append(s, x) = DOMAIN s \cup {Len(s) + 1}
         /\ Len(s) + 1 \notin DOMAIN s
         /\ Append(s, x)[Len(s) + 1] = x
         /\ \A i \in DOMAIN s : Append(s, x)[i] = s[i]
<1>1. /\ Append(s, x) \in Seq(S) /\ Len(Append(s, x)) = Len(s) + 1
      /\ DOMAIN s = 1 .. Len(s) /\ Len(s) \in Nat
      /\ DOMAIN Append(s, x) = 1 .. (Len(s) + 1)
  OBVIOUS
<1>2. Append(s, x)[Len(s) + 1] = x /\ \A i \in 1 .. Len(s) : Append(s, x)[i] = s[i]
  OBVIOUS
<1> QED BY <1>1, <1>2

LEMMA CallTyped ==
  ASSUME NEW k \in Kinds, NEW o \in Orders \cup {AnyOrder}, NEW at \in Awaits \cup {"thrown"},
         NEW todo \in SUBSET Orders
  PROVE  /\ Call(k, o, at, todo) \in CallRows
         /\ Call(k, o, at, todo).kind = k /\ Call(k, o, at, todo).order = o
         /\ Call(k, o, at, todo).at = at /\ Call(k, o, at, todo).then = at
         /\ Call(k, o, at, todo).event = 0 /\ Call(k, o, at, todo).todo = todo
BY DEF Call, CallRows, Awaits

\* What an emission leaves: an event in the log and the call on its way.
Emitted(c, k, o, type, qty, then) ==
  \E e \in LogRows, n \in CallRows :
    /\ e.order = o /\ e.venue = submitted'[o] /\ e.type = type /\ e.qty = qty
    /\ log' = Append(log, e)
    /\ n.kind = k.kind /\ n.order = o /\ n.then = then /\ n.event = Len(log) + 1
    /\ n.told = {} /\ n.todo = k.todo
    /\ n.at = IF muted \/ live = {} THEN then ELSE "emitting"
    /\ calls' \in Seq(CallRows) /\ DOMAIN calls' = DOMAIN calls \cup {c}
    /\ calls'[c] = n
    /\ \A x \in DOMAIN calls : x # c => calls'[x] = calls[x]
    /\ hidden' = IF muted THEN hidden \cup {Len(log) + 1} ELSE hidden

LEMMA EmitIs ==
  ASSUME Typed, NEW c \in DOMAIN calls \cup {Len(calls) + 1}, NEW k \in CallRows, NEW o \in Orders,
         NEW type \in Types, NEW qty \in Nat, NEW then \in Awaits, submitted'[o] \in Nat,
         Emit(c, k, o, type, qty, then)
  PROVE  Emitted(c, k, o, type, qty, then)
<1>1. PICK e : e = [order |-> o, venue |-> submitted'[o], type |-> type, qty |-> qty]
  OBVIOUS
<1>2. e \in LogRows /\ e.order = o /\ e.venue = submitted'[o] /\ e.type = type /\ e.qty = qty
  BY <1>1 DEF LogRows
<1>3. PICK n : n = [k EXCEPT !.order = o, !.at = IF muted \/ live = {} THEN then ELSE "emitting",
                            !.then = then, !.event = Len(log) + 1, !.told = {}]
  OBVIOUS
<1>4. Len(log) + 1 \in Nat /\ Len(calls) \in Nat /\ DOMAIN calls = 1 .. Len(calls)
  BY DEF Typed
<1>5. /\ n \in CallRows /\ n.kind = k.kind /\ n.order = o /\ n.then = then /\ n.event = Len(log) + 1
      /\ n.told = {} /\ n.todo = k.todo
      /\ n.at = IF muted \/ live = {} THEN then ELSE "emitting"
  BY <1>3, <1>4 DEF CallRows, Awaits, Parked
<1>6. /\ log' = Append(log, e)
      /\ calls' = [x \in DOMAIN calls \cup {c} |-> IF x # c THEN calls[x] ELSE n]
      /\ hidden' = IF muted THEN hidden \cup {Len(log) + 1} ELSE hidden
  BY <1>1, <1>3 DEF Emit
<1>7. PICK m \in Nat : DOMAIN calls \cup {c} = 1 .. m
  <2>1. CASE c \in DOMAIN calls
    BY <1>4, <2>1
  <2>2. CASE c = Len(calls) + 1
    <3>1. DOMAIN calls \cup {c} = 1 .. (Len(calls) + 1) /\ Len(calls) + 1 \in Nat
      BY <1>4, <2>2
    <3> QED BY <3>1
  <2> QED BY <2>1, <2>2
<1>8. \A x \in DOMAIN calls : calls[x] \in CallRows
  BY DEF Typed
<1>9. calls' \in [1 .. m -> CallRows]
  BY <1>5, <1>6, <1>7, <1>8
<1>10. calls' \in Seq(CallRows)
  BY <1>9, FunctionIsSeq
<1> QED BY <1>2, <1>5, <1>6, <1>10 DEF Emitted

\* A call that goes on.
LEMMA GotoIs ==
  ASSUME Typed, NEW c \in DOMAIN calls, NEW at \in Awaits \cup {"thrown"}, Goto(c, at)
  PROVE  /\ calls' \in Seq(CallRows) /\ DOMAIN calls' = DOMAIN calls
         /\ \A x \in DOMAIN calls : x # c => calls'[x] = calls[x]
         /\ calls'[c].at = at /\ calls'[c].kind = calls[c].kind
         /\ at \notin {Idle, "thrown"} => calls'[c].order = calls[c].order
<1>1. calls[c] \in CallRows /\ calls \in [1 .. Len(calls) -> CallRows] /\ Len(calls) \in Nat
  BY DEF Typed
<1>2. PICK n : n = IF at \in {Idle, "thrown"} THEN Call(calls[c].kind, AnyOrder, at, {})
                   ELSE [calls[c] EXCEPT !.at = at, !.told = {}]
  OBVIOUS
<1>3. n \in CallRows /\ n.at = at /\ n.kind = calls[c].kind
      /\ (at \notin {Idle, "thrown"} => n.order = calls[c].order)
  <2>1. CASE at \in {Idle, "thrown"}
    <3>1. calls[c].kind \in Kinds /\ AnyOrder \in Orders \cup {AnyOrder} /\ {} \in SUBSET Orders
      BY <1>1 DEF CallRows
    <3>2. n = Call(calls[c].kind, AnyOrder, at, {})
      BY <1>2, <2>1
    <3> QED BY <2>1, <3>1, <3>2, CallTyped
  <2>2. CASE at \notin {Idle, "thrown"}
    BY <1>1, <1>2, <2>2 DEF CallRows, Awaits
  <2> QED BY <2>1, <2>2
<1>4. calls' = [calls EXCEPT ![c] = n]
  BY <1>2 DEF Goto
<1>5. calls' \in [1 .. Len(calls) -> CallRows]
  BY <1>1, <1>3, <1>4
<1> QED BY <1>1, <1>3, <1>4, <1>5, FunctionIsSeq

--------------------------------------------------------------------------------
(* What is logged of an order, and what the book says of it.                   *)

Executions == {"PARTIALLY_FILLED", "FILLED"}
Logged(o, type) == \E i \in DOMAIN log : log[i].order = o /\ log[i].type = type

LogHolds ==
  /\ \A i \in DOMAIN log : log[i].venue = submitted[log[i].order] /\ log[i].venue # 0
  /\ \A i, j \in DOMAIN log :
       log[i].order = log[j].order /\ log[i].type = log[j].type /\ log[i].type \in {"ACKNOWLEDGED", "FILLED"} =>
         i = j
  /\ \A o \in Orders : Logged(o, "FILLED") <=> resting[o].filled = Qty
  /\ \A o \in Orders : LoggedQty(o) = resting[o].filled

LEMMA IndexesGrow ==
  ASSUME Typed, NEW e \in LogRows, log' = Append(log, e), NEW o, NEW T
  PROVE  Indexes(o, T)' =
           IF e.order = o /\ e.type \in T THEN Indexes(o, T) \cup {Len(log) + 1} ELSE Indexes(o, T)
<1>1. /\ DOMAIN log' = DOMAIN log \cup {Len(log) + 1} /\ Len(log) + 1 \notin DOMAIN log
      /\ log'[Len(log) + 1] = e /\ \A i \in DOMAIN log : log'[i] = log[i]
  BY AppendIs DEF Typed
<1> QED BY <1>1 DEF Indexes

LEMMA LoggedGrows ==
  ASSUME Typed, NEW e \in LogRows, log' = Append(log, e), NEW o \in Orders
  PROVE  LoggedQty(o)' = LoggedQty(o) + IF e.order = o /\ e.type \in Executions THEN e.qty ELSE 0
<1>1. /\ DOMAIN log' = DOMAIN log \cup {Len(log) + 1} /\ Len(log) + 1 \notin DOMAIN log
      /\ log'[Len(log) + 1] = e /\ \A i \in DOMAIN log : log'[i] = log[i]
      /\ DOMAIN log = 1 .. Len(log) /\ Len(log) \in Nat
  BY AppendIs DEF Typed
<1> DEFINE f == [i \in DOMAIN log |-> log[i].qty]
           g == [i \in DOMAIN log' |-> log'[i].qty]
           S == Indexes(o, Executions)
           n == Len(log) + 1
<1>2. IsFiniteSet(S) /\ IsFiniteSet(S \cup {n}) /\ n \notin S
  <2>1. IsFiniteSet(DOMAIN log)
    BY <1>1, FS_Interval
  <2>2. S \subseteq DOMAIN log
    BY DEF Indexes
  <2>3. IsFiniteSet(S)
    BY <2>1, <2>2, FS_Subset
  <2> HIDE DEF S, n
  <2> QED BY <1>1, <2>2, <2>3, FS_AddElement DEF n
<1>3. \A i \in S \cup {n} : g[i] \in Int
  <2>1. \A i \in DOMAIN log : log[i].qty \in Nat
    <3>1. \A i \in DOMAIN log : log[i] \in LogRows
      BY DEF Typed
    <3> QED BY <3>1 DEF LogRows
  <2>2. S \subseteq DOMAIN log
    BY DEF Indexes
  <2>3. e.qty \in Nat
    BY DEF LogRows
  <2> QED BY <1>1, <2>1, <2>2, <2>3
<1>4. \A i \in S : f[i] = g[i] /\ f[i] \in Int
  BY <1>1, <1>3 DEF Indexes
<1>5. g[n] = e.qty
  BY <1>1
<1>6. LoggedQty(o) = SumFunctionOnSet(f, S)
  BY DEF LoggedQty, Executions
<1>7. LoggedQty(o)' = SumFunctionOnSet(g, S')
  BY DEF LoggedQty, Executions
<1>8. S' = IF e.order = o /\ e.type \in Executions THEN S \cup {n} ELSE S
  BY IndexesGrow
<1> HIDE DEF f, g, S, n
<1>9. SumFunctionOnSet(f, S) = SumFunctionOnSet(g, S)
  BY <1>2, <1>4, SumSame
<1>10. SumFunctionOnSet(f, S) \in Int
  BY <1>2, <1>4, SumType
<1>11. SumFunctionOnSet(g, S \cup {n}) = g[n] + SumFunctionOnSet(g, (S \cup {n}) \ {n})
  BY <1>2, <1>3, SumRemove
<1>12. (S \cup {n}) \ {n} = S
  BY <1>2
<1>13. e.qty \in Nat
  BY DEF LogRows
<1>14. CASE e.order = o /\ e.type \in Executions
  <2>1. LoggedQty(o)' = SumFunctionOnSet(g, S \cup {n})
    BY <1>7, <1>8, <1>14
  <2>2. SumFunctionOnSet(g, S \cup {n}) = e.qty + SumFunctionOnSet(f, S)
    BY <1>5, <1>9, <1>11, <1>12
  <2>3. SumFunctionOnSet(g, S \cup {n}) = SumFunctionOnSet(f, S) + e.qty
    BY <2>2, <1>10, <1>13
  <2> QED BY <2>1, <2>3, <1>6, <1>14
<1>15. CASE ~(e.order = o /\ e.type \in Executions)
  <2>1. LoggedQty(o)' = SumFunctionOnSet(g, S)
    BY <1>7, <1>8, <1>15
  <2>2. LoggedQty(o) \in Int
    BY <1>6, <1>10
  <2> QED BY <2>1, <2>2, <1>6, <1>9, <1>15
<1> QED BY <1>14, <1>15

\* The log grows by the event e, which books what it says.
LEMMA LogGrows ==
  ASSUME Typed, LogHolds, NEW e \in LogRows, log' = Append(log, e),
         e.venue = submitted'[e.order], e.venue # 0,
         submitted[e.order] # 0 => submitted'[e.order] = submitted[e.order],
         \A o \in Orders \ {e.order} : submitted'[o] = submitted[o] /\ resting'[o].filled = resting[o].filled,
         e.type = "ACKNOWLEDGED" => submitted[e.order] = 0,
         resting'[e.order].filled =
           resting[e.order].filled + (IF e.type \in Executions THEN e.qty ELSE 0),
         resting[e.order].filled = Qty => e.type \notin Executions,
         e.type = "FILLED" <=> resting[e.order].filled # Qty /\ resting'[e.order].filled = Qty
  PROVE  LogHolds'
<1>1. /\ DOMAIN log' = DOMAIN log \cup {Len(log) + 1} /\ Len(log) + 1 \notin DOMAIN log
      /\ log'[Len(log) + 1] = e /\ \A i \in DOMAIN log : log'[i] = log[i]
  BY AppendIs DEF Typed
<1>2. e.order \in Orders /\ \A i \in DOMAIN log : log[i].order \in Orders
  <2>1. \A i \in DOMAIN log : log[i] \in LogRows
    BY DEF Typed
  <2> QED BY <2>1 DEF LogRows
<1>3. \A i \in DOMAIN log : log[i].order = e.order => submitted[e.order] # 0
  BY DEF LogHolds
<1>4. \A i \in DOMAIN log' : log'[i].venue = submitted'[log'[i].order] /\ log'[i].venue # 0
  BY <1>1, <1>2, <1>3 DEF LogHolds
<1>5. e.type = "FILLED" => \A i \in DOMAIN log : ~(log[i].order = e.order /\ log[i].type = "FILLED")
  BY <1>2 DEF LogHolds, Logged
<1>6. \A i, j \in DOMAIN log' :
        log'[i].order = log'[j].order /\ log'[i].type = log'[j].type
          /\ log'[i].type \in {"ACKNOWLEDGED", "FILLED"} => i = j
  BY <1>1, <1>3, <1>5 DEF LogHolds
<1>7. ASSUME NEW o \in Orders PROVE Logged(o, "FILLED")' <=> resting'[o].filled = Qty
  <2>1. Logged(o, "FILLED")' <=> Logged(o, "FILLED") \/ (e.order = o /\ e.type = "FILLED")
    BY <1>1 DEF Logged
  <2>2. Logged(o, "FILLED") <=> resting[o].filled = Qty
    BY DEF LogHolds
  <2>3. resting[e.order].filled = Qty => resting'[e.order].filled = Qty
    BY <1>2 DEF Typed
  <2> QED BY <2>1, <2>2, <2>3
<1>8. ASSUME NEW o \in Orders PROVE LoggedQty(o)' = resting'[o].filled
  <2>1. LoggedQty(o) = resting[o].filled /\ resting[o].filled \in Int
    BY DEF LogHolds, Typed
  <2>2. LoggedQty(o)' = LoggedQty(o) + IF e.order = o /\ e.type \in Executions THEN e.qty ELSE 0
    BY LoggedGrows
  <2> QED BY <2>1, <2>2
<1> QED BY <1>4, <1>6, <1>7, <1>8 DEF LogHolds

--------------------------------------------------------------------------------
(* What a call knows of its order.                                             *)

\* Where a call goes on once its event is handed out.
Place(k) == IF k.at = "emitting" THEN k.then ELSE k.at
Entering == {"judge", "rest"}
OnBook == {"priced", "fill", "filled", "cancelling", "cancelled", "expired"}

IsNew(o) == resting[o].status = "none"

CallHolds(k) ==
  /\ Place(k) \in Entering => k.order \in Orders /\ submitted[k.order] # 0 /\ IsNew(k.order)
  /\ Place(k) \in OnBook => k.order \in Orders /\ ~IsNew(k.order)

CallsHold ==
  /\ \A c \in DOMAIN calls : CallHolds(calls[c])
  /\ \A c, d \in DOMAIN calls :
       Place(calls[c]) \in Entering /\ Place(calls[d]) \in Entering /\ calls[c].order = calls[d].order =>
         c = d

BookHolds ==
  /\ \A o \in Orders : IsNew(o) => resting[o].filled = 0
  /\ \A o \in Orders : submitted[o] = 0 => IsNew(o)
  /\ IsFiniteSet({o \in Orders : submitted[o] # 0})

VenueInv == Typed /\ LogHolds /\ CallsHold /\ BookHolds

\* One call moves, alone with its order if it is entering the book or puts it there.
LEMMA CallsMove ==
  ASSUME CallsHold, NEW c, NEW k, DOMAIN calls' = DOMAIN calls \cup {c}, calls'[c] = k,
         \A d \in DOMAIN calls : d # c => calls'[d] = calls[d],
         CallHolds(k)',
         \A o \in Orders : submitted[o] # 0 => submitted'[o] # 0,
         \A o \in Orders : ~IsNew(o) => ~IsNew(o)',
         \A d \in DOMAIN calls :
           d # c /\ Place(calls[d]) \in Entering =>
             /\ IsNew(calls[d].order)'
             /\ Place(k) \in Entering => calls[d].order # k.order
  PROVE  CallsHold'
<1>1. \A d \in DOMAIN calls : d # c => CallHolds(calls[d])'
  BY DEF CallsHold, CallHolds
<1>2. \A d \in DOMAIN calls' : CallHolds(calls[d])'
  BY <1>1
<1>3. \A d \in DOMAIN calls' : d = c \/ (d \in DOMAIN calls /\ calls'[d] = calls[d])
  OBVIOUS
<1>4. \A b, d \in DOMAIN calls' :
        Place(calls'[b]) \in Entering /\ Place(calls'[d]) \in Entering
          /\ calls'[b].order = calls'[d].order => b = d
  <2> SUFFICES ASSUME NEW b \in DOMAIN calls', NEW d \in DOMAIN calls',
                      Place(calls'[b]) \in Entering, Place(calls'[d]) \in Entering,
                      calls'[b].order = calls'[d].order, b # d
               PROVE  FALSE
    OBVIOUS
  <2>1. CASE b # c /\ d # c
    BY <1>3, <2>1 DEF CallsHold
  <2>2. CASE b = c
    <3>1. d # c /\ d \in DOMAIN calls /\ calls'[d] = calls[d]
      BY <1>3, <2>2
    <3> QED BY <2>2, <3>1
  <2>3. CASE d = c
    <3>1. b # c /\ b \in DOMAIN calls /\ calls'[b] = calls[b]
      BY <1>3, <2>3
    <3> QED BY <2>3, <3>1
  <2> QED BY <2>1, <2>2, <2>3
<1>5. \A b \in DOMAIN calls' : Place(calls[b])' = Place(calls'[b])
  BY DEF Place
<1> QED BY <1>2, <1>4, <1>5 DEF CallsHold

--------------------------------------------------------------------------------
(* Steps.                                                                      *)

RestingRows == [Orders -> [filled : 0 .. Qty, status : Statuses]]

LEMMA LogStays ==
  ASSUME LogHolds, log' = log, submitted' = submitted,
         \A o \in Orders : resting'[o].filled = resting[o].filled
  PROVE  LogHolds'
<1>1. \A o \in Orders : LoggedQty(o)' = LoggedQty(o) /\ (Logged(o, "FILLED")' <=> Logged(o, "FILLED"))
  BY DEF LoggedQty, Indexes, Logged
<1> QED BY <1>1 DEF LogHolds

\* A call begins or goes on without an event.  Only one that is about to put its
\* order on the book changes where the order is.
LEMMA CallKeeps ==
  ASSUME VenueInv, NEW c \in DOMAIN calls \cup {Len(calls) + 1}, NEW k,
         calls' \in Seq(CallRows), DOMAIN calls' = DOMAIN calls \cup {c}, calls'[c] = k,
         \A d \in DOMAIN calls : d # c => calls'[d] = calls[d],
         CallHolds(k)',
         Place(k) \in Entering => c \in DOMAIN calls /\ Place(calls[c]) \in Entering /\ k.order = calls[c].order,
         UNCHANGED <<log, submitted, live, replay, from>>,
         got' \in [Listeners -> SUBSET Nat], hidden' \subseteq Nat,
         resting' \in RestingRows, \A o \in Orders : resting'[o].filled = resting[o].filled,
         \A o \in Orders :
           \/ IsNew(o)' <=> IsNew(o)
           \/ /\ ~IsNew(o)'
              /\ c \in DOMAIN calls /\ Place(calls[c]) \in Entering /\ calls[c].order = o
  PROVE  VenueInv'
<1>1. Typed'
  BY DEF VenueInv, Typed, RestingRows
<1>2. LogHolds'
  BY LogStays DEF VenueInv
<1>3. BookHolds'
  <2>1. \A o \in Orders : IsNew(o)' => IsNew(o)
    OBVIOUS
  <2>2. \A o \in Orders : submitted[o] = 0 => IsNew(o)'
    <3>1. \A o \in Orders : submitted[o] = 0 => IsNew(o)
      BY DEF VenueInv, BookHolds
    <3>2. \A d \in DOMAIN calls : Place(calls[d]) \in Entering => submitted[calls[d].order] # 0
      BY DEF VenueInv, CallsHold, CallHolds
    <3> QED BY <3>1, <3>2
  <2> QED BY <2>1, <2>2 DEF VenueInv, BookHolds
<1>4. CallsHold'
  <2>1. ASSUME NEW d \in DOMAIN calls, d # c, Place(calls[d]) \in Entering
        PROVE  IsNew(calls[d].order)' /\ (Place(k) \in Entering => calls[d].order # k.order)
    <3>1. calls[d].order \in Orders /\ IsNew(calls[d].order)
      BY <2>1 DEF VenueInv, CallsHold, CallHolds
    <3>2. c \in DOMAIN calls /\ Place(calls[c]) \in Entering => calls[c].order # calls[d].order
      BY <2>1 DEF VenueInv, CallsHold
    <3>3. PICK o \in Orders : o = calls[d].order
      BY <3>1
    <3>4. IsNew(o)'
      BY <3>1, <3>2, <3>3
    <3>5. calls'[d] = calls[d]
      BY <2>1
    <3> QED BY <3>2, <3>3, <3>4, <3>5, <2>1 DEF IsNew
  <2>2. \A o \in Orders : ~IsNew(o) => ~IsNew(o)'
    OBVIOUS
  <2> QED BY <2>1, <2>2, CallsMove DEF VenueInv
<1> QED BY <1>1, <1>2, <1>3, <1>4 DEF VenueInv

LEMMA AppendKeeps ==
  ASSUME VenueInv, NEW k \in CallRows, k.at \in {Idle, "next"}, calls' = Append(calls, k),
         UNCHANGED <<log, submitted, resting, hidden, streamVars>>
  PROVE  VenueInv'
<1>1. /\ calls' \in Seq(CallRows) /\ DOMAIN calls' = DOMAIN calls \cup {Len(calls) + 1}
      /\ calls'[Len(calls) + 1] = k /\ Len(calls) + 1 \notin DOMAIN calls
      /\ \A d \in DOMAIN calls : calls'[d] = calls[d]
  BY AppendIs DEF VenueInv, Typed
<1>2. Place(k) \notin Entering \cup OnBook
  BY DEF Place, Entering, OnBook, Idle
<1>3. CallHolds(k)'
  BY <1>2 DEF CallHolds
<1>4. /\ UNCHANGED <<log, submitted, live, replay, from, resting>>
      /\ got' \in [Listeners -> SUBSET Nat] /\ hidden' \subseteq Nat /\ resting' \in RestingRows
      /\ \A o \in Orders : (IsNew(o)' <=> IsNew(o)) /\ resting'[o].filled = resting[o].filled
  BY DEF streamVars, VenueInv, Typed, RestingRows, IsNew
<1> QED BY <1>1, <1>2, <1>3, <1>4, CallKeeps

\* A call goes on: to where it was going, or on about an order of the book.
LEMMA GotoKeeps ==
  ASSUME VenueInv, NEW c \in DOMAIN calls, NEW at \in Awaits \cup {"thrown"}, Goto(c, at),
         at \in Entering \cup OnBook =>
           Place(calls[c]) = at \/ (Place(calls[c]) \in OnBook /\ at \in OnBook),
         UNCHANGED <<log, submitted, live, replay, from>>,
         got' \in [Listeners -> SUBSET Nat], hidden' \subseteq Nat,
         resting' \in RestingRows, \A o \in Orders : resting'[o].filled = resting[o].filled,
         \A o \in Orders : IsNew(o)' <=> IsNew(o)
  PROVE  VenueInv'
<1>1. PICK k : k = calls'[c]
  OBVIOUS
<1>2. /\ calls' \in Seq(CallRows) /\ DOMAIN calls' = DOMAIN calls
      /\ \A x \in DOMAIN calls : x # c => calls'[x] = calls[x]
      /\ k.at = at /\ (at \notin {Idle, "thrown"} => k.order = calls[c].order)
  BY <1>1, GotoIs DEF VenueInv
<1>3. Place(k) = at
  BY <1>2 DEF Place, Awaits
<1>4. at \in Entering \cup OnBook => k.order = calls[c].order
  BY <1>2 DEF Entering, OnBook, Idle
<1>5. at \in Entering => Place(calls[c]) \in Entering
  BY DEF Entering, OnBook
<1>6. CallHolds(calls[c])
  BY DEF VenueInv, CallsHold
<1>7. CallHolds(k)'
  BY <1>3, <1>4, <1>5, <1>6 DEF CallHolds
<1> QED BY <1>1, <1>2, <1>3, <1>4, <1>5, <1>7, CallKeeps

\* An event, and what it books.
LEMMA EmitKeeps ==
  ASSUME VenueInv, NEW c \in DOMAIN calls \cup {Len(calls) + 1}, NEW k \in CallRows, NEW o \in Orders,
         NEW type \in Types, NEW qty \in Nat, NEW then \in Awaits, Emit(c, k, o, type, qty, then),
         UNCHANGED streamVars,
         submitted' \in [Orders -> Nat], submitted'[o] # 0,
         submitted[o] # 0 => submitted'[o] = submitted[o],
         \A p \in Orders \ {o} : submitted'[p] = submitted[p] /\ resting'[p] = resting[p],
         type = "ACKNOWLEDGED" => submitted[o] = 0,
         resting' \in RestingRows, IsNew(o)' <=> IsNew(o), IsNew(o) => resting'[o] = resting[o],
         resting'[o].filled = resting[o].filled + (IF type \in Executions THEN qty ELSE 0),
         resting[o].filled = Qty => type \notin Executions,
         type = "FILLED" <=> resting[o].filled # Qty /\ resting'[o].filled = Qty,
         then \in Entering =>
           IsNew(o) /\ \A d \in DOMAIN calls : d # c /\ Place(calls[d]) \in Entering => calls[d].order # o,
         then \in OnBook => ~IsNew(o)
  PROVE  VenueInv'
<1>1. Typed /\ LogHolds /\ CallsHold /\ BookHolds
  BY DEF VenueInv
<1>2. PICK e \in LogRows, n \in CallRows :
        /\ e.order = o /\ e.venue = submitted'[o] /\ e.type = type /\ e.qty = qty
        /\ log' = Append(log, e)
        /\ n.kind = k.kind /\ n.order = o /\ n.then = then /\ n.event = Len(log) + 1
        /\ n.told = {} /\ n.todo = k.todo
        /\ n.at = IF muted \/ live = {} THEN then ELSE "emitting"
        /\ calls' \in Seq(CallRows) /\ DOMAIN calls' = DOMAIN calls \cup {c}
        /\ calls'[c] = n
        /\ \A x \in DOMAIN calls : x # c => calls'[x] = calls[x]
        /\ hidden' = IF muted THEN hidden \cup {Len(log) + 1} ELSE hidden
  <2>1. submitted'[o] \in Nat
    OBVIOUS
  <2>2. Emitted(c, k, o, type, qty, then)
    BY <1>1, <2>1, EmitIs
  <2> QED BY <2>2 DEF Emitted
<1>3. Typed'
  <2>1. log' \in Seq(LogRows) /\ Len(log) + 1 \in Nat
    BY <1>1, <1>2, AppendIs DEF Typed
  <2> QED BY <1>1, <1>2, <2>1 DEF Typed, RestingRows, streamVars
<1>4. LogHolds'
  BY <1>1, <1>2, LogGrows
<1>5. \A p \in Orders : (IsNew(p)' <=> IsNew(p)) /\ (submitted[p] # 0 => submitted'[p] # 0)
  BY DEF IsNew
<1>6. Place(n) = then
  BY <1>2 DEF Place, Awaits
<1>7. CallsHold'
  <2>1. CallHolds(n)'
    BY <1>2, <1>6 DEF CallHolds
  <2>2. ASSUME NEW d \in DOMAIN calls, d # c, Place(calls[d]) \in Entering
        PROVE  IsNew(calls[d].order)' /\ (Place(n) \in Entering => calls[d].order # n.order)
    <3>1. calls[d].order \in Orders /\ IsNew(calls[d].order)
      BY <1>1, <2>2 DEF CallsHold, CallHolds
    <3> QED BY <1>2, <1>5, <1>6, <2>2, <3>1
  <2> QED BY <1>1, <1>2, <1>5, <2>1, <2>2, CallsMove
<1>8. BookHolds'
  <2>1. {p \in Orders : submitted'[p] # 0} = {p \in Orders : submitted[p] # 0} \cup {o}
    OBVIOUS
  <2>2. IsFiniteSet({p \in Orders : submitted'[p] # 0})
    <3> DEFINE S == {p \in Orders : submitted[p] # 0}
    <3>1. IsFiniteSet(S)
      BY <1>1 DEF BookHolds
    <3> HIDE DEF S
    <3>2. IsFiniteSet(S \cup {o})
      BY <3>1, FS_AddElement
    <3> QED BY <3>2, <2>1 DEF S
  <2>3. \A p \in Orders : IsNew(p)' => resting'[p].filled = 0
    BY <1>1 DEF BookHolds, IsNew
  <2>4. \A p \in Orders : submitted'[p] = 0 => IsNew(p)'
    BY <1>1, <1>5 DEF BookHolds
  <2> QED BY <2>2, <2>3, <2>4 DEF BookHolds
<1> QED BY <1>3, <1>4, <1>7, <1>8 DEF VenueInv

LEMMA SubmitKeeps == ASSUME VenueInv, NEW o \in Orders, Submit(o) PROVE VenueInv'
<1>1. PICK k : k = Call("submit", o, "judge", {})
  OBVIOUS
<1>2. k \in CallRows
  <2>1. "submit" \in Kinds /\ "judge" \in Awaits \cup {"thrown"} /\ {} \in SUBSET Orders
    BY DEF Kinds, Awaits, Parked
  <2> QED BY <1>1, <2>1, CallTyped
<1>3. /\ Emit(Len(calls) + 1, k, o, "ACKNOWLEDGED", 0, "judge")
      /\ UNCHANGED <<resting, streamVars>> /\ submitted[o] = 0 /\ submitted' = Submitted(o)
  BY <1>1 DEF Submit, NewCall
<1>4. PICK n \in Nat : n = Cardinality({x \in Orders : submitted[x] # 0})
  BY FS_CardinalityType DEF VenueInv, BookHolds
<1>5. submitted' = [submitted EXCEPT ![o] = n + 1] /\ n + 1 \in Nat /\ n + 1 # 0
  BY <1>3, <1>4 DEF Submitted
<1>6. /\ submitted' \in [Orders -> Nat] /\ submitted'[o] # 0
      /\ \A p \in Orders \ {o} : submitted'[p] = submitted[p]
  BY <1>5 DEF VenueInv, Typed
<1>7. resting' \in RestingRows /\ resting' = resting /\ (IsNew(o)' <=> IsNew(o)) /\ IsNew(o)
  BY <1>3 DEF VenueInv, Typed, RestingRows, IsNew, BookHolds
<1>8. \A d \in DOMAIN calls : Place(calls[d]) \in Entering => calls[d].order # o
  BY <1>3 DEF VenueInv, CallsHold, CallHolds
<1>9. /\ "ACKNOWLEDGED" \in Types /\ 0 \in Nat /\ "judge" \in Awaits /\ "judge" \notin OnBook
      /\ "ACKNOWLEDGED" \notin Executions
  BY DEF Types, Awaits, Parked, OnBook, Executions
<1>10. resting[o].filled \in Nat
  BY DEF VenueInv, Typed
<1>11. UNCHANGED streamVars
  BY <1>3
<1>12. resting'[o].filled = resting[o].filled + (IF "ACKNOWLEDGED" \in Executions THEN 0 ELSE 0)
  BY <1>7, <1>10
<1> QED BY <1>2, <1>3, <1>6, <1>7, <1>8, <1>9, <1>11, <1>12, EmitKeeps

\* An event that books nothing, of an order the venue knows.
LEMMA TellKeeps ==
  ASSUME VenueInv, NEW c \in DOMAIN calls \cup {Len(calls) + 1}, NEW k \in CallRows, NEW o \in Orders,
         NEW type \in Types \ (Executions \cup {"ACKNOWLEDGED"}), NEW then \in Awaits,
         Emit(c, k, o, type, 0, then), UNCHANGED <<submitted, streamVars>>, submitted[o] # 0,
         resting' \in RestingRows, \A p \in Orders : resting'[p].filled = resting[p].filled,
         \A p \in Orders \ {o} : resting'[p] = resting[p],
         IsNew(o)' <=> IsNew(o), IsNew(o) => resting'[o] = resting[o],
         then \in Entering => c \in DOMAIN calls /\ Place(calls[c]) \in Entering /\ calls[c].order = o,
         then \in OnBook => ~IsNew(o)
  PROVE  VenueInv'
<1>1. then \in Entering =>
        IsNew(o) /\ \A d \in DOMAIN calls : d # c /\ Place(calls[d]) \in Entering => calls[d].order # o
  BY DEF VenueInv, CallsHold, CallHolds
<1>2. submitted' \in [Orders -> Nat] /\ submitted'[o] # 0 /\ submitted' = submitted /\ UNCHANGED streamVars
  BY DEF VenueInv, Typed
<1>3. type \in Types /\ type \notin Executions /\ type # "ACKNOWLEDGED" /\ type # "FILLED" /\ 0 \in Nat
  BY DEF Executions
<1>4. resting[o].filled \in Nat /\ resting'[o].filled = resting[o].filled
  BY DEF VenueInv, Typed
<1>5. resting'[o].filled = resting[o].filled + (IF type \in Executions THEN 0 ELSE 0)
  BY <1>4
<1>6. \A p \in Orders \ {o} : submitted'[p] = submitted[p] /\ resting'[p] = resting[p]
  BY <1>2
<1> QED BY <1>1, <1>2, <1>3, <1>4, <1>5, <1>6, EmitKeeps

LEMMA CallIs ==
  ASSUME VenueInv, NEW c \in DOMAIN calls
  PROVE  /\ calls[c] \in CallRows
         /\ calls[c].at # "emitting" => Place(calls[c]) = calls[c].at
         /\ Place(calls[c]) \in Entering =>
              calls[c].order \in Orders /\ submitted[calls[c].order] # 0 /\ IsNew(calls[c].order)
         /\ Place(calls[c]) \in OnBook =>
              calls[c].order \in Orders /\ submitted[calls[c].order] # 0 /\ ~IsNew(calls[c].order)
<1>1. calls[c] \in CallRows
  BY DEF VenueInv, Typed
<1> QED BY <1>1 DEF VenueInv, CallsHold, CallHolds, BookHolds, Place

LEMMA TellSame ==
  ASSUME VenueInv, UNCHANGED resting
  PROVE  /\ resting' \in RestingRows /\ resting' = resting
         /\ \A p \in Orders : (IsNew(p)' <=> IsNew(p)) /\ resting'[p].filled = resting[p].filled
BY DEF VenueInv, Typed, RestingRows, IsNew

LEMMA JudgeKeeps == ASSUME VenueInv, NEW c \in DOMAIN calls, Judge(c) PROVE VenueInv'
<1>1. PICK o : o = calls[c].order
  OBVIOUS
<1>2. calls[c].at = "judge" /\ UNCHANGED <<submitted, resting, streamVars>>
  BY DEF Judge
<1>3. /\ Place(calls[c]) \in Entering /\ calls[c] \in CallRows
      /\ o \in Orders /\ submitted[o] # 0 /\ IsNew(o)
  BY <1>1, <1>2, CallIs DEF Entering
<1>4. \/ Emit(c, calls[c], o, "ACCEPTED", 0, "rest")
      \/ Emit(c, calls[c], o, "REJECTED", 0, Idle)
  BY <1>1 DEF Judge
<1>5. /\ "ACCEPTED" \in Types \ (Executions \cup {"ACKNOWLEDGED"})
      /\ "REJECTED" \in Types \ (Executions \cup {"ACKNOWLEDGED"})
      /\ "rest" \in Awaits /\ Idle \in Awaits /\ "rest" \notin OnBook /\ Idle \notin Entering \cup OnBook
  BY DEF Types, Executions, Awaits, Parked, Idle, OnBook, Entering
<1>6. /\ resting' \in RestingRows /\ resting' = resting
      /\ \A p \in Orders : (IsNew(p)' <=> IsNew(p)) /\ resting'[p].filled = resting[p].filled
  BY <1>2, TellSame
<1>7. UNCHANGED <<submitted, streamVars>>
  BY <1>2
<1> QED BY <1>1, <1>3, <1>4, <1>5, <1>6, <1>7, TellKeeps

LEMMA CancelConfirmsKeeps == ASSUME VenueInv, NEW c \in DOMAIN calls, CancelConfirms(c) PROVE VenueInv'
<1>1. PICK o : o = calls[c].order
  OBVIOUS
<1>2. calls[c].at = "cancelling" /\ UNCHANGED <<submitted, resting, streamVars>>
  BY DEF CancelConfirms
<1>3. /\ calls[c] \in CallRows
      /\ o \in Orders /\ submitted[o] # 0 /\ ~IsNew(o)
  BY <1>1, <1>2, CallIs DEF OnBook
<1>4. Emit(c, calls[c], o, "CANCELLED", 0, "cancelled")
  BY <1>1 DEF CancelConfirms
<1>5. /\ "CANCELLED" \in Types \ (Executions \cup {"ACKNOWLEDGED"})
      /\ "cancelled" \in Awaits /\ "cancelled" \notin Entering
  BY DEF Types, Executions, Awaits, Parked, Entering
<1>6. /\ resting' \in RestingRows /\ resting' = resting
      /\ \A p \in Orders : (IsNew(p)' <=> IsNew(p)) /\ resting'[p].filled = resting[p].filled
  BY <1>2, TellSame
<1>7. UNCHANGED <<submitted, streamVars>>
  BY <1>2
<1> QED BY <1>3, <1>4, <1>5, <1>6, <1>7, TellKeeps

LEMMA CancelKeeps == ASSUME VenueInv, NEW o \in Orders, Cancel(o) PROVE VenueInv'
<1>1. PICK k : k = Call("cancel", o, "cancelling", {})
  OBVIOUS
<1>2. k \in CallRows
  <2>1. "cancel" \in Kinds /\ "cancelling" \in Awaits \cup {"thrown"} /\ {} \in SUBSET Orders
    BY DEF Kinds, Awaits, Parked
  <2> QED BY <1>1, <2>1, CallTyped
<1>3. /\ Emit(Len(calls) + 1, k, o, "CANCEL_PENDING", 0, "cancelling")
      /\ UNCHANGED <<submitted, streamVars>>
      /\ resting' = [resting EXCEPT ![o].status = "cancel_pending"]
      /\ resting[o].status \in {"accepted", "cancel_pending"}
  BY <1>1 DEF Cancel, NewCall, Cancellable
<1>4. ~IsNew(o) /\ submitted[o] # 0
  BY <1>3 DEF VenueInv, BookHolds, IsNew
<1>5. /\ "CANCEL_PENDING" \in Types \ (Executions \cup {"ACKNOWLEDGED"})
      /\ "cancelling" \in Awaits /\ "cancelling" \notin Entering
  BY DEF Types, Executions, Awaits, Parked, Entering
<1>6. /\ resting' \in RestingRows
      /\ \A p \in Orders : resting'[p].filled = resting[p].filled
      /\ \A p \in Orders \ {o} : resting'[p] = resting[p]
      /\ ~IsNew(o)'
  BY <1>3 DEF VenueInv, Typed, RestingRows, Statuses, IsNew
<1> QED BY <1>2, <1>3, <1>4, <1>5, <1>6, TellKeeps

LEMMA ExpireNextKeeps == ASSUME VenueInv, NEW c \in DOMAIN calls, ExpireNext(c) PROVE VenueInv'
<1>1. calls[c].at = "next" /\ UNCHANGED <<submitted, resting, streamVars>>
  BY DEF ExpireNext
<1>2. calls[c] \in CallRows /\ Idle \in Awaits /\ Idle \notin Entering \cup OnBook
  BY CallIs DEF Awaits, Parked, Idle, Entering, OnBook
<1>3. /\ resting' \in RestingRows /\ resting' = resting
      /\ \A p \in Orders : (IsNew(p)' <=> IsNew(p)) /\ resting'[p].filled = resting[p].filled
  BY <1>1, TellSame
<1>4. CASE Goto(c, Idle) /\ UNCHANGED <<log, hidden>>
  <2>1. UNCHANGED <<log, submitted, live, replay, from>>
    BY <1>1, <1>4 DEF streamVars
  <2>2. got' \in [Listeners -> SUBSET Nat] /\ hidden' \subseteq Nat
    BY <1>1, <1>4 DEF streamVars, VenueInv, Typed
  <2> QED BY <1>2, <1>3, <1>4, <2>1, <2>2, GotoKeeps
<1>5. CASE \E o \in {p \in Orders \ calls[c].todo : resting[p].status \in {"accepted", "cancel_pending"}} :
             Emit(c, [calls[c] EXCEPT !.todo = @ \cup {o}], o, "EXPIRED", 0, "expired")
  <2>1. PICK o \in Orders : /\ resting[o].status \in {"accepted", "cancel_pending"}
                            /\ Emit(c, [calls[c] EXCEPT !.todo = @ \cup {o}], o, "EXPIRED", 0, "expired")
    BY <1>5
  <2>2. PICK k : k = [calls[c] EXCEPT !.todo = @ \cup {o}]
    OBVIOUS
  <2>3. k \in CallRows
    BY <1>2, <2>2 DEF CallRows
  <2>4. ~IsNew(o) /\ submitted[o] # 0
    BY <2>1 DEF VenueInv, BookHolds, IsNew
  <2>5. /\ "EXPIRED" \in Types \ (Executions \cup {"ACKNOWLEDGED"})
        /\ "expired" \in Awaits /\ "expired" \notin Entering
    BY DEF Types, Executions, Awaits, Parked, Entering
  <2>6. Emit(c, k, o, "EXPIRED", 0, "expired") /\ UNCHANGED <<submitted, streamVars>>
    BY <1>1, <2>1, <2>2
  <2> QED BY <1>3, <2>3, <2>4, <2>5, <2>6, TellKeeps
<1> QED BY <1>4, <1>5 DEF ExpireNext

LEMMA FillKeeps == ASSUME VenueInv, NEW c \in DOMAIN calls, Fill(c) PROVE VenueInv'
<1>1. PICK o : o = calls[c].order
  OBVIOUS
<1>2. calls[c].at = "fill" /\ UNCHANGED <<submitted, streamVars>>
  BY DEF Fill
<1>3. /\ calls[c] \in CallRows /\ Place(calls[c]) \in OnBook
      /\ o \in Orders /\ submitted[o] # 0 /\ ~IsNew(o)
  BY <1>1, <1>2, CallIs DEF OnBook
<1>4. resting[o].filled \in 0 .. Qty /\ Qty \in Nat \ {0} /\ Chunk \in Nat
  BY <1>3, VenueAssumption DEF VenueInv, Typed
<1>5. CASE resting[o].filled < Qty
  <2>1. PICK q : q = Portion(o)
    OBVIOUS
  <2>2. q \in Nat /\ q > 0 /\ resting[o].filled + q <= Qty
    BY <1>4, <1>5, <2>1 DEF Portion, LessOf
  <2>3. resting' = [resting EXCEPT ![o].filled = @ + q]
    BY <1>1, <1>5, <2>1 DEF Fill, Booked
  <2>4. PICK type : type = IF resting[o].filled + q = Qty THEN "FILLED" ELSE "PARTIALLY_FILLED"
    OBVIOUS
  <2>5. Emit(c, calls[c], o, type, q, "filled")
    BY <1>1, <1>5, <2>1, <2>4 DEF Fill
  <2>6. resting[o].filled + q \in 0 .. Qty
    BY <1>4, <2>2
  <2>7. /\ resting' \in RestingRows /\ resting'[o].filled = resting[o].filled + q
        /\ \A p \in Orders \ {o} : resting'[p] = resting[p]
        /\ ~IsNew(o)'
    BY <1>3, <2>3, <2>6 DEF VenueInv, Typed, RestingRows, IsNew
  <2>8. /\ type \in Types /\ type \in Executions /\ type # "ACKNOWLEDGED"
        /\ type = "FILLED" <=> resting[o].filled + q = Qty
    BY <2>4 DEF Types, Executions
  <2>9. "filled" \in Awaits /\ "filled" \notin Entering
    BY DEF Awaits, Parked, Entering
  <2>10. /\ resting'[o].filled = resting[o].filled + (IF type \in Executions THEN q ELSE 0)
         /\ resting[o].filled # Qty
         /\ type = "FILLED" <=> resting[o].filled # Qty /\ resting'[o].filled = Qty
    BY <1>4, <1>5, <2>7, <2>8
  <2>11. submitted' \in [Orders -> Nat] /\ submitted' = submitted /\ UNCHANGED streamVars
    BY <1>2 DEF VenueInv, Typed
  <2> QED BY <1>3, <2>2, <2>5, <2>7, <2>8, <2>9, <2>10, <2>11, EmitKeeps
<1>6. CASE ~(resting[o].filled < Qty)
  <2>1. Goto(c, After(calls[c])) /\ UNCHANGED <<log, resting, hidden>>
    BY <1>1, <1>6 DEF Fill
  <2>2. /\ After(calls[c]) \in Awaits \cup {"thrown"} /\ After(calls[c]) \notin Entering \cup OnBook
    BY DEF After, Awaits, Parked, Idle, Entering, OnBook
  <2>3. UNCHANGED <<log, submitted, live, replay, from>>
    BY <1>2, <2>1 DEF streamVars
  <2>4. got' \in [Listeners -> SUBSET Nat] /\ hidden' \subseteq Nat
    BY <1>2, <2>1 DEF streamVars, VenueInv, Typed
  <2> QED BY <2>1, <2>2, <2>3, <2>4, TellSame, GotoKeeps
<1> QED BY <1>5, <1>6

LEMMA RestKeeps == ASSUME VenueInv, NEW c \in DOMAIN calls, Rest(c) PROVE VenueInv'
<1>1. PICK o : o = calls[c].order
  OBVIOUS
<1>2. PICK at : at = IF o \in MarketOrders THEN "fill" ELSE "priced"
  OBVIOUS
<1>3. /\ calls[c].at = "rest" /\ UNCHANGED <<log, submitted, hidden, streamVars>> /\ Goto(c, at)
      /\ resting' = [resting EXCEPT ![o] = [filled |-> 0, status |-> "accepted"]]
  BY <1>1, <1>2 DEF Rest
<1>4. Place(calls[c]) \in Entering /\ o \in Orders /\ IsNew(o)
  BY <1>1, <1>3, CallIs DEF Entering
<1>5. at \in OnBook /\ at \in Awaits /\ at \notin {Idle, "thrown"} /\ at \notin Entering
  BY <1>2 DEF OnBook, Awaits, Parked, Idle, Entering
<1>6. PICK k : k = calls'[c]
  OBVIOUS
<1>7. /\ calls' \in Seq(CallRows) /\ DOMAIN calls' = DOMAIN calls
      /\ \A x \in DOMAIN calls : x # c => calls'[x] = calls[x]
      /\ k.at = at /\ k.order = o
  BY <1>1, <1>3, <1>5, <1>6, GotoIs DEF VenueInv
<1>8. Place(k) = at
  BY <1>5, <1>7 DEF Place, Awaits
<1>9. resting[o].filled = 0 /\ Qty \in Nat
  BY <1>4, VenueAssumption DEF VenueInv, BookHolds
<1>10. /\ resting' \in RestingRows /\ ~IsNew(o)'
       /\ \A p \in Orders : resting'[p].filled = resting[p].filled
       /\ \A p \in Orders : p # o => resting'[p] = resting[p]
  BY <1>3, <1>4, <1>9 DEF VenueInv, Typed, RestingRows, Statuses, IsNew
<1>11. CallHolds(k)'
  BY <1>4, <1>5, <1>7, <1>8, <1>10 DEF CallHolds
<1>12. \A p \in Orders : (IsNew(p)' <=> IsNew(p)) \/ (~IsNew(p)' /\ calls[c].order = p)
  BY <1>1, <1>10 DEF IsNew
<1>13. /\ UNCHANGED <<log, submitted, live, replay, from>>
       /\ got' \in [Listeners -> SUBSET Nat] /\ hidden' \subseteq Nat
  BY <1>3 DEF streamVars, VenueInv, Typed
<1> QED BY <1>4, <1>5, <1>6, <1>7, <1>8, <1>10, <1>11, <1>12, <1>13, CallKeeps

LEMMA SweepKeeps == ASSUME VenueInv, Tick \/ Expire \/ \E o \in Orders : SubmitAgain(o) PROVE VenueInv'
<1>1. CASE Tick
  <2>1. PICK k : k = Call("tick", AnyOrder, "next", {o \in Orders : resting[o] # NoBook})
    OBVIOUS
  <2>2. "tick" \in Kinds /\ "next" \in Awaits
    BY DEF Kinds, Awaits, Parked
  <2>3. k \in CallRows /\ k.at = "next"
    BY <2>1, <2>2, CallTyped
  <2> QED BY <1>1, <2>1, <2>3, AppendKeeps DEF Tick
<1>2. CASE Expire
  <2>1. PICK k : k = Call("expire", AnyOrder, "next", {})
    OBVIOUS
  <2>2. "expire" \in Kinds /\ "next" \in Awaits /\ {} \in SUBSET Orders
    BY DEF Kinds, Awaits, Parked
  <2>3. k \in CallRows /\ k.at = "next"
    BY <2>1, <2>2, CallTyped
  <2> QED BY <1>2, <2>1, <2>3, AppendKeeps DEF Expire
<1>3. ASSUME NEW o \in Orders, SubmitAgain(o) PROVE VenueInv'
  <2>1. PICK k : k = Call("submit", o, Idle, {})
    OBVIOUS
  <2>2. "submit" \in Kinds /\ Idle \in Awaits /\ {} \in SUBSET Orders
    BY DEF Kinds, Awaits, Parked, Idle
  <2>3. k \in CallRows /\ k.at = Idle
    BY <2>1, <2>2, CallTyped
  <2> QED BY <1>3, <2>1, <2>3, AppendKeeps DEF SubmitAgain
<1> QED BY <1>1, <1>2, <1>3

\* A call changes only what it is about to do.
LEMMA TurnKeeps ==
  ASSUME VenueInv, NEW c \in DOMAIN calls, NEW k \in CallRows, calls' = [calls EXCEPT ![c] = k],
         CallHolds(k), Place(k) \in Entering => Place(calls[c]) \in Entering /\ k.order = calls[c].order,
         UNCHANGED <<log, submitted, resting, live, replay, from>>,
         got' \in [Listeners -> SUBSET Nat], hidden' \subseteq Nat
  PROVE  VenueInv'
<1>1. calls \in [1 .. Len(calls) -> CallRows] /\ Len(calls) \in Nat
  BY DEF VenueInv, Typed
<1>2. calls' \in [1 .. Len(calls) -> CallRows]
  BY <1>1
<1>3. calls' \in Seq(CallRows)
  BY <1>1, <1>2, FunctionIsSeq
<1>4. DOMAIN calls' = DOMAIN calls \cup {c} /\ calls'[c] = k /\ \A d \in DOMAIN calls : d # c => calls'[d] = calls[d]
  BY <1>1
<1>5. CallHolds(k)'
  BY DEF CallHolds, IsNew
<1> QED BY <1>3, <1>4, <1>5, TellSame, CallKeeps

LEMMA TickNextKeeps == ASSUME VenueInv, NEW c \in DOMAIN calls, TickNext(c) PROVE VenueInv'
<1>1. UNCHANGED <<log, submitted, resting, hidden, streamVars>>
  BY DEF TickNext
<1>2. /\ UNCHANGED <<log, submitted, resting, live, replay, from>>
      /\ got' \in [Listeners -> SUBSET Nat] /\ hidden' \subseteq Nat
  BY <1>1 DEF streamVars, VenueInv, Typed
<1>3. CASE Goto(c, Idle)
  <2>1. Idle \in Awaits /\ Idle \notin Entering \cup OnBook
    BY DEF Awaits, Parked, Idle, Entering, OnBook
  <2> QED BY <1>2, <1>3, <2>1, TellSame, GotoKeeps
<1>4. ASSUME NEW o \in calls[c].todo,
             calls' = [calls EXCEPT ![c].todo = @ \ {o}, ![c].order = o,
                                    ![c].at = IF Evaluable(o) THEN "priced" ELSE "next"]
      PROVE  VenueInv'
  <2>1. calls[c] \in CallRows
    BY CallIs
  <2>2. o \in Orders
    BY <1>4, <2>1 DEF CallRows
  <2>3. PICK k : k = [calls[c] EXCEPT !.todo = @ \ {o}, !.order = o,
                                      !.at = IF Evaluable(o) THEN "priced" ELSE "next"]
    OBVIOUS
  <2>4. k \in CallRows /\ k.order = o /\ k.at = IF Evaluable(o) THEN "priced" ELSE "next"
    BY <2>1, <2>2, <2>3 DEF CallRows, Parked
  <2>5. calls' = [calls EXCEPT ![c] = k]
    BY <1>4, <2>3
  <2>6. Evaluable(o) => ~IsNew(o)
    BY DEF Evaluable, IsNew
  <2>7. Place(k) \notin Entering /\ CallHolds(k)
    BY <2>2, <2>4, <2>6 DEF Place, Entering, OnBook, CallHolds
  <2> QED BY <1>2, <2>4, <2>5, <2>7, TurnKeeps
<1> QED BY <1>3, <1>4 DEF TickNext

LEMMA PricedKeeps == ASSUME VenueInv, NEW c \in DOMAIN calls, Priced(c) PROVE VenueInv'
<1>1. UNCHANGED <<log, submitted, resting, hidden, streamVars>> /\ calls[c].at = "priced"
  BY DEF Priced
<1>2. /\ UNCHANGED <<log, submitted, resting, live, replay, from>>
      /\ got' \in [Listeners -> SUBSET Nat] /\ hidden' \subseteq Nat
  BY <1>1 DEF streamVars, VenueInv, Typed
<1>3. PICK at \in {"fill", After(calls[c])} : Goto(c, at)
  BY DEF Priced
<1>4. /\ at \in Awaits \cup {"thrown"}
      /\ at = "fill" \/ at \notin Entering \cup OnBook
      /\ "fill" \in OnBook
  BY <1>3 DEF After, Awaits, Parked, Idle, Entering, OnBook
<1>5. Place(calls[c]) \in OnBook
  BY <1>1 DEF Place, OnBook
<1> QED BY <1>2, <1>3, <1>4, <1>5, TellSame, GotoKeeps

\* The order of a call ends, with the quantity it had.
LEMMA EndKeeps ==
  ASSUME VenueInv, NEW c \in DOMAIN calls, calls[c].at \in OnBook,
         NEW at \in Awaits \cup {"thrown"}, Goto(c, at), at \in Entering \cup OnBook => at \in OnBook,
         \/ resting' = resting
         \/ resting' = [resting EXCEPT ![calls[c].order].status = "terminal"],
         UNCHANGED <<log, submitted, hidden, streamVars>>
  PROVE  VenueInv'
<1>1. Place(calls[c]) \in OnBook
  BY DEF Place, OnBook
<1>2. calls[c].order \in Orders /\ ~IsNew(calls[c].order)
  BY <1>1, CallIs
<1>3. /\ resting' \in RestingRows
      /\ \A p \in Orders : resting'[p].filled = resting[p].filled
      /\ \A p \in Orders : IsNew(p)' <=> IsNew(p)
  <2>1. CASE resting' = resting
    BY <2>1, TellSame
  <2>2. CASE resting' = [resting EXCEPT ![calls[c].order].status = "terminal"]
    <3>1. PICK o \in Orders : o = calls[c].order
      BY <1>2
    <3>2. resting' = [resting EXCEPT ![o].status = "terminal"] /\ ~IsNew(o)
      BY <1>2, <2>2, <3>1
    <3>3. resting \in RestingRows
      BY DEF VenueInv, Typed, RestingRows
    <3> QED BY <3>2, <3>3 DEF RestingRows, Statuses, IsNew
  <2> QED BY <2>1, <2>2
<1>4. /\ UNCHANGED <<log, submitted, live, replay, from>>
      /\ got' \in [Listeners -> SUBSET Nat] /\ hidden' \subseteq Nat
  BY DEF streamVars, VenueInv, Typed
<1> QED BY <1>1, <1>3, <1>4, GotoKeeps

LEMMA FilledKeeps == ASSUME VenueInv, NEW c \in DOMAIN calls, Filled(c) PROVE VenueInv'
<1>1. PICK at \in {"fill", After(calls[c])} : Goto(c, at)
  BY DEF Filled
<1>2. at \in Awaits \cup {"thrown"} /\ (at \in Entering \cup OnBook => at \in OnBook)
  BY <1>1 DEF After, Awaits, Parked, Idle, Entering, OnBook
<1>3. calls[c].at \in OnBook
  BY DEF Filled, OnBook
<1>4. \/ resting' = resting
      \/ resting' = [resting EXCEPT ![calls[c].order].status = "terminal"]
  BY DEF Filled
<1>5. UNCHANGED <<log, submitted, hidden, streamVars>>
  BY DEF Filled
<1> QED BY <1>1, <1>2, <1>3, <1>4, <1>5, EndKeeps

LEMMA EndsKeeps == ASSUME VenueInv, NEW c \in DOMAIN calls, Ends(c) PROVE VenueInv'
<1>1. PICK at : at = After(calls[c])
  OBVIOUS
<1>2. at \in Awaits \cup {"thrown"} /\ at \notin Entering \cup OnBook
  BY <1>1 DEF After, Awaits, Parked, Idle, Entering, OnBook
<1>3. /\ calls[c].at \in OnBook /\ Goto(c, at)
      /\ resting' = [resting EXCEPT ![calls[c].order].status = "terminal"]
      /\ UNCHANGED <<log, submitted, hidden, streamVars>>
  BY <1>1 DEF Ends, OnBook
<1> QED BY <1>2, <1>3, EndKeeps

LEMMA DeliverKeeps == ASSUME VenueInv, NEW c \in DOMAIN calls, Deliver(c) PROVE VenueInv'
<1>1. PICK l \in live \ calls[c].told :
        /\ got' = [got EXCEPT ![l] = @ \cup {calls[c].event}]
        /\ \/ Goto(c, calls[c].then)
           \/ calls' = [calls EXCEPT ![c].told = @ \cup {l}]
  BY DEF Deliver
<1>2. calls[c] \in CallRows /\ l \in Listeners /\ calls[c].at = "emitting"
  BY <1>1, CallIs DEF VenueInv, Typed, Deliver, Emitting
<1>3. /\ calls[c].event \in Nat /\ calls[c].then \in Awaits \cup {"thrown"}
      /\ calls[c].told \subseteq Listeners
  BY <1>2 DEF CallRows
<1>4. UNCHANGED <<log, submitted, resting, live, replay, from>> /\ UNCHANGED hidden
  BY DEF Deliver
<1>5. got' \in [Listeners -> SUBSET Nat] /\ hidden' \subseteq Nat
  BY <1>1, <1>2, <1>3, <1>4 DEF VenueInv, Typed
<1>6. Place(calls[c]) = calls[c].then
  BY <1>2 DEF Place
<1>7. CASE Goto(c, calls[c].then)
  <2>1. PICK at : at = calls[c].then
    OBVIOUS
  <2> QED BY <1>3, <1>4, <1>5, <1>6, <1>7, <2>1, TellSame, GotoKeeps
<1>8. CASE calls' = [calls EXCEPT ![c].told = @ \cup {l}]
  <2>1. PICK k : k = [calls[c] EXCEPT !.told = @ \cup {l}]
    OBVIOUS
  <2>2. k \in CallRows /\ k.at = calls[c].at /\ k.then = calls[c].then /\ k.order = calls[c].order
    BY <1>2, <1>3, <2>1 DEF CallRows
  <2>3. calls' = [calls EXCEPT ![c] = k]
    BY <1>8, <2>1
  <2>4. CallHolds(calls[c])
    BY DEF VenueInv, CallsHold
  <2>5. CallHolds(k) /\ Place(k) = Place(calls[c])
    BY <2>2, <2>4 DEF CallHolds, Place
  <2> QED BY <1>4, <1>5, <2>2, <2>3, <2>5, TurnKeeps
<1> QED BY <1>1, <1>7, <1>8

LEMMA ThrowsKeeps == ASSUME VenueInv, NEW c \in DOMAIN calls, DeliverThrows(c) PROVE VenueInv'
<1>1. /\ Goto(c, "thrown") /\ hidden' = hidden \cup {calls[c].event}
      /\ UNCHANGED <<log, submitted, resting, streamVars>>
  BY DEF DeliverThrows
<1>2. calls[c].event \in Nat
  BY CallIs DEF CallRows
<1>3. "thrown" \notin Entering \cup OnBook
  BY DEF Entering, OnBook
<1>4. /\ UNCHANGED <<log, submitted, resting, live, replay, from>>
      /\ got' \in [Listeners -> SUBSET Nat] /\ hidden' \subseteq Nat
  BY <1>1, <1>2 DEF streamVars, VenueInv, Typed
<1> QED BY <1>1, <1>3, <1>4, TellSame, GotoKeeps

LEMMA ListenKeeps ==
  ASSUME VenueInv, UNCHANGED <<log, submitted, resting, calls>>,
         live' \subseteq Listeners, replay' \in [Listeners -> Seq(Nat)],
         got' \in [Listeners -> SUBSET Nat], from' \in [Listeners -> Int], hidden' = hidden
  PROVE  VenueInv'
<1>1. Typed'
  BY DEF VenueInv, Typed
<1>2. LogHolds'
  BY LogStays DEF VenueInv
<1> QED BY <1>1, <1>2 DEF VenueInv, CallsHold, CallHolds, BookHolds, IsNew

LEMMA MissedIs ==
  ASSUME VenueInv, NEW cursor \in 0 .. Len(log)
  PROVE  /\ Missed(cursor) \in Seq(Nat)
         /\ DOMAIN Missed(cursor) = 1 .. (Len(log) - cursor)
         /\ \A i \in 1 .. (Len(log) - cursor) : Missed(cursor)[i] = cursor + i
<1>1. Len(log) \in Nat /\ Len(log) - cursor \in Nat
  BY DEF VenueInv, Typed
<1>2. Missed(cursor) \in [1 .. (Len(log) - cursor) -> Nat]
  BY <1>1 DEF Missed
<1> QED BY <1>1, <1>2, FunctionIsSeq DEF Missed

LEMMA SubscribeKeeps == ASSUME VenueInv, NEW l \in Listeners, Subscribe(l) PROVE VenueInv'
<1>1. PICK cursor \in 0 .. Len(log) :
        /\ replay' = [replay EXCEPT ![l] = Missed(cursor)]
        /\ from' = [from EXCEPT ![l] = cursor]
  BY DEF Subscribe
<1>2. UNCHANGED <<log, submitted, resting, calls, got, hidden>> /\ live' = live \cup {l}
  BY DEF Subscribe
<1>3. Missed(cursor) \in Seq(Nat) /\ cursor \in Int
  BY MissedIs DEF VenueInv, Typed
<1>4. replay' \in [Listeners -> Seq(Nat)] /\ from' \in [Listeners -> Int]
  BY <1>1, <1>3 DEF VenueInv, Typed
<1> QED BY <1>2, <1>4, ListenKeeps DEF VenueInv, Typed

LEMMA RestOf ==
  ASSUME NEW s \in Seq(Nat), s # << >>
  PROVE  /\ Head(s) \in Nat /\ SubSeq(s, 2, Len(s)) \in Seq(Nat)
         /\ \A i \in DOMAIN s : \/ i = 1 /\ s[i] = Head(s)
                             \/ \E j \in DOMAIN SubSeq(s, 2, Len(s)) : SubSeq(s, 2, Len(s))[j] = s[i]
<1>1. Len(s) \in Nat /\ Len(s) > 0 /\ DOMAIN s = 1 .. Len(s) /\ Head(s) = s[1] /\ s[1] \in Nat
  OBVIOUS
<1>2. PICK t : t = SubSeq(s, 2, Len(s))
  OBVIOUS
<1>3. t \in Seq(Nat) /\ Len(t) = Len(s) - 1 /\ DOMAIN t = 1 .. (Len(s) - 1)
  BY <1>1, <1>2
<1>4. \A j \in 1 .. (Len(s) - 1) : t[j] = s[j + 1]
  BY <1>1, <1>2
<1>5. ASSUME NEW i \in DOMAIN s, i # 1 PROVE \E j \in DOMAIN t : t[j] = s[i]
  <2>1. i - 1 \in DOMAIN t /\ (i - 1) + 1 = i
    BY <1>1, <1>3, <1>5
  <2>2. t[i - 1] = s[i]
    BY <1>3, <1>4, <2>1
  <2> QED BY <2>1, <2>2
<1> QED BY <1>1, <1>2, <1>3, <1>5

LEMMA ReplayKeeps == ASSUME VenueInv, NEW l \in Listeners, Replay(l) PROVE VenueInv'
<1>1. /\ replay[l] # << >> /\ replay[l] \in Seq(Nat)
      /\ got' = [got EXCEPT ![l] = @ \cup {Head(replay[l])}]
      /\ replay' = [replay EXCEPT ![l] = SubSeq(replay[l], 2, Len(replay[l]))]
      /\ UNCHANGED <<log, submitted, resting, calls, live, from, hidden>>
  BY DEF Replay, VenueInv, Typed
<1>2. Head(replay[l]) \in Nat /\ SubSeq(replay[l], 2, Len(replay[l])) \in Seq(Nat)
  BY <1>1, RestOf
<1>3. replay' \in [Listeners -> Seq(Nat)] /\ got' \in [Listeners -> SUBSET Nat]
  BY <1>1, <1>2 DEF VenueInv, Typed
<1> QED BY <1>1, <1>3, ListenKeeps DEF VenueInv, Typed

LEMMA ReplayThrowsKeeps == ASSUME VenueInv, NEW l \in Listeners, ReplayThrows(l) PROVE VenueInv'
<1>1. /\ replay' = [replay EXCEPT ![l] = << >>]
      /\ UNCHANGED <<log, submitted, resting, calls, live, got, from, hidden>>
  BY DEF ReplayThrows
<1>2. replay' \in [Listeners -> Seq(Nat)]
  BY <1>1 DEF VenueInv, Typed
<1> QED BY <1>1, <1>2, ListenKeeps DEF VenueInv, Typed

LEMMA VenueStep == VenueInv /\ [Next]_vars => VenueInv'
<1> SUFFICES ASSUME VenueInv, [Next]_vars PROVE VenueInv'
  OBVIOUS
<1>1. CASE UNCHANGED vars
  BY <1>1, ListenKeeps DEF vars, streamVars, VenueInv, Typed
<1>2. CASE Mute
  BY <1>2, ListenKeeps DEF Mute, VenueInv, Typed
<1>3. CASE \E o \in Orders : Submit(o) \/ SubmitAgain(o) \/ Cancel(o)
  BY <1>3, SubmitKeeps, SweepKeeps, CancelKeeps
<1>4. CASE Tick \/ Expire
  BY <1>4, SweepKeeps
<1>5. CASE \E c \in DOMAIN calls : Step(c)
  BY <1>5, JudgeKeeps, RestKeeps, TickNextKeeps, PricedKeeps, FillKeeps, FilledKeeps, CancelConfirmsKeeps,
     EndsKeeps, ExpireNextKeeps, DeliverKeeps, ThrowsKeeps DEF Step
<1>6. CASE \E l \in Listeners : Subscribe(l) \/ Replay(l) \/ ReplayThrows(l)
  BY <1>6, SubscribeKeeps, ReplayKeeps, ReplayThrowsKeeps
<1> QED BY <1>1, <1>2, <1>3, <1>4, <1>5, <1>6 DEF Next

LEMMA SumOfNothing == \A f : SumFunctionOnSet(f, {}) = 0
BY SumTurn, FS_EmptySet

LEMMA VenueInitInv == Init => VenueInv
<1> SUFFICES ASSUME Init PROVE VenueInv
  OBVIOUS
<1>1. log = << >> /\ calls = << >> /\ DOMAIN log = {} /\ DOMAIN calls = {}
  BY DEF Init
<1>2. resting \in RestingRows /\ \A o \in Orders : IsNew(o) /\ resting[o].filled = 0
  BY VenueAssumption DEF Init, NoBook, RestingRows, Statuses, IsNew
<1>3. Typed
  BY <1>1, <1>2 DEF Init, Typed, RestingRows
<1>4. \A o \in Orders : LoggedQty(o) = 0
  <2>1. \A o \in Orders : Indexes(o, {"PARTIALLY_FILLED", "FILLED"}) = {}
    BY <1>1 DEF Indexes
  <2> QED BY <2>1, SumOfNothing DEF LoggedQty
<1>5. LogHolds
  BY <1>1, <1>2, <1>4, VenueAssumption DEF LogHolds, Logged
<1>6. BookHolds
  <2>1. {o \in Orders : submitted[o] # 0} = {}
    BY DEF Init
  <2> QED BY <1>2, <2>1, FS_EmptySet DEF BookHolds
<1> QED BY <1>1, <1>3, <1>5, <1>6 DEF VenueInv, CallsHold

LEMMA NeverOverfilledHolds == VenueInv => NeverOverfilled
<1> SUFFICES ASSUME VenueInv, NEW o \in Orders
             PROVE  /\ LoggedQty(o) = resting[o].filled
                    /\ resting[o].filled <= Qty
                    /\ Cardinality(Indexes(o, {"FILLED"})) = (IF resting[o].filled = Qty THEN 1 ELSE 0)
                    /\ Cardinality(Indexes(o, {"ACKNOWLEDGED"})) <= 1
                    /\ Cardinality({log[i].venue : i \in Indexes(o, Types)}) <= 1
  BY DEF NeverOverfilled
<1>1. ASSUME NEW S, \A x, y \in S : x = y
      PROVE  Cardinality(S) = IF S = {} THEN 0 ELSE 1
  <2>1. CASE S = {}
    BY <2>1, FS_EmptySet
  <2>2. CASE S # {}
    <3>1. PICK x \in S : TRUE
      BY <2>2
    <3>2. S = {x}
      BY <1>1, <3>1
    <3> QED BY <3>2, FS_Singleton
  <2> QED BY <2>1, <2>2
<1>2. LogHolds /\ Typed
  BY DEF VenueInv
<1>3. LoggedQty(o) = resting[o].filled /\ resting[o].filled <= Qty
  BY <1>2, VenueAssumption DEF LogHolds, Typed
<1>4. Cardinality(Indexes(o, {"FILLED"})) = IF resting[o].filled = Qty THEN 1 ELSE 0
  <2>1. \A i, j \in Indexes(o, {"FILLED"}) : i = j
    BY <1>2 DEF LogHolds, Indexes
  <2>2. Indexes(o, {"FILLED"}) # {} <=> resting[o].filled = Qty
    BY <1>2 DEF LogHolds, Logged, Indexes
  <2> QED BY <1>1, <2>1, <2>2
<1>5. Cardinality(Indexes(o, {"ACKNOWLEDGED"})) <= 1
  <2>1. \A i, j \in Indexes(o, {"ACKNOWLEDGED"}) : i = j
    BY <1>2 DEF LogHolds, Indexes
  <2> QED BY <1>1, <2>1
<1>6. Cardinality({log[i].venue : i \in Indexes(o, Types)}) <= 1
  <2> DEFINE S == {log[i].venue : i \in Indexes(o, Types)}
  <2>1. \A x, y \in S : x = y
    BY <1>2 DEF LogHolds, Indexes
  <2> HIDE DEF S
  <2>2. Cardinality(S) <= 1
    BY <1>1, <2>1
  <2> QED BY <2>2 DEF S
<1> QED BY <1>3, <1>4, <1>5, <1>6

\* Whatever ticks, retries, cancels and throwing listeners overlap, no order is
\* filled beyond its quantity, and the log says of it what the book does, with one
\* acknowledgement, at most one final fill and one venue id (submit, evaluateResting, fill).
THEOREM VenueNeverOverfills == VenueSpec => []NeverOverfilled
<1>1. VenueInit => VenueInv
  BY VenueInitInv DEF VenueInit
<1>2. VenueInv /\ [VenueNext]_venueVars => VenueInv'
  BY VenueStep DEF VenueNext, venueVars, vars
<1> QED BY <1>1, <1>2, NeverOverfilledHolds, PTL DEF VenueSpec

--------------------------------------------------------------------------------
(* The stream.                                                                 *)

\* An event is at a listener, is still to be replayed to it, or is being handed out.
Handing(l, i) == \E c \in DOMAIN calls : calls[c].at = "emitting" /\ calls[c].event = i /\ l \notin calls[c].told
Replaying(l, i) == \E j \in DOMAIN replay[l] : replay[l][j] = i
StreamInv ==
  /\ DOMAIN lost = Listeners
  /\ \A l \in live, i \in DOMAIN log :
       i > from[l] /\ i \notin hidden \cup lost[l] => i \in got[l] \/ Replaying(l, i) \/ Handing(l, i)

\* Nothing that is being handed out is dropped, but what is lost to a listener's throw.
LEMMA StreamStays ==
  ASSUME StreamInv, UNCHANGED <<log, live, replay, from, got, lost>>, hidden \subseteq hidden',
         \A c \in DOMAIN calls :
           calls[c].at = "emitting" =>
             c \in DOMAIN calls' /\ (calls'[c] = calls[c] \/ calls[c].event \in hidden')
  PROVE  StreamInv'
<1> SUFFICES ASSUME NEW l \in live, NEW i \in DOMAIN log, i > from[l], i \notin hidden' \cup lost[l]
             PROVE  i \in got[l] \/ Replaying(l, i)' \/ Handing(l, i)'
  BY DEF StreamInv
<1>1. i \in got[l] \/ Replaying(l, i) \/ Handing(l, i)
  BY DEF StreamInv
<1>2. Replaying(l, i) => Replaying(l, i)'
  BY DEF Replaying
<1>3. Handing(l, i) => Handing(l, i)'
  BY DEF Handing
<1> QED BY <1>1, <1>2, <1>3

LEMMA StreamGrows ==
  ASSUME VenueInv, StreamInv, NEW c \in DOMAIN calls \cup {Len(calls) + 1}, NEW k \in CallRows,
         NEW o, NEW type, NEW qty, NEW then, Emit(c, k, o, type, qty, then), UNCHANGED streamVars,
         c \in DOMAIN calls => calls[c].at # "emitting"
  PROVE  StreamInv'
<1>1. PICK n : n = [k EXCEPT !.order = o, !.at = IF muted \/ live = {} THEN then ELSE "emitting",
                            !.then = then, !.event = Len(log) + 1, !.told = {}]
  OBVIOUS
<1>2. n.at = (IF muted \/ live = {} THEN then ELSE "emitting") /\ n.event = Len(log) + 1 /\ n.told = {}
  BY <1>1 DEF CallRows
<1>3. /\ calls' = [x \in DOMAIN calls \cup {c} |-> IF x # c THEN calls[x] ELSE n]
      /\ hidden' = IF muted THEN hidden \cup {Len(log) + 1} ELSE hidden
  BY <1>1 DEF Emit
<1>4. DOMAIN log' = DOMAIN log \cup {Len(log) + 1}
  <2>1. PICK e : log' = Append(log, e)
    BY DEF Emit
  <2>2. log \in Seq(LogRows)
    BY DEF VenueInv, Typed
  <2>3. DOMAIN log = 1 .. Len(log) /\ Len(log) \in Nat /\ DOMAIN log' = 1 .. (Len(log) + 1)
    BY <2>1, <2>2
  <2> QED BY <2>3
<1> SUFFICES ASSUME NEW l \in live, NEW i \in DOMAIN log', i > from[l], i \notin hidden' \cup lost[l]
             PROVE  i \in got[l] \/ Replaying(l, i)' \/ Handing(l, i)'
  BY DEF StreamInv, streamVars
<1>5. CASE i \in DOMAIN log
  <2>1. i \in got[l] \/ Replaying(l, i) \/ Handing(l, i)
    BY <1>3, <1>5 DEF StreamInv
  <2>2. Replaying(l, i) => Replaying(l, i)'
    BY DEF Replaying, streamVars
  <2>3. Handing(l, i) => Handing(l, i)'
    BY <1>3 DEF Handing
  <2> QED BY <2>1, <2>2, <2>3
<1>6. CASE i = Len(log) + 1
  <2>1. c \in DOMAIN calls' /\ calls'[c] = n
    BY <1>3
  <2>2. n.at = "emitting" /\ n.event = i /\ l \notin n.told
    BY <1>2, <1>3, <1>6
  <2> QED BY <2>1, <2>2 DEF Handing
<1> QED BY <1>4, <1>5, <1>6

\* A call that hands nothing out goes on.
LEMMA StreamGoes ==
  ASSUME VenueInv, StreamInv, NEW c \in DOMAIN calls, NEW at, Goto(c, at), calls[c].at # "emitting",
         UNCHANGED <<log, hidden, streamVars>>
  PROVE  StreamInv'
<1>1. DOMAIN calls' = DOMAIN calls /\ \A d \in DOMAIN calls : d # c => calls'[d] = calls[d]
  BY DEF Goto
<1> QED BY <1>1, StreamStays DEF streamVars

LEMMA StreamAppends ==
  ASSUME VenueInv, StreamInv, NEW k, calls' = Append(calls, k), UNCHANGED <<log, hidden, streamVars>>
  PROVE  StreamInv'
<1>1. \A d \in DOMAIN calls : d \in DOMAIN calls' /\ calls'[d] = calls[d]
  <2>1. calls \in Seq(CallRows)
    BY DEF VenueInv, Typed
  <2> QED BY <2>1
<1> QED BY <1>1, StreamStays DEF streamVars

LEMMA StreamCalls ==
  ASSUME VenueInv, StreamInv, NEW c \in DOMAIN calls,
         \/ Judge(c) \/ Rest(c) \/ TickNext(c) \/ Priced(c) \/ Fill(c) \/ Filled(c)
         \/ CancelConfirms(c) \/ Ends(c) \/ ExpireNext(c)
  PROVE  StreamInv'
<1>1. calls[c] \in CallRows
  BY CallIs
<1>2. CASE Judge(c)
  <2>1. calls[c].at # "emitting" /\ UNCHANGED streamVars
    BY <1>2 DEF Judge
  <2>2. \/ Emit(c, calls[c], calls[c].order, "ACCEPTED", 0, "rest")
        \/ Emit(c, calls[c], calls[c].order, "REJECTED", 0, Idle)
    BY <1>2 DEF Judge
  <2> QED BY <1>1, <2>1, <2>2, StreamGrows
<1>3. CASE CancelConfirms(c)
  BY <1>1, <1>3, StreamGrows DEF CancelConfirms
<1>4. CASE ExpireNext(c)
  <2>1. calls[c].at # "emitting" /\ UNCHANGED streamVars
    BY <1>4 DEF ExpireNext
  <2>2. CASE Goto(c, Idle) /\ UNCHANGED <<log, hidden>>
    BY <2>1, <2>2, StreamGoes
  <2>3. ASSUME NEW o \in Orders, Emit(c, [calls[c] EXCEPT !.todo = @ \cup {o}], o, "EXPIRED", 0, "expired")
        PROVE  StreamInv'
    <3>1. PICK k : k = [calls[c] EXCEPT !.todo = @ \cup {o}]
      OBVIOUS
    <3>2. k \in CallRows
      BY <1>1, <3>1 DEF CallRows
    <3> QED BY <2>1, <2>3, <3>1, <3>2, StreamGrows
  <2>4. \/ Goto(c, Idle) /\ UNCHANGED <<log, hidden>>
        \/ \E o \in Orders : Emit(c, [calls[c] EXCEPT !.todo = @ \cup {o}], o, "EXPIRED", 0, "expired")
    BY <1>4 DEF ExpireNext
  <2> QED BY <2>2, <2>3, <2>4
<1>5. CASE Fill(c)
  <2>1. calls[c].at # "emitting" /\ UNCHANGED streamVars
    BY <1>5 DEF Fill
  <2>2. \/ \E type, qty : Emit(c, calls[c], calls[c].order, type, qty, "filled")
        \/ Goto(c, After(calls[c])) /\ UNCHANGED <<log, hidden>>
    BY <1>5 DEF Fill
  <2> QED BY <1>1, <2>1, <2>2, StreamGrows, StreamGoes
<1>6. CASE Rest(c)
  BY <1>6, StreamGoes DEF Rest
<1>7. CASE Priced(c)
  BY <1>7, StreamGoes DEF Priced
<1>8. CASE Filled(c)
  BY <1>8, StreamGoes DEF Filled
<1>9. CASE Ends(c)
  BY <1>9, StreamGoes DEF Ends
<1>10. CASE TickNext(c)
  <2>1. calls[c].at # "emitting" /\ UNCHANGED <<log, hidden, streamVars>>
    BY <1>10 DEF TickNext
  <2>2. CASE Goto(c, Idle)
    BY <2>1, <2>2, StreamGoes
  <2>3. CASE \E o \in calls[c].todo :
               calls' = [calls EXCEPT ![c].todo = @ \ {o}, ![c].order = o,
                                      ![c].at = IF Evaluable(o) THEN "priced" ELSE "next"]
    <3>1. DOMAIN calls' = DOMAIN calls /\ \A d \in DOMAIN calls : d # c => calls'[d] = calls[d]
      BY <2>3
    <3> QED BY <2>1, <3>1, StreamStays DEF streamVars
  <2> QED BY <1>10, <2>2, <2>3 DEF TickNext
<1> QED BY <1>2, <1>3, <1>4, <1>5, <1>6, <1>7, <1>8, <1>9, <1>10

LEMMA StreamDelivers == ASSUME VenueInv, StreamInv, NEW c \in DOMAIN calls, Deliver(c) PROVE StreamInv'
<1>1. PICK l \in live \ calls[c].told :
        /\ got' = [got EXCEPT ![l] = @ \cup {calls[c].event}]
        /\ \/ live \subseteq calls[c].told \cup {l} /\ Goto(c, calls[c].then)
           \/ calls' = [calls EXCEPT ![c].told = @ \cup {l}]
  BY DEF Deliver
<1>2. UNCHANGED <<log, live, replay, from, hidden, lost>>
  BY DEF Deliver
<1>3. DOMAIN calls' = DOMAIN calls /\ \A d \in DOMAIN calls : d # c => calls'[d] = calls[d]
  BY <1>1 DEF Goto
<1>4. l \in Listeners /\ \A m \in Listeners : got[m] \subseteq got'[m] /\ calls[c].event \in got'[l]
  BY <1>1 DEF VenueInv, Typed
<1>5. calls[c] \in CallRows
  BY CallIs
<1> SUFFICES ASSUME NEW m \in live, NEW i \in DOMAIN log, i > from[m], i \notin hidden \cup lost[m]
             PROVE  i \in got'[m] \/ Replaying(m, i)' \/ Handing(m, i)'
  BY <1>2 DEF StreamInv
<1>6. i \in got[m] \/ Replaying(m, i) \/ Handing(m, i)
  BY DEF StreamInv
<1>7. m \in Listeners
  BY DEF VenueInv, Typed
<1>8. Replaying(m, i) => Replaying(m, i)'
  BY <1>2 DEF Replaying
<1>9. ASSUME NEW d \in DOMAIN calls, calls[d].at = "emitting", calls[d].event = i, m \notin calls[d].told
      PROVE  i \in got'[m] \/ Handing(m, i)'
  <2>1. CASE d # c
    BY <1>3, <1>9, <2>1 DEF Handing
  <2>2. CASE d = c /\ m = l
    BY <1>4, <1>9, <2>2
  <2>3. CASE d = c /\ m # l
    <3>1. calls' = [calls EXCEPT ![c].told = @ \cup {l}]
      BY <1>1, <1>9, <2>3
    <3>2. calls'[c].at = "emitting" /\ calls'[c].event = i /\ m \notin calls'[c].told
      BY <1>5, <1>9, <2>3, <3>1 DEF CallRows
    <3> QED BY <1>3, <3>2 DEF Handing
  <2> QED BY <2>1, <2>2, <2>3
<1> QED BY <1>4, <1>6, <1>7, <1>8, <1>9 DEF Handing

LEMMA StreamListens ==
  ASSUME VenueInv, StreamInv, NEW l \in Listeners, Subscribe(l) \/ Replay(l) \/ ReplayThrows(l)
  PROVE  StreamInv'
<1>1. CASE Subscribe(l)
  <2>1. PICK cursor \in 0 .. Len(log) :
          /\ replay' = [replay EXCEPT ![l] = Missed(cursor)]
          /\ from' = [from EXCEPT ![l] = cursor]
    BY <1>1 DEF Subscribe
  <2>2. UNCHANGED <<log, calls, got, hidden, lost>> /\ live' = live \cup {l}
    BY <1>1 DEF Subscribe
  <2>3. /\ from'[l] = cursor /\ replay'[l] = Missed(cursor)
        /\ \A m \in Listeners : m # l => from'[m] = from[m] /\ replay'[m] = replay[m]
        /\ live \subseteq Listeners /\ DOMAIN log = 1 .. Len(log) /\ Len(log) \in Nat
    BY <2>1 DEF VenueInv, Typed
  <2>4. ASSUME NEW i \in DOMAIN log, i > cursor PROVE Replaying(l, i)'
    <3>1. i - cursor \in 1 .. (Len(log) - cursor) /\ cursor + (i - cursor) = i
      BY <2>3, <2>4
    <3>2. /\ DOMAIN Missed(cursor) = 1 .. (Len(log) - cursor)
          /\ \A j \in 1 .. (Len(log) - cursor) : Missed(cursor)[j] = cursor + j
      BY MissedIs
    <3>3. i - cursor \in DOMAIN Missed(cursor) /\ Missed(cursor)[i - cursor] = i
      BY <3>1, <3>2
    <3> QED BY <2>3, <3>3 DEF Replaying
  <2>5. ASSUME NEW m \in live, m # l, NEW i \in DOMAIN log, i > from[m], i \notin hidden \cup lost[m]
        PROVE  i \in got[m] \/ Replaying(m, i)' \/ Handing(m, i)'
    <3>1. i \in got[m] \/ Replaying(m, i) \/ Handing(m, i)
      BY <2>5 DEF StreamInv
    <3>2. Replaying(m, i) => Replaying(m, i)'
      BY <2>3, <2>5 DEF Replaying
    <3>3. Handing(m, i) => Handing(m, i)'
      BY <2>2 DEF Handing
    <3> QED BY <3>1, <3>2, <3>3
  <2> QED BY <2>2, <2>3, <2>4, <2>5 DEF StreamInv
<1>2. CASE Replay(l)
  <2>1. /\ replay[l] # << >> /\ replay[l] \in Seq(Nat)
        /\ got' = [got EXCEPT ![l] = @ \cup {Head(replay[l])}]
        /\ replay' = [replay EXCEPT ![l] = SubSeq(replay[l], 2, Len(replay[l]))]
        /\ UNCHANGED <<log, calls, live, from, hidden, lost>>
    BY <1>2 DEF Replay, VenueInv, Typed
  <2>2. /\ replay'[l] = SubSeq(replay[l], 2, Len(replay[l]))
        /\ \A m \in Listeners : m # l => replay'[m] = replay[m]
        /\ Head(replay[l]) \in got'[l] /\ \A m \in Listeners : got[m] \subseteq got'[m]
        /\ live \subseteq Listeners
    BY <2>1 DEF VenueInv, Typed
  <2>3. ASSUME NEW m \in live, NEW i \in DOMAIN log, i > from[m], i \notin hidden \cup lost[m]
        PROVE  i \in got'[m] \/ Replaying(m, i)' \/ Handing(m, i)'
    <3>1. i \in got[m] \/ Replaying(m, i) \/ Handing(m, i)
      BY <2>3 DEF StreamInv
    <3>2. Handing(m, i) => Handing(m, i)'
      BY <2>1 DEF Handing
    <3>3. CASE Replaying(m, i) /\ m # l
      BY <2>2, <3>3 DEF Replaying
    <3>4. CASE Replaying(m, i) /\ m = l
      <4>1. PICK j \in DOMAIN replay[l] : replay[l][j] = i
        BY <3>4 DEF Replaying
      <4>2. \/ i = Head(replay[l])
            \/ \E n \in DOMAIN SubSeq(replay[l], 2, Len(replay[l])) :
                 SubSeq(replay[l], 2, Len(replay[l]))[n] = i
        BY <2>1, <4>1, RestOf
      <4> QED BY <2>2, <3>4, <4>2 DEF Replaying
    <3> QED BY <2>2, <2>3, <3>1, <3>2, <3>3, <3>4
  <2> QED BY <2>1, <2>3 DEF StreamInv
<1>3. CASE ReplayThrows(l)
  <2>1. /\ lost' = [lost EXCEPT ![l] = @ \cup Unreplayed(l)] /\ replay' = [replay EXCEPT ![l] = << >>]
        /\ UNCHANGED <<log, calls, live, got, from, hidden>>
    BY <1>3 DEF ReplayThrows
  <2>2. /\ lost'[l] = lost[l] \cup Unreplayed(l) /\ DOMAIN lost' = Listeners /\ live \subseteq Listeners
        /\ \A m \in Listeners : m # l => replay'[m] = replay[m] /\ lost'[m] = lost[m]
    <3>1. DOMAIN lost = Listeners
      BY DEF StreamInv
    <3>2. DOMAIN replay = Listeners /\ live \subseteq Listeners
      BY DEF VenueInv, Typed
    <3>3. lost'[l] = lost[l] \cup Unreplayed(l) /\ DOMAIN lost' = Listeners
      BY <2>1, <3>1
    <3>4. \A m \in Listeners : m # l => replay'[m] = replay[m] /\ lost'[m] = lost[m]
      BY <2>1, <3>1, <3>2
    <3> QED BY <3>2, <3>3, <3>4
  <2>3. ASSUME NEW m \in live, NEW i \in DOMAIN log, i > from[m], i \notin hidden \cup lost'[m]
        PROVE  i \in got[m] \/ Replaying(m, i)' \/ Handing(m, i)'
    <3>1. Handing(m, i) => Handing(m, i)'
      BY <2>1 DEF Handing
    <3>2. CASE m # l
      <4>1. i \in got[m] \/ Replaying(m, i) \/ Handing(m, i)
        BY <2>2, <2>3, <3>2 DEF StreamInv
      <4>2. Replaying(m, i) => Replaying(m, i)'
        BY <2>2, <3>2 DEF Replaying
      <4> QED BY <3>1, <4>1, <4>2
    <3>3. CASE m = l
      <4>1. ~Replaying(l, i)
        BY <2>2, <2>3, <3>3 DEF Replaying, Unreplayed
      <4>2. i \notin hidden /\ i \in DOMAIN log /\ i > from[l]
        BY <2>3, <3>3
      <4>3. i \notin lost[l]
        BY <2>2, <2>3, <3>3
      <4> QED BY <2>3, <3>1, <3>3, <4>1, <4>2, <4>3 DEF StreamInv
    <3> QED BY <3>2, <3>3
  <2> QED BY <2>1, <2>2, <2>3 DEF StreamInv
<1> QED BY <1>1, <1>2, <1>3

LEMMA StreamStep == VenueInv /\ StreamInv /\ [Next]_vars => StreamInv'
<1> SUFFICES ASSUME VenueInv, StreamInv, [Next]_vars PROVE StreamInv'
  OBVIOUS
<1>1. CASE UNCHANGED vars \/ Mute
  BY <1>1, StreamStays DEF vars, Mute
<1>2. ASSUME NEW o \in Orders, Submit(o) PROVE StreamInv'
  <2>1. PICK k : k = Call("submit", o, "judge", {})
    OBVIOUS
  <2>2. "submit" \in Kinds /\ "judge" \in Awaits \cup {"thrown"} /\ {} \in SUBSET Orders
    BY DEF Kinds, Awaits, Parked
  <2>3. k \in CallRows
    BY <2>1, <2>2, CallTyped
  <2>4. Emit(Len(calls) + 1, k, o, "ACKNOWLEDGED", 0, "judge") /\ UNCHANGED streamVars
    BY <1>2, <2>1 DEF Submit, NewCall
  <2>5. Len(calls) + 1 \notin DOMAIN calls
    <3>1. calls \in Seq(CallRows)
      BY DEF VenueInv, Typed
    <3> QED BY <3>1
  <2> QED BY <2>3, <2>4, <2>5, StreamGrows
<1>3. ASSUME NEW o \in Orders, Cancel(o) PROVE StreamInv'
  <2>1. PICK k : k = Call("cancel", o, "cancelling", {})
    OBVIOUS
  <2>2. "cancel" \in Kinds /\ "cancelling" \in Awaits \cup {"thrown"} /\ {} \in SUBSET Orders
    BY DEF Kinds, Awaits, Parked
  <2>3. k \in CallRows
    BY <2>1, <2>2, CallTyped
  <2>4. Emit(Len(calls) + 1, k, o, "CANCEL_PENDING", 0, "cancelling") /\ UNCHANGED streamVars
    BY <1>3, <2>1 DEF Cancel, NewCall
  <2>5. Len(calls) + 1 \notin DOMAIN calls
    <3>1. calls \in Seq(CallRows)
      BY DEF VenueInv, Typed
    <3> QED BY <3>1
  <2> QED BY <2>3, <2>4, <2>5, StreamGrows
<1>4. CASE Tick \/ Expire \/ \E o \in Orders : SubmitAgain(o)
  BY <1>4, StreamAppends DEF Tick, Expire, SubmitAgain
<1>5. ASSUME NEW c \in DOMAIN calls, DeliverThrows(c) PROVE StreamInv'
  <2>1. /\ Goto(c, "thrown") /\ hidden' = hidden \cup {calls[c].event}
        /\ UNCHANGED <<log, streamVars>>
    BY <1>5 DEF DeliverThrows
  <2>2. DOMAIN calls' = DOMAIN calls /\ \A d \in DOMAIN calls : d # c => calls'[d] = calls[d]
    BY <2>1 DEF Goto
  <2> QED BY <2>1, <2>2, StreamStays DEF streamVars
<1>6. ASSUME NEW c \in DOMAIN calls, Step(c) PROVE StreamInv'
  BY <1>5, <1>6, StreamCalls, StreamDelivers DEF Step
<1>7. CASE \E l \in Listeners : Subscribe(l) \/ Replay(l) \/ ReplayThrows(l)
  BY <1>7, StreamListens
<1> QED BY <1>1, <1>2, <1>3, <1>4, <1>6, <1>7 DEF Next

\* Once nothing is being handed out, a listener holds every event after its cursor
\* but those the stream dropped while muted, lost to a throw, or left of a replay it
\* threw in itself, wherever between replay and live stream it subscribed (subscribe).
THEOREM VenueLeavesNoGap == VenueSpec => []NoGapAfterCursor
<1>1. VenueInit => VenueInv /\ StreamInv
  BY VenueInitInv DEF VenueInit, Init, StreamInv
<1>2. VenueInv /\ StreamInv /\ [VenueNext]_venueVars => VenueInv' /\ StreamInv'
  BY VenueStep, StreamStep DEF VenueNext, venueVars, vars
<1>3. VenueInv /\ StreamInv => NoGapAfterCursor
  <2> SUFFICES ASSUME VenueInv, StreamInv, Settled, NEW l \in live,
                      NEW i \in DOMAIN log, i > from[l], i \notin hidden \cup lost[l]
               PROVE  i \in got[l]
    BY DEF NoGapAfterCursor
  <2>1. replay[l] = << >>
    BY DEF Settled, VenueInv, Typed
  <2>2. ~Replaying(l, i)
    BY <2>1 DEF Replaying
  <2>3. ~Handing(l, i)
    BY DEF Handing, Settled, Emitting
  <2> QED BY <2>2, <2>3 DEF StreamInv
<1> QED BY <1>1, <1>2, <1>3, PTL DEF VenueSpec

--------------------------------------------------------------------------------
(* The cash half.  The sums of the instance are those of the lemmas.           *)

LEMMA CashSum ==
  ASSUME NEW fun, NEW S
  PROVE  Cash!SumFunctionOnSet(fun, S) = SumFunctionOnSet(fun, S)
<1>1. Cash!SumFunctionOnSet(fun, S) = Partial(fun, S)[S]
  BY DEF Cash!SumFunctionOnSet, Cash!FoldFunctionOnSet, Cash!MapThenFoldSet, Partial, Turn, Some
<1> QED BY <1>1, SumIsPartial

TransferRows == [direction : Cash!Directions, amount : Amounts, state : {"PENDING", "SETTLED", "FAILED"}]
SettledAnswers == [s \in Cash!Settlements |-> Cash!Moved(s[2])]

CashTyped ==
  /\ accountCash \in Int /\ heldFunding \in Int /\ provisioned \in BOOLEAN
  /\ lastId \in 0 .. MaxTransfers
  /\ DOMAIN transfers \subseteq 1 .. lastId
  /\ \A i \in DOMAIN transfers : transfers[i] \in TransferRows
  /\ answered \in [1 .. MaxTransfers -> SUBSET TransferRows]
  /\ IsFiniteSet(Cash!Settlements)

\* Funding that has not landed is all the account has.
FundingFirst ==
  /\ ~provisioned => accountCash = 0 /\ heldFunding = 0 /\ lastId = 0
  /\ heldFunding # 0 => accountCash = 0 /\ lastId = 0

\* A transfer ends once, and one that is still pending was never told to have ended.
EndsOnce ==
  /\ \A i \in 1 .. MaxTransfers : i > lastId => answered[i] = {}
  /\ \A i \in DOMAIN transfers : transfers[i].state = "PENDING" => Cash!Ended(i) = {}
  /\ \A i \in 1 .. MaxTransfers : \A a, b \in Cash!Ended(i) : a = b

CashAdds == provisioned => accountCash + heldFunding = StartingCash + Cash!SettledSum

CashInv == CashTyped /\ FundingFirst /\ EndsOnce /\ CashAdds

LEMMA MovedType ==
  ASSUME NEW t \in TransferRows
  PROVE  Cash!Moved(t) \in Int
<1>1. t.amount \in Amounts
  BY DEF TransferRows
<1>2. t.amount \in Int
  BY <1>1, CashAssumption
<1> QED BY <1>2 DEF Cash!Moved

LEMMA SettlementsAre ==
  ASSUME CashTyped
  PROVE  /\ \A s \in Cash!Settlements : s[2] \in TransferRows
         /\ \A i \in 1 .. MaxTransfers : \A t :
              <<i, t>> \in Cash!Settlements <=> t \in answered[i] /\ t.state = "SETTLED"
         /\ \A s \in Cash!Settlements : \E i \in 1 .. MaxTransfers, t \in TransferRows : s = <<i, t>>
<1>1. \A s \in Cash!Settlements : \E i \in 1 .. MaxTransfers : \E t \in answered[i] :
        s = <<i, t>> /\ t.state = "SETTLED"
  BY DEF Cash!Settlements
<1>2. \A i \in 1 .. MaxTransfers : answered[i] \subseteq TransferRows
  BY DEF CashTyped
<1>3. \A i \in 1 .. MaxTransfers : \A t : t \in answered[i] /\ t.state = "SETTLED" => <<i, t>> \in Cash!Settlements
  BY DEF Cash!Settlements
<1> QED BY <1>1, <1>2, <1>3

\* Nothing is settled while no transfer was made.
LEMMA NothingSettled ==
  ASSUME CashTyped, EndsOnce, lastId = 0
  PROVE  Cash!SettledSum = 0
<1>1. \A i \in 1 .. MaxTransfers : answered[i] = {}
  BY DEF EndsOnce
<1>2. Cash!Settlements = {}
  BY <1>1 DEF Cash!Settlements
<1>3. SumFunctionOnSet(SettledAnswers, {}) = 0
  BY SumTurn, FS_EmptySet
<1> QED BY <1>2, <1>3, CashSum DEF Cash!SettledSum, SettledAnswers

LEMMA SumIsInt ==
  ASSUME CashTyped
  PROVE  Cash!SettledSum \in Int
<1>1. \A s \in Cash!Settlements : SettledAnswers[s] \in Int
  BY SettlementsAre, MovedType DEF SettledAnswers
<1>2. SumFunctionOnSet(SettledAnswers, Cash!Settlements) \in Int
  BY <1>1, SumType DEF CashTyped
<1> QED BY <1>2, CashSum DEF Cash!SettledSum, SettledAnswers

\* What one more answer adds to the sum.
LEMMA AnswerAdds ==
  ASSUME CashTyped, NEW i \in 1 .. MaxTransfers, NEW t \in TransferRows,
         answered' = [answered EXCEPT ![i] = @ \cup {t}],
         t.state = "SETTLED" => Cash!Ended(i) = {}
  PROVE  /\ answered' \in [1 .. MaxTransfers -> SUBSET TransferRows]
         /\ IsFiniteSet(Cash!Settlements')
         /\ Cash!SettledSum' = Cash!SettledSum + (IF t.state = "SETTLED" THEN Cash!Moved(t) ELSE 0)
<1>1. /\ answered' \in [1 .. MaxTransfers -> SUBSET TransferRows]
      /\ \A k \in 1 .. MaxTransfers : answered'[k] = IF k = i THEN answered[i] \cup {t} ELSE answered[k]
  BY DEF CashTyped
<1> DEFINE S == Cash!Settlements
           T == Cash!Settlements'
<1>2. T = UNION {{<<k, a>> : a \in {b \in answered'[k] : b.state = "SETTLED"}} : k \in 1 .. MaxTransfers}
  BY DEF Cash!Settlements
<1>3. S = UNION {{<<k, a>> : a \in {b \in answered[k] : b.state = "SETTLED"}} : k \in 1 .. MaxTransfers}
  BY DEF Cash!Settlements
<1>4. CASE t.state # "SETTLED"
  <2>1. \A k \in 1 .. MaxTransfers :
          {b \in answered'[k] : b.state = "SETTLED"} = {b \in answered[k] : b.state = "SETTLED"}
    BY <1>1, <1>4
  <2>2. T = S
    BY <1>2, <1>3, <2>1
  <2>3. Cash!SettledSum' = Cash!SettledSum
    BY <2>2 DEF Cash!SettledSum, Cash!Moved
  <2>4. Cash!SettledSum \in Int
    BY SumIsInt
  <2> QED BY <1>1, <1>4, <2>2, <2>3, <2>4 DEF CashTyped
<1>5. CASE t.state = "SETTLED"
  <2>1. T = S \cup {<<i, t>>}
    <3>1. \A x \in T : x \in S \cup {<<i, t>>}
      BY <1>1, <1>2, <1>3
    <3>2. <<i, t>> \in T
      BY <1>1, <1>2, <1>5
    <3>3. \A x \in S : x \in T
      BY <1>1, <1>2, <1>3
    <3> QED BY <3>1, <3>2, <3>3
  <2>2. <<i, t>> \notin S
    BY <1>5, SettlementsAre DEF Cash!Ended
  <2>3. IsFiniteSet(S) /\ IsFiniteSet(T)
    BY <2>1, FS_AddElement DEF CashTyped
  <2> DEFINE gun == [s \in T |-> Cash!Moved(s[2])]
  <2>4. Cash!SettledSum' = SumFunctionOnSet(gun, T)
    BY CashSum DEF Cash!SettledSum, Cash!Moved
  <2>5. Cash!SettledSum = SumFunctionOnSet(SettledAnswers, S)
    BY CashSum DEF Cash!SettledSum, SettledAnswers
  <2>6. /\ \A s \in S : SettledAnswers[s] \in Int
        /\ \A s \in T : gun[s] \in Int
        /\ \A s \in S \ {<<i, t>>} : SettledAnswers[s] = gun[s]
        /\ gun[<<i, t>>] = Cash!Moved(t)
    BY <2>1, SettlementsAre, MovedType DEF SettledAnswers
  <2>7. T \ {<<i, t>>} = S \ {<<i, t>>}
    BY <2>1
  <2>8. <<i, t>> \in T /\ Cash!Moved(t) \in Int
    BY <2>1, MovedType
  <2> HIDE DEF S, T, gun
  <2>9. /\ SumFunctionOnSet(SettledAnswers, S) \in Int
        /\ SumFunctionOnSet(gun, T) =
             SumFunctionOnSet(SettledAnswers, S) - Share(SettledAnswers, S, <<i, t>>) + Share(gun, T, <<i, t>>)
    BY <2>3, <2>6, <2>7, SumMoves
  <2>10. Cash!SettledSum' = Cash!SettledSum + Cash!Moved(t)
    BY <2>2, <2>4, <2>5, <2>6, <2>8, <2>9 DEF Share
  <2> QED BY <1>1, <1>5, <2>3, <2>10 DEF T
<1> QED BY <1>4, <1>5

\* A step that answers nothing.
LEMMA CashStays ==
  ASSUME UNCHANGED answered
  PROVE  /\ Cash!Settlements' = Cash!Settlements /\ Cash!SettledSum' = Cash!SettledSum
         /\ \A i : Cash!Ended(i)' = Cash!Ended(i)
BY DEF Cash!Settlements, Cash!SettledSum, Cash!Ended, Cash!Moved

LEMMA CashInitInv == Cash!Init => CashInv
<1> SUFFICES ASSUME Cash!Init PROVE CashInv
  OBVIOUS
<1>1. answered = [i \in 1 .. MaxTransfers |-> {}] /\ lastId = 0 /\ transfers = << >>
  BY DEF Cash!Init
<1>2. Cash!Settlements = {}
  BY <1>1 DEF Cash!Settlements
<1>3. DOMAIN transfers = {}
  BY <1>1
<1>4. CashTyped
  <2>1. IsFiniteSet(Cash!Settlements)
    BY <1>2, FS_EmptySet
  <2>2. accountCash \in Int /\ heldFunding \in Int /\ provisioned \in BOOLEAN
    <3>1. accountCash = 0 /\ heldFunding = 0
      BY DEF Cash!Init
    <3>2. provisioned = FALSE
      BY DEF Cash!Init
    <3>3. provisioned \in BOOLEAN
      BY <3>2
    <3> QED BY <3>1, <3>3
  <2>3. answered \in [1 .. MaxTransfers -> SUBSET TransferRows]
    BY <1>1
  <2>4. 0 \in 0 .. MaxTransfers
    BY CashAssumption
  <2>5. DOMAIN transfers \subseteq 1 .. lastId /\ \A i \in DOMAIN transfers : transfers[i] \in TransferRows
    BY <1>3
  <2>6. lastId \in 0 .. MaxTransfers
    BY <1>1, <2>4
  <2> QED BY <2>1, <2>2, <2>3, <2>5, <2>6 DEF CashTyped
<1>5. EndsOnce
  BY <1>1, <1>3 DEF EndsOnce, Cash!Ended
<1> QED BY <1>4, <1>5 DEF Cash!Init, CashInv, FundingFirst, CashAdds

LEMMA FundingKeeps ==
  ASSUME CashInv, Cash!ProvisionAccount \/ Cash!ReleaseFunding \/ Cash!FailNextTransfer \/ Cash!ForgetTransfers
  PROVE  CashInv'
<1>1. UNCHANGED <<lastId, answered>>
  BY DEF Cash!ProvisionAccount, Cash!ReleaseFunding, Cash!FailNextTransfer, Cash!ForgetTransfers
<1>2. /\ Cash!Settlements' = Cash!Settlements /\ Cash!SettledSum' = Cash!SettledSum
      /\ \A i : Cash!Ended(i)' = Cash!Ended(i)
  BY <1>1, CashStays
<1>3. lastId = 0 => Cash!SettledSum = 0
  BY NothingSettled DEF CashInv
<1>4. Cash!SettledSum \in Int
  BY SumIsInt DEF CashInv
<1>5. transfers' = transfers \/ transfers' = << >>
  BY DEF Cash!ProvisionAccount, Cash!ReleaseFunding, Cash!FailNextTransfer, Cash!ForgetTransfers
<1>6. /\ DOMAIN transfers' \subseteq DOMAIN transfers
      /\ \A i \in DOMAIN transfers' : transfers'[i] = transfers[i]
  BY <1>5
<1>7. /\ accountCash' \in Int /\ heldFunding' \in Int /\ provisioned' \in BOOLEAN
      /\ FundingFirst' /\ CashAdds'
  <2>1. CASE Cash!ProvisionAccount
    BY <1>1, <1>2, <1>3, <2>1, CashAssumption DEF Cash!ProvisionAccount, CashInv, CashTyped, FundingFirst, CashAdds
  <2>2. CASE Cash!ReleaseFunding
    BY <1>1, <1>2, <1>3, <1>4, <2>2 DEF Cash!ReleaseFunding, CashInv, CashTyped, FundingFirst, CashAdds
  <2>3. CASE Cash!FailNextTransfer \/ Cash!ForgetTransfers
    <3>1. UNCHANGED <<accountCash, heldFunding, provisioned>>
      BY <2>3 DEF Cash!FailNextTransfer, Cash!ForgetTransfers
    <3> QED BY <1>1, <1>2, <3>1 DEF CashInv, CashTyped, FundingFirst, CashAdds
  <2> QED BY <2>1, <2>2, <2>3
<1>8. CashTyped'
  BY <1>1, <1>2, <1>6, <1>7 DEF CashInv, CashTyped
<1>9. EndsOnce'
  BY <1>1, <1>2, <1>6 DEF CashInv, EndsOnce
<1> QED BY <1>7, <1>8, <1>9 DEF CashInv

\* A record of a transfer, new or ended, and the answer that gives it.
Recorded(i, t) ==
  /\ provisioned /\ heldFunding = 0 /\ UNCHANGED <<heldFunding, provisioned>>
  /\ lastId' \in 0 .. MaxTransfers /\ lastId' >= lastId /\ i <= lastId'
  /\ DOMAIN transfers' = DOMAIN transfers \cup {i} /\ transfers'[i] = t
  /\ \A k \in DOMAIN transfers : k # i => transfers'[k] = transfers[k]
  /\ answered' = [answered EXCEPT ![i] = @ \cup {t}]
  /\ accountCash' = accountCash + (IF t.state = "SETTLED" THEN Cash!Moved(t) ELSE 0)

LEMMA RecordKeeps ==
  ASSUME CashInv, NEW i \in 1 .. MaxTransfers, NEW t \in TransferRows, Recorded(i, t), Cash!Ended(i) = {}
  PROVE  CashInv'
<1> USE DEF Recorded
<1>1. /\ answered' \in [1 .. MaxTransfers -> SUBSET TransferRows]
      /\ IsFiniteSet(Cash!Settlements')
      /\ Cash!SettledSum' = Cash!SettledSum + (IF t.state = "SETTLED" THEN Cash!Moved(t) ELSE 0)
  BY AnswerAdds DEF CashInv
<1>2. Cash!SettledSum \in Int /\ Cash!Moved(t) \in Int
  BY SumIsInt, MovedType DEF CashInv
<1>3. lastId \in Nat /\ lastId' \in Nat /\ accountCash \in Int
  BY CashAssumption DEF CashInv, CashTyped
<1>4. CashTyped'
  BY <1>1, <1>2, <1>3 DEF CashInv, CashTyped
<1>5. CashAdds' /\ FundingFirst'
  BY <1>1, <1>2, <1>3, CashAssumption DEF CashInv, CashTyped, CashAdds, FundingFirst
<1>6. \A k \in 1 .. MaxTransfers : answered'[k] = IF k = i THEN answered[i] \cup {t} ELSE answered[k]
  BY DEF CashInv, CashTyped
<1>7. \A k \in 1 .. MaxTransfers : k # i => Cash!Ended(k)' = Cash!Ended(k)
  BY <1>6 DEF Cash!Ended
<1>8. Cash!Ended(i)' = IF t.state # "PENDING" THEN {t} ELSE {}
  BY <1>6 DEF Cash!Ended
<1>9. EndsOnce'
  <2>1. \A k \in 1 .. MaxTransfers : k > lastId' => answered'[k] = {}
    BY <1>3, <1>6 DEF CashInv, EndsOnce
  <2>2. \A k \in DOMAIN transfers' : transfers'[k].state = "PENDING" => Cash!Ended(k)' = {}
    <3>1. DOMAIN transfers \subseteq 1 .. MaxTransfers
      BY <1>3, CashAssumption DEF CashInv, CashTyped
    <3> QED BY <1>7, <1>8, <3>1 DEF CashInv, EndsOnce
  <2>3. \A k \in 1 .. MaxTransfers : \A a, b \in Cash!Ended(k)' : a = b
    BY <1>7, <1>8 DEF CashInv, EndsOnce
  <2> QED BY <2>1, <2>2, <2>3 DEF EndsOnce
<1> QED BY <1>4, <1>5, <1>9 DEF CashInv

LEMMA InitiateKeeps ==
  ASSUME CashInv, Cash!Initiate
  PROVE  CashInv'
<1>1. provisioned /\ heldFunding = 0 /\ UNCHANGED <<heldFunding, provisioned>>
  BY DEF Cash!Initiate
<1>2. CASE fault # "none"
  <2>1. UNCHANGED <<accountCash, transfers, lastId, answered>>
    BY <1>2 DEF Cash!Initiate
  <2> QED BY <1>1, <2>1, CashStays DEF CashInv, CashTyped, FundingFirst, EndsOnce, CashAdds
<1>3. CASE fault = "none"
  <2>1. lastId < MaxTransfers /\ lastId' = lastId + 1
    BY <1>3 DEF Cash!Initiate
  <2>2. lastId \in Nat /\ lastId' \in 1 .. MaxTransfers /\ lastId' > lastId
    BY <2>1, CashAssumption DEF CashInv, CashTyped
  <2>3. PICK dir \in Cash!Directions, amount \in Amounts, hold \in BOOLEAN :
          LET t == Cash!Record(dir, amount, IF hold THEN "PENDING" ELSE "SETTLED") IN
          /\ transfers' = [i \in DOMAIN transfers \cup {lastId'} |-> IF i = lastId' THEN t ELSE transfers[i]]
          /\ accountCash' = IF hold THEN accountCash ELSE accountCash + Cash!Moved(t)
          /\ Cash!Answer(lastId')
    BY <1>3 DEF Cash!Initiate
  <2>4. PICK t : t = Cash!Record(dir, amount, IF hold THEN "PENDING" ELSE "SETTLED")
    OBVIOUS
  <2>5. t \in TransferRows /\ t.state = IF hold THEN "PENDING" ELSE "SETTLED"
    BY <2>4 DEF TransferRows, Cash!Record
  <2>6. /\ transfers' = [i \in DOMAIN transfers \cup {lastId'} |-> IF i = lastId' THEN t ELSE transfers[i]]
        /\ accountCash' = IF hold THEN accountCash ELSE accountCash + Cash!Moved(t)
        /\ Cash!Answer(lastId')
    BY <2>3, <2>4
  <2>7. /\ DOMAIN transfers' = DOMAIN transfers \cup {lastId'} /\ transfers'[lastId'] = t
        /\ \A k \in DOMAIN transfers : k # lastId' => transfers'[k] = transfers[k]
    BY <2>6
  <2>8. answered' = [answered EXCEPT ![lastId'] = @ \cup {t}]
    BY <2>6, <2>7 DEF Cash!Answer
  <2>9. accountCash' = accountCash + (IF t.state = "SETTLED" THEN Cash!Moved(t) ELSE 0)
    BY <2>5, <2>6 DEF CashInv, CashTyped
  <2>10. Cash!Ended(lastId') = {}
    BY <2>2 DEF Cash!Ended, CashInv, EndsOnce
  <2>11. PICK n \in 1 .. MaxTransfers : n = lastId'
    BY <2>2
  <2>12. Recorded(n, t)
    BY <1>1, <2>2, <2>7, <2>8, <2>9, <2>11 DEF Recorded
  <2> QED BY <2>5, <2>10, <2>11, <2>12, RecordKeeps
<1> QED BY <1>2, <1>3

LEMMA TransferEndKeeps ==
  ASSUME CashInv, NEW i \in 1 .. MaxTransfers, Cash!CompleteTransfer(i) \/ Cash!FailTransfer(i)
  PROVE  CashInv'
<1>1. Cash!Open(i) /\ UNCHANGED <<heldFunding, provisioned, lastId>>
  BY DEF Cash!CompleteTransfer, Cash!FailTransfer
<1>2. /\ i \in DOMAIN transfers /\ transfers[i].state = "PENDING" /\ transfers[i] \in TransferRows
      /\ i <= lastId /\ lastId \in 0 .. MaxTransfers /\ lastId \in Nat
  BY <1>1, CashAssumption DEF Cash!Open, CashInv, CashTyped
<1>3. provisioned /\ heldFunding = 0
  BY <1>2 DEF CashInv, FundingFirst, CashTyped
<1>4. Cash!Ended(i) = {}
  BY <1>2 DEF CashInv, EndsOnce
<1>5. PICK s \in {"SETTLED", "FAILED"} :
        /\ transfers' = [transfers EXCEPT ![i].state = s] /\ Cash!Answer(i)
        /\ accountCash' = accountCash + (IF s = "SETTLED" THEN Cash!Moved(transfers[i]) ELSE 0)
  BY DEF Cash!CompleteTransfer, Cash!FailTransfer, CashInv, CashTyped
<1>6. PICK t : t = [transfers[i] EXCEPT !.state = s]
  OBVIOUS
<1>7. t \in TransferRows /\ t.state = s /\ t.direction = transfers[i].direction /\ t.amount = transfers[i].amount
  BY <1>2, <1>6 DEF TransferRows
<1>8. Cash!Moved(t) = Cash!Moved(transfers[i])
  BY <1>7 DEF Cash!Moved
<1>9. /\ DOMAIN transfers' = DOMAIN transfers \cup {i} /\ transfers'[i] = t
      /\ \A k \in DOMAIN transfers : k # i => transfers'[k] = transfers[k]
  BY <1>2, <1>5, <1>6
<1>10. answered' = [answered EXCEPT ![i] = @ \cup {t}]
  BY <1>5, <1>9 DEF Cash!Answer
<1>11. Recorded(i, t)
  BY <1>1, <1>2, <1>3, <1>5, <1>7, <1>8, <1>9, <1>10 DEF Recorded
<1> QED BY <1>4, <1>7, <1>11, RecordKeeps

LEMMA CashStep == CashInv /\ [Cash!Next]_cashVars => CashInv'
<1> SUFFICES ASSUME CashInv, [Cash!Next]_cashVars PROVE CashInv'
  OBVIOUS
<1>1. CASE UNCHANGED cashVars
  BY <1>1, CashStays DEF cashVars, CashInv, CashTyped, FundingFirst, EndsOnce, CashAdds
<1>2. CASE Cash!Next
  BY <1>2, FundingKeeps, InitiateKeeps, TransferEndKeeps DEF Cash!Next
<1> QED BY <1>1, <1>2

\* Whatever is held, failed or forgotten, the venue's cash is the funding plus the
\* transfers a caller was told had settled, each once, and none of them was also
\* told to have failed (completeTransfer, failTransfer, forgetTransfers).
THEOREM VenueCashAddsUp == VenueSpec => []CashIsWhatSettled
<1>1. VenueInit => CashInv
  BY CashInitInv DEF VenueInit
<1>2. CashInv /\ [VenueNext]_venueVars => CashInv'
  BY CashStep DEF VenueNext, venueVars, cashVars
<1>3. CashInv => CashIsWhatSettled
  BY DEF CashInv, CashAdds, EndsOnce, CashIsWhatSettled, Cash!CashIsWhatSettled
<1> QED BY <1>1, <1>2, <1>3, PTL DEF VenueSpec
================================================================================
