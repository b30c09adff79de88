------------------------------ MODULE QuoteCache ------------------------------
(***************************************************************************)
(* Prices on screen (infra/market-data/cached, server/api/market): the       *)
(* vendor's quotes behind a cache in two layers, a memo in each server and    *)
(* rows every server shares; and the instruments a page or a list of them     *)
(* is about, registered on first sight (core/instruments) and kept in step    *)
(* with the venue's listing by a script (scripts/sync-instruments).           *)
(*                                                                         *)
(* A quote is the tick at which the vendor had it.  A request is served by    *)
(* one server: an instrument's page, through getQuote, or a list of symbols,  *)
(* through getQuotes.                                                       *)
(***************************************************************************)
EXTENDS Integers, FiniteSets, Functions

CONSTANTS
  Pages, Lists,         \* requests: of an instrument's page, of a list
  Servers, Server,      \* Server[r]: who serves request r
  Symbols,
  QuoteOpen, QuoteClosed, StatusTtl,    \* TTL_MS, in ticks
  MaxTick               \* bound on the clock

VARIABLES
  tick, session,
  opened,       \* when the market opened, or Never
  feed,         \* the symbols the venue lists and the vendor quotes
  instruments,  \* symbol -> its row
  cached,       \* symbol -> the shared row
  memo,         \* server -> symbol -> what it remembers
  status,       \* server -> the market status it remembers
  sync,         \* the script: its step and the list it fetched
  request       \* request -> how far it is

quoteVars == << tick, session, opened, feed, instruments, cached, memo,
                status, sync, request >>
world == << tick, session, opened, feed >>

Never == -1
NoQuote == -1
Requests == Pages \cup Lists
Empty == [ quote |-> NoQuote, staleAfter |-> Never ]
Unknown == [ value |-> "CLOSED", staleAfter |-> Never ]
NoRow == [ name |-> "none", status |-> "none" ]
AtRest == [ pc |-> "idle", about |-> {}, stage |-> "list", now |-> 0, ttl |-> 0,
            out |-> [ s \in Symbols |-> NoQuote ], expired |-> [ s \in Symbols |-> NoQuote ],
            fresh |-> {}, down |-> FALSE ]

QuoteInit ==
  /\ tick = 0 /\ session \in { "OPEN", "CLOSED" }
  /\ opened = IF session = "OPEN" THEN 0 ELSE Never
  /\ feed = Symbols
  /\ instruments = [ s \in Symbols |-> NoRow ]
  /\ cached = [ s \in Symbols |-> Empty ]
  /\ memo = [ m \in Servers |-> cached ]
  /\ status = [ m \in Servers |-> Unknown ]
  /\ sync = [ pc |-> "idle", assets |-> {} ]
  /\ request = [ r \in Requests |-> AtRest ]

-----------------------------------------------------------------------------
\* The market, the vendor and the venue.
(* What a server remembers is of no use once expired: it is forgotten here. *)
PassTick ==
  /\ tick < MaxTick
  /\ tick' = tick + 1
  /\ memo' = [ m \in Servers |-> [ s \in Symbols |->
       IF memo[m][s].staleAfter > tick + 1 THEN memo[m][s] ELSE Empty ] ]
  /\ status' = [ m \in Servers |-> IF status[m].staleAfter > tick + 1 THEN status[m] ELSE Unknown ]
  /\ UNCHANGED << session, opened, feed, instruments, cached, sync, request >>
OpenMarket ==
  /\ session = "CLOSED"
  /\ session' = "OPEN" /\ opened' = tick
  /\ UNCHANGED << tick, feed, instruments, cached, memo, status, sync, request >>
Delist(s) ==
  /\ s \in feed
  /\ feed' = feed \ { s }
  /\ UNCHANGED << tick, session, opened, instruments, cached, memo, status, sync, request >>

-----------------------------------------------------------------------------
\* The instruments: registered by a request, listed and delisted by the script.
Placeholder(s) == [ name |-> "symbol", status |-> "ACTIVE" ]
(* What registering s leaves of its row: reference data is kept. *)
Registered(s) ==
  [ name |-> IF instruments[s].name = "none" THEN "symbol" ELSE instruments[s].name,
    status |-> "ACTIVE" ]

FetchAssets ==
  /\ sync.pc = "idle"
  /\ sync' = [ pc |-> "upsert", assets |-> feed ]
  /\ UNCHANGED << world, instruments, cached, memo, status, request >>
UpsertAssets ==
  /\ sync.pc = "upsert"
  /\ instruments' = [ s \in Symbols |->
       IF s \in sync.assets THEN [ name |-> "reference", status |-> "ACTIVE" ]
       ELSE instruments[s] ]
  /\ sync' = [ sync EXCEPT !.pc = "sweep" ]
  /\ UNCHANGED << world, cached, memo, status, request >>
(* A symbol only a request registered is not the script's to retire. *)
SweepAssets ==
  /\ sync.pc = "sweep"
  /\ instruments' = [ s \in Symbols |->
       IF s \notin sync.assets /\ instruments[s].name = "reference"
         THEN [ instruments[s] EXCEPT !.status = "INACTIVE" ] ELSE instruments[s] ]
  /\ sync' = [ pc |-> "done", assets |-> {} ]
  /\ UNCHANGED << world, cached, memo, status, request >>

-----------------------------------------------------------------------------
\* A request.
IsPage(r) == request[r].stage \in { "register", "page" }
Fresh(entry, now) == entry.staleAfter > now
Missing(r) == { s \in request[r].about : request[r].out[s] = NoQuote }
Took(r, f) == [ s \in Symbols |-> IF s \in DOMAIN f THEN f[s] ELSE request[r].out[s] ]

(* A request with its quotes: a page may go on to register. *)
Answer(req) ==
  [ req EXCEPT !.pc = IF req.stage = "register" THEN "register" ELSE "shown",
               !.ttl = 0, !.expired = AtRest.expired, !.fresh = {} ]
Fail(req) == [ req EXCEPT !.pc = "unavailable", !.ttl = 0, !.fresh = {} ]

(* The time to live by the status remembered, then the memo. *)
StatusSeen(m) ==
  IF Fresh(status[m], tick) THEN status[m]
  ELSE [ value |-> session, staleAfter |-> tick + StatusTtl ]
Asked(m, about, stage) ==
  LET hits == { s \in about : Fresh(memo[m][s], tick) }
      req == [ AtRest EXCEPT !.about = about, !.stage = stage, !.now = tick,
                 !.ttl = IF StatusSeen(m).value = "OPEN" THEN QuoteOpen ELSE QuoteClosed,
                 !.out = [ s \in Symbols |-> IF s \in hits THEN memo[m][s].quote ELSE NoQuote ] ]
  IN  IF hits = about THEN Answer(req) ELSE [ req EXCEPT !.pc = "rows" ]
Check(r, about, stage) ==
  /\ status' = [ status EXCEPT ![Server[r]] = StatusSeen(Server[r]) ]
  /\ request' = [ request EXCEPT ![r] = Asked(Server[r], about, stage) ]
  /\ UNCHANGED << world, cached, memo, sync >>

Ready(r) == request[r].pc \in { "idle", "shown", "unavailable" }
AskList(r) ==
  /\ Ready(r)
  /\ Check(r, Symbols, "list") /\ UNCHANGED instruments
(* getOrRegister: an instrument there is none of yet is quoted first. *)
AskPage(r, s) ==
  /\ Ready(r)
  /\ Check(r, { s }, IF instruments[s] = NoRow THEN "register" ELSE "page")
  /\ UNCHANGED instruments

ReadRows(r) ==
  LET m == Server[r]
      hits == { s \in Missing(r) : Fresh(cached[s], request[r].now) }
      read == [ request[r] EXCEPT !.out = Took(r, [ s \in hits |-> cached[s].quote ]) ]
      stale == [ s \in Symbols |-> IF s \in Missing(r) \ hits THEN cached[s].quote ELSE NoQuote ]
  IN  /\ request[r].pc = "rows"
      /\ memo' = [ memo EXCEPT ![m] = [ s \in Symbols |-> IF s \in hits THEN cached[s] ELSE @[s] ] ]
      /\ request' = [ request EXCEPT ![r] =
           IF hits = Missing(r) THEN Answer(read)
           ELSE [ read EXCEPT !.pc = "load", !.expired = stale ] ]
      /\ UNCHANGED << world, instruments, cached, status, sync >>

(* A failure: what has expired is served, a list's over what it has just     *)
(* loaded; with nothing to serve the request fails.                        *)
Served(r) == [ s \in { x \in Symbols : request[r].expired[x] # NoQuote } |-> request[r].expired[s] ]
Degraded(r, down) ==
  LET served == [ request[r] EXCEPT !.out = Took(r, Served(r)), !.down = down ]
  IN  IF served.out = AtRest.out \/ (IsPage(r) /\ DOMAIN Served(r) = {})
      THEN Fail(served) ELSE Answer(served)

(* An entry lives its time from when the request began, not from when the     *)
(* vendor answered.                                                         *)
FromNow(r) == tick + request[r].ttl
StaleAfter(r) == request[r].now + request[r].ttl

Entry(r, s) == [ quote |-> request[r].out[s], staleAfter |-> StaleAfter(r) ]

Load(r) ==
  LET m == Server[r]
      got == Missing(r) \cap feed
      out == Took(r, [ s \in got |-> tick ])
  IN  /\ request[r].pc = "load"
      /\ IF IsPage(r) /\ got = {}
         THEN /\ request' = [ request EXCEPT ![r] = Degraded(r, FALSE) ]
              /\ UNCHANGED memo
         ELSE /\ request' = [ request EXCEPT ![r] = IF got = {} THEN Answer(@)
                   ELSE [ @ EXCEPT !.out = out, !.fresh = got, !.pc = "save" ] ]
              /\ memo' = IF IsPage(r) THEN memo
                         ELSE [ memo EXCEPT ![m] = [ s \in Symbols |->
                           IF s \in got THEN [ quote |-> tick, staleAfter |-> StaleAfter(r) ]
                           ELSE @[s] ] ]
      /\ UNCHANGED << world, instruments, cached, status, sync >>
LoadFails(r) ==
  /\ request[r].pc = "load"
  /\ request' = [ request EXCEPT ![r] = Degraded(r, TRUE) ]
  /\ UNCHANGED << world, instruments, cached, memo, status, sync >>

SaveRows(r) ==
  LET m == Server[r]
  IN  /\ request[r].pc = "save"
      /\ cached' = [ s \in Symbols |-> IF s \in request[r].fresh THEN Entry(r, s) ELSE cached[s] ]
      /\ memo' = IF ~IsPage(r) THEN memo
                 ELSE [ memo EXCEPT ![m] = [ s \in Symbols |->
                          IF s \in request[r].fresh THEN Entry(r, s) ELSE @[s] ] ]
      /\ request' = [ request EXCEPT ![r] = Answer(@) ]
      /\ UNCHANGED << world, instruments, status, sync >>
SaveFails(r) ==
  /\ request[r].pc = "save"
  /\ request' = [ request EXCEPT ![r] = Degraded(r, TRUE) ]
  /\ UNCHANGED << world, instruments, cached, memo, status, sync >>

(* A quote was had: the instrument is registered, and the page asks again. *)
Register(r) ==
  /\ request[r].pc = "register"
  /\ instruments' = [ s \in Symbols |->
       IF s \in request[r].about THEN Registered(s) ELSE instruments[s] ]
  /\ Check(r, request[r].about, "page")

QuoteNext ==
  \/ PassTick \/ OpenMarket \/ FetchAssets \/ UpsertAssets \/ SweepAssets
  \/ \E s \in Symbols : Delist(s)
  \/ \E r \in Lists : AskList(r)
  \/ \E r \in Pages, s \in Symbols : AskPage(r, s)
  \/ \E r \in Requests :
       \/ ReadRows(r) \/ Load(r) \/ LoadFails(r)
       \/ SaveRows(r) \/ SaveFails(r) \/ Register(r)

-----------------------------------------------------------------------------
(* A price served without the vendor failing is no older than its time to     *)
(* live: the closed market's, and the open market's once the market has been   *)
(* open longer than anything cached before lasts; whichever server, layer or   *)
(* slower request the price came through.                                    *)
FreshEnough ==
  \A r \in Requests : (request[r].pc = "shown" /\ ~request[r].down) =>
    \A s \in request[r].about \cap feed : LET q == request[r].out[s] IN
      q # NoQuote =>
        /\ q > request[r].now - QuoteClosed
        /\ (opened # Never /\ opened + QuoteClosed + StatusTtl <= request[r].now) =>
             q > request[r].now - QuoteOpen

(* The page of an instrument fails only when the vendor or the database does:  *)
(* one the vendor no longer quotes is shown without a price, for its holder    *)
(* to sell.                                                                *)
HolderHasAnExit ==
  \A r \in Requests :
    (request[r].stage = "page" /\ request[r].pc = "unavailable") => request[r].down

(* An answer never takes back for an expired price the newer one it has just  *)
(* loaded.                                                                 *)
KeepsWhatItLoaded ==
  [][\A r \in Requests : (request[r].pc = "save" /\ request'[r].pc = "shown") =>
       \A s \in Symbols : request'[r].out[s] >= request[r].out[s]]_request

(* An instrument's name and exchange, once the venue gave them, stay: though a *)
(* request that found no instrument registers it after the script has.         *)
NamesAreKept ==
  [][\A s \in Symbols : instruments[s].name = "reference" =>
       instruments'[s].name = "reference"]_instruments
=============================================================================
