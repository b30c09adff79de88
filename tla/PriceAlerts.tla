----------------------------- MODULE PriceAlerts -----------------------------
(***************************************************************************)
(* Price alerts (core/alerts, infra/db/repositories/price-alerts.ts): the   *)
(* rows, the API calls that create, delete and read them, and the two kinds *)
(* of evaluation that trigger them: the worker's job, over every symbol in  *)
(* batches, and a user's own GET.  An evaluation asks the cached provider   *)
(* for the market's status and for quotes, decides on what it was told, and *)
(* writes each trigger in a transaction of its own; calls, other            *)
(* evaluations and time come between any two of its awaits.                 *)
(*                                                                          *)
(* Instants are ages, clipped where nothing tells them apart any more.      *)
(***************************************************************************)
EXTENDS Integers, FiniteSetsExt

CONSTANTS
    Alerts,                     \* row ids
    UserOf, SymbolOf, Meets,    \* an alert's terms: Meets[a] is the set of prices its condition holds at
    Users, Symbols, Prices,
    MaxActive,                  \* maxActivePerUser
    MaxAge,                     \* maxQuoteAgeMs
    BatchSize,                  \* quoteBatchSize
    StatusTtl, QuoteTtl,        \* how long the provider keeps the market's status, and a quote
    PassTicks,                  \* bound on the duration of an evaluation
    Clients,                    \* concurrent POST /alerts
    Job, Readers, ReaderUser,   \* the scheduled evaluation; GETs and whose they are
    None

Evaluators == {Job} \union Readers

ASSUME AlertsAssumption ==
    /\ UserOf \in [Alerts -> Users] /\ SymbolOf \in [Alerts -> Symbols]
    /\ Meets \in [Alerts -> SUBSET Prices] /\ ReaderUser \in [Readers -> Users]
    /\ {MaxActive, MaxAge, StatusTtl, QuoteTtl, PassTicks} \subseteq Nat
    /\ BatchSize \in Nat \ {0} /\ PassTicks <= MaxAge
    /\ Job \notin Readers /\ None \notin Alerts \union Users \union Prices

VARIABLES
    row,        \* row[a]: the row of price_alerts, once inserted
    locked,     \* the users whose advisory lock is held
    client,     \* what each create transaction is about to do
    eval,       \* what each evaluation holds in memory
    open,       \* the market is in its regular session
    sinceOpen,  \* age of the last instant at which it was
    live,       \* live[s]: the venue's last quote of s
    cache,      \* cache[s]: the provider's cached quote and how long it is fresh
    memo        \* memo[e]: the status memoized in e's process and for how long

rowVars == <<row, locked, client>>
marketVars == <<open, sinceOpen, live>>
vars == <<rowVars, eval, marketVars, cache, memo>>

Oldest == MaxAge + PassTicks + 1

Quote == [price : Prices, age : 0..Oldest]

NoAlert == [state |-> "NONE", price |-> None]

Active(S) == {a \in S : row[a].state = "ACTIVE"}

SameTerms(a, b) == UserOf[a] = UserOf[b] /\ SymbolOf[a] = SymbolOf[b] /\ Meets[a] = Meets[b]

Duplicates(a) == {b \in Active(Alerts) : SameTerms(a, b)}

AlertsOf(u) == {a \in Alerts : UserOf[a] = u}

IdleEval == [pc |-> "idle", due |-> FALSE]
IdleClient == [pc |-> "idle"]

Init ==
    /\ row = [a \in Alerts |-> NoAlert]
    /\ locked = {}
    /\ client = [c \in Clients |-> IdleClient]
    /\ eval = [e \in Evaluators |-> [pc |-> "idle", due |-> TRUE]]
    /\ open \in BOOLEAN
    /\ sinceOpen = IF open THEN 0 ELSE StatusTtl + PassTicks + 1
    /\ live \in [Symbols -> [price : Prices, age : {0}]]
    /\ cache = [s \in Symbols |-> None]
    /\ memo = [e \in Evaluators |-> [open |-> FALSE, left |-> 0]]

----------------------------------------------------------------------------
(* create: one transaction under the user's advisory lock. *)

\* Mutant: no lock is taken.
LockIgnored(a) == UNCHANGED locked

LockUser(a) ==
    /\ UserOf[a] \notin locked
    /\ locked' = locked \union {UserOf[a]}

BeginCreate(c, a) ==
    /\ client[c].pc = "idle"
    /\ row[a].state = "NONE" /\ \A d \in Clients : client[d].pc # "idle" => client[d].alert # a
    /\ LockUser(a)
    /\ client' = [client EXCEPT ![c] = [pc |-> "check", alert |-> a]]
    /\ UNCHANGED <<row, eval, marketVars, cache, memo>>

EndCreate(c) ==
    /\ client' = [client EXCEPT ![c] = IdleClient]
    /\ locked' = locked \ {UserOf[client[c].alert]}

(* The duplicate found is returned, or the cap refuses.  The two reads are    *)
(* one step: only a trigger or a delete could come between them.             *)
CreateReturns(c) ==
    /\ client[c].pc = "check"
    /\ \/ Duplicates(client[c].alert) # {}
       \/ Cardinality(Active(AlertsOf(UserOf[client[c].alert]))) >= MaxActive
    /\ EndCreate(c)
    /\ UNCHANGED <<row, eval, marketVars, cache, memo>>

MayInsert(c) ==
    /\ client[c].pc = "check"
    /\ Duplicates(client[c].alert) = {}
    /\ Cardinality(Active(AlertsOf(UserOf[client[c].alert]))) < MaxActive
    /\ client' = [client EXCEPT ![c].pc = "insert"]
    /\ UNCHANGED <<row, locked, eval, marketVars, cache, memo>>

(* onConflictDoNothing against the index of ACTIVE terms; a conflict returns  *)
(* the other row.                                                            *)
Insert(c) ==
    /\ client[c].pc = "insert"
    /\ row' = IF Duplicates(client[c].alert) = {}
                THEN [row EXCEPT ![client[c].alert].state = "ACTIVE"] ELSE row
    /\ EndCreate(c)
    /\ UNCHANGED <<eval, marketVars, cache, memo>>

(* The transaction is rolled back, and its lock released with it. *)
CreateAborts(c) ==
    /\ client[c].pc # "idle"
    /\ EndCreate(c)
    /\ UNCHANGED <<row, eval, marketVars, cache, memo>>

----------------------------------------------------------------------------
(* The delete, of a triggered alert too. *)

Cancel(a) ==
    /\ row[a].state \in {"ACTIVE", "TRIGGERED"}
    /\ row' = [row EXCEPT ![a].state = "CANCELED"]
    /\ UNCHANGED <<locked, client, eval, marketVars, cache, memo>>

----------------------------------------------------------------------------
(* Evaluation. *)

Becomes(e, state) == eval' = [eval EXCEPT ![e] = state]

(* listActiveSymbols for the job, listActiveForUser for a reader: nothing is  *)
(* asked of the provider when there is nothing to evaluate.  One evaluation   *)
(* begins at a tick: the job's interval, and a bound on a user's GETs.        *)
StartEvaluation(e) ==
    /\ eval[e].pc = "idle" /\ eval[e].due
    /\ LET listed == Active(IF e = Job THEN Alerts ELSE AlertsOf(ReaderUser[e]))
       IN  /\ listed # {}
           /\ Becomes(e, [pc |-> "status", age |-> 0, alerts |-> IF e = Job THEN {} ELSE listed,
                          todo |-> {SymbolOf[a] : a \in listed}, quotes |-> <<>>])
    /\ UNCHANGED <<rowVars, marketVars, cache, memo>>

\* Mutant: once memoized, a status is good for ever.
RememberedAlways(e) ==
    IF memo[e].open THEN memo[e] ELSE [open |-> open, left |-> StatusTtl]

(* getMarketStatus of the caching provider. *)
Remembered(e) ==
    IF memo[e].left > 0 THEN memo[e] ELSE [open |-> open, left |-> StatusTtl]

ReadStatus(e) ==
    /\ eval[e].pc = "status"
    /\ memo' = [memo EXCEPT ![e] = Remembered(e)]
    /\ IF Remembered(e).open THEN Becomes(e, [eval[e] EXCEPT !.pc = "quotes"])
                             ELSE Becomes(e, IdleEval)
    /\ UNCHANGED <<rowVars, marketVars, cache>>

(* The job's next batch; a reader asks for all its symbols at once. *)
Batch(e, batch) ==
    /\ batch \subseteq eval[e].todo
    /\ Cardinality(batch) = IF e = Job THEN Min({BatchSize, Cardinality(eval[e].todo)})
                                       ELSE Cardinality(eval[e].todo)

(* getQuotes: what is cached and fresh is served from the cache, the rest is   *)
(* asked of the vendor and cached (a symbol it leaves out is absent); if the  *)
(* vendor fails, what expired is served too.                                 *)
Misses(batch) == {s \in batch : cache[s] = None \/ cache[s].left = 0}

Cached(s) == IF cache[s] = None THEN None ELSE [price |-> cache[s].price, age |-> cache[s].age]

Received(e, batch, quotes) ==
    /\ eval[e].pc = "quotes" /\ eval[e].todo # {}
    /\ Batch(e, batch)
    /\ memo' = [memo EXCEPT ![e] = Remembered(e)]
    /\ Becomes(e, [eval[e] EXCEPT !.pc = "list", !.todo = @ \ batch, !.quotes = quotes])
    /\ UNCHANGED <<rowVars, marketVars>>

VendorAnswers(e, batch, fresh) ==
    /\ fresh \subseteq Misses(batch)
    /\ cache' = [s \in Symbols |->
                   IF s \in fresh THEN [price |-> live[s].price, age |-> live[s].age, left |-> QuoteTtl]
                   ELSE cache[s]]
    /\ Received(e, batch, [s \in batch |-> IF s \in fresh THEN live[s]
                                          ELSE IF s \in Misses(batch) THEN None ELSE Cached(s)])

VendorFails(e, batch) ==
    /\ Misses(batch) # {}
    /\ \E s \in batch : cache[s] # None
    /\ Received(e, batch, [s \in batch |-> Cached(s)])
    /\ UNCHANGED cache

(* getQuotes throws: a reader gives up, the job goes on with its next batch.  *)
QuotesFail(e) ==
    /\ eval[e].pc = "quotes"
    /\ \E batch \in SUBSET eval[e].todo \ {{}} :
           /\ Batch(e, batch)
           /\ IF e = Job THEN Becomes(e, [eval[e] EXCEPT !.todo = @ \ batch])
                         ELSE Becomes(e, IdleEval)
    /\ memo' = [memo EXCEPT ![e] = Remembered(e)]
    /\ UNCHANGED <<rowVars, marketVars, cache>>

EndEvaluation(e) ==
    /\ eval[e].pc = "quotes" /\ eval[e].todo = {}
    /\ Becomes(e, IdleEval)
    /\ UNCHANGED <<rowVars, marketVars, cache, memo>>

\* Mutant: a quote exactly as old as allowed is refused.
VerdictStrict(a, quotes) ==
    /\ quotes[SymbolOf[a]] # None
    /\ quotes[SymbolOf[a]].age < MaxAge
    /\ quotes[SymbolOf[a]].price \in Meets[a]

(* evaluateAlert, for an alert listed ACTIVE and a status read as open. *)
Verdict(a, quotes) ==
    /\ quotes[SymbolOf[a]] # None
    /\ quotes[SymbolOf[a]].age <= MaxAge
    /\ quotes[SymbolOf[a]].price \in Meets[a]

(* The job lists the batch's ACTIVE alerts only now, a reader listed its own   *)
(* before; evaluateBatch reads the clock once, so every verdict of the batch  *)
(* is fixed here.                                                             *)
Judge(e) ==
    /\ eval[e].pc = "list"
    /\ LET quotes == eval[e].quotes
           listed == IF e = Job THEN {a \in Active(Alerts) : SymbolOf[a] \in DOMAIN quotes}
                                ELSE eval[e].alerts
       IN  Becomes(e, [eval[e] EXCEPT !.pc = "trigger", !.alerts = {a \in listed : Verdict(a, quotes)}])
    /\ UNCHANGED <<rowVars, marketVars, cache, memo>>

(* The job's listing throws, and the job with it. *)
ListFails ==
    /\ eval[Job].pc = "list"
    /\ Becomes(Job, IdleEval)
    /\ UNCHANGED <<rowVars, marketVars, cache, memo>>

\* Mutant: the state is written without the facts.
MarkTriggeredOnly(a, price) ==
    row' = IF row[a].state = "ACTIVE" THEN [row EXCEPT ![a].state = "TRIGGERED"] ELSE row

\* Mutant: the update is not conditional on the state.
MarkTriggeredAlways(a, price) ==
    row' = [row EXCEPT ![a].state = "TRIGGERED", ![a].price = price]

(* UPDATE ... WHERE id = a AND state = 'ACTIVE' *)
MarkTriggered(a, price) ==
    row' = IF row[a].state = "ACTIVE"
             THEN [row EXCEPT ![a].state = "TRIGGERED", ![a].price = price] ELSE row

Trigger(e, a) ==
    /\ eval[e].pc = "trigger" /\ a \in eval[e].alerts
    /\ MarkTriggered(a, eval[e].quotes[SymbolOf[a]].price)
    /\ Becomes(e, [eval[e] EXCEPT !.alerts = @ \ {a}])
    /\ UNCHANGED <<locked, client, marketVars, cache, memo>>

(* The update throws: the alert is left for the next evaluation. *)
TriggerFails(e, a) ==
    /\ eval[e].pc = "trigger" /\ a \in eval[e].alerts /\ row[a].state = "ACTIVE"
    /\ Becomes(e, [eval[e] EXCEPT !.alerts = @ \ {a}])
    /\ UNCHANGED <<rowVars, marketVars, cache, memo>>

BatchDone(e) ==
    /\ eval[e].pc = "trigger" /\ eval[e].alerts = {}
    /\ Becomes(e, [eval[e] EXCEPT !.pc = "quotes", !.quotes = <<>>])
    /\ UNCHANGED <<rowVars, marketVars, cache, memo>>

(* The process of an evaluation dies, and its memo with it. *)
Crash(e) ==
    /\ eval[e].pc # "idle"
    /\ Becomes(e, IdleEval)
    /\ memo' = [memo EXCEPT ![e].left = 0, ![e].open = FALSE]
    /\ UNCHANGED <<rowVars, marketVars, cache>>

----------------------------------------------------------------------------
(* The market and time. *)

Trade(s) ==
    /\ \E price \in Prices : live' = [live EXCEPT ![s] = [price |-> price, age |-> 0]]
    /\ live' # live
    /\ UNCHANGED <<rowVars, eval, open, sinceOpen, cache, memo>>

OpenOrClose ==
    /\ open' = ~open
    /\ sinceOpen' = 0
    /\ UNCHANGED <<rowVars, eval, live, cache, memo>>

Aged(quote) == IF quote = None THEN None ELSE [quote EXCEPT !.age = Min({@ + 1, Oldest})]

AgedCache(quote) == IF quote = None THEN None
                    ELSE [Aged(quote) EXCEPT !.left = Max({@ - 1, 0})]

AgedEval(state) ==
    IF state.pc = "idle" THEN [pc |-> "idle", due |-> TRUE]
    ELSE [state EXCEPT !.age = @ + 1, !.quotes = [s \in DOMAIN @ |-> Aged(@[s])]]

Tick ==
    /\ \A e \in Evaluators : eval[e].pc # "idle" => eval[e].age < PassTicks
    /\ live' = [s \in Symbols |-> Aged(live[s])]
    /\ cache' = [s \in Symbols |-> AgedCache(cache[s])]
    /\ eval' = [e \in Evaluators |-> AgedEval(eval[e])]
    /\ memo' = [e \in Evaluators |-> [memo[e] EXCEPT !.left = Max({@ - 1, 0})]]
    /\ sinceOpen' = IF open THEN 0 ELSE Min({sinceOpen + 1, StatusTtl + PassTicks + 1})
    /\ UNCHANGED <<rowVars, open>>

----------------------------------------------------------------------------
Create(c) ==
    (\E a \in Alerts : BeginCreate(c, a)) \/ CreateReturns(c) \/ MayInsert(c) \/ Insert(c)
    \/ CreateAborts(c)

Goes(e) ==
    \/ ReadStatus(e) \/ Judge(e) \/ BatchDone(e) \/ EndEvaluation(e)
    \/ \E batch \in SUBSET Symbols : VendorAnswers(e, batch, Misses(batch))
    \/ \E a \in Alerts : Trigger(e, a)

Fails(e) ==
    \/ \E batch \in SUBSET Symbols :
           \/ VendorFails(e, batch)
           \/ \E fresh \in SUBSET batch : fresh # Misses(batch) /\ VendorAnswers(e, batch, fresh)
    \/ QuotesFail(e) \/ (e = Job /\ ListFails) \/ (\E a \in Alerts : TriggerFails(e, a)) \/ Crash(e)

Next ==
    \/ \E c \in Clients : Create(c)
    \/ \E a \in Alerts : Cancel(a)
    \/ \E e \in Evaluators : StartEvaluation(e) \/ Goes(e) \/ Fails(e)
    \/ \E s \in Symbols : Trade(s)
    \/ OpenOrClose \/ Tick

Spec == Init /\ [][Next]_vars

(* Time passes, the job is scheduled again and again, and no evaluation hangs *)
(* (every call it makes is bounded); the job's failures come to an end.       *)
(* Nobody need ever call.                                                     *)
FairSpec ==
    /\ Spec
    /\ SF_vars(Tick)
    /\ WF_vars(StartEvaluation(Job))
    /\ \A e \in Evaluators : WF_vars(Goes(e) \/ Fails(e))
    /\ <>[][~Fails(Job)]_vars

----------------------------------------------------------------------------
(* The variables have their types; a row has its trigger facts if and only if *)
(* it was triggered (schema.ts, price_alerts_triggered_has_facts).            *)
AlertsTypeOK ==
    /\ row \in [Alerts -> [state : {"NONE", "ACTIVE"}, price : {None}]
                           \union [state : {"TRIGGERED"}, price : Prices]
                           \union [state : {"CANCELED"}, price : Prices \union {None}]]
    /\ locked \subseteq Users
    /\ \A c \in Clients : client[c].pc \in {"idle", "check", "insert"}
    /\ \A e \in Evaluators : eval[e].pc \in {"idle", "status", "quotes", "list", "trigger"}
    /\ live \in [Symbols -> Quote]
    /\ \A s \in Symbols : cache[s] # None => Cached(s) \in Quote /\ cache[s].left \in 0..QuoteTtl
    /\ memo \in [Evaluators -> [open : BOOLEAN, left : 0..StatusTtl]]

(* However many POSTs race, and whatever is triggered or deleted between a    *)
(* creation's reads and its insert, no user exceeds the cap of ACTIVE alerts, *)
(* and an insert never meets a duplicate (service.ts 133: "Unreachable under  *)
(* the user lock").                                                           *)
CreationIsSerialized ==
    /\ \A u \in Users : Cardinality(Active(AlertsOf(u))) <= MaxActive
    /\ \A c \in Clients : client[c].pc = "insert" => Duplicates(client[c].alert) = {}

(* An alert triggers at most once and its trigger facts are written once,     *)
(* whichever evaluations race, with each other or with a delete; what is      *)
(* deleted never triggers, and nothing becomes ACTIVE again (ADR-016 3, 7).   *)
TriggeredOnce ==
    [][\A a \in Alerts :
           /\ row[a].price # None => row'[a].price = row[a].price
           /\ row[a].state = "CANCELED" => row'[a] = row[a]
           /\ row[a].state = "TRIGGERED" => row'[a].state \in {"TRIGGERED", "CANCELED"}]_vars

(* A trigger is never written on a price that is no longer true: its quote    *)
(* meets the alert's terms and was observed at most MaxAge before the verdict *)
(* (and so MaxAge and a pass before the write), and the market was open at    *)
(* most a memoized status and a pass before.                                  *)
TriggersAreCurrent ==
    [][\A a \in Alerts : row[a].state = "ACTIVE" /\ row'[a].state = "TRIGGERED" =>
           /\ row'[a].price \in Meets[a]
           /\ \E e \in Evaluators :
                  /\ eval[e].pc = "trigger" /\ a \in eval[e].alerts
                  /\ eval[e].quotes[SymbolOf[a]].price = row'[a].price
                  /\ eval[e].quotes[SymbolOf[a]].age <= MaxAge + PassTicks
           /\ sinceOpen <= StatusTtl + PassTicks]_vars

(* Both: whatever races, fails or is served from a cache, a trigger is true   *)
(* when it is written and written once.                                       *)
TriggersAreSound == TriggeredOnce /\ TriggersAreCurrent

(* An alert is not left ACTIVE for ever in an open market whose quotes are    *)
(* fresh and meet its terms.                                                  *)
AlertFires ==
    \A a \in Alerts :
        ~<>[](/\ row[a].state = "ACTIVE" /\ open
              /\ live[SymbolOf[a]].price \in Meets[a]
              /\ live[SymbolOf[a]].age <= MaxAge - PassTicks - QuoteTtl)
==============================================================================
