----------------------------- MODULE CashTransfers -----------------------------
(***************************************************************************)
(* Cash transfers of one paper account (core/cash-transfers): the request   *)
(* call, the passes that synchronize PENDING rows with the venue (the       *)
(* worker's sweep and GET /account/cash), the watch on transfers a reset    *)
(* canceled, and the reset itself.  Every transaction on the account is one *)
(* of TradingBook's; this module says when the rows of cash_transfers       *)
(* justify it.                                                              *)
(*                                                                          *)
(* A transfer is named by its idempotency key, the venue's transfer by the  *)
(* row whose request created it: the client never repeats the POST.         *)
(*                                                                          *)
(* Time is a counter of ticks.  A request call ends within CallTicks of its *)
(* row's created_at and a pass within PassTicks of its start, since every   *)
(* HTTP call is aborted after ten seconds; the grace period and the         *)
(* recovery window are minutes.                                             *)
(***************************************************************************)
EXTENDS TradingBook, SequencesExt

CONSTANTS
  Transfers,     \* (account, idempotency key) pairs: at most one row each
  Withdrawals,   \* the transfers with direction WITHDRAWAL; the others are DEPOSIT
  Amount,        \* Transfers -> amount
  MinAmount, MaxPerTransfer, DailyDepositCap,
  DepositWindow, \* ticks a deposit counts towards the cap
  RecoveryWindow, Grace,    \* RECOVERY_WINDOW_MS, venueGraceMs
  CallTicks, PassTicks,
  Syncs,         \* passes that may overlap: the worker's, the API's
  None,          \* SQL NULL
  LastRequest,   \* bound: no request after this tick
  Resets,        \* bound: whether the user resets the account
  Unreadable,    \* bound: whether listings may hold rows the adapter cannot read
  MaxLosses      \* bound on lost answers, failed reads and crashes

ASSUME TransferAssumption ==
  /\ Withdrawals \subseteq Transfers
  /\ IsFiniteSet(Transfers)
  /\ Amount \in [Transfers -> TransferSizes]
  /\ {MinAmount, MaxPerTransfer, DailyDepositCap, DepositWindow, RecoveryWindow,
      Grace, CallTicks, PassTicks, LastRequest, MaxLosses} \subseteq Nat
  /\ Grace > RecoveryWindow   \* the constructor's invariant
  /\ RecoveryWindow >= CallTicks /\ Grace >= CallTicks + PassTicks
  /\ {Resets, Unreadable} \subseteq BOOLEAN
  /\ None \notin Transfers

VARIABLES
  row,     \* cash_transfers
  call,    \* Transfers -> progress of the request that created the row
  venue,   \* Transfers -> the venue's transfer
  sync,    \* Syncs -> what a pass holds in memory
  watch,   \* what the watch on canceled transfers holds in memory
  reset,   \* progress of the account reset
  now,     \* the clock
  losses   \* losses so far

transferVars == <<row, call, venue, sync, watch, reset, now, losses>>
cashVars == <<vars, transferVars>>

TransferStates == {"PENDING", "SETTLED", "FAILED", "CANCELED"}
Reasons == {None, "venue", "never reached", "reset", "inactive", "settled anyway", "never settled"}
WatchedReasons == {"reset", "inactive"}

NoRow == [state |-> Absent, venue |-> None, reason |-> None, created |-> 0]
NoTransfer == [state |-> Absent, created |-> 0]
Ready == [at |-> "idle"]

LastTick == LastRequest + Grace + 1   \* every row outlives its grace period

--------------------------------------------------------------------------------
(* What the request transaction reads.                                         *)

InState(states) == {t \in Transfers : row[t].state \in states}

\* sumPending, one direction.
PendingSum(direction) == SumFunctionOnSet(Amount, InState({"PENDING"}) \cap direction)

\* Mutant: the opening deposit does not count.
DepositedWithoutOpening ==
  SumFunctionOnSet(Amount, {t \in InState({"PENDING", "SETTLED"}) \ Withdrawals :
                              row[t].created >= now - DepositWindow})

\* depositedInWindow: PENDING and SETTLED deposits, and the opening deposit
\* (the account is opened at tick 0).
DepositedInWindow ==
  SumFunctionOnSet(Amount, {t \in InState({"PENDING", "SETTLED"}) \ Withdrawals :
                              row[t].created >= now - DepositWindow})
    + (IF now <= DepositWindow THEN OpeningCash ELSE 0)

\* checkTransferRequest; HoldWithdrawal compares a withdrawal to the withdrawable.
AllowedRequest(t) ==
  /\ Amount[t] >= MinAmount
  /\ Amount[t] <= MaxPerTransfer
  /\ t \notin Withdrawals => Amount[t] <= DailyDepositCap - DepositedInWindow

Linked(v) == \E t \in Transfers : row[t].venue = v

Loss == losses < MaxLosses /\ losses' = losses + 1

--------------------------------------------------------------------------------
(* The transactions on a row, under account and transfer locks.                *)

\* The books follow the row: a transition out of PENDING posts or releases.
Moves(t, next) ==
  \/ next = row[t].state /\ UNCHANGED vars
  \/ /\ row[t].state = "PENDING"
     /\ next = "SETTLED"
     /\ IF t \in Withdrawals THEN SettleWithdrawal(Amount[t]) ELSE SettleDeposit(Amount[t])
  \/ /\ row[t].state = "PENDING"
     /\ next \in {"FAILED", "CANCELED"}
     /\ IF t \in Withdrawals THEN ReleaseHold(Amount[t]) ELSE UNCHANGED vars

UpdateRow(t, next) ==
  /\ Moves(t, next.state)
  /\ row' = [row EXCEPT ![t] = next]

\* finish: FAILED, unless the row is terminal already.
Finish(t, reason) ==
  IF row[t].state = "PENDING"
    THEN UpdateRow(t, [row[t] EXCEPT !.state = "FAILED", !.reason = reason])
    ELSE UNCHANGED <<vars, row>>

\* applyVenueState, first transaction: the link survives whatever follows.
Link(t, v) ==
  /\ row' = IF row[t].venue = None THEN [row EXCEPT ![t].venue = v] ELSE row
  /\ UNCHANGED vars

\* venue_transfer_id is unique.
LinkConflicts(t, v) == row[t].venue = None /\ Linked(v)

\* The two invariants of applyVenueState and settleLocked do not throw.
Matches(t, v) == (t \in Withdrawals <=> v \in Withdrawals) /\ Amount[t] = Amount[v]
CashCovers(t) == t \in Withdrawals => Amount[t] <= cash

\* applyVenueState, second transaction, for the state the venue was seen in.
Answered(t, v, seenState) ==
  LET Becomes(next, why) == [row[t] EXCEPT !.state = next, !.reason = why]
  IN  IF row[t].state # "PENDING" THEN row[t]
      ELSE IF account # "ACTIVE"
             THEN Becomes("CANCELED", IF seenState = "SETTLED" THEN "settled anyway" ELSE "inactive")
      ELSE IF ~Matches(t, v) THEN row[t]
      ELSE IF seenState = "FAILED" THEN Becomes("FAILED", "venue")
      ELSE IF seenState = "SETTLED" /\ CashCovers(t) THEN Becomes("SETTLED", None)
      ELSE row[t]

\* Mutant: an accepted transfer counts as settled.
ApplyVenueStateEager(t, v, seenState) ==
  UpdateRow(t, Answered(t, v, IF seenState = "PENDING" THEN "SETTLED" ELSE seenState))

ApplyVenueState(t, v, seenState) == UpdateRow(t, Answered(t, v, seenState))

--------------------------------------------------------------------------------
CashInit ==
  /\ Init
  /\ row = [t \in Transfers |-> NoRow]
  /\ call = [t \in Transfers |-> Ready]
  /\ venue = [t \in Transfers |-> NoTransfer]
  /\ sync = [p \in Syncs |-> Ready]
  /\ watch = Ready
  /\ reset = Ready
  /\ now = 0
  /\ losses = 0

--------------------------------------------------------------------------------
(* The request call.                                                           *)

CallTo(t, progress) ==
  /\ call' = [call EXCEPT ![t] = progress]
  /\ UNCHANGED <<venue, sync, watch, reset, now>>

\* Mutant: the amount is not held.
RequestUnheld(t) ==
  /\ row[t] = NoRow
  /\ now <= LastRequest
  /\ account = "ACTIVE"
  /\ AllowedRequest(t)
  /\ t \in Withdrawals => Amount[t] <= BuyingPower
  /\ UNCHANGED vars
  /\ row' = [row EXCEPT ![t] = [NoRow EXCEPT !.state = "PENDING", !.created = now]]
  /\ CallTo(t, [at |-> "posted"])
  /\ UNCHANGED losses

\* Mutant: the withdrawable is not checked.
RequestUnchecked(t) ==
  /\ row[t] = NoRow
  /\ now <= LastRequest
  /\ account = "ACTIVE"
  /\ AllowedRequest(t)
  /\ holds' = IF t \in Withdrawals THEN holds + Amount[t] ELSE holds
  /\ UNCHANGED <<account, state, filled, reserved, attention, seen, fills, trades, transferred, cash, lots>>
  /\ row' = [row EXCEPT ![t] = [NoRow EXCEPT !.state = "PENDING", !.created = now]]
  /\ CallTo(t, [at |-> "posted"])
  /\ UNCHANGED losses

\* The request transaction; a key that already has a row changes nothing.
Request(t) ==
  /\ row[t] = NoRow
  /\ now <= LastRequest
  /\ account = "ACTIVE"
  /\ AllowedRequest(t)
  /\ IF t \in Withdrawals THEN HoldWithdrawal(Amount[t]) ELSE UNCHANGED vars
  /\ row' = [row EXCEPT ![t] = [NoRow EXCEPT !.state = "PENDING", !.created = now]]
  /\ CallTo(t, [at |-> "posted"])
  /\ UNCHANGED losses

\* Mutant: the row is linked before the venue has answered.
InitiateAnsweredEarly(t) ==
  /\ call[t].at = "posted"
  /\ CallTo(t, [at |-> "link", seen |-> "PENDING"])
  /\ UNCHANGED <<vars, row, losses>>

\* The venue's answer reaches the call.
InitiateAnswered(t) ==
  /\ call[t].at = "posted"
  /\ venue[t] # NoTransfer
  /\ CallTo(t, [at |-> "link", seen |-> venue[t].state])
  /\ UNCHANGED <<vars, row, losses>>

\* A 4xx answer: TransferRejectedError.
InitiateRejected(t) ==
  /\ call[t].at = "posted"
  /\ venue[t] = NoTransfer
  /\ Finish(t, "venue")
  /\ CallTo(t, [at |-> "done"])
  /\ UNCHANGED losses

\* Timeout, 5xx or a crash, before or after the answer: the row stays as it is.
CallLost(t) ==
  /\ call[t].at \in {"posted", "link", "apply"}
  /\ Loss
  /\ CallTo(t, [at |-> "lost"])
  /\ UNCHANGED <<vars, row>>

CallLinks(t) ==
  /\ call[t].at = "link"
  /\ IF LinkConflicts(t, t)
       THEN UNCHANGED <<vars, row>> /\ CallTo(t, [at |-> "lost"])
       ELSE Link(t, t) /\ CallTo(t, [call[t] EXCEPT !.at = "apply"])
  /\ UNCHANGED losses

CallApplies(t) ==
  /\ call[t].at = "apply"
  /\ ApplyVenueState(t, t, call[t].seen)
  /\ CallTo(t, [at |-> "done"])
  /\ UNCHANGED losses

--------------------------------------------------------------------------------
(* The venue.                                                                  *)

VenueTo(v, state_, created) ==
  /\ venue' = [venue EXCEPT ![v] = [state |-> state_, created |-> created]]
  /\ UNCHANGED <<vars, row, call, sync, watch, reset, now, losses>>

\* The POST arrives, perhaps after the caller gave up.
VenueReceivesTransfer(t) ==
  /\ call[t].at \in {"posted", "lost"}
  /\ venue[t] = NoTransfer
  /\ now <= row[t].created + CallTicks
  /\ VenueTo(t, "PENDING", now)

VenueDecidesTransfer(v) ==
  /\ venue[v].state = "PENDING"
  /\ \E outcome \in {"SETTLED", "FAILED"} : VenueTo(v, outcome, venue[v].created)

--------------------------------------------------------------------------------
(* A pass: syncPending for the account.                                        *)

SyncTo(p, next) ==
  /\ sync' = [sync EXCEPT ![p] = next]
  /\ UNCHANGED <<call, venue, watch, reset, now>>

\* The rows as loaded: by created_at, with the venue id they had then.
LoadedPending(byAge) == [k \in DOMAIN byAge |-> [of |-> byAge[k], venue |-> row[byAge[k]].venue]]

PendingByAge ==
  {s \in SetToSeqs(InState({"PENDING"})) :
     \A i, j \in DOMAIN s : i < j => row[s[i]].created <= row[s[j]].created}

StartSync(p) ==
  /\ sync[p] = Ready
  /\ InState({"PENDING"}) # {}
  /\ \E byAge \in PendingByAge :
       SyncTo(p, [at |-> "listing", todo |-> LoadedPending(byAge), started |-> now])
  /\ UNCHANGED <<vars, row, losses>>

\* The rows not yet handled.
Proceed(p) ==
  LET rest == Tail(sync[p].todo)
  IN  SyncTo(p, IF rest = <<>> THEN Ready
                ELSE [at |-> "next", todo |-> rest, started |-> sync[p].started,
                      listed |-> sync[p].listed, complete |-> sync[p].complete])

\* listTransfers: the venue's transfers since the oldest row's window, without
\* the rows the adapter could not read.
Listing(p, unread) ==
  LET since == row[Head(sync[p].todo).of].created - RecoveryWindow
      found == {v \in Transfers : venue[v] # NoTransfer /\ venue[v].created >= since}
  IN  [listed |-> [v \in found \ unread |-> venue[v].state], complete |-> unread = {}]

\* One listing for the whole pass.
ListTransfers(p) ==
  /\ sync[p].at = "listing"
  /\ \E unread \in IF Unreadable THEN SUBSET {v \in Transfers : venue[v] # NoTransfer} ELSE {{}} :
       /\ IF unread = {} THEN UNCHANGED losses ELSE Loss
       /\ LET listing == Listing(p, unread)
          IN  SyncTo(p, [at |-> "next", todo |-> sync[p].todo, started |-> sync[p].started,
                         listed |-> listing.listed, complete |-> listing.complete])
  /\ UNCHANGED <<vars, row>>

\* The listing fails: rows with a venue id are still looked up one by one.
ListingFails(p) ==
  /\ sync[p].at = "listing"
  /\ Loss
  /\ SyncTo(p, [at |-> "next", todo |-> sync[p].todo, started |-> sync[p].started,
                listed |-> <<>>, complete |-> FALSE])
  /\ UNCHANGED <<vars, row>>

Loaded(p) == Head(sync[p].todo)

\* Mutant: the grace period is not waited for.
PastGraceAtOnce(t) == TRUE

PastGrace(t) == now - row[t].created > Grace

\* How close in time a venue transfer is to the row.
Distance(t, v) == LET d == venue[v].created - row[t].created IN IF d < 0 THEN -d ELSE d

\* The listed transfers a row without a venue id may be recovered from.
Candidates(p, t) ==
  {v \in DOMAIN sync[p].listed : Matches(t, v) /\ Distance(t, v) <= RecoveryWindow /\ ~Linked(v)}

\* Every listing settles a tie the same way.
Closest(t, candidates) ==
  CHOOSE v \in candidates : \A u \in candidates : Distance(t, v) <= Distance(t, u)

Work(p, step, v, seenState) ==
  SyncTo(p, [at |-> step, todo |-> sync[p].todo, started |-> sync[p].started,
             listed |-> sync[p].listed, complete |-> sync[p].complete,
             of |-> v, seen |-> seenState])

\* syncOne for a row that was loaded with its venue id: the listing, else the
\* lookup by id, which never misses a transfer the venue has.
SyncLinked(p) ==
  /\ sync[p].at = "next"
  /\ Loaded(p).venue # None
  /\ LET v == Loaded(p).venue
     IN  Work(p, "link", v, IF v \in DOMAIN sync[p].listed THEN sync[p].listed[v]
                                                            ELSE venue[v].state)
  /\ UNCHANGED <<vars, row, losses>>

\* A failed lookup: the next pass asks again.
LookupFails(p) ==
  /\ sync[p].at = "next"
  /\ Loaded(p).venue # None
  /\ Loss
  /\ Proceed(p)
  /\ UNCHANGED <<vars, row>>

\* Mutant: an incomplete listing proves absence.
DefersWithinGrace(p, t) == ~PastGrace(t)

\* Mutant: absence from the listing never proves anything.
DefersUnlisted(p, t) == ~PastGrace(t) \/ Candidates(p, t) = {}

\* A row loaded without a venue id stays PENDING within the grace period, and
\* after it while an incomplete or failed listing proves nothing.
Defers(p, t) == ~PastGrace(t) \/ (Candidates(p, t) = {} /\ ~sync[p].complete)

SyncDeferred(p) ==
  /\ sync[p].at = "next"
  /\ Loaded(p).venue = None
  /\ Defers(p, Loaded(p).of)
  /\ Proceed(p)
  /\ UNCHANGED <<vars, row, losses>>

\* Recovery: the closest unlinked candidate, in the state it was listed in.
SyncRecovers(p) ==
  LET t == Loaded(p).of
  IN  /\ sync[p].at = "next"
      /\ Loaded(p).venue = None
      /\ ~Defers(p, t)
      /\ Candidates(p, t) # {}
      /\ LET v == Closest(t, Candidates(p, t)) IN Work(p, "link", v, sync[p].listed[v])
      /\ UNCHANGED <<vars, row, losses>>

\* No candidate in a complete listing.
SyncNeverReached(p) ==
  LET t == Loaded(p).of
  IN  /\ sync[p].at = "next"
      /\ Loaded(p).venue = None
      /\ ~Defers(p, t)
      /\ Candidates(p, t) = {}
      /\ Work(p, "finish", None, "FAILED")
      /\ UNCHANGED <<vars, row, losses>>

SyncLinks(p) ==
  LET t == Loaded(p).of
  IN  /\ sync[p].at = "link"
      /\ IF LinkConflicts(t, sync[p].of)
           THEN UNCHANGED <<vars, row>> /\ Proceed(p)
           ELSE Link(t, sync[p].of) /\ Work(p, "apply", sync[p].of, sync[p].seen)
      /\ UNCHANGED losses

SyncApplies(p) ==
  /\ sync[p].at = "apply"
  /\ ApplyVenueState(Loaded(p).of, sync[p].of, sync[p].seen)
  /\ Proceed(p)
  /\ UNCHANGED losses

SyncFinishes(p) ==
  /\ sync[p].at = "finish"
  /\ Finish(Loaded(p).of, "never reached")
  /\ Proceed(p)
  /\ UNCHANGED losses

--------------------------------------------------------------------------------
(* The reset, and the watch on the transfers it canceled.                      *)

ResetTo(next) ==
  /\ reset' = next
  /\ UNCHANGED <<call, sync, watch, now>>

\* cancelPendingAtVenue: the PENDING rows that have a venue id.
StartReset ==
  /\ Resets
  /\ reset = Ready
  /\ account = "ACTIVE"
  /\ OpenOrders = {}
  /\ ResetTo([at |-> "asking", todo |-> {row[t].venue : t \in InState({"PENDING"})} \ {None}])
  /\ UNCHANGED <<vars, row, venue, losses>>

\* The venue closes a transfer that is still in flight, or refuses.
AskVenueToCancel(v) ==
  /\ reset.at = "asking"
  /\ v \in reset.todo
  /\ venue' = IF venue[v].state = "PENDING" THEN [venue EXCEPT ![v].state = "FAILED"] ELSE venue
  /\ ResetTo([reset EXCEPT !.todo = @ \ {v}])
  /\ UNCHANGED <<vars, row, losses>>

\* The request is lost; the reset goes on.
CancelRequestLost(v) ==
  /\ reset.at = "asking"
  /\ v \in reset.todo
  /\ Loss
  /\ ResetTo([reset EXCEPT !.todo = @ \ {v}])
  /\ UNCHANGED <<vars, row, venue>>

\* Mutant: no archive hook.
ArchiveWithoutHook ==
  /\ reset.at = "asking"
  /\ reset.todo = {}
  /\ ArchiveAccount
  /\ ResetTo([at |-> "done"])
  /\ UNCHANGED <<row, venue, losses>>

\* The archive transaction with its hook, cancelPendingForAccount.
Archive ==
  /\ reset.at = "asking"
  /\ reset.todo = {}
  /\ ArchiveAccount
  /\ row' = [t \in Transfers |-> IF row[t].state = "PENDING"
                                   THEN [row[t] EXCEPT !.state = "CANCELED", !.reason = "reset"]
                                   ELSE row[t]]
  /\ ResetTo([at |-> "done"])
  /\ UNCHANGED <<venue, losses>>

\* The API process dies between the venue's cancels and the archive.
ResetCrashes ==
  /\ reset.at = "asking"
  /\ Loss
  /\ ResetTo([at |-> "done"])
  /\ UNCHANGED <<vars, row, venue>>

WatchTo(next) ==
  /\ watch' = next
  /\ UNCHANGED <<vars, call, venue, sync, reset, now, losses>>

\* watchCanceledByReset reads the venue; in-flight transfers stay watched.
WatchReads(t) ==
  /\ watch = Ready
  /\ row[t].state = "CANCELED"
  /\ row[t].venue # None
  /\ row[t].reason \in WatchedReasons
  /\ venue[row[t].venue].state \in {"SETTLED", "FAILED"}
  /\ WatchTo([at |-> "stamp", of |-> t, seen |-> venue[row[t].venue].state])
  /\ UNCHANGED row

\* Mutant: what the venue did is not looked at.
WatchStampsBlindly ==
  /\ watch.at = "stamp"
  /\ row' = [row EXCEPT ![watch.of].reason = "never settled"]
  /\ WatchTo(Ready)

\* The reason is stamped on the row: operator review, or confirmed unsettled.
WatchStamps ==
  /\ watch.at = "stamp"
  /\ row' = [row EXCEPT ![watch.of].reason =
               IF watch.seen = "SETTLED" THEN "settled anyway" ELSE "never settled"]
  /\ WatchTo(Ready)

--------------------------------------------------------------------------------
\* No tick while a call or a pass would outlive its bound.
Tick ==
  /\ now < LastTick
  /\ \A t \in Transfers :
       call[t].at \in {"posted", "link", "apply"} => now < row[t].created + CallTicks
  /\ \A p \in Syncs : sync[p] # Ready => now < sync[p].started + PassTicks
  /\ now' = now + 1
  /\ UNCHANGED <<vars, row, call, venue, sync, watch, reset, losses>>

\* Orders on the same account: they compete for the same cash.
Trade ==
  /\ \/ \E o \in Orders : Place(o)
     \/ \E e \in StatusEvents : ApplyStatus(e)
     \/ \E e \in FillEvents : ApplyFill(e)
  /\ UNCHANGED transferVars

SyncStep(p) ==
  \/ StartSync(p) \/ ListTransfers(p)
  \/ SyncLinked(p) \/ SyncDeferred(p) \/ SyncRecovers(p) \/ SyncNeverReached(p)
  \/ SyncLinks(p) \/ SyncApplies(p) \/ SyncFinishes(p)

SyncFails(p) == ListingFails(p) \/ LookupFails(p)

CallStep(t) == InitiateAnswered(t) \/ CallLinks(t) \/ CallApplies(t)

ResetStep == (\E v \in Transfers : AskVenueToCancel(v)) \/ Archive

CashNext ==
  \/ \E t \in Transfers :
       \/ Request(t) \/ InitiateRejected(t) \/ CallLost(t) \/ CallStep(t)
       \/ VenueReceivesTransfer(t) \/ VenueDecidesTransfer(t)
       \/ WatchReads(t) \/ CancelRequestLost(t)
  \/ \E p \in Syncs : SyncStep(p) \/ SyncFails(p)
  \/ StartReset \/ ResetStep \/ ResetCrashes
  \/ WatchStamps
  \/ Tick
  \/ Trade

CashSpec == CashInit /\ [][CashNext]_cashVars

\* The API and the worker keep running, the worker sweeps on a timer, and the
\* venue ends every transfer.
CashFairness ==
  /\ \A t \in Transfers :
       /\ WF_cashVars(CallStep(t) \/ InitiateRejected(t))
       /\ WF_cashVars(VenueDecidesTransfer(t))
       /\ WF_cashVars(WatchReads(t))
  /\ \A p \in Syncs : WF_cashVars(SyncStep(p))
  /\ WF_cashVars(WatchStamps)
  /\ WF_cashVars(Tick)

FairCashSpec == CashSpec /\ CashFairness

--------------------------------------------------------------------------------
CashTypeOK ==
  /\ row \in [Transfers -> [state : TransferStates \cup {Absent}, venue : Transfers \cup {None},
                            reason : Reasons, created : 0..LastRequest]]
  /\ \A t \in Transfers : venue[t].state \in {Absent, "PENDING", "SETTLED", "FAILED"}
  /\ \A t \in Transfers :
       /\ row[t].state = Absent => row[t] = NoRow /\ venue[t] = NoTransfer
       /\ row[t].venue # None => venue[row[t].venue] # NoTransfer
  /\ now \in 0..LastTick
  /\ losses \in 0..MaxLosses

VenueSum(direction) == SumFunctionOnSet(Amount, {v \in direction : venue[v].state = "SETTLED"})

(***************************************************************************)
(* What the book holds and posts is what the rows say (FINANCIAL_INVARIANTS *)
(* 17 and 18): the hold is the sum of the PENDING withdrawals, and each     *)
(* SETTLED transfer has posted exactly once, every other one not at all.    *)
(***************************************************************************)
RowsAndBookAgree ==
  /\ holds = PendingSum(Withdrawals)
  /\ transferred = SumFunctionOnSet(Amount, InState({"SETTLED"}) \ Withdrawals)
                     - SumFunctionOnSet(Amount, InState({"SETTLED"}) \cap Withdrawals)

(***************************************************************************)
(* Ledger cash that can be spent never exceeds the venue's                  *)
(* (FINANCIAL_INVARIANTS 16): deposits are posted after the venue settled   *)
(* them, and a withdrawal the venue executed is posted or still held,       *)
(* whichever answers were lost, as long as the account is active.           *)
(***************************************************************************)
SpendableWithinVenueCash ==
  account = "ACTIVE" =>
    transferred - holds <= VenueSum(Transfers \ Withdrawals) - VenueSum(Withdrawals)

(***************************************************************************)
(* A SETTLED row is linked to a transfer that the venue settled, and to one *)
(* that no other row is linked to: the venue's settlement posts once.       *)
(***************************************************************************)
SettledByItsOwnTransfer ==
  \A t \in InState({"SETTLED"}) :
    /\ row[t].venue # None
    /\ venue[row[t].venue].state = "SETTLED"
    /\ \A u \in Transfers \ {t} : row[u].venue # row[t].venue

(***************************************************************************)
(* Deposits not refused within any DepositWindow, the opening one included, *)
(* never exceed the daily cap, however requests race (checkTransferRequest  *)
(* under the lock).                                                         *)
(***************************************************************************)
DepositCapHolds ==
  \A last \in 0..LastRequest :
    LET window == (last - DepositWindow)..last
        deposits == {t \in InState({"PENDING", "SETTLED"}) \ Withdrawals : row[t].created \in window}
    IN  deposits # {} =>
          SumFunctionOnSet(Amount, deposits) + (IF 0 \in window THEN OpeningCash ELSE 0)
            <= DailyDepositCap

(***************************************************************************)
(* Archiving leaves no PENDING transfer and no hold behind, and nothing     *)
(* posts afterwards (FINANCIAL_INVARIANTS 20), whatever calls and passes    *)
(* were under way.                                                          *)
(***************************************************************************)
NothingPostsAfterArchive ==
  [][account = "ARCHIVED" =>
       /\ InState({"PENDING"}) = {} /\ holds = 0
       /\ \A t \in Transfers : row'[t].state = row[t].state]_cashVars

(***************************************************************************)
(* A PENDING transfer does not stay PENDING for ever: it is linked and      *)
(* ended by the venue's state, or failed after the grace period.            *)
(***************************************************************************)
PendingResolves ==
  \A t \in Transfers : (row[t].state = "PENDING") ~> (row[t].state # "PENDING")

(***************************************************************************)
(* A transfer canceled by a reset that the venue settles anyway is stamped  *)
(* for the operator, if its venue id is known (FINANCIAL_INVARIANTS 20).    *)
(***************************************************************************)
LateSettlementIsFlagged ==
  \A t \in Transfers :
    (row[t].state = "CANCELED" /\ row[t].venue # None /\ venue[row[t].venue].state = "SETTLED")
      ~> (row[t].reason = "settled anyway")

(***************************************************************************)
(* A reset is final for the transfers it archives, and the money the venue  *)
(* moves all the same is not lost from sight.                               *)
(***************************************************************************)
ArchiveIsFinal == NothingPostsAfterArchive /\ LateSettlementIsFlagged

(***************************************************************************)
(* Every step of the transfers is a transaction of the trading book, or     *)
(* leaves the book alone.                                                   *)
(***************************************************************************)
TransfersImplementBook == Init /\ [][UNCHANGED vars \/ Next]_vars

--------------------------------------------------------------------------------
(* What the repository says of the transfers, and overlapping passes do not do.*)

(***************************************************************************)
(* "The transfer never reached the venue" (cash-transfers/service.ts): the  *)
(* venue has no transfer for such a row.                                    *)
(***************************************************************************)
NeverReachedMeansAbsent ==
  \A t \in Transfers :
    row[t].state = "FAILED" /\ row[t].reason = "never reached" => row[t].venue = None
================================================================================
