----------------------------- MODULE ServicesProofs -----------------------------
(***************************************************************************)
(* Theorems of the two services that move the book through the venue, each  *)
(* about its own specification.                                             *)
(*                                                                          *)
(* CashTransfers: for every number of transfers, of overlapping passes and  *)
(* of lost answers, whatever the venue does.                                *)
(*                                                                          *)
(* Execution: for every number of orders, executions, passes and faults:    *)
(* the pipeline only ever performs transactions of the book, on events the  *)
(* venue's own history justifies.                                           *)
(***************************************************************************)
EXTENDS CashTransfers, Execution, TradingBookProofs

(***************************************************************************)
(* Cash transfers.                                                          *)
(***************************************************************************)

--------------------------------------------------------------------------------
(* Types: what a row, and a pass in memory, can hold.                          *)

TransferRows == [state : TransferStates \cup {Absent}, venue : Transfers \cup {None},
                 reason : Reasons, created : Nat]

\* A row as a pass loaded it.
Entries == [of : Transfers, venue : Transfers \cup {None}]

\* The rows handled so far are gone, and what a pass works on is a transfer.
PassOK(s) ==
  s.at # "idle" =>
    /\ s.todo \in Seq(Entries) /\ s.todo # <<>>
    /\ s.at # "listing" => DOMAIN s.listed \subseteq Transfers
    /\ s.at \in {"link", "apply"} => s.of \in Transfers

VenueRows == [state : {Absent, "PENDING", "SETTLED", "FAILED"}, created : Nat]

RowType == row \in [Transfers -> TransferRows]
PassType == DOMAIN sync = Syncs /\ \A p \in Syncs : PassOK(sync[p])
VenueType == venue \in [Transfers -> VenueRows] /\ now \in Nat

CashType == TypeOK /\ RowType /\ PassType /\ VenueType

LEMMA ReadyIsOK == PassOK(Ready)
BY DEF PassOK, Ready

LEMMA TransferAmounts ==
  Amount \in [Transfers -> Nat \ {0}] /\ \A t \in Transfers : Amount[t] \in TransferSizes
BY TransferAssumption, BookAssumption

\* A pass that moves keeps its type if what it holds next has it.
LEMMA PassMoves ==
  ASSUME PassType, NEW p \in Syncs, NEW s, PassOK(s), sync' = [sync EXCEPT ![p] = s]
  PROVE  PassType'
BY DEF PassType

\* The rest of a pass.
LEMMA ProceedType ==
  ASSUME PassType, NEW p \in Syncs, sync[p].at \notin {"idle", "listing"}, Proceed(p)
  PROVE  PassType'
<1> DEFINE rest == Tail(sync[p].todo)
           s == IF rest = <<>> THEN Ready
                ELSE [at |-> "next", todo |-> rest, started |-> sync[p].started,
                      listed |-> sync[p].listed, complete |-> sync[p].complete]
<1>1. sync' = [sync EXCEPT ![p] = s]
  BY DEF Proceed, SyncTo
<1>2. sync[p].todo \in Seq(Entries) /\ sync[p].todo # <<>> /\ DOMAIN sync[p].listed \subseteq Transfers
  BY DEF PassType, PassOK
<1>3. rest \in Seq(Entries)
  BY <1>2
<1> HIDE DEF rest
<1>4. PassOK(s)
  BY <1>2, <1>3, ReadyIsOK DEF PassOK
<1> HIDE DEF s
<1> QED BY <1>1, <1>4, PassMoves

\* The entry at hand.
LEMMA LoadedType ==
  ASSUME PassType, NEW p \in Syncs, sync[p].at # "idle"
  PROVE  Loaded(p).of \in Transfers /\ Loaded(p).venue \in Transfers \cup {None}
<1>1. sync[p].todo \in Seq(Entries) /\ sync[p].todo # <<>>
  BY DEF PassType, PassOK
<1>2. Loaded(p) \in Entries
  BY <1>1 DEF Loaded
<1> QED BY <1>2 DEF Entries

\* The transfer a recovery settles on is one of the candidates.
LEMMA ClosestIsCandidate ==
  ASSUME RowType, NEW t \in Transfers, NEW C \in SUBSET Transfers, C # {},
         \A v \in C : venue[v].created \in Nat
  PROVE  Closest(t, C) \in C
<1> DEFINE Q == {Distance(t, v) : v \in C}
<1>1. \A v \in C : Distance(t, v) \in Nat
  <2> SUFFICES ASSUME NEW v \in C PROVE Distance(t, v) \in Nat
    OBVIOUS
  <2>1. row[t].created \in Nat /\ venue[v].created \in Nat
    BY DEF RowType, TransferRows
  <2> QED BY <2>1 DEF Distance
<1>2. Q \in SUBSET Nat /\ Q # {}
  BY <1>1
<1> HIDE DEF Q
<1>3. PICK n \in Q : \A m \in Q : n <= m
  BY <1>2, LeastNatural
<1>4. \E v \in C : \A u \in C : Distance(t, v) <= Distance(t, u)
  BY <1>3 DEF Q
<1> QED BY <1>4 DEF Closest

--------------------------------------------------------------------------------
(* The kinds of steps.                                                         *)

\* A transaction on the row of t, which the books follow.
TransferStep(t) == \E next \in TransferRows : next.created = row[t].created /\ UpdateRow(t, next)

\* The watch stamps a row.
Stamp == UNCHANGED vars /\ \E u : \E r \in Reasons : row' = [row EXCEPT ![u].reason = r]

LEMMA AnsweredType ==
  ASSUME RowType, NEW t \in Transfers, NEW v, NEW s
  PROVE  Answered(t, v, s) \in TransferRows /\ Answered(t, v, s).created = row[t].created
BY DEF Answered, RowType, TransferRows, TransferStates, Reasons

LEMMA FinishIsTransferStep ==
  ASSUME RowType, NEW t \in Transfers, NEW reason \in Reasons, Finish(t, reason)
  PROVE  TransferStep(t) \/ UNCHANGED <<vars, row>>
<1> DEFINE next == [row[t] EXCEPT !.state = "FAILED", !.reason = reason]
<1>1. next \in TransferRows /\ next.created = row[t].created
  BY DEF RowType, TransferRows, TransferStates
<1>2. UpdateRow(t, next) \/ UNCHANGED <<vars, row>>
  BY DEF Finish
<1> HIDE DEF next
<1> QED BY <1>1, <1>2 DEF TransferStep

LEMMA LinkIsTransferStep ==
  ASSUME RowType, NEW t \in Transfers, NEW v \in Transfers, Link(t, v)
  PROVE  TransferStep(t) \/ UNCHANGED <<vars, row>>
<1> DEFINE next == [row[t] EXCEPT !.venue = v]
<1>1. next \in TransferRows /\ next.state = row[t].state /\ next.created = row[t].created
  BY DEF RowType, TransferRows
<1>2. CASE row[t].venue = None
  <2>1. row' = [row EXCEPT ![t] = next] /\ UNCHANGED vars
    BY <1>2 DEF Link, RowType
  <2> HIDE DEF next
  <2>2. UpdateRow(t, next)
    BY <1>1, <2>1 DEF UpdateRow, Moves
  <2> QED BY <1>1, <2>2 DEF TransferStep
<1>3. CASE row[t].venue # None
  BY <1>3 DEF Link
<1> QED BY <1>2, <1>3

LEMMA AnswerIsTransferStep ==
  ASSUME RowType, NEW t \in Transfers, NEW v, NEW s, ApplyVenueState(t, v, s)
  PROVE  TransferStep(t)
BY AnsweredType DEF ApplyVenueState, TransferStep

\* What a step does to the rows and the books.
RowKinds ==
  \/ \E t \in Transfers : TransferStep(t) \/ Request(t)
  \/ Archive \/ Trade \/ Stamp
  \/ UNCHANGED <<vars, row>>

LEMMA SyncRows ==
  ASSUME CashType, NEW p \in Syncs, SyncStep(p) \/ SyncFails(p)
  PROVE  RowKinds
<1>1. RowType /\ PassType
  BY DEF CashType
<1>2. CASE StartSync(p) \/ ListTransfers(p) \/ ListingFails(p)
  BY <1>2 DEF StartSync, ListTransfers, ListingFails, RowKinds
<1>3. CASE SyncLinked(p) \/ SyncDeferred(p) \/ SyncRecovers(p) \/ SyncNeverReached(p) \/ LookupFails(p)
  BY <1>3 DEF SyncLinked, SyncDeferred, SyncRecovers, SyncNeverReached, LookupFails, RowKinds
<1>4. CASE SyncLinks(p)
  <2>1. Loaded(p).of \in Transfers /\ sync[p].of \in Transfers
    BY <1>1, <1>4, LoadedType DEF SyncLinks, PassType, PassOK
  <2>2. Link(Loaded(p).of, sync[p].of) \/ UNCHANGED <<vars, row>>
    BY <1>4 DEF SyncLinks
  <2> QED BY <1>1, <2>1, <2>2, LinkIsTransferStep DEF RowKinds
<1>5. CASE SyncApplies(p)
  <2>1. Loaded(p).of \in Transfers
    BY <1>1, <1>5, LoadedType DEF SyncApplies
  <2> QED BY <1>1, <1>5, <2>1, AnswerIsTransferStep DEF SyncApplies, RowKinds
<1>6. CASE SyncFinishes(p)
  <2>1. Loaded(p).of \in Transfers /\ "never reached" \in Reasons
    BY <1>1, <1>6, LoadedType DEF SyncFinishes, Reasons
  <2> QED BY <1>1, <1>6, <2>1, FinishIsTransferStep DEF SyncFinishes, RowKinds
<1> QED BY <1>2, <1>3, <1>4, <1>5, <1>6 DEF SyncStep, SyncFails

LEMMA StepKinds ==
  ASSUME CashType, [CashNext]_cashVars
  PROVE  RowKinds
<1>1. RowType
  BY DEF CashType
<1>2. ASSUME NEW t \in Transfers, CallStep(t) \/ InitiateRejected(t) \/ CallLost(t)
      PROVE  RowKinds
  <2>1. CASE InitiateAnswered(t) \/ CallLost(t)
    BY <2>1 DEF InitiateAnswered, CallLost, RowKinds
  <2>2. CASE CallLinks(t)
    BY <1>1, <2>2, LinkIsTransferStep DEF CallLinks, RowKinds
  <2>3. CASE CallApplies(t)
    BY <1>1, <2>3, AnswerIsTransferStep DEF CallApplies, RowKinds
  <2>4. CASE InitiateRejected(t)
    <3>1. "venue" \in Reasons
      BY DEF Reasons
    <3> QED BY <1>1, <2>4, <3>1, FinishIsTransferStep DEF InitiateRejected, RowKinds
  <2> QED BY <1>2, <2>1, <2>2, <2>3, <2>4 DEF CallStep
<1>3. ASSUME NEW t \in Transfers, VenueReceivesTransfer(t) \/ VenueDecidesTransfer(t) \/ WatchReads(t)
                                    \/ CancelRequestLost(t) \/ AskVenueToCancel(t)
      PROVE  RowKinds
  BY <1>3 DEF VenueReceivesTransfer, VenueDecidesTransfer, VenueTo, WatchReads, WatchTo,
              CancelRequestLost, AskVenueToCancel, RowKinds
<1>4. CASE StartReset \/ ResetCrashes \/ Tick \/ UNCHANGED cashVars
  BY <1>4 DEF StartReset, ResetCrashes, Tick, cashVars, transferVars, RowKinds
<1>5. CASE WatchStamps
  BY <1>5 DEF WatchStamps, WatchTo, Stamp, Reasons, RowKinds
<1>6. ASSUME NEW p \in Syncs, SyncStep(p) \/ SyncFails(p) PROVE RowKinds
  BY <1>6, SyncRows
<1>7. ASSUME NEW t \in Transfers, Request(t) PROVE RowKinds
  BY <1>7 DEF RowKinds
<1>8. CASE Archive \/ Trade
  BY <1>8 DEF RowKinds
<1> QED BY <1>2, <1>3, <1>4, <1>5, <1>6, <1>7, <1>8 DEF CashNext, ResetStep

--------------------------------------------------------------------------------
(* Type correctness.                                                           *)

LEMMA KindIsBookStep ==
  ASSUME RowKinds
  PROVE  Next \/ UNCHANGED vars
<1>1. ASSUME NEW t \in Transfers, TransferStep(t) PROVE Next \/ UNCHANGED vars
  <2>1. PICK s : Moves(t, s)
    BY <1>1 DEF TransferStep, UpdateRow
  <2> QED BY <2>1, TransferAmounts DEF Moves, Next, Funds
<1>2. ASSUME NEW t \in Transfers, Request(t) PROVE Next \/ UNCHANGED vars
  BY <1>2, TransferAmounts DEF Request, Next, Funds
<1>3. CASE Archive \/ Trade \/ Stamp
  BY <1>3 DEF Archive, Trade, Stamp, Next
<1> QED BY <1>1, <1>2, <1>3 DEF RowKinds

LEMMA RowsKeepType ==
  ASSUME CashType, RowKinds
  PROVE  RowType'
<1>1. RowType /\ now \in Nat
  BY DEF CashType, VenueType
<1>2. ASSUME NEW t \in Transfers, TransferStep(t) PROVE RowType'
  BY <1>1, <1>2 DEF TransferStep, UpdateRow, RowType
<1>3. ASSUME NEW t \in Transfers, Request(t) PROVE RowType'
  <2> DEFINE next == [NoRow EXCEPT !.state = "PENDING", !.created = now]
  <2>1. next \in TransferRows
    BY <1>1 DEF NoRow, TransferRows, TransferStates, Reasons
  <2>2. row' = [row EXCEPT ![t] = next]
    BY <1>3 DEF Request
  <2> HIDE DEF next
  <2> QED BY <1>1, <2>1, <2>2 DEF RowType
<1>4. CASE Archive
  <2>1. \A t \in Transfers :
          [row[t] EXCEPT !.state = "CANCELED", !.reason = "reset"] \in TransferRows
    BY <1>1 DEF RowType, TransferRows, TransferStates, Reasons
  <2> QED BY <1>1, <1>4, <2>1 DEF Archive, RowType
<1>5. CASE Stamp
  <2>1. PICK u : \E r \in Reasons : row' = [row EXCEPT ![u].reason = r]
    BY <1>5 DEF Stamp
  <2>2. PICK r \in Reasons : row' = [row EXCEPT ![u].reason = r]
    BY <2>1
  <2>3. \A t \in Transfers : [row[t] EXCEPT !.reason = r] \in TransferRows
    BY <1>1 DEF RowType, TransferRows
  <2> QED BY <1>1, <2>2, <2>3 DEF RowType
<1>6. CASE Trade \/ UNCHANGED <<vars, row>>
  BY <1>1, <1>6 DEF Trade, transferVars, RowType
<1> QED BY <1>2, <1>3, <1>4, <1>5, <1>6 DEF RowKinds

LEMMA WorkType ==
  ASSUME PassType, NEW p \in Syncs, sync[p].at \notin {"idle", "listing"},
         NEW step \in {"link", "apply", "finish"}, NEW v, step # "finish" => v \in Transfers,
         NEW seenState, Work(p, step, v, seenState)
  PROVE  PassType'
<1> DEFINE s == [at |-> step, todo |-> sync[p].todo, started |-> sync[p].started,
                 listed |-> sync[p].listed, complete |-> sync[p].complete,
                 of |-> v, seen |-> seenState]
<1>1. sync' = [sync EXCEPT ![p] = s]
  BY DEF Work, SyncTo
<1>2. PassOK(s)
  BY DEF PassType, PassOK
<1> HIDE DEF s
<1> QED BY <1>1, <1>2, PassMoves

LEMMA StartType ==
  ASSUME CashType, NEW p \in Syncs, StartSync(p)
  PROVE  PassType'
<1> DEFINE pending == InState({"PENDING"})
<1>1. PICK byAge \in PendingByAge :
        SyncTo(p, [at |-> "listing", todo |-> LoadedPending(byAge), started |-> now])
  BY DEF StartSync
<1>2. pending # {} /\ pending \in SUBSET Transfers /\ IsFiniteSet(pending)
  BY TransferAssumption, FS_Subset DEF StartSync, InState
<1>3. Cardinality(pending) \in Nat \ {0}
  BY <1>2, FS_CardinalityType, FS_EmptySet
<1> HIDE DEF pending
<1>4. byAge \in [1..Cardinality(pending) -> pending]
  BY DEF PendingByAge, SetToSeqs, pending
<1>5. LoadedPending(byAge) \in [1..Cardinality(pending) -> Entries]
  <2>1. \A t \in Transfers : row[t].venue \in Transfers \cup {None}
    BY DEF CashType, RowType, TransferRows
  <2> QED BY <1>2, <1>4, <2>1 DEF LoadedPending, Entries
<1>6. LoadedPending(byAge) \in Seq(Entries) /\ LoadedPending(byAge) # <<>>
  BY <1>3, <1>5
<1> DEFINE s == [at |-> "listing", todo |-> LoadedPending(byAge), started |-> now]
<1>7. PassOK(s)
  BY <1>6 DEF PassOK
<1>8. sync' = [sync EXCEPT ![p] = s]
  BY <1>1 DEF SyncTo
<1> HIDE DEF s
<1> QED BY <1>7, <1>8, PassMoves DEF CashType

LEMMA ListType ==
  ASSUME CashType, NEW p \in Syncs, ListTransfers(p) \/ ListingFails(p)
  PROVE  PassType'
<1>1. sync[p].todo \in Seq(Entries) /\ sync[p].todo # <<>> /\ PassType
  BY DEF CashType, PassType, PassOK, ListTransfers, ListingFails
<1>2. ASSUME NEW listed, NEW complete, DOMAIN listed \subseteq Transfers,
             SyncTo(p, [at |-> "next", todo |-> sync[p].todo, started |-> sync[p].started,
                        listed |-> listed, complete |-> complete])
      PROVE  PassType'
  <2> DEFINE s == [at |-> "next", todo |-> sync[p].todo, started |-> sync[p].started,
                   listed |-> listed, complete |-> complete]
  <2>1. PassOK(s)
    BY <1>1, <1>2 DEF PassOK
  <2>2. sync' = [sync EXCEPT ![p] = s]
    BY <1>2 DEF SyncTo
  <2> HIDE DEF s
  <2> QED BY <1>1, <2>1, <2>2, PassMoves
<1>3. CASE ListTransfers(p)
  <2>1. PICK unread :
          SyncTo(p, [at |-> "next", todo |-> sync[p].todo, started |-> sync[p].started,
                     listed |-> Listing(p, unread).listed, complete |-> Listing(p, unread).complete])
    BY <1>3 DEF ListTransfers
  <2>2. DOMAIN Listing(p, unread).listed \subseteq Transfers
    BY DEF Listing
  <2> QED BY <1>2, <2>1, <2>2
<1>4. CASE ListingFails(p)
  <2>1. DOMAIN <<>> \subseteq Transfers
    OBVIOUS
  <2> QED BY <1>2, <1>4, <2>1 DEF ListingFails
<1> QED BY <1>3, <1>4

LEMMA PassesKeepType ==
  ASSUME CashType, [CashNext]_cashVars
  PROVE  PassType'
<1>1. PassType /\ RowType /\ VenueType
  BY DEF CashType
<1>2. ASSUME NEW p \in Syncs, SyncStep(p) \/ SyncFails(p) PROVE PassType'
  <2>1. CASE StartSync(p)
    BY <2>1, StartType
  <2>2. CASE ListTransfers(p) \/ ListingFails(p)
    BY <2>2, ListType
  <2>3. CASE SyncDeferred(p) \/ SyncApplies(p) \/ SyncFinishes(p) \/ LookupFails(p)
    BY <1>1, <2>3, ProceedType DEF SyncDeferred, SyncApplies, SyncFinishes, LookupFails
  <2>4. CASE SyncLinked(p)
    <3>1. sync[p].at = "next" /\ Loaded(p).venue \in Transfers
      BY <1>1, <2>4, LoadedType DEF SyncLinked
    <3>2. PICK s : Work(p, "link", Loaded(p).venue, s)
      BY <2>4 DEF SyncLinked
    <3> QED BY <1>1, <3>1, <3>2, WorkType
  <2>5. CASE SyncRecovers(p)
    <3> DEFINE t == Loaded(p).of
               C == Candidates(p, t)
    <3>1. sync[p].at = "next" /\ t \in Transfers
      BY <1>1, <2>5, LoadedType DEF SyncRecovers
    <3>2. C \in SUBSET Transfers /\ C # {}
      BY <1>1, <2>5, <3>1 DEF SyncRecovers, Candidates, PassType, PassOK
    <3>3. \A v \in C : venue[v].created \in Nat
      BY <1>1, <3>2 DEF VenueType, VenueRows
    <3> HIDE DEF C
    <3>4. Closest(t, C) \in Transfers
      BY <1>1, <3>1, <3>2, <3>3, ClosestIsCandidate
    <3>5. PICK s : Work(p, "link", Closest(t, C), s)
      BY <2>5 DEF SyncRecovers, C
    <3> QED BY <1>1, <3>1, <3>4, <3>5, WorkType
  <2>6. CASE SyncNeverReached(p)
    BY <1>1, <2>6, WorkType DEF SyncNeverReached
  <2>7. CASE SyncLinks(p)
    <3>1. sync[p].at = "link" /\ sync[p].of \in Transfers
      BY <1>1, <2>7 DEF SyncLinks, PassType, PassOK
    <3>2. Proceed(p) \/ Work(p, "apply", sync[p].of, sync[p].seen)
      BY <2>7 DEF SyncLinks
    <3> QED BY <1>1, <3>1, <3>2, ProceedType, WorkType
  <2> QED BY <1>2, <2>1, <2>2, <2>3, <2>4, <2>5, <2>6, <2>7 DEF SyncStep, SyncFails
<1>3. CASE UNCHANGED sync
  BY <1>1, <1>3 DEF PassType
<1>4. ASSUME NEW t \in Transfers,
             \/ Request(t) \/ InitiateRejected(t) \/ CallLost(t) \/ CallStep(t)
             \/ VenueReceivesTransfer(t) \/ VenueDecidesTransfer(t)
             \/ WatchReads(t) \/ CancelRequestLost(t) \/ AskVenueToCancel(t)
      PROVE  UNCHANGED sync
  BY <1>4 DEF Request, InitiateRejected, CallLost, CallStep, InitiateAnswered, CallLinks, CallApplies,
              CallTo, VenueReceivesTransfer, VenueDecidesTransfer, VenueTo, WatchReads, WatchTo,
              CancelRequestLost, AskVenueToCancel, ResetTo
<1>5. CASE StartReset \/ Archive \/ ResetCrashes \/ WatchStamps \/ Tick \/ Trade \/ UNCHANGED cashVars
  BY <1>3, <1>5 DEF StartReset, Archive, ResetCrashes, ResetTo, WatchStamps, WatchTo, Tick, Trade,
                    transferVars, cashVars
<1> QED BY <1>2, <1>3, <1>4, <1>5 DEF CashNext, ResetStep

LEMMA VenueKeepsType ==
  ASSUME CashType, [CashNext]_cashVars
  PROVE  VenueType'
<1>1. VenueType
  BY DEF CashType
<1>2. CASE UNCHANGED <<venue, now>>
  BY <1>1, <1>2 DEF VenueType
<1>3. ASSUME NEW t \in Transfers, VenueReceivesTransfer(t) \/ VenueDecidesTransfer(t)
      PROVE  VenueType'
  <2>1. PICK s \in {"PENDING", "SETTLED", "FAILED"}, c \in Nat : VenueTo(t, s, c)
    BY <1>1, <1>3 DEF VenueReceivesTransfer, VenueDecidesTransfer, VenueType, VenueRows
  <2> QED BY <1>1, <2>1 DEF VenueTo, VenueType, VenueRows
<1>4. ASSUME NEW v \in Transfers, AskVenueToCancel(v) PROVE VenueType'
  <2>1. [venue[v] EXCEPT !.state = "FAILED"] \in VenueRows
    BY <1>1 DEF VenueType, VenueRows
  <2> QED BY <1>1, <1>4, <2>1 DEF AskVenueToCancel, ResetTo, VenueType
<1>5. CASE Tick
  BY <1>1, <1>5 DEF Tick, VenueType
<1>6. ASSUME NEW p \in Syncs, SyncStep(p) \/ SyncFails(p) PROVE UNCHANGED <<venue, now>>
  BY <1>6 DEF SyncStep, SyncFails, StartSync, ListTransfers, ListingFails, SyncLinked, SyncDeferred,
              SyncRecovers, SyncNeverReached, LookupFails, SyncLinks, SyncApplies, SyncFinishes,
              Proceed, Work, SyncTo
<1>7. ASSUME NEW t \in Transfers,
             \/ Request(t) \/ InitiateRejected(t) \/ CallLost(t) \/ CallStep(t)
             \/ WatchReads(t) \/ CancelRequestLost(t)
      PROVE  UNCHANGED <<venue, now>>
  BY <1>7 DEF Request, InitiateRejected, CallLost, CallStep, InitiateAnswered, CallLinks, CallApplies,
              CallTo, WatchReads, WatchTo, CancelRequestLost, ResetTo
<1>8. CASE StartReset \/ Archive \/ ResetCrashes \/ WatchStamps \/ Trade \/ UNCHANGED cashVars
  BY <1>2, <1>8 DEF StartReset, Archive, ResetCrashes, ResetTo, WatchStamps, WatchTo, Trade,
                    transferVars, cashVars
<1> QED BY <1>2, <1>3, <1>4, <1>5, <1>6, <1>7, <1>8 DEF CashNext, ResetStep

LEMMA InitCashType == CashInit => CashType
<1> SUFFICES ASSUME CashInit PROVE CashType
  OBVIOUS
<1>1. TypeOK
  BY InitType DEF CashInit
<1>2. RowType
  BY DEF CashInit, RowType, NoRow, TransferRows, Reasons
<1>3. PassType
  BY ReadyIsOK DEF CashInit, PassType
<1>4. VenueType
  BY DEF CashInit, VenueType, VenueRows, NoTransfer
<1> QED BY <1>1, <1>2, <1>3, <1>4 DEF CashType

LEMMA NextCashType == CashType /\ [CashNext]_cashVars => CashType'
<1> SUFFICES ASSUME CashType, [CashNext]_cashVars PROVE CashType'
  OBVIOUS
<1>1. RowKinds
  BY StepKinds
<1>2. TypeOK'
  BY <1>1, KindIsBookStep, NextType DEF CashType
<1> QED BY <1>1, <1>2, RowsKeepType, PassesKeepType, VenueKeepsType DEF CashType

THEOREM TransfersTypeCorrect == CashSpec => []CashType
BY InitCashType, NextCashType, PTL DEF CashSpec

\* Every step of the transfers is a transaction of the book, for any number of
\* passes and whatever is lost.
THEOREM TransfersAreBookSteps == CashSpec => TransfersImplementBook
<1>1. CashInit => Init
  BY DEF CashInit
<1>2. CashType /\ [CashNext]_cashVars => [UNCHANGED vars \/ Next]_vars
  BY StepKinds, KindIsBookStep
<1> QED BY <1>1, <1>2, TransfersTypeCorrect, PTL DEF CashSpec, TransfersImplementBook

\* What is open on the account stays covered under every race of transfers,
\* passes and resets.
THEOREM TransfersLeaveOrdersCovered == CashSpec => []OpenOrdersAreCovered
<1>1. UNCHANGED vars \/ Next => [Next]_vars
  OBVIOUS
<1>2. CashSpec => Spec
  BY <1>1, TransfersAreBookSteps, PTL DEF TransfersImplementBook, Spec
<1> QED BY <1>2, OpenOrdersStayCovered, PTL

--------------------------------------------------------------------------------
(* The rows and the book agree.                                                *)

PendingOut == InState({"PENDING"}) \cap Withdrawals
SettledIn == InState({"SETTLED"}) \ Withdrawals
SettledOut == InState({"SETTLED"}) \cap Withdrawals

\* A sum of transfers moves by the one that changes sides.
LEMMA AmountsMove ==
  ASSUME NEW S \in SUBSET Transfers, NEW T \in SUBSET Transfers, NEW t \in Transfers,
         T \ {t} = S \ {t}
  PROVE  /\ SumFunctionOnSet(Amount, S) \in Int
         /\ SumFunctionOnSet(Amount, T) =
              SumFunctionOnSet(Amount, S) - Share(Amount, S, t) + Share(Amount, T, t)
<1>1. IsFiniteSet(S)
  BY TransferAssumption, FS_Subset
<1> DEFINE f == Amount
           g == Amount
<1>2. /\ \A x \in S : f[x] \in Int
      /\ \A x \in T : g[x] \in Int
      /\ \A x \in S \ {t} : f[x] = g[x]
  BY TransferAmounts
<1> HIDE DEF f, g
<1>3. /\ SumFunctionOnSet(f, S) \in Int
      /\ SumFunctionOnSet(g, T) = SumFunctionOnSet(f, S) - Share(f, S, t) + Share(g, T, t)
  BY <1>1, <1>2, SumMoves
<1> QED BY <1>3 DEF f, g

\* An archived account has no PENDING transfer.
CashInv ==
  /\ CashType
  /\ RowsAndBookAgree
  /\ account = "ARCHIVED" => InState({"PENDING"}) = {}

LEMMA EmptySum == SumFunctionOnSet(Amount, {}) = 0
BY SumTurn, FS_EmptySet

\* A row that changes state takes its amount along.
LEMMA OneRowAgrees ==
  ASSUME CashType, TypeOK', RowType', RowsAndBookAgree, NEW t \in Transfers,
         \A u \in Transfers \ {t} : row'[u].state = row[u].state,
         holds' - holds = Share(Amount, PendingOut', t) - Share(Amount, PendingOut, t),
         transferred' - transferred =
           (Share(Amount, SettledIn', t) - Share(Amount, SettledIn, t))
             - (Share(Amount, SettledOut', t) - Share(Amount, SettledOut, t))
  PROVE  RowsAndBookAgree'
<1> DEFINE Sum(S) == SumFunctionOnSet(Amount, S)
           Part(S) == Share(Amount, S, t)
<1>1. holds = Sum(PendingOut) /\ transferred = Sum(SettledIn) - Sum(SettledOut)
  BY DEF RowsAndBookAgree, PendingSum, PendingOut, SettledIn, SettledOut
<1>2. /\ PendingOut \in SUBSET Transfers /\ PendingOut' \in SUBSET Transfers
      /\ PendingOut' \ {t} = PendingOut \ {t}
      /\ SettledIn \in SUBSET Transfers /\ SettledIn' \in SUBSET Transfers
      /\ SettledIn' \ {t} = SettledIn \ {t}
      /\ SettledOut \in SUBSET Transfers /\ SettledOut' \in SUBSET Transfers
      /\ SettledOut' \ {t} = SettledOut \ {t}
  BY DEF PendingOut, SettledIn, SettledOut, InState
<1>3. \A S, T \in SUBSET Transfers : T \ {t} = S \ {t} =>
        Sum(S) \in Int /\ Sum(T) = Sum(S) - Part(S) + Part(T)
  BY AmountsMove
<1>4. \A S : Part(S) \in Int
  BY TransferAmounts DEF Share
<1>5. holds \in Int /\ holds' \in Int /\ transferred \in Int /\ transferred' \in Int
  BY DEF CashType, TypeOK
<1>6. /\ holds' - holds = Part(PendingOut') - Part(PendingOut)
      /\ transferred' - transferred =
           (Part(SettledIn') - Part(SettledIn)) - (Part(SettledOut') - Part(SettledOut))
  OBVIOUS
<1> HIDE DEF Sum, Part
<1>7. Sum(PendingOut) \in Int /\ Sum(PendingOut') = Sum(PendingOut) - Part(PendingOut) + Part(PendingOut')
  BY <1>2, <1>3
<1>8. Sum(SettledIn) \in Int /\ Sum(SettledIn') = Sum(SettledIn) - Part(SettledIn) + Part(SettledIn')
  BY <1>2, <1>3
<1>9. Sum(SettledOut) \in Int /\ Sum(SettledOut') = Sum(SettledOut) - Part(SettledOut) + Part(SettledOut')
  BY <1>2, <1>3
<1>10. holds' = Sum(PendingOut')
  BY <1>1, <1>4, <1>5, <1>6, <1>7
<1>11. transferred' = Sum(SettledIn') - Sum(SettledOut')
  <2> DEFINE a == Sum(SettledIn)
             b == Sum(SettledOut)
             c == Sum(SettledIn')
             d == Sum(SettledOut')
             x == Part(SettledIn') - Part(SettledIn)
             y == Part(SettledOut') - Part(SettledOut)
             n == transferred'
  <2>1. x \in Int /\ y \in Int
    BY <1>4
  <2>2. a \in Int /\ c = a + x
    BY <1>4, <1>8
  <2>3. b \in Int /\ d = b + y
    BY <1>4, <1>9
  <2>4. n \in Int /\ transferred = a - b /\ n - transferred = x - y
    BY <1>1, <1>5, <1>6
  <2> HIDE DEF a, b, c, d, x, y, n
  <2>5. n = c - d
    BY <2>1, <2>2, <2>3, <2>4
  <2> QED BY <2>5 DEF c, d, n
<1> QED BY <1>10, <1>11 DEF Sum, RowsAndBookAgree, PendingSum, PendingOut, SettledIn, SettledOut

LEMMA TransferStepAgrees ==
  ASSUME CashType, TypeOK', RowType', RowsAndBookAgree, NEW t \in Transfers, TransferStep(t)
  PROVE  RowsAndBookAgree'
<1>1. PICK next \in TransferRows : UpdateRow(t, next)
  BY DEF TransferStep
<1>2. /\ row'[t] = next /\ \A u \in Transfers \ {t} : row'[u] = row[u]
      /\ Moves(t, next.state)
  BY <1>1 DEF UpdateRow, CashType, RowType
<1>3. /\ Amount[t] \in Nat /\ holds \in Int /\ transferred \in Int
      /\ holds' \in Int /\ transferred' \in Int
  BY TransferAmounts DEF CashType, TypeOK
<1>4. /\ Share(Amount, PendingOut, t) =
           (IF row[t].state = "PENDING" /\ t \in Withdrawals THEN Amount[t] ELSE 0)
      /\ Share(Amount, PendingOut', t) =
           (IF next.state = "PENDING" /\ t \in Withdrawals THEN Amount[t] ELSE 0)
  BY <1>2 DEF Share, PendingOut, InState
<1>5. /\ Share(Amount, SettledIn, t) =
           (IF row[t].state = "SETTLED" /\ t \notin Withdrawals THEN Amount[t] ELSE 0)
      /\ Share(Amount, SettledIn', t) =
           (IF next.state = "SETTLED" /\ t \notin Withdrawals THEN Amount[t] ELSE 0)
  BY <1>2 DEF Share, SettledIn, InState
<1>6. /\ Share(Amount, SettledOut, t) =
           (IF row[t].state = "SETTLED" /\ t \in Withdrawals THEN Amount[t] ELSE 0)
      /\ Share(Amount, SettledOut', t) =
           (IF next.state = "SETTLED" /\ t \in Withdrawals THEN Amount[t] ELSE 0)
  BY <1>2 DEF Share, SettledOut, InState
<1> DEFINE Agree == /\ holds' - holds = Share(Amount, PendingOut', t) - Share(Amount, PendingOut, t)
                    /\ transferred' - transferred =
                         (Share(Amount, SettledIn', t) - Share(Amount, SettledIn, t))
                           - (Share(Amount, SettledOut', t) - Share(Amount, SettledOut, t))
<1>7. CASE next.state = row[t].state /\ UNCHANGED vars
  <2>1. holds' = holds /\ transferred' = transferred
    BY <1>7 DEF vars
  <2>2. Agree
    BY <1>3, <1>4, <1>5, <1>6, <1>7, <2>1
  <2> QED BY <1>2, <2>2, OneRowAgrees
<1>8. CASE /\ row[t].state = "PENDING" /\ next.state = "SETTLED"
           /\ IF t \in Withdrawals THEN SettleWithdrawal(Amount[t]) ELSE SettleDeposit(Amount[t])
  <2>1. /\ holds' = IF t \in Withdrawals THEN holds - Amount[t] ELSE holds
        /\ transferred' = IF t \in Withdrawals THEN transferred - Amount[t] ELSE transferred + Amount[t]
    BY <1>8 DEF SettleWithdrawal, SettleDeposit
  <2>2. Agree
    BY <1>3, <1>4, <1>5, <1>6, <1>8, <2>1
  <2> QED BY <1>2, <2>2, OneRowAgrees
<1>9. CASE /\ row[t].state = "PENDING" /\ next.state \in {"FAILED", "CANCELED"}
           /\ IF t \in Withdrawals THEN ReleaseHold(Amount[t]) ELSE UNCHANGED vars
  <2>1. /\ holds' = IF t \in Withdrawals THEN holds - Amount[t] ELSE holds
        /\ transferred' = transferred
    BY <1>9 DEF ReleaseHold, vars
  <2>2. Agree
    BY <1>3, <1>4, <1>5, <1>6, <1>9, <2>1
  <2> QED BY <1>2, <2>2, OneRowAgrees
<1> QED BY <1>2, <1>7, <1>8, <1>9 DEF Moves

LEMMA RequestAgrees ==
  ASSUME CashType, TypeOK', RowType', RowsAndBookAgree, NEW t \in Transfers, Request(t)
  PROVE  RowsAndBookAgree'
<1>1. /\ row[t].state = Absent /\ row'[t].state = "PENDING"
      /\ \A u \in Transfers \ {t} : row'[u] = row[u]
  BY DEF Request, CashType, RowType, NoRow
<1>2. /\ Amount[t] \in Nat /\ holds \in Int
      /\ holds' = IF t \in Withdrawals THEN holds + Amount[t] ELSE holds
      /\ transferred' = transferred /\ transferred \in Int
  BY TransferAmounts DEF Request, HoldWithdrawal, vars, CashType, TypeOK
<1>3. /\ Share(Amount, PendingOut, t) = 0
      /\ Share(Amount, PendingOut', t) = IF t \in Withdrawals THEN Amount[t] ELSE 0
      /\ Share(Amount, SettledIn, t) = 0 /\ Share(Amount, SettledIn', t) = 0
      /\ Share(Amount, SettledOut, t) = 0 /\ Share(Amount, SettledOut', t) = 0
  BY <1>1 DEF Share, PendingOut, SettledIn, SettledOut, InState, Absent
<1>4. /\ holds' - holds = Share(Amount, PendingOut', t) - Share(Amount, PendingOut, t)
      /\ transferred' - transferred =
           (Share(Amount, SettledIn', t) - Share(Amount, SettledIn, t))
             - (Share(Amount, SettledOut', t) - Share(Amount, SettledOut, t))
  BY <1>2, <1>3
<1> QED BY <1>1, <1>4, OneRowAgrees

\* Steps that move neither a state nor money.
LEMMA OthersAgree ==
  ASSUME RowsAndBookAgree, \A t \in Transfers : row'[t].state = row[t].state,
         UNCHANGED <<holds, transferred>>
  PROVE  RowsAndBookAgree'
<1>1. /\ InState({"PENDING"})' = InState({"PENDING"})
      /\ InState({"SETTLED"})' = InState({"SETTLED"})
  BY DEF InState
<1> QED BY <1>1 DEF RowsAndBookAgree, PendingSum

LEMMA ArchiveAgrees ==
  ASSUME CashType, RowsAndBookAgree, Archive
  PROVE  RowsAndBookAgree' /\ InState({"PENDING"})' = {}
<1>1. /\ holds' = 0 /\ transferred' = transferred
      /\ row' = [t \in Transfers |-> IF row[t].state = "PENDING"
                   THEN [row[t] EXCEPT !.state = "CANCELED", !.reason = "reset"] ELSE row[t]]
  BY DEF Archive, ArchiveAccount
<1>2. \A t \in Transfers : row'[t].state = IF row[t].state = "PENDING" THEN "CANCELED" ELSE row[t].state
  BY <1>1 DEF CashType, RowType, TransferRows
<1>3. InState({"PENDING"})' = {} /\ InState({"SETTLED"})' = InState({"SETTLED"})
  BY <1>2 DEF InState
<1>4. PendingSum(Withdrawals)' = 0
  <2>1. InState({"PENDING"})' \cap Withdrawals = {}
    BY <1>3
  <2> QED BY <2>1, EmptySum DEF PendingSum
<1> QED BY <1>1, <1>3, <1>4 DEF RowsAndBookAgree

LEMMA InitCashInv == CashInit => CashInv
<1> SUFFICES ASSUME CashInit PROVE CashInv
  OBVIOUS
<1>1. CashType
  BY InitCashType
<1>2. \A states \in SUBSET TransferStates : InState(states) = {}
  BY DEF CashInit, InState, NoRow, TransferStates, Absent
<1>3. InState({"PENDING"}) = {} /\ InState({"SETTLED"}) = {}
  BY <1>2 DEF TransferStates
<1>4. PendingSum(Withdrawals) = 0
  <2>1. InState({"PENDING"}) \cap Withdrawals = {}
    BY <1>3
  <2> QED BY <2>1, EmptySum DEF PendingSum
<1>5. /\ SumFunctionOnSet(Amount, InState({"SETTLED"}) \ Withdrawals) = 0
      /\ SumFunctionOnSet(Amount, InState({"SETTLED"}) \cap Withdrawals) = 0
  <2>1. InState({"SETTLED"}) \ Withdrawals = {} /\ InState({"SETTLED"}) \cap Withdrawals = {}
    BY <1>3
  <2> QED BY <2>1, EmptySum
<1>6. holds = 0 /\ transferred = 0
  BY DEF CashInit, Init
<1> QED BY <1>1, <1>3, <1>4, <1>5, <1>6 DEF CashInv, RowsAndBookAgree

\* After the archive no state of a row changes.
LEMMA StatesStay ==
  ASSUME CashInv, RowKinds, account = "ARCHIVED"
  PROVE  account' = account /\ \A t \in Transfers : row'[t].state = row[t].state
<1>1. RowType /\ \A t \in Transfers : row[t].state # "PENDING"
  BY DEF CashInv, CashType, InState
<1>2. ASSUME NEW t \in Transfers, TransferStep(t)
      PROVE  account' = account /\ \A u \in Transfers : row'[u].state = row[u].state
  <2>1. PICK next \in TransferRows : UpdateRow(t, next)
    BY <1>2 DEF TransferStep
  <2>2. next.state = row[t].state /\ UNCHANGED vars /\ row' = [row EXCEPT ![t] = next]
    BY <1>1, <2>1 DEF UpdateRow, Moves
  <2> QED BY <1>1, <2>2 DEF vars, RowType
<1>3. \A t \in Transfers : ~Request(t)
  BY DEF Request
<1>4. ~Archive
  BY DEF Archive, ArchiveAccount
<1>5. CASE Trade
  BY <1>5 DEF Trade, transferVars, Place, ApplyStatus, ApplyFill
<1>6. CASE Stamp
  BY <1>1, <1>6 DEF Stamp, vars, RowType, TransferRows
<1>7. CASE UNCHANGED <<vars, row>>
  BY <1>7 DEF vars
<1> QED BY <1>2, <1>3, <1>4, <1>5, <1>6, <1>7 DEF RowKinds

LEMMA NextCashInv == CashInv /\ [CashNext]_cashVars => CashInv'
<1> SUFFICES ASSUME CashInv, [CashNext]_cashVars PROVE CashInv'
  OBVIOUS
<1>1. CashType /\ CashType' /\ RowKinds /\ RowsAndBookAgree
  BY NextCashType, StepKinds DEF CashInv
<1>2. TypeOK' /\ RowType /\ RowType'
  BY <1>1 DEF CashType
<1>3. RowsAndBookAgree'
  <2>1. ASSUME NEW t \in Transfers, TransferStep(t) \/ Request(t) PROVE RowsAndBookAgree'
    BY <1>1, <1>2, <2>1, TransferStepAgrees, RequestAgrees
  <2>2. CASE Archive
    BY <1>1, <2>2, ArchiveAgrees
  <2>3. CASE Trade
    <3>1. row' = row /\ UNCHANGED <<holds, transferred>>
      BY <2>3 DEF Trade, transferVars, Place, ApplyStatus, ApplyFill
    <3> QED BY <1>1, <3>1, OthersAgree
  <2>4. CASE Stamp
    <3>1. UNCHANGED <<holds, transferred>> /\ \A t \in Transfers : row'[t].state = row[t].state
      BY <1>2, <2>4 DEF Stamp, vars, RowType, TransferRows
    <3> QED BY <1>1, <3>1, OthersAgree
  <2>5. CASE UNCHANGED <<vars, row>>
    <3>1. row' = row /\ UNCHANGED <<holds, transferred>>
      BY <2>5 DEF vars
    <3> QED BY <1>1, <3>1, OthersAgree
  <2> QED BY <1>1, <2>1, <2>2, <2>3, <2>4, <2>5 DEF RowKinds
<1>4. ASSUME account' = "ARCHIVED" PROVE InState({"PENDING"})' = {}
  <2>1. CASE account = "ARCHIVED"
    <3>1. \A t \in Transfers : row'[t].state = row[t].state
      BY <1>1, <2>1, StatesStay
    <3>2. \A t \in Transfers : row[t].state # "PENDING"
      BY <2>1 DEF CashInv, InState
    <3>3. \A t \in Transfers : row'[t].state # "PENDING"
      BY <3>1, <3>2
    <3> QED BY <3>3 DEF InState
  <2>2. CASE Archive
    BY <1>1, <2>2, ArchiveAgrees
  <2>3. CASE account # "ARCHIVED" /\ ~Archive
    <3>1. ASSUME NEW t \in Transfers, TransferStep(t) PROVE account' = account
      BY <3>1 DEF TransferStep, UpdateRow, Moves, SettleWithdrawal, SettleDeposit, ReleaseHold, vars
    <3>2. ASSUME NEW t \in Transfers, Request(t) PROVE account' = account
      BY <3>2 DEF Request, HoldWithdrawal, vars
    <3>3. ASSUME Trade \/ Stamp \/ UNCHANGED <<vars, row>> PROVE account' = account
      BY <3>3 DEF Trade, Place, ApplyStatus, ApplyFill, Stamp, vars
    <3> QED BY <1>1, <1>4, <2>3, <3>1, <3>2, <3>3 DEF RowKinds
  <2> QED BY <2>1, <2>2, <2>3
<1> QED BY <1>1, <1>3, <1>4 DEF CashInv

\* Holds and posted transfers are what the rows say, whatever races.
THEOREM RowsAndBookStayTogether == CashSpec => []RowsAndBookAgree
<1>1. CashInv => RowsAndBookAgree
  BY DEF CashInv
<1> QED BY <1>1, InitCashInv, NextCashInv, PTL DEF CashSpec

\* Nothing is pending, held or posted on an archived account.
THEOREM ArchivedStaysArchived == CashSpec => NothingPostsAfterArchive
<1>1. CashInv /\ [CashNext]_cashVars =>
        [account = "ARCHIVED" =>
           /\ InState({"PENDING"}) = {} /\ holds = 0
           /\ \A t \in Transfers : row'[t].state = row[t].state]_cashVars
  <2> SUFFICES ASSUME CashInv, [CashNext]_cashVars, account = "ARCHIVED"
               PROVE  /\ InState({"PENDING"}) = {} /\ holds = 0
                      /\ \A t \in Transfers : row'[t].state = row[t].state
    OBVIOUS
  <2>1. InState({"PENDING"}) = {} /\ RowKinds
    BY StepKinds DEF CashInv
  <2>2. PendingSum(Withdrawals) = 0
    <3>1. InState({"PENDING"}) \cap Withdrawals = {}
      BY <2>1
    <3> QED BY <3>1, EmptySum DEF PendingSum
  <2>3. holds = 0
    BY <2>2 DEF CashInv, RowsAndBookAgree
  <2> QED BY <2>1, <2>3, StatesStay
<1> QED BY <1>1, InitCashInv, NextCashInv, PTL DEF CashSpec, NothingPostsAfterArchive

--------------------------------------------------------------------------------
(* The daily cap.                                                              *)

\* The deposits made in the window that ends at last, and the opening deposit.
Counted(last) == {t \in InState({"PENDING", "SETTLED"}) \ Withdrawals :
                    row[t].created \in (last - DepositWindow)..last}
Opened(last) == IF 0 \in (last - DepositWindow)..last THEN OpeningCash ELSE 0
WithinCap(last) ==
  Counted(last) # {} =>
    SumFunctionOnSet(Amount, Counted(last)) + Opened(last) <= DailyDepositCap

LEMMA CapIsWithinCap == DepositCapHolds <=> \A last \in 0..LastRequest : WithinCap(last)
BY DEF DepositCapHolds, WithinCap, Counted, Opened

\* Sums over sets of transfers.
LEMMA PartOfTransfers ==
  ASSUME NEW S \in SUBSET Transfers, NEW P \in SUBSET S
  PROVE  /\ SumFunctionOnSet(Amount, P) \in Int /\ SumFunctionOnSet(Amount, S) \in Int
         /\ SumFunctionOnSet(Amount, P) <= SumFunctionOnSet(Amount, S)
<1>1. IsFiniteSet(S) /\ \A x \in S : Amount[x] \in Nat
  BY TransferAmounts, TransferAssumption, FS_Subset
<1> QED BY <1>1, SumPart

\* A deposit that leaves the sum leaves room.
LEMMA FewerCounted ==
  ASSUME NEW last \in Nat, WithinCap(last), Counted(last)' \subseteq Counted(last)
  PROVE  WithinCap(last)'
<1> DEFINE S == Counted(last)
           P == Counted(last)'
           o == Opened(last)
<1>1. S \in SUBSET Transfers /\ P \in SUBSET S
  BY DEF Counted, InState
<1>2. S # {} => SumFunctionOnSet(Amount, S) + o <= DailyDepositCap
  BY DEF WithinCap
<1>3. o \in Nat /\ DailyDepositCap \in Nat
  BY TransferAssumption, BookAssumption DEF Opened
<1> HIDE DEF S, P, o
<1>4. /\ SumFunctionOnSet(Amount, P) \in Int /\ SumFunctionOnSet(Amount, S) \in Int
      /\ SumFunctionOnSet(Amount, P) <= SumFunctionOnSet(Amount, S)
  BY <1>1, PartOfTransfers
<1>5. P # {} => SumFunctionOnSet(Amount, P) + o <= DailyDepositCap
  BY <1>1, <1>2, <1>3, <1>4
<1> QED BY <1>5 DEF P, o, WithinCap, Opened

\* A deposit is let in only when it fits the window that ends with it, which
\* holds every other deposit of a later window it is in.
LEMMA RequestKeepsCap ==
  ASSUME CashType, NEW t \in Transfers, Request(t), NEW last \in Nat, WithinCap(last)
  PROVE  WithinCap(last)'
<1>1. /\ row[t].state = Absent
      /\ row'[t].state = "PENDING" /\ row'[t].created = now
      /\ \A u \in Transfers \ {t} : row'[u] = row[u]
  BY DEF Request, CashType, RowType, NoRow
<1>2. t \notin Counted(last) /\ Counted(last) \subseteq Transfers
  BY <1>1 DEF Counted, InState, Absent
<1>3. \A u \in Transfers \ {t} : u \in Counted(last)' <=> u \in Counted(last)
  BY <1>1 DEF Counted, InState
<1>4. Counted(last)' \subseteq Transfers
  BY DEF Counted, InState
<1>5. CASE t \notin Counted(last)'
  <2>1. Counted(last)' \subseteq Counted(last)
    BY <1>3, <1>4, <1>5
  <2> QED BY <2>1, FewerCounted
<1>6. CASE t \in Counted(last)'
  <2> DEFINE S == {u \in InState({"PENDING", "SETTLED"}) \ Withdrawals : row[u].created >= now - DepositWindow}
             P == Counted(last)
             T == Counted(last)'
             o == Opened(last)
             q == IF now <= DepositWindow THEN OpeningCash ELSE 0
  <2>1. /\ now \in Nat /\ DepositWindow \in Nat /\ OpeningCash \in Nat
        /\ DailyDepositCap \in Nat /\ Amount[t] \in Nat
    BY TransferAssumption, BookAssumption, TransferAmounts DEF CashType, VenueType
  <2>2. t \notin Withdrawals /\ now \in (last - DepositWindow)..last
    BY <1>1, <1>6 DEF Counted
  <2>3. last - DepositWindow <= now /\ now <= last
    BY <2>1, <2>2
  <2>4. P \subseteq S
    <3> SUFFICES ASSUME NEW u \in P PROVE u \in S
      OBVIOUS
    <3>1. u \in InState({"PENDING", "SETTLED"}) \ Withdrawals /\ row[u].created \in (last - DepositWindow)..last
      BY DEF Counted
    <3>2. row[u].created >= now - DepositWindow
      BY <2>1, <2>3, <3>1
    <3> QED BY <3>1, <3>2
  <2>5. o \in Nat /\ q \in Nat /\ o <= q
    BY <2>1, <2>3 DEF Opened
  <2>6. Amount[t] <= DailyDepositCap - (SumFunctionOnSet(Amount, S) + q)
    BY <2>2 DEF Request, AllowedRequest, DepositedInWindow
  <2>7. S \in SUBSET Transfers /\ T \in SUBSET Transfers /\ t \in T /\ T \ {t} = P
    BY <1>2, <1>3, <1>4, <1>6 DEF InState
  <2>8. WithinCap(last)' <=> (T # {} => SumFunctionOnSet(Amount, T) + o <= DailyDepositCap)
    BY DEF WithinCap, Opened
  <2> HIDE DEF S, P, T, o, q
  <2>9. /\ SumFunctionOnSet(Amount, P) \in Int /\ SumFunctionOnSet(Amount, S) \in Int
        /\ SumFunctionOnSet(Amount, P) <= SumFunctionOnSet(Amount, S)
    BY <2>4, <2>7, PartOfTransfers
  <2>10. SumFunctionOnSet(Amount, T) = Amount[t] + SumFunctionOnSet(Amount, P)
    <3>1. IsFiniteSet(T) /\ \A x \in T : Amount[x] \in Int
      BY <2>7, TransferAmounts, TransferAssumption, FS_Subset
    <3> QED BY <2>7, <3>1, SumRemove
  <2>11. SumFunctionOnSet(Amount, T) + o <= DailyDepositCap
    BY <2>1, <2>5, <2>6, <2>9, <2>10
  <2> QED BY <2>8, <2>11
<1> QED BY <1>5, <1>6

\* No other step adds a deposit, or moves one in time.
LEMMA OthersCountNoMore ==
  ASSUME CashType, NEW last \in Nat,
         \A t \in Transfers : /\ row'[t].created = row[t].created
                              /\ row'[t].state \in {"PENDING", "SETTLED"} =>
                                   row[t].state \in {"PENDING", "SETTLED"}
  PROVE  Counted(last)' \subseteq Counted(last)
BY DEF Counted, InState

LEMMA StepsKeepCap ==
  ASSUME CashType, RowKinds, NEW last \in Nat, WithinCap(last)
  PROVE  WithinCap(last)'
<1> DEFINE Quiet == \A t \in Transfers :
                      /\ row'[t].created = row[t].created
                      /\ row'[t].state \in {"PENDING", "SETTLED"} => row[t].state \in {"PENDING", "SETTLED"}
<1>1. RowType
  BY DEF CashType
<1>2. ASSUME NEW t \in Transfers, TransferStep(t) PROVE Quiet
  <2>1. PICK next \in TransferRows : next.created = row[t].created /\ UpdateRow(t, next)
    BY <1>2 DEF TransferStep
  <2>2. row' = [row EXCEPT ![t] = next] /\ (next.state = row[t].state \/ row[t].state = "PENDING")
    BY <2>1 DEF UpdateRow, Moves
  <2>3. row'[t] = next /\ \A u \in Transfers \ {t} : row'[u] = row[u]
    BY <1>1, <2>2 DEF RowType
  <2> QED BY <2>1, <2>2, <2>3
<1>3. ASSUME NEW t \in Transfers, Request(t) PROVE WithinCap(last)'
  BY <1>3, RequestKeepsCap
<1>4. CASE Archive
  <2>1. row' = [t \in Transfers |-> IF row[t].state = "PENDING"
                  THEN [row[t] EXCEPT !.state = "CANCELED", !.reason = "reset"] ELSE row[t]]
    BY <1>4 DEF Archive
  <2>2. Quiet
    BY <1>1, <2>1 DEF RowType, TransferRows
  <2> QED BY <2>2, OthersCountNoMore, FewerCounted
<1>5. CASE Trade \/ UNCHANGED <<vars, row>>
  <2>1. row' = row
    BY <1>5 DEF Trade, transferVars
  <2> QED BY <2>1, OthersCountNoMore, FewerCounted
<1>6. CASE Stamp
  <2>1. Quiet
    BY <1>1, <1>6 DEF Stamp, RowType, TransferRows
  <2> QED BY <2>1, OthersCountNoMore, FewerCounted
<1> HIDE DEF Quiet
<1>7. ASSUME Quiet PROVE WithinCap(last)'
  BY <1>7, OthersCountNoMore, FewerCounted DEF Quiet
<1> QED BY <1>2, <1>3, <1>4, <1>5, <1>6, <1>7 DEF RowKinds

\* No window of a day holds more deposits than the cap allows, however the
\* requests race.
THEOREM DailyCapHolds == CashSpec => []DepositCapHolds
<1>1. CashInit => DepositCapHolds
  <2> SUFFICES ASSUME CashInit, NEW last \in Nat PROVE Counted(last) = {}
    BY CapIsWithinCap DEF WithinCap
  <2> QED BY DEF CashInit, Counted, InState, NoRow, Absent
<1>2. CashInv /\ DepositCapHolds /\ [CashNext]_cashVars => DepositCapHolds'
  <2> SUFFICES ASSUME CashInv, DepositCapHolds, [CashNext]_cashVars,
                      NEW last \in 0..LastRequest
               PROVE  WithinCap(last)'
    BY CapIsWithinCap DEF DepositCapHolds, WithinCap, Counted, Opened
  <2>1. CashType /\ RowKinds
    BY StepKinds DEF CashInv
  <2>2. last \in Nat /\ WithinCap(last)
    BY CapIsWithinCap, TransferAssumption
  <2> QED BY <2>1, <2>2, StepsKeepCap
<1> QED BY <1>1, <1>2, InitCashInv, NextCashInv, PTL DEF CashSpec

--------------------------------------------------------------------------------
(* Every settlement is its own.  A recovery goes by what the venue's transfers *)
(* look like, so the theorem has a hypothesis: passes do not overlap, or no    *)
(* two transfers have the same amount and direction.                           *)

Alone == \A p, q \in Syncs : p = q
Distinct == \A t, v \in Transfers : Matches(t, v) => t = v
Unambiguous == Alone \/ Distinct

VenueStates == {Absent, "PENDING", "SETTLED", "FAILED"}

CallRows == [at : {"idle", "posted", "done", "lost"}] \cup [at : {"link", "apply"}, seen : VenueStates]

SettledAt(v) == venue[v].state = "SETTLED"

\* An end that was seen is still the venue's.
Ends == {"SETTLED", "FAILED"}
SeenOK(s, v) == s \in Ends => venue[v].state = s

\* A request that still waits or works is within its bound.
Active(t) == call[t].at \in {"posted", "link", "apply"}

CallOK(t) ==
  /\ Active(t) => row[t].state # Absent /\ now <= row[t].created + CallTicks
  /\ call[t].at \in {"link", "apply"} => SeenOK(call[t].seen, t)
  /\ call[t].at = "apply" => row[t].venue = t

\* A row is linked to another row's transfer only by a recovery.
RowLinks ==
  /\ \A t, u \in Transfers : row[t].venue # None /\ row[t].venue = row[u].venue => t = u
  /\ \A t \in Transfers : row[t].venue \notin {None, t} => PastGrace(t) /\ ~Distinct
  /\ \A t \in Transfers : row[t].venue # None => row[t].state # Absent
  /\ \A t \in Transfers : row[t].state = "SETTLED" => row[t].venue # None /\ SettledAt(row[t].venue)

\* What still holds of a row that a pass loaded.  If no other pass links rows,
\* only the row's own request can have linked it since, early in the pass.
EntryOK(s, k) ==
  LET e == s.todo[k] IN
  /\ row[e.of].state # Absent
  /\ e.venue # None => row[e.of].venue = e.venue
  /\ Alone /\ e.venue = None /\ row[e.of].venue # None =>
       s.started <= row[e.of].created + CallTicks \/ (k = 1 /\ s.at = "apply")

WorkOK(s) ==
  LET e == Head(s.todo) IN
  /\ SeenOK(s.seen, s.of)
  /\ s.at = "link" => row[e.of].venue \in {None, s.of}
  /\ s.at = "apply" => row[e.of].venue = s.of
  /\ e.venue = None => PastGrace(e.of)
  /\ e.venue = None /\ Distinct => s.of = e.of

ListedOK(s) == \A v \in DOMAIN s.listed : SeenOK(s.listed[v], v)

Knows(s) ==
  /\ s.started \in Nat /\ s.started <= now /\ now <= s.started + PassTicks
  /\ \A k \in 1 .. Len(s.todo) : EntryOK(s, k)
  /\ \A j, k \in 1 .. Len(s.todo) : s.todo[j].of = s.todo[k].of => j = k
  /\ s.at # "listing" => ListedOK(s)
  /\ s.at \in {"link", "apply"} => WorkOK(s)

SettleInv ==
  /\ CashType
  /\ call \in [Transfers -> CallRows]
  /\ \A t \in Transfers : CallOK(t)
  /\ RowLinks
  /\ \A p \in Syncs : sync[p].at # "idle" => Knows(sync[p])

LEMMA SettleTypes ==
  ASSUME SettleInv
  PROVE  /\ row \in [Transfers -> TransferRows] /\ venue \in [Transfers -> VenueRows]
         /\ now \in Nat /\ call \in [Transfers -> CallRows] /\ PassType
BY DEF SettleInv, CashType, RowType, VenueType

LEMMA TickBounds ==
  /\ CallTicks \in Nat /\ PassTicks \in Nat /\ Grace \in Nat /\ RecoveryWindow \in Nat
  /\ Grace >= CallTicks + PassTicks /\ None \notin Transfers
BY TransferAssumption

\* What the venue ended stays so, and time does not go back.
VenueKept ==
  /\ now' \in Nat /\ now <= now'
  /\ \A v \in Transfers : venue[v].state \in Ends => venue'[v].state = venue[v].state

LEMMA VenueStays ==
  ASSUME CashType, [CashNext]_cashVars
  PROVE  VenueKept
<1>1. venue \in [Transfers -> VenueRows] /\ now \in Nat
  BY DEF CashType, VenueType
<1>2. CASE UNCHANGED <<venue, now>>
  BY <1>1, <1>2 DEF VenueKept
<1>3. ASSUME NEW t \in Transfers, VenueReceivesTransfer(t) \/ VenueDecidesTransfer(t)
      PROVE  VenueKept
  <2>1. venue[t].state \notin Ends /\ now' = now /\ \A v \in Transfers \ {t} : venue'[v] = venue[v]
    BY <1>1, <1>3 DEF VenueReceivesTransfer, VenueDecidesTransfer, VenueTo, NoTransfer, Absent, Ends
  <2> QED BY <1>1, <2>1 DEF VenueKept
<1>4. ASSUME NEW v \in Transfers, AskVenueToCancel(v) PROVE VenueKept
  <2>1. now' = now /\ \A u \in Transfers : venue[u].state \in Ends => venue'[u] = venue[u]
    BY <1>1, <1>4 DEF AskVenueToCancel, ResetTo, Ends
  <2> QED BY <1>1, <2>1 DEF VenueKept
<1>5. CASE Tick
  BY <1>1, <1>5 DEF Tick, VenueKept
<1>6. ASSUME NEW p \in Syncs, SyncStep(p) \/ SyncFails(p) PROVE UNCHANGED <<venue, now>>
  BY <1>6 DEF SyncStep, SyncFails, StartSync, ListTransfers, ListingFails, SyncLinked, SyncDeferred,
              SyncRecovers, SyncNeverReached, LookupFails, SyncLinks, SyncApplies, SyncFinishes,
              Proceed, Work, SyncTo
<1>7. ASSUME NEW t \in Transfers,
             \/ Request(t) \/ InitiateRejected(t) \/ CallLost(t) \/ CallStep(t)
             \/ WatchReads(t) \/ CancelRequestLost(t)
      PROVE  UNCHANGED <<venue, now>>
  BY <1>7 DEF Request, InitiateRejected, CallLost, CallStep, InitiateAnswered, CallLinks, CallApplies,
              CallTo, WatchReads, WatchTo, CancelRequestLost, ResetTo
<1>8. CASE StartReset \/ Archive \/ ResetCrashes \/ WatchStamps \/ Trade \/ UNCHANGED cashVars
  BY <1>2, <1>8 DEF StartReset, Archive, ResetCrashes, ResetTo, WatchStamps, WatchTo, Trade,
                    transferVars, cashVars
<1> QED BY <1>2, <1>3, <1>4, <1>5, <1>6, <1>7, <1>8 DEF CashNext, ResetStep

--------------------------------------------------------------------------------
(* The rows.                                                                   *)

\* A row stays, and settles only if its transfer has.
RowKept(t) ==
  /\ row[t].state # Absent => row'[t].state # Absent /\ row'[t].created = row[t].created
  /\ row'[t].state = "SETTLED" =>
       row[t].state = "SETTLED" \/ (row[t].venue # None /\ SettledAt(row[t].venue))

Kept == \A t \in Transfers : RowKept(t) /\ row'[t].venue = row[t].venue

LEMMA FinishKeeps ==
  ASSUME RowType, NEW t \in Transfers, NEW reason, Finish(t, reason)
  PROVE  Kept
<1> DEFINE next == [row[t] EXCEPT !.state = "FAILED", !.reason = reason]
<1>1. next.state = "FAILED" /\ next.venue = row[t].venue /\ next.created = row[t].created
  BY DEF RowType, TransferRows
<1>2. row' = row \/ row' = [row EXCEPT ![t] = next]
  BY DEF Finish, UpdateRow
<1> HIDE DEF next
<1> QED BY <1>1, <1>2 DEF RowType, Kept, RowKept, Absent

LEMMA AnswerKeeps ==
  ASSUME RowType, NEW t \in Transfers, NEW v \in Transfers, NEW s, ApplyVenueState(t, v, s),
         row[t].venue = v, SeenOK(s, v), None \notin Transfers
  PROVE  Kept
<1> DEFINE next == Answered(t, v, s)
<1>1. /\ next.venue = row[t].venue /\ next.created = row[t].created
      /\ row[t].state # "PENDING" => next = row[t]
      /\ row[t].state = "PENDING" => next.state \in {"PENDING", "CANCELED", "FAILED", "SETTLED"}
      /\ next.state = "SETTLED" => row[t].state = "SETTLED" \/ s = "SETTLED"
  BY DEF Answered, RowType, TransferRows
<1>2. row' = [row EXCEPT ![t] = next]
  BY DEF ApplyVenueState, UpdateRow
<1>3. s = "SETTLED" => SettledAt(v)
  BY DEF SeenOK, SettledAt, Ends
<1> HIDE DEF next
<1> QED BY <1>1, <1>2, <1>3 DEF RowType, Kept, RowKept, Absent

LEMMA RequestKeeps ==
  ASSUME RowType, NEW t \in Transfers, Request(t)
  PROVE  Kept
<1> DEFINE next == [NoRow EXCEPT !.state = "PENDING", !.created = now]
<1>1. next.state = "PENDING" /\ next.venue = None
  BY DEF NoRow
<1>2. row' = [row EXCEPT ![t] = next] /\ row[t].state = Absent /\ row[t].venue = None
  BY DEF Request, NoRow
<1> HIDE DEF next
<1> QED BY <1>1, <1>2 DEF RowType, Kept, RowKept, Absent

LEMMA ArchiveKeeps ==
  ASSUME RowType, Archive
  PROVE  Kept
<1>1. row' = [t \in Transfers |-> IF row[t].state = "PENDING"
                THEN [row[t] EXCEPT !.state = "CANCELED", !.reason = "reset"] ELSE row[t]]
  BY DEF Archive
<1> QED BY <1>1 DEF RowType, TransferRows, Kept, RowKept, Absent

LEMMA StampKeeps ==
  ASSUME RowType, Stamp
  PROVE  Kept
BY DEF Stamp, RowType, TransferRows, Kept, RowKept

\* A row is linked to a transfer that no row is linked to.
NewLink(t, v) ==
  /\ v \in Transfers /\ ~Linked(v)
  /\ row[t].venue = None /\ row[t].state # Absent
  /\ v # t => PastGrace(t) /\ ~Distinct
  /\ row'[t].venue = v /\ RowKept(t)
  /\ \A u \in Transfers \ {t} : row'[u] = row[u]

LEMMA LinkKeeps ==
  ASSUME RowType, NEW t \in Transfers, NEW v \in Transfers, Link(t, v), ~LinkConflicts(t, v),
         row[t].state # Absent, v # t /\ row[t].venue = None => PastGrace(t) /\ ~Distinct
  PROVE  Kept \/ NewLink(t, v)
<1> DEFINE next == [row[t] EXCEPT !.venue = v]
<1>1. next.venue = v /\ next.state = row[t].state /\ next.created = row[t].created
  BY DEF RowType, TransferRows
<1>2. CASE row[t].venue = None
  <2>1. row' = [row EXCEPT ![t] = next] /\ ~Linked(v)
    BY <1>2 DEF Link, LinkConflicts, RowType
  <2> HIDE DEF next
  <2> QED BY <1>1, <1>2, <2>1 DEF RowType, NewLink, RowKept
<1>3. CASE row[t].venue # None
  BY <1>3 DEF Link, Kept, RowKept
<1> QED BY <1>2, <1>3

LEMMA RowLinksStay ==
  ASSUME SettleInv, VenueKept, RowType', Kept \/ \E t, v \in Transfers : NewLink(t, v)
  PROVE  RowLinks'
<1>1. /\ row \in [Transfers -> TransferRows] /\ row' \in [Transfers -> TransferRows]
      /\ now \in Nat /\ now' \in Nat /\ now <= now' /\ Grace \in Nat /\ None \notin Transfers /\ RowLinks
  BY SettleTypes, TickBounds DEF RowType, VenueKept, SettleInv
<1>2. \A t \in Transfers : /\ row[t].created \in Nat /\ row[t].venue \in Transfers \cup {None}
                           /\ row'[t].created \in Nat
  BY <1>1 DEF TransferRows
<1>3. \A t \in Transfers : PastGrace(t) /\ row'[t].created = row[t].created => PastGrace(t)'
  BY <1>1, <1>2 DEF PastGrace
<1>4. CASE Kept
  <2>1. \A t \in Transfers : RowKept(t) /\ row'[t].venue = row[t].venue
    BY <1>4 DEF Kept
  <2>2. \A t, u \in Transfers : row'[t].venue # None /\ row'[t].venue = row'[u].venue => t = u
    BY <1>1, <2>1 DEF RowLinks
  <2>3. \A t \in Transfers : row'[t].venue \notin {None, t} => PastGrace(t)' /\ ~Distinct
    BY <1>1, <1>3, <2>1 DEF RowLinks, RowKept
  <2>4. \A t \in Transfers : row'[t].venue # None => row'[t].state # Absent
    BY <1>1, <2>1 DEF RowLinks, RowKept
  <2>5. \A t \in Transfers : row'[t].state = "SETTLED" => row'[t].venue # None /\ SettledAt(row[t].venue)'
    BY <1>1, <1>2, <2>1 DEF RowLinks, RowKept, VenueKept, SettledAt, Ends
  <2>6. \A t \in Transfers : row'[t].state = "SETTLED" => row'[t].venue # None /\ venue'[row'[t].venue].state = "SETTLED"
    BY <2>1, <2>5 DEF SettledAt
  <2> QED BY <2>2, <2>3, <2>4, <2>6 DEF RowLinks, SettledAt
<1>5. ASSUME NEW t \in Transfers, NEW v \in Transfers, NewLink(t, v) PROVE RowLinks'
  <2>1. /\ ~Linked(v) /\ row[t].venue = None /\ row[t].state # Absent /\ row'[t].venue = v /\ RowKept(t)
        /\ v # t => PastGrace(t) /\ ~Distinct
        /\ \A u \in Transfers \ {t} : row'[u] = row[u]
    BY <1>5 DEF NewLink
  <2>2. \A u \in Transfers : row[u].venue # v
    BY <2>1 DEF Linked
  <2>3. \A w, u \in Transfers : row'[w].venue # None /\ row'[w].venue = row'[u].venue => w = u
    BY <1>1, <2>1, <2>2 DEF RowLinks
  <2>4. \A u \in Transfers : row'[u].venue \notin {None, u} => PastGrace(u)' /\ ~Distinct
    BY <1>1, <1>3, <2>1 DEF RowLinks, RowKept
  <2>5. \A u \in Transfers : row'[u].venue # None => row'[u].state # Absent
    BY <1>1, <2>1 DEF RowLinks, RowKept
  <2>6. row'[t].state # "SETTLED"
    BY <1>1, <2>1 DEF RowLinks, RowKept
  <2>7. \A u \in Transfers \ {t} : row'[u].state = "SETTLED" =>
          row'[u].venue # None /\ venue'[row'[u].venue].state = "SETTLED"
    BY <1>1, <1>2, <2>1 DEF RowLinks, VenueKept, SettledAt, Ends
  <2> QED BY <2>3, <2>4, <2>5, <2>6, <2>7 DEF RowLinks, SettledAt
<1> QED BY <1>4, <1>5
--------------------------------------------------------------------------------
(* What calls and passes hold outlives the steps of others.                    *)

\* The only link that another process brings to a row is the row's own
\* transfer: from its request, or from a pass that cannot mistake it.
LinksOf(t) ==
  \/ row'[t].venue = row[t].venue
  \/ row[t].venue = None /\ row'[t].venue = t /\ (Active(t) \/ (Distinct /\ ~Alone))

LEMMA CallStays ==
  ASSUME SettleInv, VenueKept, NEW t \in Transfers, call'[t] = call[t], RowKept(t),
         row'[t].venue = row[t].venue \/ row[t].venue = None,
         Active(t) => now' <= row[t].created + CallTicks
  PROVE  CallOK(t)'
<1>1. CallOK(t) /\ None \notin Transfers
  BY TickBounds DEF SettleInv
<1>2. Active(t)' <=> Active(t)
  BY DEF Active
<1> QED BY <1>1, <1>2 DEF CallOK, RowKept, VenueKept, SeenOK

LEMMA GraceIsOver ==
  ASSUME SettleInv, NEW t \in Transfers, PastGrace(t)
  PROVE  ~Active(t)
<1>1. now \in Nat /\ row[t].created \in Nat
  BY SettleTypes DEF TransferRows
<1>2. now - row[t].created > Grace
  BY DEF PastGrace
<1>3. Active(t) => now <= row[t].created + CallTicks
  BY DEF SettleInv, CallOK
<1> QED BY <1>1, <1>2, <1>3, TickBounds

\* The entries of a pass.
LEMMA EntriesType ==
  ASSUME NEW s, PassOK(s), s.at # "idle"
  PROVE  /\ Len(s.todo) \in Nat \ {0} /\ Head(s.todo) = s.todo[1]
         /\ \A k \in 1 .. Len(s.todo) : /\ s.todo[k].of \in Transfers
                                        /\ s.todo[k].venue \in Transfers \cup {None}
<1>1. s.todo \in Seq(Entries) /\ s.todo # <<>>
  BY DEF PassOK
<1> DEFINE q == s.todo
<1>2. Len(q) \in Nat \ {0} /\ Head(q) = q[1] /\ \A k \in 1 .. Len(q) : q[k] \in Entries
  <2> HIDE DEF q
  <2>1. ASSUME q \in Seq(Entries), q # <<>>
        PROVE  Len(q) \in Nat \ {0} /\ Head(q) = q[1] /\ \A k \in 1 .. Len(q) : q[k] \in Entries
    BY <2>1
  <2> QED BY <1>1, <2>1 DEF q
<1> QED BY <1>2 DEF Entries

LEMMA KnowsStays ==
  ASSUME SettleInv, VenueKept, NEW s, PassOK(s), s.at # "idle", Knows(s),
         RowType', now' <= s.started + PassTicks,
         \A t \in Transfers : RowKept(t) /\ LinksOf(t)
  PROVE  Knows(s)'
<1>1. /\ row \in [Transfers -> TransferRows] /\ now \in Nat /\ now' \in Nat /\ now <= now'
      /\ s.started \in Nat /\ None \notin Transfers /\ CallTicks \in Nat /\ Grace \in Nat
  BY SettleTypes, TickBounds DEF VenueKept, Knows
<1>2. Head(s.todo) = s.todo[1] /\ 1 \in 1 .. Len(s.todo)
  BY EntriesType
<1>3. \A k \in 1 .. Len(s.todo) : s.todo[k].of \in Transfers /\ s.todo[k].venue \in Transfers \cup {None}
  BY EntriesType
<1>4. ASSUME NEW k \in 1 .. Len(s.todo) PROVE EntryOK(s, k)'
  <2> DEFINE e == s.todo[k]
             t == e.of
  <2>1. t \in Transfers /\ EntryOK(s, k) /\ RowKept(t) /\ LinksOf(t)
    BY <1>3, <1>4 DEF Knows
  <2>2. row'[t].state # Absent /\ row'[t].created = row[t].created
    BY <2>1 DEF EntryOK, RowKept
  <2>3. e.venue # None => row'[t].venue = e.venue
    BY <2>1 DEF EntryOK, LinksOf
  <2>4. ASSUME Alone, e.venue = None, row'[t].venue # None
        PROVE  s.started <= row'[t].created + CallTicks \/ (k = 1 /\ s.at = "apply")
    <3>1. CASE row'[t].venue = row[t].venue
      BY <2>1, <2>2, <2>4, <3>1 DEF EntryOK
    <3>2. CASE Active(t)
      <4>1. now <= row[t].created + CallTicks /\ s.started <= now /\ row[t].created \in Nat
        BY <1>1, <2>1, <3>2 DEF SettleInv, CallOK, Knows, TransferRows
      <4> QED BY <1>1, <2>2, <4>1
    <3> QED BY <2>1, <2>4, <3>1, <3>2 DEF LinksOf
  <2> QED BY <2>2, <2>3, <2>4 DEF EntryOK
<1>5. ASSUME s.at # "listing" PROVE ListedOK(s)'
  <2>1. ListedOK(s) /\ DOMAIN s.listed \subseteq Transfers
    BY <1>5 DEF Knows, PassOK
  <2> QED BY <2>1 DEF ListedOK, VenueKept, SeenOK
<1>6. ASSUME s.at \in {"link", "apply"} PROVE WorkOK(s)'
  <2> DEFINE e == s.todo[1]
             t == e.of
  <2>1. /\ t \in Transfers /\ EntryOK(s, 1) /\ RowKept(t) /\ LinksOf(t) /\ WorkOK(s)
        /\ s.of \in Transfers
    BY <1>2, <1>3, <1>6 DEF Knows, PassOK
  <2>2. row[t].created \in Nat /\ row'[t].created = row[t].created
    BY <1>1, <2>1 DEF EntryOK, RowKept, TransferRows
  <2>3. SeenOK(s.seen, s.of)'
    BY <2>1 DEF WorkOK, VenueKept, SeenOK
  <2>4. e.venue = None => PastGrace(t)
    BY <1>2, <2>1 DEF WorkOK
  <2>5. e.venue = None => PastGrace(t)'
    BY <1>1, <2>2, <2>4 DEF PastGrace
  <2>6. ASSUME s.at = "link" PROVE row'[t].venue \in {None, s.of}
    <3>1. row[t].venue \in {None, s.of}
      BY <1>2, <2>1, <2>6 DEF WorkOK
    <3>2. CASE row'[t].venue = row[t].venue
      BY <3>1, <3>2
    <3>3. ASSUME row[t].venue = None, row'[t].venue = t, Active(t) \/ (Distinct /\ ~Alone)
          PROVE  s.of = t
      <4>1. e.venue = None
        BY <2>1, <3>3 DEF EntryOK
      <4>2. ~Active(t)
        BY <2>1, <2>4, <4>1, GraceIsOver
      <4> QED BY <1>2, <2>1, <3>3, <4>1, <4>2 DEF WorkOK
    <3> QED BY <2>1, <3>2, <3>3 DEF LinksOf
  <2>7. s.at = "apply" => row'[t].venue = s.of
    BY <1>1, <1>2, <2>1 DEF WorkOK, LinksOf
  <2>8. e.venue = None /\ Distinct => s.of = t
    BY <1>2, <2>1 DEF WorkOK
  <2> HIDE DEF e, t
  <2> QED BY <1>2, <2>3, <2>5, <2>6, <2>7, <2>8 DEF WorkOK, e, t
<1> QED BY <1>1, <1>4, <1>5, <1>6 DEF Knows

\* A pass that goes on with the same rows, or with the rest of them.
LEMMA SameRows ==
  ASSUME NEW s, NEW next, Knows(s), next.todo = s.todo, next.started = s.started,
         s.at # "apply", next.at # "listing" => ListedOK(next),
         next.at \in {"link", "apply"} => WorkOK(next)
  PROVE  Knows(next)
<1>1. \A k \in 1 .. Len(s.todo) : EntryOK(next, k)
  BY DEF Knows, EntryOK
<1> QED BY <1>1 DEF Knows

LEMMA RestOfRows ==
  ASSUME NEW s, NEW next, Knows(s), PassOK(s), s.at \notin {"idle", "listing"},
         next.todo = Tail(s.todo), next.todo # <<>>, next.started = s.started,
         next.listed = s.listed, next.at = "next"
  PROVE  Knows(next)
<1>1. s.todo \in Seq(Entries) /\ s.todo # <<>>
  BY DEF PassOK
<1>2. /\ Len(next.todo) = Len(s.todo) - 1 /\ Len(s.todo) \in Nat
      /\ \A k \in 1 .. Len(next.todo) : next.todo[k] = s.todo[k + 1]
  BY <1>1
<1>3. ASSUME NEW k \in 1 .. Len(next.todo) PROVE EntryOK(next, k)
  <2>1. k + 1 \in 1 .. Len(s.todo) /\ k + 1 # 1
    BY <1>2
  <2>2. EntryOK(s, k + 1) /\ next.todo[k] = s.todo[k + 1]
    BY <1>2, <2>1 DEF Knows
  <2> QED BY <2>1, <2>2 DEF EntryOK
<1>4. ASSUME NEW j \in 1 .. Len(next.todo), NEW k \in 1 .. Len(next.todo), next.todo[j].of = next.todo[k].of
      PROVE  j = k
  <2>1. j + 1 \in 1 .. Len(s.todo) /\ k + 1 \in 1 .. Len(s.todo)
    BY <1>2
  <2>2. j + 1 = k + 1
    BY <1>2, <1>4, <2>1 DEF Knows
  <2> QED BY <2>2
<1>5. ListedOK(next)
  BY DEF Knows, ListedOK
<1> QED BY <1>3, <1>4, <1>5 DEF Knows

LEMMA ProceedKnows ==
  ASSUME SettleInv, NEW p \in Syncs, sync[p].at \notin {"idle", "listing"}, Proceed(p)
  PROVE  \E s : sync' = [sync EXCEPT ![p] = s] /\ (s.at # "idle" => Knows(s))
<1> DEFINE rest == Tail(sync[p].todo)
           next == [at |-> "next", todo |-> rest, started |-> sync[p].started,
                    listed |-> sync[p].listed, complete |-> sync[p].complete]
<1>1. sync' = [sync EXCEPT ![p] = IF rest = <<>> THEN Ready ELSE next]
  BY DEF Proceed, SyncTo
<1>2. Knows(sync[p]) /\ PassOK(sync[p])
  BY DEF SettleInv, CashType, PassType
<1>3. CASE rest = <<>>
  <2>1. sync' = [sync EXCEPT ![p] = Ready]
    BY <1>1, <1>3
  <2>2. Ready.at = "idle"
    BY DEF Ready
  <2> HIDE DEF next
  <2> QED BY <2>1, <2>2
<1>4. CASE rest # <<>>
  <2>1. /\ next.todo = Tail(sync[p].todo) /\ next.todo # <<>> /\ next.started = sync[p].started
        /\ next.listed = sync[p].listed /\ next.at = "next"
    BY <1>4
  <2> HIDE DEF next
  <2>2. Knows(next)
    BY <1>2, <2>1, RestOfRows
  <2> QED BY <1>1, <1>4, <2>2
<1> QED BY <1>3, <1>4

LEMMA WorkKnows ==
  ASSUME SettleInv, NEW p \in Syncs, sync[p].at = "next", NEW step \in {"link", "finish"}, NEW v, NEW found,
         Work(p, step, v, found),
         step = "link" =>
           /\ SeenOK(found, v)
           /\ row[Loaded(p).of].venue \in {None, v}
           /\ Loaded(p).venue = None => PastGrace(Loaded(p).of) /\ (Distinct => v = Loaded(p).of)
  PROVE  \E s : sync' = [sync EXCEPT ![p] = s] /\ (s.at # "idle" => Knows(s))
<1> DEFINE next == [at |-> step, todo |-> sync[p].todo, started |-> sync[p].started,
                    listed |-> sync[p].listed, complete |-> sync[p].complete,
                    of |-> v, seen |-> found]
<1>1. sync' = [sync EXCEPT ![p] = next]
  BY DEF Work, SyncTo
<1>2. Knows(sync[p]) /\ ListedOK(sync[p])
  BY DEF SettleInv, Knows
<1>3. /\ next.todo = sync[p].todo /\ next.started = sync[p].started /\ next.listed = sync[p].listed
      /\ next.at = step /\ next.of = v /\ next.seen = found
  OBVIOUS
<1> HIDE DEF next
<1>4. ListedOK(next)
  BY <1>2, <1>3 DEF ListedOK
<1>5. next.at \in {"link", "apply"} => WorkOK(next)
  BY <1>3 DEF WorkOK, Loaded
<1>6. Knows(next)
  BY <1>2, <1>3, <1>4, <1>5, SameRows
<1> QED BY <1>1, <1>6

LEMMA StartKnows ==
  ASSUME SettleInv, NEW p \in Syncs, StartSync(p)
  PROVE  \E s : sync' = [sync EXCEPT ![p] = s] /\ (s.at # "idle" => Knows(s))
<1> DEFINE pending == InState({"PENDING"})
<1>1. PICK byAge \in PendingByAge :
        SyncTo(p, [at |-> "listing", todo |-> LoadedPending(byAge), started |-> now])
  BY DEF StartSync
<1>2. pending \in SUBSET Transfers /\ \A t \in pending : row[t].state # Absent
  BY DEF InState, Absent
<1>3. IsFiniteSet(pending)
  BY <1>2, TransferAssumption, FS_Subset
<1>4. Cardinality(pending) \in Nat
  BY <1>3, FS_CardinalityType
<1> HIDE DEF pending
<1> DEFINE D == 1 .. Cardinality(pending)
<1>5. byAge \in [D -> pending] /\ \A i, j \in D : i # j => byAge[i] # byAge[j]
  BY DEF PendingByAge, SetToSeqs, pending
<1> DEFINE todo == LoadedPending(byAge)
<1>6. todo = [k \in D |-> [of |-> byAge[k], venue |-> row[byAge[k]].venue]]
  BY <1>5 DEF LoadedPending
<1>7. Len(todo) = Cardinality(pending)
  BY <1>4, <1>6
<1>8. \A k \in D : todo[k].of = byAge[k] /\ todo[k].venue = row[byAge[k]].venue
  BY <1>6
<1> DEFINE next == [at |-> "listing", todo |-> todo, started |-> now]
<1>9. sync' = [sync EXCEPT ![p] = next]
  BY <1>1 DEF SyncTo
<1> HIDE DEF todo
<1>10. next.at = "listing" /\ next.todo = todo /\ next.started = now
  OBVIOUS
<1> HIDE DEF next
<1>11. \A k \in 1 .. Len(next.todo) : EntryOK(next, k)
  <2> SUFFICES ASSUME NEW k \in D PROVE EntryOK(next, k)
    BY <1>7, <1>10
  <2>1. byAge[k] \in pending /\ next.todo[k].of = byAge[k] /\ next.todo[k].venue = row[byAge[k]].venue
    BY <1>5, <1>8, <1>10
  <2> QED BY <1>2, <2>1 DEF EntryOK
<1>12. \A j, k \in 1 .. Len(next.todo) : next.todo[j].of = next.todo[k].of => j = k
  BY <1>5, <1>7, <1>8, <1>10
<1>13. now \in Nat /\ PassTicks \in Nat
  BY SettleTypes, TickBounds
<1>14. Knows(next)
  BY <1>10, <1>11, <1>12, <1>13 DEF Knows
<1> QED BY <1>9, <1>14

LEMMA ListKnows ==
  ASSUME SettleInv, NEW p \in Syncs, ListTransfers(p) \/ ListingFails(p)
  PROVE  \E s : sync' = [sync EXCEPT ![p] = s] /\ (s.at # "idle" => Knows(s))
<1>1. Knows(sync[p]) /\ sync[p].at = "listing"
  BY DEF SettleInv, ListTransfers, ListingFails
<1>2. ASSUME NEW listed, NEW complete, \A v \in DOMAIN listed : SeenOK(listed[v], v),
             SyncTo(p, [at |-> "next", todo |-> sync[p].todo, started |-> sync[p].started,
                        listed |-> listed, complete |-> complete])
      PROVE  \E s : sync' = [sync EXCEPT ![p] = s] /\ (s.at # "idle" => Knows(s))
  <2> DEFINE next == [at |-> "next", todo |-> sync[p].todo, started |-> sync[p].started,
                      listed |-> listed, complete |-> complete]
  <2>1. sync' = [sync EXCEPT ![p] = next]
    BY <1>2 DEF SyncTo
  <2>2. next.todo = sync[p].todo /\ next.started = sync[p].started /\ next.at = "next" /\ next.listed = listed
    OBVIOUS
  <2> HIDE DEF next
  <2>3. ListedOK(next)
    BY <1>2, <2>2 DEF ListedOK
  <2>4. Knows(next)
    BY <1>1, <2>2, <2>3, SameRows
  <2> QED BY <2>1, <2>4
<1>3. CASE ListTransfers(p)
  <2>1. PICK unread :
          SyncTo(p, [at |-> "next", todo |-> sync[p].todo, started |-> sync[p].started,
                     listed |-> Listing(p, unread).listed, complete |-> Listing(p, unread).complete])
    BY <1>3 DEF ListTransfers
  <2>2. \A v \in DOMAIN Listing(p, unread).listed :
          SeenOK(Listing(p, unread).listed[v], v)
    BY DEF Listing, SeenOK
  <2> QED BY <1>2, <2>1, <2>2
<1>4. CASE ListingFails(p)
  <2>1. DOMAIN <<>> = {}
    OBVIOUS
  <2>2. \A v \in DOMAIN <<>> : SeenOK(<<>>[v], v)
    BY <2>1
  <2> QED BY <1>2, <1>4, <2>2 DEF ListingFails
<1> QED BY <1>3, <1>4

\* A recovery links the row's own transfer or one that cannot be told from it,
\* to a row that has no link.
LEMMA RecoverKnows ==
  ASSUME Unambiguous, SettleInv, NEW p \in Syncs, SyncRecovers(p)
  PROVE  \E s : sync' = [sync EXCEPT ![p] = s] /\ (s.at # "idle" => Knows(s))
<1> DEFINE t == Loaded(p).of
           C == Candidates(p, t)
           v == Closest(t, C)
<1>1. sync[p].at = "next" /\ Loaded(p).venue = None /\ PastGrace(t) /\ C # {}
  BY DEF SyncRecovers, Defers
<1>2. PassOK(sync[p]) /\ Knows(sync[p]) /\ t \in Transfers
  BY <1>1, SettleTypes, LoadedType DEF SettleInv, PassType
<1>3. C \in SUBSET Transfers
  BY <1>1, <1>2 DEF Candidates, PassOK
<1>4. v \in C
  BY <1>1, <1>2, <1>3, SettleTypes, ClosestIsCandidate DEF RowType, VenueRows
<1>5. v \in DOMAIN sync[p].listed /\ Matches(t, v)
  BY <1>4 DEF Candidates
<1>6. Work(p, "link", v, sync[p].listed[v])
  BY DEF SyncRecovers
<1> HIDE DEF C, v
<1>7. SeenOK(sync[p].listed[v], v)
  BY <1>1, <1>2, <1>5 DEF Knows, ListedOK
<1>8. Distinct => v = t
  BY <1>2, <1>3, <1>4, <1>5 DEF Distinct
<1>9. row[t].venue \in {None, v}
  <2>1. CASE Distinct
    BY <1>2, <1>8, <2>1 DEF SettleInv, RowLinks
  <2>2. CASE Alone
    <3> SUFFICES ASSUME row[t].venue # None PROVE FALSE
      OBVIOUS
    <3>1. sync[p].todo[1] = Loaded(p) /\ 1 \in 1 .. Len(sync[p].todo)
      BY <1>1, <1>2, EntriesType DEF Loaded
    <3>2. EntryOK(sync[p], 1)
      BY <1>2, <3>1 DEF Knows
    <3>3. sync[p].started <= row[t].created + CallTicks
      BY <1>1, <2>2, <3>1, <3>2 DEF EntryOK
    <3>4. sync[p].started \in Nat /\ now <= sync[p].started + PassTicks
      BY <1>2 DEF Knows
    <3>5. row[t].created \in Nat /\ now \in Nat
      BY <1>2, SettleTypes DEF TransferRows
    <3>6. now - row[t].created > Grace
      BY <1>1 DEF PastGrace
    <3> QED BY <3>3, <3>4, <3>5, <3>6, TickBounds
  <2> QED BY <2>1, <2>2 DEF Unambiguous
<1> QED BY <1>1, <1>6, <1>7, <1>8, <1>9, WorkKnows

LEMMA LinkedKnows ==
  ASSUME SettleInv, NEW p \in Syncs, SyncLinked(p)
  PROVE  \E s : sync' = [sync EXCEPT ![p] = s] /\ (s.at # "idle" => Knows(s))
<1> DEFINE v == Loaded(p).venue
           found == IF v \in DOMAIN sync[p].listed THEN sync[p].listed[v] ELSE venue[v].state
<1>1. sync[p].at = "next" /\ v # None /\ Work(p, "link", v, found)
  BY DEF SyncLinked
<1>2. PassOK(sync[p]) /\ Knows(sync[p])
  BY <1>1, SettleTypes DEF SettleInv, PassType
<1>3. SeenOK(found, v)
  BY <1>1, <1>2 DEF Knows, ListedOK, SeenOK
<1>4. sync[p].todo[1] = Loaded(p) /\ 1 \in 1 .. Len(sync[p].todo)
  BY <1>1, <1>2, EntriesType DEF Loaded
<1>5. EntryOK(sync[p], 1)
  BY <1>2, <1>4 DEF Knows
<1>6. row[Loaded(p).of].venue = v
  BY <1>1, <1>4, <1>5 DEF EntryOK
<1> HIDE DEF v, found
<1> QED BY <1>1, <1>3, <1>6, WorkKnows DEF v

--------------------------------------------------------------------------------
(* The induction.                                                              *)

\* What a pass at work on a row has.
LEMMA AtWork ==
  ASSUME SettleInv, NEW p \in Syncs, sync[p].at \in {"link", "apply"}
  PROVE  /\ Loaded(p).of \in Transfers /\ sync[p].of \in Transfers
         /\ sync[p].todo[1] = Loaded(p) /\ 1 \in 1 .. Len(sync[p].todo)
         /\ EntryOK(sync[p], 1) /\ WorkOK(sync[p])
<1>1. PassOK(sync[p]) /\ Knows(sync[p]) /\ PassType
  BY SettleTypes DEF SettleInv, PassType
<1>2. sync[p].todo[1] = Loaded(p) /\ 1 \in 1 .. Len(sync[p].todo)
  BY <1>1, EntriesType DEF Loaded
<1> QED BY <1>1, <1>2, LoadedType DEF Knows, PassOK

LEMMA RowsMove ==
  ASSUME SettleInv, [CashNext]_cashVars
  PROVE  \/ Kept
         \/ \E t \in Transfers : CallLinks(t) /\ NewLink(t, t)
         \/ \E p \in Syncs : SyncLinks(p) /\ NewLink(Loaded(p).of, sync[p].of)
<1>1. RowType /\ None \notin Transfers
  BY SettleTypes, TickBounds DEF RowType
<1>2. ASSUME UNCHANGED row PROVE Kept
  BY <1>2 DEF Kept, RowKept
<1>3. ASSUME NEW t \in Transfers, Request(t) \/ InitiateRejected(t) PROVE Kept
  BY <1>1, <1>3, RequestKeeps, FinishKeeps DEF InitiateRejected
<1>4. ASSUME NEW t \in Transfers, CallLinks(t) PROVE Kept \/ NewLink(t, t)
  <2>1. row[t].state # Absent
    BY <1>4 DEF SettleInv, CallOK, Active, CallLinks
  <2>2. CASE LinkConflicts(t, t)
    BY <1>2, <1>4, <2>2 DEF CallLinks
  <2>3. CASE ~LinkConflicts(t, t)
    <3>1. Link(t, t)
      BY <1>4, <2>3 DEF CallLinks
    <3> QED BY <1>1, <2>1, <2>3, <3>1, LinkKeeps
  <2> QED BY <2>2, <2>3
<1>5. ASSUME NEW t \in Transfers, CallApplies(t) PROVE Kept
  <2>1. row[t].venue = t /\ SeenOK(call[t].seen, t)
    BY <1>5 DEF SettleInv, CallOK, CallApplies
  <2>2. ApplyVenueState(t, t, call[t].seen)
    BY <1>5 DEF CallApplies
  <2> QED BY <1>1, <2>1, <2>2, AnswerKeeps
<1>6. ASSUME NEW p \in Syncs, SyncLinks(p) PROVE Kept \/ NewLink(Loaded(p).of, sync[p].of)
  <2> DEFINE t == Loaded(p).of
             v == sync[p].of
  <2>1. /\ t \in Transfers /\ v \in Transfers /\ sync[p].todo[1] = Loaded(p)
        /\ EntryOK(sync[p], 1) /\ WorkOK(sync[p])
    BY <1>6, AtWork DEF SyncLinks
  <2>2. row[t].state # Absent /\ (Loaded(p).venue # None => row[t].venue = Loaded(p).venue)
    BY <2>1 DEF EntryOK
  <2>3. Loaded(p).venue = None => PastGrace(t) /\ (Distinct => v = t)
    BY <2>1 DEF WorkOK, Loaded
  <2>4. CASE LinkConflicts(t, v)
    BY <1>2, <1>6, <2>4 DEF SyncLinks
  <2>5. CASE ~LinkConflicts(t, v)
    <3>1. Link(t, v)
      BY <1>6, <2>5 DEF SyncLinks
    <3> QED BY <1>1, <2>1, <2>2, <2>3, <2>5, <3>1, LinkKeeps
  <2> QED BY <2>4, <2>5
<1>7. ASSUME NEW p \in Syncs, SyncApplies(p) PROVE Kept
  <2> DEFINE t == Loaded(p).of
             v == sync[p].of
  <2>1. t \in Transfers /\ v \in Transfers /\ sync[p].todo[1] = Loaded(p) /\ WorkOK(sync[p])
    BY <1>7, AtWork DEF SyncApplies
  <2>2. row[t].venue = v /\ SeenOK(sync[p].seen, v)
    BY <1>7, <2>1 DEF WorkOK, SyncApplies, Loaded
  <2>3. ApplyVenueState(t, v, sync[p].seen)
    BY <1>7 DEF SyncApplies
  <2> QED BY <1>1, <2>1, <2>2, <2>3, AnswerKeeps
<1>8. ASSUME NEW p \in Syncs, SyncFinishes(p) PROVE Kept
  <2>1. Loaded(p).of \in Transfers
    BY <1>8, SettleTypes, LoadedType DEF SyncFinishes
  <2> QED BY <1>1, <1>8, <2>1, FinishKeeps DEF SyncFinishes
<1>9. ASSUME NEW p \in Syncs, SyncStep(p) \/ SyncFails(p)
      PROVE  Kept \/ (SyncLinks(p) /\ NewLink(Loaded(p).of, sync[p].of))
  <2>1. CASE UNCHANGED row
    BY <1>2, <2>1
  <2>2. CASE \/ StartSync(p) \/ ListTransfers(p) \/ ListingFails(p) \/ SyncLinked(p) \/ SyncDeferred(p)
             \/ SyncRecovers(p) \/ SyncNeverReached(p) \/ LookupFails(p)
    BY <2>1, <2>2 DEF StartSync, ListTransfers, ListingFails, SyncLinked, SyncDeferred, SyncRecovers,
                      SyncNeverReached, LookupFails
  <2> QED BY <1>6, <1>7, <1>8, <1>9, <2>2 DEF SyncStep, SyncFails
<1>10. CASE Archive \/ WatchStamps
  <2>1. Archive \/ Stamp
    BY <1>10 DEF WatchStamps, WatchTo, Stamp, Reasons
  <2> QED BY <1>1, <2>1, ArchiveKeeps, StampKeeps
<1>11. ASSUME NEW t \in Transfers, \/ CallLost(t) \/ InitiateAnswered(t) \/ VenueReceivesTransfer(t)
                                   \/ VenueDecidesTransfer(t) \/ WatchReads(t) \/ CancelRequestLost(t)
                                   \/ AskVenueToCancel(t)
       PROVE  UNCHANGED row
  BY <1>11 DEF CallLost, InitiateAnswered, VenueReceivesTransfer, VenueDecidesTransfer, VenueTo,
               WatchReads, WatchTo, CancelRequestLost, AskVenueToCancel
<1>12. CASE StartReset \/ ResetCrashes \/ Tick \/ Trade \/ UNCHANGED cashVars
  BY <1>2, <1>12 DEF StartReset, ResetCrashes, Tick, Trade, transferVars, cashVars
<1> QED BY <1>2, <1>3, <1>4, <1>5, <1>9, <1>10, <1>11, <1>12 DEF CashNext, CallStep, ResetStep

\* The calls.
LEMMA CallMoves ==
  ASSUME SettleInv, NEW t \in Transfers, NEW next \in CallRows, call' = [call EXCEPT ![t] = next]
  PROVE  /\ call' \in [Transfers -> CallRows] /\ call'[t] = next
         /\ \A u \in Transfers \ {t} : call'[u] = call[u]
BY SettleTypes

\* What the step of a call brings it to.
CallStepsOK(t) ==
  /\ Active(t)' => row'[t].state # Absent /\ now' <= row'[t].created + CallTicks
  /\ call'[t].at \in {"link", "apply"} => SeenOK(call'[t].seen, t)
  /\ call'[t].at = "apply" => row'[t].venue = t

LEMMA OwnCall ==
  ASSUME SettleInv, NEW t \in Transfers,
         \/ Request(t) \/ InitiateRejected(t) \/ CallLost(t) \/ CallStep(t)
  PROVE  /\ call' \in [Transfers -> CallRows] /\ CallStepsOK(t)
         /\ \A u \in Transfers \ {t} : call'[u] = call[u]
<1>1. /\ row \in [Transfers -> TransferRows] /\ venue \in [Transfers -> VenueRows]
      /\ call[t] \in CallRows /\ now \in Nat /\ CallTicks \in Nat
  BY SettleTypes, TickBounds
<1>2. CASE Request(t)
  <2> DEFINE next == [at |-> "posted"]
             fresh == [NoRow EXCEPT !.state = "PENDING", !.created = now]
  <2>1. next \in CallRows /\ next.at = "posted" /\ fresh.state = "PENDING" /\ fresh.created = now
    BY DEF CallRows, NoRow
  <2>2. call' = [call EXCEPT ![t] = next] /\ row' = [row EXCEPT ![t] = fresh] /\ now' = now
    BY <1>2 DEF Request, CallTo
  <2> HIDE DEF next, fresh
  <2>3. row'[t].state = "PENDING" /\ row'[t].created = now
    BY <1>1, <2>1, <2>2
  <2>4. call'[t].at = "posted"
    BY <2>1, <2>2, CallMoves
  <2>5. /\ row'[t].state # Absent /\ now' <= row'[t].created + CallTicks
        /\ call'[t].at \notin {"link", "apply"}
    BY <1>1, <2>2, <2>3, <2>4 DEF Absent
  <2>6. CallStepsOK(t)
    BY <2>5 DEF CallStepsOK
  <2> QED BY <2>1, <2>2, <2>6, CallMoves
<1>3. CASE InitiateRejected(t) \/ CallLost(t)
  <2>1. PICK next : next \in {[at |-> "done"], [at |-> "lost"]} /\ call' = [call EXCEPT ![t] = next]
    BY <1>3 DEF InitiateRejected, CallLost, CallTo
  <2>2. next \in CallRows /\ next.at \in {"done", "lost"}
    BY <2>1 DEF CallRows
  <2> QED BY <2>1, <2>2, CallMoves DEF CallStepsOK, Active
<1>4. CASE InitiateAnswered(t)
  <2> DEFINE next == [at |-> "link", seen |-> venue[t].state]
  <2>1. next \in CallRows /\ next.at = "link" /\ next.seen = venue[t].state
    BY <1>1 DEF CallRows, VenueRows, VenueStates
  <2>2. call' = [call EXCEPT ![t] = next] /\ row' = row /\ now' = now /\ call[t].at = "posted"
    BY <1>4 DEF InitiateAnswered, CallTo
  <2> HIDE DEF next
  <2>3. call'[t] = next /\ call' \in [Transfers -> CallRows] /\ \A u \in Transfers \ {t} : call'[u] = call[u]
    BY <2>1, <2>2, CallMoves
  <2>4. row[t].state # Absent /\ now <= row[t].created + CallTicks
    BY <2>2 DEF SettleInv, CallOK, Active
  <2> QED BY <2>1, <2>2, <2>3, <2>4 DEF CallStepsOK, SeenOK
<1>5. CASE CallLinks(t)
  <2>1. CASE LinkConflicts(t, t)
    <3>1. call' = [call EXCEPT ![t] = [at |-> "lost"]]
      BY <1>5, <2>1 DEF CallLinks, CallTo
    <3>2. [at |-> "lost"] \in CallRows
      BY DEF CallRows
    <3>3. call'[t].at = "lost"
      BY <3>1, <3>2, CallMoves
    <3> QED BY <3>1, <3>2, <3>3, CallMoves DEF CallStepsOK, Active
  <2>2. CASE ~LinkConflicts(t, t)
    <3> DEFINE next == [call[t] EXCEPT !.at = "apply"]
    <3>1. call[t].at = "link" /\ call' = [call EXCEPT ![t] = next] /\ Link(t, t) /\ now' = now
      BY <1>5, <2>2 DEF CallLinks, CallTo
    <3>2. call[t] \in [at : {"link", "apply"}, seen : VenueStates]
      BY <1>1, <3>1 DEF CallRows
    <3>3. next \in CallRows /\ next.at = "apply" /\ next.seen = call[t].seen
      BY <3>2 DEF CallRows
    <3> HIDE DEF next
    <3>4. call'[t] = next /\ call' \in [Transfers -> CallRows] /\ \A u \in Transfers \ {t} : call'[u] = call[u]
      BY <3>1, <3>3, CallMoves
    <3>5. /\ row[t].state # Absent /\ now <= row[t].created + CallTicks
          /\ SeenOK(call[t].seen, t)
      BY <3>1 DEF SettleInv, CallOK, Active
    <3>6. row'[t].state = row[t].state /\ row'[t].created = row[t].created /\ row'[t].venue = t
      <4>1. row[t].venue \in {None, t}
        <5>1. ~PastGrace(t)
          BY <3>1, GraceIsOver DEF Active
        <5> QED BY <5>1 DEF SettleInv, RowLinks
      <4>2. CASE row[t].venue = None
        BY <1>1, <3>1, <4>2 DEF Link, TransferRows
      <4>3. CASE row[t].venue # None
        BY <3>1, <4>1, <4>3 DEF Link
      <4> QED BY <4>2, <4>3
    <3> QED BY <3>1, <3>3, <3>4, <3>5, <3>6 DEF CallStepsOK
  <2> QED BY <2>1, <2>2
<1>6. CASE CallApplies(t)
  <2>1. call' = [call EXCEPT ![t] = [at |-> "done"]]
    BY <1>6 DEF CallApplies, CallTo
  <2>2. [at |-> "done"] \in CallRows
    BY DEF CallRows
  <2>3. call'[t].at = "done"
    BY <2>1, <2>2, CallMoves
  <2> QED BY <2>1, <2>2, <2>3, CallMoves DEF CallStepsOK, Active
<1> QED BY <1>2, <1>3, <1>4, <1>5, <1>6 DEF CallStep

\* What a step does to every row.
LEMMA RowsKept ==
  ASSUME SettleInv, [CashNext]_cashVars
  PROVE  \A t \in Transfers : RowKept(t) /\ (row'[t].venue = row[t].venue \/ row[t].venue = None)
<1>1. CASE Kept
  BY <1>1 DEF Kept
<1>2. ASSUME NEW t \in Transfers, NEW v \in Transfers, NewLink(t, v), NEW u \in Transfers
      PROVE  RowKept(u) /\ (row'[u].venue = row[u].venue \/ row[u].venue = None)
  BY <1>2 DEF NewLink, RowKept
<1>3. \A p \in Syncs : SyncLinks(p) => Loaded(p).of \in Transfers /\ sync[p].of \in Transfers
  BY AtWork DEF SyncLinks
<1> QED BY <1>1, <1>2, <1>3, RowsMove

LEMMA ClockMoves ==
  ASSUME [CashNext]_cashVars
  PROVE  now' = now \/ Tick
<1>1. ASSUME NEW p \in Syncs, SyncStep(p) \/ SyncFails(p) PROVE now' = now
  BY <1>1 DEF SyncStep, SyncFails, StartSync, ListTransfers, ListingFails, SyncLinked, SyncDeferred,
              SyncRecovers, SyncNeverReached, LookupFails, SyncLinks, SyncApplies, SyncFinishes,
              Proceed, Work, SyncTo
<1>2. ASSUME NEW t \in Transfers,
             \/ Request(t) \/ InitiateRejected(t) \/ CallLost(t) \/ CallStep(t)
             \/ VenueReceivesTransfer(t) \/ VenueDecidesTransfer(t)
             \/ WatchReads(t) \/ CancelRequestLost(t) \/ AskVenueToCancel(t)
      PROVE  now' = now
  BY <1>2 DEF Request, InitiateRejected, CallLost, CallStep, InitiateAnswered, CallLinks, CallApplies,
              CallTo, VenueReceivesTransfer, VenueDecidesTransfer, VenueTo, WatchReads, WatchTo,
              CancelRequestLost, AskVenueToCancel, ResetTo
<1>3. CASE StartReset \/ Archive \/ ResetCrashes \/ WatchStamps \/ Trade \/ UNCHANGED cashVars
  BY <1>3 DEF StartReset, Archive, ResetCrashes, ResetTo, WatchStamps, WatchTo, Trade, transferVars, cashVars
<1> QED BY <1>1, <1>2, <1>3 DEF CashNext, ResetStep

LEMMA CallsKeep ==
  ASSUME SettleInv, [CashNext]_cashVars
  PROVE  call' \in [Transfers -> CallRows] /\ \A t \in Transfers : CallOK(t)'
<1>1. VenueKept /\ call \in [Transfers -> CallRows]
  BY VenueStays DEF SettleInv
<1>2. \A t \in Transfers : Active(t) => now' <= row[t].created + CallTicks
  <2> SUFFICES ASSUME NEW t \in Transfers, Active(t) PROVE now' <= row[t].created + CallTicks
    OBVIOUS
  <2>1. now <= row[t].created + CallTicks /\ now \in Nat /\ row[t].created \in Nat /\ CallTicks \in Nat
    BY SettleTypes, TickBounds DEF SettleInv, CallOK, TransferRows
  <2>2. Tick => now' = now + 1 /\ now < row[t].created + CallTicks
    BY DEF Tick, Active
  <2> QED BY <2>1, <2>2, ClockMoves
<1>3. ASSUME NEW t \in Transfers, call'[t] = call[t] PROVE CallOK(t)'
  BY <1>1, <1>2, <1>3, RowsKept, CallStays
<1>4. ASSUME UNCHANGED call PROVE call' \in [Transfers -> CallRows] /\ \A t \in Transfers : CallOK(t)'
  BY <1>1, <1>3, <1>4
<1>5. ASSUME NEW t \in Transfers, \/ Request(t) \/ InitiateRejected(t) \/ CallLost(t) \/ CallStep(t)
      PROVE  call' \in [Transfers -> CallRows] /\ \A u \in Transfers : CallOK(u)'
  <2>1. /\ call' \in [Transfers -> CallRows] /\ CallStepsOK(t)
        /\ \A u \in Transfers \ {t} : call'[u] = call[u]
    BY <1>5, OwnCall
  <2>2. CallOK(t)'
    BY <1>1, <2>1 DEF CallStepsOK, CallOK, VenueKept, SeenOK
  <2> QED BY <1>3, <2>1, <2>2
<1>6. ASSUME NEW p \in Syncs, SyncStep(p) \/ SyncFails(p) PROVE UNCHANGED call
  BY <1>6 DEF SyncStep, SyncFails, StartSync, ListTransfers, ListingFails, SyncLinked, SyncDeferred,
              SyncRecovers, SyncNeverReached, LookupFails, SyncLinks, SyncApplies, SyncFinishes,
              Proceed, Work, SyncTo
<1>7. ASSUME NEW t \in Transfers, \/ VenueReceivesTransfer(t) \/ VenueDecidesTransfer(t)
                                  \/ WatchReads(t) \/ CancelRequestLost(t) \/ AskVenueToCancel(t)
      PROVE  UNCHANGED call
  BY <1>7 DEF VenueReceivesTransfer, VenueDecidesTransfer, VenueTo, WatchReads, WatchTo,
              CancelRequestLost, AskVenueToCancel, ResetTo
<1>8. CASE StartReset \/ Archive \/ ResetCrashes \/ WatchStamps \/ Tick \/ Trade \/ UNCHANGED cashVars
  BY <1>4, <1>8 DEF StartReset, Archive, ResetCrashes, ResetTo, WatchStamps, WatchTo, Tick, Trade,
                    transferVars, cashVars
<1> QED BY <1>4, <1>5, <1>6, <1>7, <1>8 DEF CashNext, ResetStep

\* The pass that links a row goes on to apply what it saw.
LEMMA LinksKnows ==
  ASSUME SettleInv, NEW p \in Syncs, SyncLinks(p), RowType',
         Kept \/ NewLink(Loaded(p).of, sync[p].of),
         NEW next, ~LinkConflicts(Loaded(p).of, sync[p].of),
         next = [at |-> "apply", todo |-> sync[p].todo, started |-> sync[p].started,
                 listed |-> sync[p].listed, complete |-> sync[p].complete,
                 of |-> sync[p].of, seen |-> sync[p].seen]
  PROVE  Knows(next)'
<1> DEFINE t == Loaded(p).of
           v == sync[p].of
<1>1. /\ next.at = "apply" /\ next.todo = sync[p].todo /\ next.started = sync[p].started
      /\ next.listed = sync[p].listed /\ next.of = v /\ next.seen = sync[p].seen
  OBVIOUS
<1>2. /\ sync[p].at = "link" /\ Link(t, v) /\ UNCHANGED <<venue, now>>
  BY DEF SyncLinks, Work, SyncTo
<1>3. /\ t \in Transfers /\ v \in Transfers /\ sync[p].todo[1] = Loaded(p) /\ 1 \in 1 .. Len(sync[p].todo)
      /\ EntryOK(sync[p], 1) /\ WorkOK(sync[p]) /\ Knows(sync[p]) /\ PassOK(sync[p])
  BY <1>2, AtWork, SettleTypes DEF SettleInv, PassType
<1>4. /\ row \in [Transfers -> TransferRows] /\ row' \in [Transfers -> TransferRows]
      /\ now \in Nat /\ None \notin Transfers
  BY SettleTypes, TickBounds DEF RowType
<1>5. /\ \A u \in Transfers \ {t} : row'[u].venue = row[u].venue
      /\ \A u \in Transfers : RowKept(u)
      /\ row'[t].venue = v
      /\ row[t].venue # None => row'[t].venue = row[t].venue
  <2>1. row[t].venue \in {None, v}
    BY <1>2, <1>3 DEF WorkOK, Loaded
  <2>2. CASE row[t].venue = None
    <3>1. row'[t].venue = v
      BY <1>2, <1>3, <1>4, <2>2 DEF Link, TransferRows
    <3>2. NewLink(t, v)
      BY <1>3, <1>4, <2>2, <3>1 DEF Kept
    <3> QED BY <2>2, <3>1, <3>2 DEF NewLink, RowKept
  <2>3. CASE row[t].venue # None
    <3>1. row' = row
      BY <1>2, <2>3 DEF Link
    <3> QED BY <2>1, <2>3, <3>1 DEF RowKept
  <2> QED BY <2>1, <2>2, <2>3
<1>6. \A k \in 1 .. Len(sync[p].todo) :
        /\ sync[p].todo[k].of \in Transfers /\ EntryOK(sync[p], k)
        /\ k # 1 => sync[p].todo[k].of # t
  BY <1>2, <1>3, EntriesType DEF Knows
<1>7. row[t].state # Absent
  BY <1>3 DEF EntryOK
<1> HIDE DEF t, v
<1>8. ASSUME NEW k \in 1 .. Len(next.todo) PROVE EntryOK(next, k)'
  <2> DEFINE e == next.todo[k]
             u == e.of
  <2>1. u \in Transfers /\ EntryOK(sync[p], k) /\ e = sync[p].todo[k] /\ RowKept(u)
    BY <1>1, <1>5, <1>6
  <2>2. row[u].state # Absent /\ (e.venue # None => row[u].venue = e.venue)
    BY <2>1 DEF EntryOK
  <2>3. row'[u].state # Absent /\ row'[u].created = row[u].created
    BY <2>1, <2>2 DEF RowKept
  <2>4. e.venue # None => row'[u].venue = e.venue
    BY <1>3, <1>5, <2>1, <2>2
  <2>5. Alone /\ e.venue = None /\ row'[u].venue # None =>
          next.started <= row'[u].created + CallTicks \/ (k = 1 /\ next.at = "apply")
    <3>1. CASE k = 1
      BY <1>1, <3>1
    <3>2. CASE k # 1
      <4>1. u # t /\ row'[u].venue = row[u].venue
        BY <1>1, <1>5, <1>6, <2>1, <3>2
      <4> QED BY <1>1, <2>1, <2>3, <3>2, <4>1 DEF EntryOK
    <3> QED BY <3>1, <3>2
  <2> HIDE DEF e
  <2>6. next.todo[k] = e
    BY DEF e
  <2> QED BY <2>3, <2>4, <2>5, <2>6 DEF EntryOK
<1>9. ListedOK(next)'
  BY <1>1, <1>2, <1>3 DEF Knows, ListedOK, SeenOK
<1>10. WorkOK(next)'
  <2>1. PICK e : e = Head(next.todo)
    OBVIOUS
  <2>2. e = Loaded(p) /\ e.of = t
    BY <1>1, <2>1 DEF Loaded, t
  <2>3. SeenOK(next.seen, next.of)'
    BY <1>1, <1>2, <1>3 DEF WorkOK, SeenOK, v
  <2>4. e.venue = None => PastGrace(t) /\ (Distinct => v = t)
    BY <1>3, <2>2 DEF WorkOK, Loaded, t, v
  <2>5. row'[t].created = row[t].created
    BY <1>3, <1>5, <1>7 DEF RowKept, t
  <2>6. e.venue = None => now' - row'[e.of].created > Grace
    BY <1>2, <2>2, <2>4, <2>5 DEF PastGrace
  <2>7. row'[e.of].venue = next.of
    BY <1>1, <1>5, <2>2
  <2>8. e.venue = None /\ Distinct => next.of = e.of
    BY <1>1, <2>2, <2>4
  <2> QED BY <1>1, <2>1, <2>3, <2>6, <2>7, <2>8 DEF WorkOK, PastGrace
<1> QED BY <1>1, <1>2, <1>3, <1>8, <1>9, <1>10 DEF Knows

\* The passes that do not move.
LEMMA OthersKnow ==
  ASSUME Unambiguous, SettleInv, [CashNext]_cashVars, RowType', NEW q \in Syncs, sync'[q] = sync[q],
         sync[q].at # "idle", \A t \in Transfers : ~(SyncLinks(q) /\ NewLink(t, sync[q].of))
  PROVE  Knows(sync[q])'
<1> PICK s : s = sync[q]
  OBVIOUS
<1>1. /\ VenueKept /\ PassOK(s) /\ s.at # "idle" /\ Knows(s) /\ sync'[q] = s
      /\ \A t \in Transfers : RowKept(t)
  BY VenueStays, SettleTypes, RowsKept DEF SettleInv, CashType, PassType
<1>2. now' <= s.started + PassTicks
  <2>1. now <= s.started + PassTicks /\ now \in Nat /\ s.started \in Nat /\ PassTicks \in Nat
    BY <1>1, SettleTypes, TickBounds DEF Knows
  <2>2. Tick => now' = now + 1 /\ now < s.started + PassTicks
    <3>1. s # Ready
      BY <1>1 DEF Ready
    <3> QED BY <3>1 DEF Tick
  <2> QED BY <2>1, <2>2, ClockMoves
<1>3. \A t \in Transfers : LinksOf(t)
  <2>1. CASE Kept
    BY <2>1 DEF Kept, LinksOf
  <2>2. ASSUME NEW t \in Transfers, CallLinks(t), NewLink(t, t) PROVE \A u \in Transfers : LinksOf(u)
    BY <2>2 DEF NewLink, LinksOf, CallLinks, Active
  <2>3. ASSUME NEW p \in Syncs, SyncLinks(p), NewLink(Loaded(p).of, sync[p].of)
        PROVE  \A u \in Transfers : LinksOf(u)
    <3>1. Loaded(p).of \in Transfers
      BY <2>3, AtWork DEF SyncLinks
    <3>2. p # q
      BY <2>3, <3>1
    <3>3. ~Alone /\ Distinct
      BY <3>2 DEF Alone, Unambiguous
    <3>4. sync[p].of = Loaded(p).of
      BY <2>3, <3>3 DEF NewLink
    <3> QED BY <2>3, <3>1, <3>3, <3>4 DEF NewLink, LinksOf
  <2> QED BY <2>1, <2>2, <2>3, RowsMove
<1>4. Knows(s)'
  BY <1>1, <1>2, <1>3, KnowsStays
<1> QED BY <1>1, <1>4 DEF Knows, EntryOK, WorkOK, ListedOK, SeenOK

\* The pass that moves, when it does not link.
LEMMA MovesKnow ==
  ASSUME Unambiguous, SettleInv, [CashNext]_cashVars, RowType', PassType', NEW p \in Syncs, Kept,
         NEW s, sync' = [sync EXCEPT ![p] = s], s.at # "idle", Knows(s), now' = now
  PROVE  Knows(sync[p])'
<1>1. sync'[p] = s
  BY DEF SettleInv, CashType, PassType
<1>2. PassOK(s)
  BY <1>1 DEF PassType
<1>3. VenueKept /\ \A t \in Transfers : RowKept(t) /\ LinksOf(t)
  BY VenueStays DEF SettleInv, Kept, LinksOf
<1>4. now' <= s.started + PassTicks
  BY DEF Knows
<1>5. Knows(s)'
  BY <1>2, <1>3, <1>4, KnowsStays
<1> QED BY <1>1, <1>5 DEF Knows, EntryOK, WorkOK, ListedOK, SeenOK

LEMMA PassMovesKnow ==
  ASSUME Unambiguous, SettleInv, [CashNext]_cashVars, RowType', PassType', NEW p \in Syncs,
         SyncStep(p) \/ SyncFails(p), sync'[p].at # "idle"
  PROVE  Knows(sync[p])'
<1>1. now' = now
  BY DEF SyncStep, SyncFails, StartSync, ListTransfers, ListingFails, SyncLinked, SyncDeferred,
         SyncRecovers, SyncNeverReached, LookupFails, SyncLinks, SyncApplies, SyncFinishes,
         Proceed, Work, SyncTo
<1>2. ASSUME Kept, \E s : sync' = [sync EXCEPT ![p] = s] /\ (s.at # "idle" => Knows(s))
      PROVE  Knows(sync[p])'
  <2>1. PICK s : sync' = [sync EXCEPT ![p] = s] /\ (s.at # "idle" => Knows(s))
    BY <1>2
  <2>2. sync'[p] = s
    BY <2>1 DEF SettleInv, CashType, PassType
  <2> QED BY <1>1, <1>2, <2>1, <2>2, MovesKnow
<1>3. ASSUME UNCHANGED row PROVE Kept
  BY <1>3 DEF Kept, RowKept
<1>4. CASE StartSync(p) \/ ListTransfers(p) \/ ListingFails(p)
  <2>1. Kept
    BY <1>3, <1>4 DEF StartSync, ListTransfers, ListingFails
  <2> QED BY <1>2, <1>4, <2>1, StartKnows, ListKnows
<1>5. CASE SyncLinked(p) \/ SyncRecovers(p)
  <2>1. Kept
    BY <1>3, <1>5 DEF SyncLinked, SyncRecovers
  <2> QED BY <1>2, <1>5, <2>1, LinkedKnows, RecoverKnows
<1>6. CASE SyncNeverReached(p)
  <2>1. Kept
    BY <1>3, <1>6 DEF SyncNeverReached
  <2>2. sync[p].at = "next" /\ Work(p, "finish", None, "FAILED")
    BY <1>6 DEF SyncNeverReached
  <2>3. \E s : sync' = [sync EXCEPT ![p] = s] /\ (s.at # "idle" => Knows(s))
    BY <2>2, WorkKnows
  <2> QED BY <1>2, <2>1, <2>3
<1>7. ASSUME Kept, Proceed(p), sync[p].at \notin {"idle", "listing"} PROVE Knows(sync[p])'
  BY <1>2, <1>7, ProceedKnows
<1>8. CASE SyncDeferred(p) \/ LookupFails(p) \/ SyncApplies(p) \/ SyncFinishes(p)
  <2>1. Proceed(p) /\ sync[p].at \notin {"idle", "listing"}
    BY <1>8 DEF SyncDeferred, LookupFails, SyncApplies, SyncFinishes
  <2>2. Kept
    <3>1. CASE SyncDeferred(p) \/ LookupFails(p)
      BY <1>3, <3>1 DEF SyncDeferred, LookupFails
    <3>2. CASE SyncApplies(p)
      <4>1. /\ Loaded(p).of \in Transfers /\ sync[p].of \in Transfers
            /\ sync[p].todo[1] = Loaded(p) /\ WorkOK(sync[p])
        BY <3>2, AtWork DEF SyncApplies
      <4>2. row[Loaded(p).of].venue = sync[p].of /\ SeenOK(sync[p].seen, sync[p].of)
        BY <3>2, <4>1 DEF WorkOK, SyncApplies, Loaded
      <4>3. ApplyVenueState(Loaded(p).of, sync[p].of, sync[p].seen)
        BY <3>2 DEF SyncApplies
      <4> QED BY <4>1, <4>2, <4>3, AnswerKeeps, TickBounds, SettleTypes DEF RowType
    <3>3. CASE SyncFinishes(p)
      <4>1. Loaded(p).of \in Transfers
        BY <3>3, SettleTypes, LoadedType DEF SyncFinishes
      <4> QED BY <3>3, <4>1, FinishKeeps, SettleTypes DEF SyncFinishes, RowType
    <3> QED BY <1>8, <3>1, <3>2, <3>3
  <2> QED BY <1>7, <2>1, <2>2
<1>9. CASE SyncLinks(p)
  <2>1. CASE LinkConflicts(Loaded(p).of, sync[p].of)
    <3>1. Kept
      BY <1>3, <1>9, <2>1 DEF SyncLinks
    <3>2. Proceed(p) /\ sync[p].at \notin {"idle", "listing"}
      BY <1>9, <2>1 DEF SyncLinks
    <3> QED BY <1>7, <3>1, <3>2
  <2>2. CASE ~LinkConflicts(Loaded(p).of, sync[p].of)
    <3>1. PICK s : s = [at |-> "apply", todo |-> sync[p].todo, started |-> sync[p].started,
                        listed |-> sync[p].listed, complete |-> sync[p].complete,
                        of |-> sync[p].of, seen |-> sync[p].seen]
      OBVIOUS
    <3>2. sync'[p] = s
      BY <1>9, <2>2, <3>1 DEF SyncLinks, Work, SyncTo, SettleInv, CashType, PassType
    <3>3. Kept \/ NewLink(Loaded(p).of, sync[p].of)
      <4>1. /\ Loaded(p).of \in Transfers /\ sync[p].of \in Transfers /\ sync[p].todo[1] = Loaded(p)
            /\ EntryOK(sync[p], 1) /\ WorkOK(sync[p])
        BY <1>9, AtWork DEF SyncLinks
      <4>2. /\ row[Loaded(p).of].state # Absent
            /\ Loaded(p).venue # None => row[Loaded(p).of].venue = Loaded(p).venue
        BY <4>1 DEF EntryOK
      <4>3. Loaded(p).venue = None => PastGrace(Loaded(p).of) /\ (Distinct => sync[p].of = Loaded(p).of)
        BY <4>1 DEF WorkOK, Loaded
      <4>4. Link(Loaded(p).of, sync[p].of)
        BY <1>9, <2>2 DEF SyncLinks
      <4> QED BY <2>2, <4>1, <4>2, <4>3, <4>4, LinkKeeps, SettleTypes DEF RowType
    <3>4. Knows(s)'
      BY <1>9, <2>2, <3>1, <3>3, LinksKnows
    <3> QED BY <3>2, <3>4 DEF Knows, EntryOK, WorkOK, ListedOK, SeenOK
  <2> QED BY <2>1, <2>2
<1> QED BY <1>4, <1>5, <1>6, <1>8, <1>9 DEF SyncStep, SyncFails

LEMMA PassesKnow ==
  ASSUME Unambiguous, SettleInv, [CashNext]_cashVars, RowType', PassType', NEW q \in Syncs,
         sync'[q].at # "idle"
  PROVE  Knows(sync[q])'
<1>1. ASSUME sync'[q] = sync[q], \A p \in Syncs : SyncLinks(p) => p # q
      PROVE  Knows(sync[q])'
  BY <1>1, OthersKnow
<1>2. ASSUME NEW p \in Syncs, SyncStep(p) \/ SyncFails(p) PROVE Knows(sync[q])'
  <2>1. CASE p = q
    BY <1>2, <2>1, PassMovesKnow
  <2>2. CASE p # q
    <3>1. sync'[q] = sync[q]
      <4>1. \E s : SyncTo(p, s)
        BY <1>2 DEF SyncStep, SyncFails, StartSync, ListTransfers, ListingFails, SyncLinked, SyncDeferred,
                    SyncRecovers, SyncNeverReached, LookupFails, SyncLinks, SyncApplies, SyncFinishes,
                    Proceed, Work
      <4>2. DOMAIN sync = Syncs
        BY SettleTypes DEF PassType
      <4> QED BY <2>2, <4>1, <4>2 DEF SyncTo
    <3>2. CASE SyncLinks(q)
      BY <1>2, <3>2, PassMovesKnow DEF SyncStep
    <3>3. CASE ~SyncLinks(q)
      BY <1>1, <2>2, <3>1, <3>3
    <3> QED BY <3>2, <3>3
  <2> QED BY <2>1, <2>2
<1>3. ASSUME UNCHANGED sync PROVE Knows(sync[q])'
  <2>1. CASE \E p \in Syncs : SyncLinks(p)
    BY <1>2, <2>1 DEF SyncStep
  <2>2. CASE ~\E p \in Syncs : SyncLinks(p)
    BY <1>1, <1>3, <2>2
  <2> QED BY <2>1, <2>2
<1>4. ASSUME NEW t \in Transfers,
             \/ Request(t) \/ InitiateRejected(t) \/ CallLost(t) \/ CallStep(t)
             \/ VenueReceivesTransfer(t) \/ VenueDecidesTransfer(t)
             \/ WatchReads(t) \/ CancelRequestLost(t) \/ AskVenueToCancel(t)
      PROVE  UNCHANGED sync
  BY <1>4 DEF Request, InitiateRejected, CallLost, CallStep, InitiateAnswered, CallLinks, CallApplies,
              CallTo, VenueReceivesTransfer, VenueDecidesTransfer, VenueTo, WatchReads, WatchTo,
              CancelRequestLost, AskVenueToCancel, ResetTo
<1>5. CASE StartReset \/ Archive \/ ResetCrashes \/ WatchStamps \/ Tick \/ Trade \/ UNCHANGED cashVars
  BY <1>3, <1>5 DEF StartReset, Archive, ResetCrashes, ResetTo, WatchStamps, WatchTo, Tick, Trade,
                    transferVars, cashVars
<1> QED BY <1>2, <1>3, <1>4, <1>5 DEF CashNext, ResetStep

LEMMA InitSettle == CashInit => SettleInv
<1> SUFFICES ASSUME CashInit PROVE SettleInv
  OBVIOUS
<1>1. CashType
  BY InitCashType
<1>2. call = [t \in Transfers |-> [at |-> "idle"]] /\ call \in [Transfers -> CallRows]
  BY DEF CashInit, Ready, CallRows
<1>3. \A t \in Transfers : CallOK(t)
  BY <1>2 DEF CallOK, Active
<1>4. RowLinks
  BY DEF CashInit, RowLinks, NoRow, Absent
<1>5. \A p \in Syncs : sync[p].at = "idle"
  BY DEF CashInit, Ready
<1> QED BY <1>1, <1>2, <1>3, <1>4, <1>5 DEF SettleInv

LEMMA NextSettle ==
  ASSUME Unambiguous
  PROVE  SettleInv /\ [CashNext]_cashVars => SettleInv'
<1> SUFFICES ASSUME SettleInv, [CashNext]_cashVars PROVE SettleInv'
  OBVIOUS
<1>1. CashType' /\ RowType' /\ PassType'
  BY NextCashType DEF SettleInv, CashType
<1>2. VenueKept
  BY VenueStays DEF SettleInv
<1>3. Kept \/ \E t, v \in Transfers : NewLink(t, v)
  <2>1. \A p \in Syncs : SyncLinks(p) => Loaded(p).of \in Transfers /\ sync[p].of \in Transfers
    BY AtWork DEF SyncLinks
  <2> QED BY <2>1, RowsMove
<1>4. RowLinks'
  BY <1>1, <1>2, <1>3, RowLinksStay
<1>5. \A p \in Syncs : sync'[p].at # "idle" => Knows(sync[p])'
  BY <1>1, PassesKnow
<1> QED BY <1>1, <1>4, <1>5, CallsKeep DEF SettleInv

\* A SETTLED row posted a settlement of the venue's that no other row is linked
\* to, through lost answers, recoveries and resets.  Passes that overlap and
\* recover transfers of one amount and direction are the hypothesis' exception.
LEMMA SettlementsAreTheirOwn ==
  ASSUME Unambiguous
  PROVE  CashSpec => []SettledByItsOwnTransfer
<1>1. SettleInv => SettledByItsOwnTransfer
  BY SettleTypes DEF SettleInv, RowLinks, SettledByItsOwnTransfer, InState, SettledAt
<1>2. SettleInv /\ [CashNext]_cashVars => SettleInv'
  BY NextSettle
<1> QED BY <1>1, <1>2, InitSettle, PTL DEF CashSpec

--------------------------------------------------------------------------------
(* What holds however passes overlap and amounts repeat: nothing posts that    *)
(* the venue did not settle for one of that amount and direction.  What is     *)
(* held in memory of a transfer's end stays true of it, so a row that settles  *)
(* late, or by another's answer, still settles by the venue's word.            *)

PostedByVenue ==
  \A t \in InState({"SETTLED"}) : \E v \in Transfers : Matches(t, v) /\ SettledAt(v)
LinkedOnce ==
  \A t, u \in Transfers : row[t].venue # None /\ row[t].venue = row[u].venue => t = u

CallSaw(t) == call[t].at \in {"link", "apply"} => SeenOK(call[t].seen, t)
PassSaw(s) ==
  /\ s.at \notin {"idle", "listing"} => ListedOK(s)
  /\ s.at \in {"link", "apply"} => SeenOK(s.seen, s.of)

SawInv ==
  /\ CashType
  /\ call \in [Transfers -> CallRows] /\ \A t \in Transfers : CallSaw(t)
  /\ \A p \in Syncs : PassSaw(sync[p])
  /\ PostedByVenue /\ LinkedOnce

\* A row that a step settles is one of those the venue settled.
Backed(t) ==
  row'[t].state = "SETTLED" =>
    row[t].state = "SETTLED" \/ \E v \in Transfers : Matches(t, v) /\ SettledAt(v)

LinksStay == \A t \in Transfers : row'[t].venue = row[t].venue
OneLinks ==
  \E t, v \in Transfers :
    /\ ~Linked(v) /\ row'[t].venue = v
    /\ \A u \in Transfers \ {t} : row'[u].venue = row[u].venue

RowsBacked == (\A t \in Transfers : Backed(t)) /\ (LinksStay \/ OneLinks)

LEMMA OneRowBacked ==
  ASSUME RowType, NEW t \in Transfers, NEW next, row' = [row EXCEPT ![t] = next],
         next.venue = row[t].venue, next.state # "SETTLED" \/ next.state = row[t].state
  PROVE  RowsBacked
<1>1. row'[t] = next /\ \A u \in Transfers \ {t} : row'[u] = row[u]
  BY DEF RowType
<1> QED BY <1>1 DEF RowsBacked, Backed, LinksStay

LEMMA FinishBacked ==
  ASSUME RowType, NEW t \in Transfers, NEW reason, Finish(t, reason)
  PROVE  RowsBacked
<1> DEFINE next == [row[t] EXCEPT !.state = "FAILED", !.reason = reason]
<1>1. next.venue = row[t].venue /\ next.state = "FAILED"
  BY DEF RowType, TransferRows
<1>2. row' = row \/ row' = [row EXCEPT ![t] = next]
  BY DEF Finish, UpdateRow
<1> HIDE DEF next
<1>3. CASE row' = row
  BY <1>3 DEF RowsBacked, Backed, LinksStay
<1> QED BY <1>1, <1>2, <1>3, OneRowBacked

LEMMA AnswerBacked ==
  ASSUME RowType, NEW t \in Transfers, NEW v \in Transfers, NEW s, ApplyVenueState(t, v, s), SeenOK(s, v)
  PROVE  RowsBacked
<1> DEFINE next == Answered(t, v, s)
<1>1. /\ next.venue = row[t].venue
      /\ next.state = "SETTLED" => row[t].state = "SETTLED" \/ (s = "SETTLED" /\ Matches(t, v))
  BY DEF Answered, RowType, TransferRows
<1>2. row' = [row EXCEPT ![t] = next]
  BY DEF ApplyVenueState, UpdateRow
<1>3. s = "SETTLED" => SettledAt(v)
  BY DEF SeenOK, SettledAt, Ends
<1> HIDE DEF next
<1>4. row'[t] = next /\ \A u \in Transfers \ {t} : row'[u] = row[u]
  BY <1>2 DEF RowType
<1> QED BY <1>1, <1>3, <1>4 DEF RowsBacked, Backed, LinksStay

LEMMA LinkBacked ==
  ASSUME RowType, NEW t \in Transfers, NEW v \in Transfers, Link(t, v), ~LinkConflicts(t, v)
  PROVE  RowsBacked
<1> DEFINE next == [row[t] EXCEPT !.venue = v]
<1>1. next.venue = v /\ next.state = row[t].state
  BY DEF RowType, TransferRows
<1>2. CASE row[t].venue = None
  <2>1. row' = [row EXCEPT ![t] = next] /\ ~Linked(v)
    BY <1>2 DEF Link, LinkConflicts, RowType
  <2> HIDE DEF next
  <2>2. row'[t] = next /\ \A u \in Transfers \ {t} : row'[u] = row[u]
    BY <2>1 DEF RowType
  <2>3. OneLinks
    BY <1>1, <2>1, <2>2 DEF OneLinks
  <2> QED BY <1>1, <2>2, <2>3 DEF RowsBacked, Backed
<1>3. CASE row[t].venue # None
  BY <1>3 DEF Link, RowsBacked, Backed, LinksStay
<1> QED BY <1>2, <1>3

LEMMA RowsStayBacked ==
  ASSUME SawInv, [CashNext]_cashVars
  PROVE  RowsBacked
<1>1. RowType /\ row \in [Transfers -> TransferRows] /\ PassType
  BY DEF SawInv, CashType, RowType
<1>2. ASSUME UNCHANGED row PROVE RowsBacked
  BY <1>2 DEF RowsBacked, Backed, LinksStay
<1>3. ASSUME NEW t \in Transfers, Request(t) PROVE RowsBacked
  <2> DEFINE next == [NoRow EXCEPT !.state = "PENDING", !.created = now]
  <2>1. next.state = "PENDING" /\ next.venue = None
    BY DEF NoRow
  <2>2. row' = [row EXCEPT ![t] = next] /\ row[t].venue = None
    BY <1>3 DEF Request, NoRow
  <2> HIDE DEF next
  <2> QED BY <1>1, <2>1, <2>2, OneRowBacked
<1>4. ASSUME NEW t \in Transfers, InitiateRejected(t) PROVE RowsBacked
  BY <1>1, <1>4, FinishBacked DEF InitiateRejected
<1>5. ASSUME NEW t \in Transfers, CallLinks(t) \/ CallApplies(t) PROVE RowsBacked
  <2>1. CASE CallApplies(t)
    BY <1>1, <2>1, AnswerBacked DEF CallApplies, SawInv, CallSaw
  <2>2. CASE CallLinks(t)
    BY <1>1, <1>2, <2>2, LinkBacked DEF CallLinks
  <2> QED BY <1>5, <2>1, <2>2
<1>6. ASSUME NEW p \in Syncs, SyncLinks(p) \/ SyncApplies(p) PROVE RowsBacked
  <2>1. Loaded(p).of \in Transfers /\ sync[p].of \in Transfers
    BY <1>1, <1>6, LoadedType DEF SyncLinks, SyncApplies, PassType, PassOK
  <2>2. CASE SyncApplies(p)
    <3>1. SeenOK(sync[p].seen, sync[p].of) /\ ApplyVenueState(Loaded(p).of, sync[p].of, sync[p].seen)
      BY <2>2 DEF SyncApplies, SawInv, PassSaw
    <3> QED BY <1>1, <2>1, <3>1, AnswerBacked
  <2>3. CASE SyncLinks(p)
    BY <1>1, <1>2, <2>1, <2>3, LinkBacked DEF SyncLinks
  <2> QED BY <1>6, <2>2, <2>3
<1>7. ASSUME NEW p \in Syncs, SyncFinishes(p) PROVE RowsBacked
  <2>1. Loaded(p).of \in Transfers
    BY <1>1, <1>7, LoadedType DEF SyncFinishes
  <2> QED BY <1>1, <1>7, <2>1, FinishBacked DEF SyncFinishes
<1>8. ASSUME NEW p \in Syncs, SyncStep(p) \/ SyncFails(p) PROVE RowsBacked
  <2>1. CASE \/ StartSync(p) \/ ListTransfers(p) \/ ListingFails(p) \/ SyncLinked(p) \/ SyncDeferred(p)
             \/ SyncRecovers(p) \/ SyncNeverReached(p) \/ LookupFails(p)
    BY <1>2, <2>1 DEF StartSync, ListTransfers, ListingFails, SyncLinked, SyncDeferred, SyncRecovers,
                      SyncNeverReached, LookupFails
  <2> QED BY <1>6, <1>7, <1>8, <2>1 DEF SyncStep, SyncFails
<1>9. CASE Archive
  <2>1. row' = [t \in Transfers |-> IF row[t].state = "PENDING"
                THEN [row[t] EXCEPT !.state = "CANCELED", !.reason = "reset"] ELSE row[t]]
    BY <1>9 DEF Archive
  <2>2. \A t \in Transfers : row'[t].venue = row[t].venue /\ row'[t].state \in {row[t].state, "CANCELED"}
    BY <1>1, <2>1 DEF TransferRows
  <2> QED BY <2>2 DEF RowsBacked, Backed, LinksStay
<1>10. CASE WatchStamps
  <2>1. \A t \in Transfers : row'[t].venue = row[t].venue /\ row'[t].state = row[t].state
    BY <1>1, <1>10 DEF WatchStamps, TransferRows
  <2> QED BY <2>1 DEF RowsBacked, Backed, LinksStay
<1>11. ASSUME NEW t \in Transfers, \/ CallLost(t) \/ InitiateAnswered(t) \/ VenueReceivesTransfer(t)
                                   \/ VenueDecidesTransfer(t) \/ WatchReads(t) \/ CancelRequestLost(t)
                                   \/ AskVenueToCancel(t)
       PROVE  UNCHANGED row
  BY <1>11 DEF CallLost, InitiateAnswered, VenueReceivesTransfer, VenueDecidesTransfer, VenueTo,
               WatchReads, WatchTo, CancelRequestLost, AskVenueToCancel
<1>12. CASE StartReset \/ ResetCrashes \/ Tick \/ Trade \/ UNCHANGED cashVars
  BY <1>2, <1>12 DEF StartReset, ResetCrashes, Tick, Trade, transferVars, cashVars
<1> QED BY <1>2, <1>3, <1>4, <1>5, <1>8, <1>9, <1>10, <1>11, <1>12 DEF CashNext, CallStep, ResetStep

\* What a call or a pass saw of an end stays true.
LEMMA CallsSaw ==
  ASSUME SawInv, VenueKept, [CashNext]_cashVars
  PROVE  call' \in [Transfers -> CallRows] /\ \A t \in Transfers : CallSaw(t)'
<1>1. call \in [Transfers -> CallRows] /\ venue \in [Transfers -> VenueRows]
  BY DEF SawInv, CashType, VenueType
<1>2. ASSUME NEW t \in Transfers, call'[t] = call[t] PROVE CallSaw(t)'
  BY <1>2 DEF SawInv, CallSaw, SeenOK, VenueKept
<1>3. ASSUME NEW t \in Transfers, NEW next \in CallRows, CallTo(t, next),
             next.at \in {"link", "apply"} => SeenOK(next.seen, t)
      PROVE  call' \in [Transfers -> CallRows] /\ \A u \in Transfers : CallSaw(u)'
  <2>1. call' = [call EXCEPT ![t] = next] /\ venue' = venue
    BY <1>3 DEF CallTo
  <2>2. call' \in [Transfers -> CallRows] /\ call'[t] = next /\ \A u \in Transfers \ {t} : call'[u] = call[u]
    BY <1>1, <2>1
  <2>3. CallSaw(t)'
    BY <1>3, <2>1, <2>2 DEF CallSaw, SeenOK
  <2> QED BY <1>2, <2>2, <2>3
<1>4. CASE UNCHANGED call
  BY <1>1, <1>2, <1>4
<1>5. ASSUME NEW t \in Transfers, Request(t) \/ InitiateRejected(t) \/ CallLost(t) \/ CallApplies(t)
      PROVE  \E next \in CallRows : CallTo(t, next) /\ next.at \notin {"link", "apply"}
  <2>1. \E at \in {"posted", "done", "lost"} : CallTo(t, [at |-> at])
    BY <1>5 DEF Request, InitiateRejected, CallLost, CallApplies
  <2> QED BY <2>1 DEF CallRows
<1>6. ASSUME NEW t \in Transfers, InitiateAnswered(t)
      PROVE  \E next \in CallRows : CallTo(t, next) /\ SeenOK(next.seen, t)
  <2>1. CallTo(t, [at |-> "link", seen |-> venue[t].state])
    BY <1>6 DEF InitiateAnswered
  <2>2. venue[t].state \in VenueStates
    BY <1>1 DEF VenueRows, VenueStates
  <2> QED BY <2>1, <2>2 DEF CallRows, SeenOK
<1>7. ASSUME NEW t \in Transfers, CallLinks(t)
      PROVE  \E next \in CallRows : CallTo(t, next) /\ (next.at \in {"link", "apply"} => SeenOK(next.seen, t))
  <2>1. CASE CallTo(t, [at |-> "lost"])
    BY <2>1 DEF CallRows
  <2>2. CASE CallTo(t, [call[t] EXCEPT !.at = "apply"])
    <3>1. call[t] \in [at : {"link", "apply"}, seen : VenueStates] /\ SeenOK(call[t].seen, t)
      BY <1>1, <1>7 DEF CallLinks, CallRows, SawInv, CallSaw
    <3>2. PICK next : next = [call[t] EXCEPT !.at = "apply"]
      OBVIOUS
    <3>3. next \in CallRows /\ next.seen = call[t].seen
      BY <3>1, <3>2 DEF CallRows
    <3> QED BY <2>2, <3>1, <3>2, <3>3
  <2> QED BY <1>7, <2>1, <2>2 DEF CallLinks
<1>8. ASSUME NEW t \in Transfers, \/ VenueReceivesTransfer(t) \/ VenueDecidesTransfer(t) \/ WatchReads(t)
                                  \/ CancelRequestLost(t) \/ AskVenueToCancel(t)
      PROVE  UNCHANGED call
  BY <1>8 DEF VenueReceivesTransfer, VenueDecidesTransfer, VenueTo, WatchReads, WatchTo, CancelRequestLost,
              AskVenueToCancel, ResetTo
<1>9. ASSUME NEW p \in Syncs, SyncStep(p) \/ SyncFails(p) PROVE UNCHANGED call
  BY <1>9 DEF SyncStep, SyncFails, StartSync, ListTransfers, ListingFails, SyncLinked, SyncDeferred,
              SyncRecovers, SyncNeverReached, LookupFails, SyncLinks, SyncApplies, SyncFinishes,
              Proceed, Work, SyncTo
<1>10. CASE StartReset \/ Archive \/ ResetCrashes \/ WatchStamps \/ Tick \/ Trade \/ UNCHANGED cashVars
  BY <1>4, <1>10 DEF StartReset, Archive, ResetCrashes, ResetTo, WatchStamps, WatchTo, Tick, Trade,
                     transferVars, cashVars
<1> QED BY <1>3, <1>4, <1>5, <1>6, <1>7, <1>8, <1>9, <1>10 DEF CashNext, CallStep, ResetStep

LEMMA PassMoveSaw ==
  ASSUME SawInv, NEW p \in Syncs, SyncStep(p) \/ SyncFails(p)
  PROVE  \E s : sync' = [sync EXCEPT ![p] = s] /\ PassSaw(s)
<1>1. /\ PassOK(sync[p]) /\ PassSaw(sync[p]) /\ RowType /\ venue \in [Transfers -> VenueRows]
      /\ row \in [Transfers -> TransferRows] /\ PassType
  BY DEF SawInv, CashType, PassType, RowType, VenueType
<1>2. ASSUME Proceed(p), sync[p].at \notin {"idle", "listing"}
      PROVE  \E s : sync' = [sync EXCEPT ![p] = s] /\ PassSaw(s)
  <2>1. PICK next : next = [at |-> "next", todo |-> Tail(sync[p].todo), started |-> sync[p].started,
                            listed |-> sync[p].listed, complete |-> sync[p].complete]
    OBVIOUS
  <2>2. PassSaw(next) /\ PassSaw(Ready)
    BY <1>1, <1>2, <2>1 DEF PassSaw, ListedOK, Ready
  <2>3. sync' = [sync EXCEPT ![p] = IF Tail(sync[p].todo) = <<>> THEN Ready ELSE next]
    BY <1>2, <2>1 DEF Proceed, SyncTo
  <2> QED BY <2>2, <2>3
<1>3. ASSUME NEW step, NEW v, NEW found, Work(p, step, v, found), sync[p].at \notin {"idle", "listing"},
             step \in {"link", "apply"} => SeenOK(found, v)
      PROVE  \E s : sync' = [sync EXCEPT ![p] = s] /\ PassSaw(s)
  <2>1. PICK next : next = [at |-> step, todo |-> sync[p].todo, started |-> sync[p].started,
                            listed |-> sync[p].listed, complete |-> sync[p].complete,
                            of |-> v, seen |-> found]
    OBVIOUS
  <2>2. PassSaw(next)
    BY <1>1, <1>3, <2>1 DEF PassSaw, ListedOK
  <2>3. sync' = [sync EXCEPT ![p] = next]
    BY <1>3, <2>1 DEF Work, SyncTo
  <2> QED BY <2>2, <2>3
<1>4. CASE StartSync(p)
  <2>1. PICK todo : SyncTo(p, [at |-> "listing", todo |-> todo, started |-> now])
    BY <1>4 DEF StartSync
  <2>2. PICK next : next = [at |-> "listing", todo |-> todo, started |-> now]
    OBVIOUS
  <2>3. PassSaw(next)
    BY <2>2 DEF PassSaw
  <2>4. sync' = [sync EXCEPT ![p] = next]
    BY <2>1, <2>2 DEF SyncTo
  <2> QED BY <2>3, <2>4
<1>5. ASSUME NEW listed, NEW complete, \A v \in DOMAIN listed : SeenOK(listed[v], v),
             SyncTo(p, [at |-> "next", todo |-> sync[p].todo, started |-> sync[p].started,
                        listed |-> listed, complete |-> complete])
      PROVE  \E s : sync' = [sync EXCEPT ![p] = s] /\ PassSaw(s)
  <2>1. PICK next : next = [at |-> "next", todo |-> sync[p].todo, started |-> sync[p].started,
                            listed |-> listed, complete |-> complete]
    OBVIOUS
  <2>2. PassSaw(next)
    BY <1>5, <2>1 DEF PassSaw, ListedOK
  <2> QED BY <1>5, <2>1, <2>2 DEF SyncTo
<1>6. CASE ListTransfers(p)
  <2>1. PICK unread :
          SyncTo(p, [at |-> "next", todo |-> sync[p].todo, started |-> sync[p].started,
                     listed |-> Listing(p, unread).listed, complete |-> Listing(p, unread).complete])
    BY <1>6 DEF ListTransfers
  <2>2. \A v \in DOMAIN Listing(p, unread).listed : SeenOK(Listing(p, unread).listed[v], v)
    BY DEF Listing, SeenOK
  <2> QED BY <1>5, <2>1, <2>2
<1>7. CASE ListingFails(p)
  <2>1. \A v \in DOMAIN <<>> : SeenOK(<<>>[v], v)
    OBVIOUS
  <2> QED BY <1>5, <1>7, <2>1 DEF ListingFails
<1>8. CASE SyncLinked(p)
  <2>1. PICK v, found : /\ v = Loaded(p).venue
                        /\ found = IF v \in DOMAIN sync[p].listed THEN sync[p].listed[v] ELSE venue[v].state
    OBVIOUS
  <2>2. sync[p].at = "next" /\ Work(p, "link", v, found)
    BY <1>8, <2>1 DEF SyncLinked
  <2>3. SeenOK(found, v)
    BY <1>1, <2>1, <2>2 DEF PassSaw, ListedOK, SeenOK
  <2> QED BY <1>3, <2>2, <2>3
<1>9. CASE SyncRecovers(p)
  <2>1. PICK t, v : t = Loaded(p).of /\ v = Closest(t, Candidates(p, t))
    OBVIOUS
  <2>2. /\ sync[p].at = "next" /\ Candidates(p, t) # {}
        /\ Work(p, "link", v, sync[p].listed[v])
    BY <1>9, <2>1 DEF SyncRecovers
  <2>3. Candidates(p, t) \in SUBSET Transfers /\ t \in Transfers
    BY <1>1, <2>1, <2>2, LoadedType DEF Candidates, PassOK
  <2>4. v \in Candidates(p, t)
    BY <1>1, <2>1, <2>2, <2>3, ClosestIsCandidate DEF RowType, VenueRows
  <2>5. SeenOK(sync[p].listed[v], v)
    BY <1>1, <2>2, <2>4 DEF Candidates, PassSaw, ListedOK
  <2> QED BY <1>3, <2>2, <2>5
<1>10. CASE SyncNeverReached(p)
  BY <1>3, <1>10 DEF SyncNeverReached
<1>11. CASE SyncLinks(p)
  BY <1>1, <1>2, <1>3, <1>11 DEF SyncLinks, PassSaw
<1>12. CASE SyncApplies(p) \/ SyncFinishes(p) \/ SyncDeferred(p) \/ LookupFails(p)
  BY <1>2, <1>12 DEF SyncApplies, SyncFinishes, SyncDeferred, LookupFails
<1> QED BY <1>4, <1>6, <1>7, <1>8, <1>9, <1>10, <1>11, <1>12 DEF SyncStep, SyncFails

LEMMA PassesSaw ==
  ASSUME SawInv, VenueKept, [CashNext]_cashVars
  PROVE  \A p \in Syncs : PassSaw(sync[p])'
<1>1. DOMAIN sync = Syncs /\ \A p \in Syncs : PassOK(sync[p]) /\ PassSaw(sync[p])
  BY DEF SawInv, CashType, PassType
<1>2. ASSUME NEW s, PassOK(s), PassSaw(s) PROVE PassSaw(s)'
  BY <1>2 DEF PassOK, PassSaw, ListedOK, SeenOK, VenueKept
<1>3. ASSUME NEW p \in Syncs, SyncStep(p) \/ SyncFails(p) PROVE \A q \in Syncs : PassSaw(sync[q])'
  <2>1. PICK s : sync' = [sync EXCEPT ![p] = s] /\ PassSaw(s)
    BY <1>3, PassMoveSaw
  <2>2. sync'[p] = s /\ \A q \in Syncs \ {p} : sync'[q] = sync[q]
    BY <1>1, <2>1
  <2>3. UNCHANGED venue
    BY <1>3 DEF SyncStep, SyncFails, StartSync, ListTransfers, ListingFails, SyncLinked, SyncDeferred,
                SyncRecovers, SyncNeverReached, LookupFails, SyncLinks, SyncApplies, SyncFinishes,
                Proceed, Work, SyncTo
  <2>4. PassSaw(s)'
    BY <2>1, <2>3 DEF PassSaw, ListedOK, SeenOK
  <2> QED BY <1>1, <1>2, <2>2, <2>4 DEF PassSaw, ListedOK, SeenOK
<1>4. CASE UNCHANGED sync
  BY <1>1, <1>2, <1>4 DEF PassSaw, ListedOK, SeenOK
<1>5. ASSUME NEW t \in Transfers,
             \/ Request(t) \/ InitiateRejected(t) \/ CallLost(t) \/ CallStep(t)
             \/ VenueReceivesTransfer(t) \/ VenueDecidesTransfer(t)
             \/ WatchReads(t) \/ CancelRequestLost(t) \/ AskVenueToCancel(t)
      PROVE  UNCHANGED sync
  BY <1>5 DEF Request, InitiateRejected, CallLost, CallStep, InitiateAnswered, CallLinks, CallApplies, CallTo,
              VenueReceivesTransfer, VenueDecidesTransfer, VenueTo, WatchReads, WatchTo, CancelRequestLost,
              AskVenueToCancel, ResetTo
<1>6. CASE StartReset \/ Archive \/ ResetCrashes \/ WatchStamps \/ Tick \/ Trade \/ UNCHANGED cashVars
  BY <1>4, <1>6 DEF StartReset, Archive, ResetCrashes, ResetTo, WatchStamps, WatchTo, Tick, Trade,
                    transferVars, cashVars
<1> QED BY <1>3, <1>4, <1>5, <1>6 DEF CashNext, ResetStep

\* However requests, passes and resets overlap and amounts repeat, no row settles
\* unless the venue settled a transfer of its amount and direction, and no venue
\* transfer is linked to two rows (applyVenueState, venue_transfer_id).
THEOREM SettlesByTheVenue == CashSpec => [](PostedByVenue /\ LinkedOnce)
<1>1. CashInit => SawInv
  <2> SUFFICES ASSUME CashInit PROVE SawInv
    OBVIOUS
  <2>1. CashType
    BY InitCashType
  <2>2. /\ \A t \in Transfers : row[t].state = Absent /\ row[t].venue = None
        /\ call \in [Transfers -> CallRows] /\ \A t \in Transfers : call[t].at = "idle"
    BY DEF CashInit, NoRow, Ready, CallRows
  <2>3. \A p \in Syncs : sync[p].at = "idle"
    BY DEF CashInit, Ready
  <2> QED BY <2>1, <2>2, <2>3 DEF SawInv, CallSaw, PassSaw, PostedByVenue, LinkedOnce, InState, Absent
<1>2. SawInv /\ [CashNext]_cashVars => SawInv'
  <2> SUFFICES ASSUME SawInv, [CashNext]_cashVars PROVE SawInv'
    OBVIOUS
  <2>1. CashType' /\ VenueKept
    BY NextCashType, VenueStays DEF SawInv
  <2>2. RowsBacked
    BY RowsStayBacked
  <2>3. PostedByVenue'
    <3> SUFFICES ASSUME NEW t \in Transfers, row'[t].state = "SETTLED"
                 PROVE  \E v \in Transfers : Matches(t, v) /\ SettledAt(v)'
      BY DEF PostedByVenue, InState, Matches
    <3>1. \E v \in Transfers : Matches(t, v) /\ SettledAt(v)
      BY <2>2 DEF RowsBacked, Backed, SawInv, PostedByVenue, InState
    <3> QED BY <2>1, <3>1 DEF SettledAt, VenueKept, Ends
  <2>4. LinkedOnce'
    <3>1. CASE LinksStay
      BY <3>1 DEF LinksStay, SawInv, LinkedOnce
    <3>2. CASE OneLinks
      <4>1. PICK t, v \in Transfers : /\ ~Linked(v) /\ row'[t].venue = v
                                      /\ \A u \in Transfers \ {t} : row'[u].venue = row[u].venue
        BY <3>2 DEF OneLinks
      <4>2. \A u \in Transfers : row[u].venue # v
        BY <4>1 DEF Linked
      <4> QED BY <4>1, <4>2 DEF SawInv, LinkedOnce
    <3> QED BY <2>2, <3>1, <3>2 DEF RowsBacked
  <2> QED BY <2>1, <2>3, <2>4, CallsSaw, PassesSaw DEF SawInv
<1>3. SawInv => PostedByVenue /\ LinkedOnce
  BY DEF SawInv
<1> QED BY <1>1, <1>2, <1>3, PTL DEF CashSpec

--------------------------------------------------------------------------------
(* Spendable cash.  A row that the account no longer reckons with must be one  *)
(* whose transfer moved no money.  That a pass can tell needs both: no second  *)
(* pass that links a row this one has loaded, and no second transfer of the    *)
(* same amount and direction that a recovery could take instead.               *)

Arrived(t) == venue[t] # NoTransfer

\* The request is over, or too old to arrive.
NeverArrives(t) == ~Arrived(t) /\ (call[t].at = "done" \/ now > row[t].created + CallTicks)

TimesOK(t) ==
  /\ row[t].state # Absent => row[t].created <= now
  /\ call[t].at # "idle" => row[t].state # Absent
  /\ call[t].at \in {"link", "apply"} => Arrived(t)
  /\ Arrived(t) => /\ row[t].state # Absent
                   /\ row[t].created <= venue[t].created
                   /\ venue[t].created <= row[t].created + CallTicks

\* While the account is active a row is given up only if the venue refused its
\* transfer or will never have it.
EndOK(t) ==
  account = "ACTIVE" =>
    /\ row[t].state # "CANCELED"
    /\ row[t].state = "FAILED" => venue[t].state = "FAILED" \/ NeverArrives(t)

\* A complete listing has every loaded row's transfer that can matter to it.
Reaches(s, t) == Arrived(t) /\ row[t].created + CallTicks < s.started => t \in DOMAIN s.listed

ReachOK(s) ==
  /\ s.at = "listing" =>
       \A k \in 1 .. Len(s.todo) : row[s.todo[1].of].created <= row[s.todo[k].of].created
  /\ s.at # "listing" /\ s.complete => \A k \in 1 .. Len(s.todo) : Reaches(s, s.todo[k].of)
  /\ s.at = "finish" => ~Arrived(s.todo[1].of) /\ now > row[s.todo[1].of].created + CallTicks

SpendInv ==
  /\ SettleInv
  /\ \A t \in Transfers : TimesOK(t) /\ EndOK(t)
  /\ \A p \in Syncs : sync[p].at # "idle" => ReachOK(sync[p])

LEMMA ActiveBefore ==
  ASSUME CashType, [CashNext]_cashVars, account' = "ACTIVE"
  PROVE  account = "ACTIVE"
<1>1. RowKinds
  BY StepKinds
<1>2. ASSUME NEW t \in Transfers, TransferStep(t) PROVE account' = account
  BY <1>2 DEF TransferStep, UpdateRow, Moves, SettleWithdrawal, SettleDeposit, ReleaseHold, vars
<1>3. ASSUME NEW t \in Transfers, Request(t) PROVE account' = account
  BY <1>3 DEF Request, HoldWithdrawal, vars
<1>4. ASSUME Trade \/ Stamp \/ UNCHANGED <<vars, row>> PROVE account' = account
  BY <1>4 DEF Trade, Place, ApplyStatus, ApplyFill, Stamp, vars
<1>5. ~Archive
  BY DEF Archive, ArchiveAccount
<1> QED BY <1>1, <1>2, <1>3, <1>4, <1>5 DEF RowKinds

\* What arrives, and when.
ArrivalsKept(t) ==
  \/ venue'[t].created = venue[t].created /\ (Arrived(t)' <=> Arrived(t))
  \/ /\ ~Arrived(t) /\ call[t].at \in {"posted", "lost"} /\ now <= row[t].created + CallTicks
     /\ venue'[t].created = now /\ now' = now /\ UNCHANGED <<row, call>>

LEMMA Arrivals ==
  ASSUME CashType, [CashNext]_cashVars
  PROVE  \A t \in Transfers : ArrivalsKept(t)
<1>1. venue \in [Transfers -> VenueRows]
  BY DEF CashType, VenueType
<1>2. ASSUME venue' = venue PROVE \A t \in Transfers : ArrivalsKept(t)
  BY <1>2 DEF ArrivalsKept, Arrived
<1>3. ASSUME NEW t \in Transfers, VenueReceivesTransfer(t) PROVE \A u \in Transfers : ArrivalsKept(u)
  <2>1. /\ ~Arrived(t) /\ call[t].at \in {"posted", "lost"} /\ now <= row[t].created + CallTicks
        /\ venue' = [venue EXCEPT ![t] = [state |-> "PENDING", created |-> now]]
        /\ now' = now /\ UNCHANGED <<row, call>>
    BY <1>3 DEF VenueReceivesTransfer, VenueTo, Arrived
  <2>2. venue'[t].created = now /\ \A u \in Transfers \ {t} : venue'[u] = venue[u]
    BY <1>1, <2>1
  <2> QED BY <2>1, <2>2 DEF ArrivalsKept, Arrived
<1>4. ASSUME NEW t \in Transfers, VenueDecidesTransfer(t) PROVE \A u \in Transfers : ArrivalsKept(u)
  <2>1. PICK outcome \in {"SETTLED", "FAILED"} :
          venue' = [venue EXCEPT ![t] = [state |-> outcome, created |-> venue[t].created]]
    BY <1>4 DEF VenueDecidesTransfer, VenueTo
  <2>2. /\ venue'[t].state = outcome /\ venue'[t].created = venue[t].created
        /\ \A u \in Transfers \ {t} : venue'[u] = venue[u]
    BY <1>1, <2>1
  <2>3. venue[t].state = "PENDING"
    BY <1>4 DEF VenueDecidesTransfer
  <2>4. Arrived(t) /\ Arrived(t)'
    BY <2>2, <2>3 DEF Arrived, NoTransfer, Absent
  <2> QED BY <2>2, <2>4 DEF ArrivalsKept, Arrived
<1>5. ASSUME NEW t \in Transfers, AskVenueToCancel(t) PROVE \A u \in Transfers : ArrivalsKept(u)
  <2>1. CASE venue[t].state = "PENDING"
    <3>1. venue' = [venue EXCEPT ![t].state = "FAILED"]
      BY <1>5, <2>1 DEF AskVenueToCancel
    <3>2. /\ venue'[t].state = "FAILED" /\ venue'[t].created = venue[t].created
          /\ \A u \in Transfers \ {t} : venue'[u] = venue[u]
      BY <1>1, <3>1 DEF VenueRows
    <3>3. Arrived(t) /\ Arrived(t)'
      BY <2>1, <3>2 DEF Arrived, NoTransfer, Absent
    <3> QED BY <3>2, <3>3 DEF ArrivalsKept, Arrived
  <2>2. CASE venue[t].state # "PENDING"
    BY <1>2, <1>5, <2>2 DEF AskVenueToCancel
  <2> QED BY <2>1, <2>2
<1>6. ASSUME NEW p \in Syncs, SyncStep(p) \/ SyncFails(p) PROVE venue' = venue
  BY <1>6 DEF SyncStep, SyncFails, StartSync, ListTransfers, ListingFails, SyncLinked, SyncDeferred,
              SyncRecovers, SyncNeverReached, LookupFails, SyncLinks, SyncApplies, SyncFinishes,
              Proceed, Work, SyncTo
<1>7. ASSUME NEW t \in Transfers,
             \/ Request(t) \/ InitiateRejected(t) \/ CallLost(t) \/ CallStep(t)
             \/ WatchReads(t) \/ CancelRequestLost(t)
      PROVE  venue' = venue
  BY <1>7 DEF Request, InitiateRejected, CallLost, CallStep, InitiateAnswered, CallLinks, CallApplies,
              CallTo, WatchReads, WatchTo, CancelRequestLost, ResetTo
<1>8. CASE StartReset \/ Archive \/ ResetCrashes \/ WatchStamps \/ Tick \/ Trade \/ UNCHANGED cashVars
  BY <1>2, <1>8 DEF StartReset, Archive, ResetCrashes, ResetTo, WatchStamps, WatchTo, Tick, Trade,
                    transferVars, cashVars
<1> QED BY <1>2, <1>3, <1>4, <1>5, <1>6, <1>7, <1>8 DEF CashNext, ResetStep

LEMMA SpendTypes ==
  ASSUME SpendInv
  PROVE  /\ SettleInv /\ CashType /\ RowType /\ PassType
         /\ row \in [Transfers -> TransferRows] /\ venue \in [Transfers -> VenueRows]
         /\ now \in Nat /\ call \in [Transfers -> CallRows]
         /\ \A t \in Transfers : row[t].created \in Nat /\ venue[t].created \in Nat
BY SettleTypes DEF SpendInv, SettleInv, RowType, TransferRows, VenueRows

\* How a request call goes on.
CallProgress(t) ==
  \/ call'[t] = call[t]
  \/ Request(t)
  \/ call[t].at = "posted" /\ call'[t].at = "link" /\ Arrived(t) /\ venue' = venue
  \/ call[t].at = "link" /\ call'[t].at = "apply"
  \/ call[t].at \in {"posted", "link", "apply"} /\ call'[t].at \in {"done", "lost"}

LEMMA CallsProgress ==
  ASSUME SpendInv, [CashNext]_cashVars
  PROVE  \A t \in Transfers : CallProgress(t)
<1>1. call \in [Transfers -> CallRows]
  BY SpendTypes
<1>2. ASSUME call' = call PROVE \A t \in Transfers : CallProgress(t)
  BY <1>2 DEF CallProgress
<1>3. ASSUME NEW t \in Transfers, NEW next, CallTo(t, next) PROVE call'[t] = next /\ \A u \in Transfers \ {t} : call'[u] = call[u]
  BY <1>1, <1>3 DEF CallTo
<1>4. ASSUME NEW t \in Transfers, \/ Request(t) \/ InitiateRejected(t) \/ CallLost(t) \/ CallStep(t)
      PROVE  \A u \in Transfers : CallProgress(u)
  <2>1. \A u \in Transfers \ {t} : call'[u] = call[u]
    BY <1>4, OwnCall, SpendTypes
  <2>2. CallProgress(t)
    <3>1. CASE Request(t)
      BY <3>1 DEF CallProgress
    <3>2. CASE InitiateRejected(t)
      <4>1. call[t].at = "posted" /\ call'[t] = [at |-> "done"]
        BY <1>3, <3>2 DEF InitiateRejected
      <4> QED BY <4>1 DEF CallProgress
    <3>3. CASE CallLost(t)
      <4>1. call[t].at \in {"posted", "link", "apply"} /\ call'[t] = [at |-> "lost"]
        BY <1>3, <3>3 DEF CallLost
      <4> QED BY <4>1 DEF CallProgress
    <3>4. CASE InitiateAnswered(t)
      <4>1. /\ call[t].at = "posted" /\ call'[t] = [at |-> "link", seen |-> venue[t].state]
            /\ Arrived(t) /\ venue' = venue
        <5>1. CallTo(t, [at |-> "link", seen |-> venue[t].state])
          BY <3>4 DEF InitiateAnswered
        <5>2. call'[t] = [at |-> "link", seen |-> venue[t].state]
          BY <1>3, <5>1
        <5>3. venue' = venue
          BY <5>1 DEF CallTo
        <5> QED BY <3>4, <5>2, <5>3 DEF InitiateAnswered, Arrived
      <4> QED BY <4>1 DEF CallProgress
    <3>5. CASE CallLinks(t)
      <4>1. call[t].at = "link" /\ call[t] \in CallRows
        BY <1>1, <3>5 DEF CallLinks
      <4>2. CASE LinkConflicts(t, t)
        <5>1. call'[t] = [at |-> "lost"]
          BY <1>3, <3>5, <4>2 DEF CallLinks
        <5> QED BY <4>1, <5>1 DEF CallProgress
      <4>3. CASE ~LinkConflicts(t, t)
        <5>1. call'[t] = [call[t] EXCEPT !.at = "apply"]
          BY <1>3, <3>5, <4>3 DEF CallLinks
        <5>2. call'[t].at = "apply"
          BY <4>1, <5>1 DEF CallRows
        <5> QED BY <4>1, <5>2 DEF CallProgress
      <4> QED BY <4>2, <4>3
    <3>6. CASE CallApplies(t)
      <4>1. call[t].at = "apply" /\ call'[t] = [at |-> "done"]
        BY <1>3, <3>6 DEF CallApplies
      <4> QED BY <4>1 DEF CallProgress
    <3> QED BY <1>4, <3>1, <3>2, <3>3, <3>4, <3>5, <3>6 DEF CallStep
  <2> QED BY <2>1, <2>2 DEF CallProgress
<1>5. ASSUME NEW p \in Syncs, SyncStep(p) \/ SyncFails(p) PROVE call' = call
  BY <1>5 DEF SyncStep, SyncFails, StartSync, ListTransfers, ListingFails, SyncLinked, SyncDeferred,
              SyncRecovers, SyncNeverReached, LookupFails, SyncLinks, SyncApplies, SyncFinishes,
              Proceed, Work, SyncTo
<1>6. ASSUME NEW t \in Transfers, \/ VenueReceivesTransfer(t) \/ VenueDecidesTransfer(t)
                                  \/ WatchReads(t) \/ CancelRequestLost(t) \/ AskVenueToCancel(t)
      PROVE  call' = call
  BY <1>6 DEF VenueReceivesTransfer, VenueDecidesTransfer, VenueTo, WatchReads, WatchTo,
              CancelRequestLost, AskVenueToCancel, ResetTo
<1>7. CASE StartReset \/ Archive \/ ResetCrashes \/ WatchStamps \/ Tick \/ Trade \/ UNCHANGED cashVars
  BY <1>2, <1>7 DEF StartReset, Archive, ResetCrashes, ResetTo, WatchStamps, WatchTo, Tick, Trade,
                    transferVars, cashVars
<1> QED BY <1>2, <1>4, <1>5, <1>6, <1>7 DEF CashNext, ResetStep

LEMMA NeverStays ==
  ASSUME SpendInv, [CashNext]_cashVars, NEW t \in Transfers, row[t].state # Absent, NeverArrives(t)
  PROVE  NeverArrives(t)'
<1>1. now \in Nat /\ now' \in Nat /\ now <= now' /\ row[t].created \in Nat /\ CallTicks \in Nat
  BY SpendTypes, VenueStays, TickBounds DEF VenueKept
<1>2. ArrivalsKept(t) /\ CallProgress(t) /\ RowKept(t)
  BY SpendTypes, Arrivals, CallsProgress, RowsKept
<1>3. row'[t].created = row[t].created
  BY <1>2 DEF RowKept
<1>4. ~Arrived(t)'
  BY <1>1, <1>2 DEF ArrivalsKept, NeverArrives
<1>5. call[t].at = "done" => call'[t].at = "done"
  <2>1. ~Request(t)
    BY DEF Request, NoRow
  <2> QED BY <1>2, <2>1 DEF CallProgress
<1> QED BY <1>1, <1>3, <1>4, <1>5 DEF NeverArrives

\* Only a request makes a row.
LEMMA NewRow ==
  ASSUME CashType, [CashNext]_cashVars, NEW t \in Transfers, row[t].state = Absent, row'[t].state # Absent
  PROVE  row'[t].created = now /\ now' = now
<1>1. RowKinds /\ RowType
  BY StepKinds DEF CashType
<1>2. ASSUME NEW u \in Transfers, TransferStep(u) PROVE FALSE
  <2>1. PICK next \in TransferRows : UpdateRow(u, next)
    BY <1>2 DEF TransferStep
  <2>2. row' = [row EXCEPT ![u] = next] /\ (next.state = row[u].state \/ row[u].state = "PENDING")
    BY <2>1 DEF UpdateRow, Moves
  <2> QED BY <1>1, <2>2 DEF RowType, Absent
<1>3. ASSUME NEW u \in Transfers, Request(u) PROVE row'[t].created = now /\ now' = now
  <2>1. row' = [row EXCEPT ![u] = [NoRow EXCEPT !.state = "PENDING", !.created = now]] /\ now' = now
    BY <1>3 DEF Request, CallTo
  <2> DEFINE next == [NoRow EXCEPT !.state = "PENDING", !.created = now]
  <2>2. next.created = now
    BY DEF NoRow
  <2> HIDE DEF next
  <2>3. CASE u = t
    BY <1>1, <2>1, <2>2, <2>3 DEF RowType, next
  <2>4. CASE u # t
    BY <1>1, <2>1, <2>4 DEF RowType
  <2> QED BY <2>3, <2>4
<1>4. CASE Archive
  <2>1. row'[t] = row[t]
    BY <1>4 DEF Archive, Absent
  <2> QED BY <2>1
<1>5. CASE Trade \/ UNCHANGED <<vars, row>>
  BY <1>5 DEF Trade, transferVars
<1>6. CASE Stamp
  BY <1>1, <1>6 DEF Stamp, RowType, TransferRows
<1> QED BY <1>1, <1>2, <1>3, <1>4, <1>5, <1>6 DEF RowKinds

LEMMA TimesKept ==
  ASSUME SpendInv, [CashNext]_cashVars, NEW t \in Transfers
  PROVE  TimesOK(t)'
<1>1. /\ now \in Nat /\ now' \in Nat /\ now <= now' /\ row[t].created \in Nat /\ CallTicks \in Nat
      /\ venue[t].created \in Nat
  BY SpendTypes, VenueStays, TickBounds DEF VenueKept
<1>2. ArrivalsKept(t) /\ CallProgress(t) /\ RowKept(t) /\ TimesOK(t)
  BY SpendTypes, Arrivals, CallsProgress, RowsKept DEF SpendInv
<1>3. row'[t].state # Absent => row'[t].created <= now'
  <2>1. CASE row[t].state = Absent
    BY <1>1, <2>1, NewRow, SpendTypes
  <2>2. CASE row[t].state # Absent
    BY <1>1, <1>2, <2>2 DEF RowKept, TimesOK
  <2> QED BY <2>1, <2>2
<1>4. Request(t) => row'[t].state = "PENDING" /\ call'[t].at = "posted"
  <2> SUFFICES ASSUME Request(t) PROVE row'[t].state = "PENDING" /\ call'[t].at = "posted"
    OBVIOUS
  <2>1. /\ row' = [row EXCEPT ![t] = [NoRow EXCEPT !.state = "PENDING", !.created = now]]
        /\ call' = [call EXCEPT ![t] = [at |-> "posted"]]
    BY DEF Request, CallTo
  <2> QED BY <2>1, SpendTypes DEF NoRow
<1>5. call'[t].at # "idle" => row'[t].state # Absent
  BY <1>2, <1>4 DEF CallProgress, TimesOK, RowKept, Absent
<1>6. call'[t].at \in {"link", "apply"} => Arrived(t)'
  <2>1. Arrived(t) => Arrived(t)'
    BY <1>2 DEF ArrivalsKept
  <2>2. call'[t].at \in {"link", "apply"} => Arrived(t)
    BY <1>2, <1>4 DEF CallProgress, TimesOK
  <2> QED BY <2>1, <2>2
<1>7. Arrived(t)' => /\ row'[t].state # Absent
                     /\ row'[t].created <= venue'[t].created
                     /\ venue'[t].created <= row'[t].created + CallTicks
  <2>1. CASE venue'[t].created = venue[t].created /\ (Arrived(t)' <=> Arrived(t))
    BY <1>1, <1>2, <2>1 DEF TimesOK, RowKept
  <2>2. CASE /\ ~Arrived(t) /\ call[t].at \in {"posted", "lost"} /\ now <= row[t].created + CallTicks
             /\ venue'[t].created = now /\ now' = now /\ UNCHANGED <<row, call>>
    BY <1>1, <1>2, <2>2 DEF TimesOK
  <2> QED BY <1>2, <2>1, <2>2 DEF ArrivalsKept
<1> QED BY <1>3, <1>5, <1>6, <1>7 DEF TimesOK

\* The rows that a pass loaded exist, and it loaded one.
Loads(s) ==
  /\ s.started \in Nat /\ s.started <= now
  /\ Len(s.todo) \in Nat \ {0}
  /\ \A k \in 1 .. Len(s.todo) : s.todo[k].of \in Transfers /\ row[s.todo[k].of].state # Absent

LEMMA KnowsLoads ==
  ASSUME NEW s, PassOK(s), s.at # "idle", Knows(s)
  PROVE  Loads(s) /\ Head(s.todo) = s.todo[1] /\ 1 \in 1 .. Len(s.todo)
BY EntriesType DEF Knows, EntryOK, Loads

\* What a pass at work holds.
LEMMA PassHolds ==
  ASSUME SpendInv, NEW p \in Syncs, sync[p].at # "idle"
  PROVE  /\ PassOK(sync[p]) /\ Knows(sync[p]) /\ ReachOK(sync[p]) /\ Loads(sync[p])
         /\ Loaded(p) = sync[p].todo[1] /\ 1 \in 1 .. Len(sync[p].todo)
         /\ Loaded(p).of \in Transfers
<1>1. PassType
  BY SpendTypes
<1>2. PassOK(sync[p]) /\ Knows(sync[p]) /\ ReachOK(sync[p])
  BY <1>1 DEF SpendInv, SettleInv, PassType
<1> QED BY <1>1, <1>2, KnowsLoads, LoadedType DEF Loaded

--------------------------------------------------------------------------------
(* The ends of rows.                                                           *)

StateMoves(t) ==
  \/ row'[t].state = row[t].state
  \/ row'[t].state \in {"PENDING", "SETTLED"}
  \/ account' # "ACTIVE"
  \/ row'[t].state = "FAILED" /\ (venue[t].state = "FAILED" \/ NeverArrives(t)')

LEMMA FinishMoves ==
  ASSUME RowType, NEW t \in Transfers, NEW reason, Finish(t, reason), NEW u \in Transfers,
         NeverArrives(t)'
  PROVE  StateMoves(u)
<1> DEFINE next == [row[t] EXCEPT !.state = "FAILED", !.reason = reason]
<1>1. next.state = "FAILED"
  BY DEF RowType, TransferRows
<1>2. row' = row \/ row' = [row EXCEPT ![t] = next]
  BY DEF Finish, UpdateRow
<1> HIDE DEF next
<1> QED BY <1>1, <1>2 DEF RowType, StateMoves

\* The venue's refusal of v ends the row of v and no other.
LEMMA AnswerMoves ==
  ASSUME Distinct, RowType, NEW t \in Transfers, NEW v \in Transfers, NEW s,
         ApplyVenueState(t, v, s), SeenOK(s, v), NEW u \in Transfers,
         account' = "ACTIVE" => account = "ACTIVE"
  PROVE  StateMoves(u)
<1> DEFINE next == Answered(t, v, s)
<1>1. \/ next.state = row[t].state
      \/ next.state \in {"PENDING", "SETTLED"}
      \/ account # "ACTIVE"
      \/ next.state = "FAILED" /\ s = "FAILED" /\ Matches(t, v)
  BY DEF Answered, RowType, TransferRows
<1>2. row' = [row EXCEPT ![t] = next]
  BY DEF ApplyVenueState, UpdateRow
<1>3. s = "FAILED" /\ Matches(t, v) => venue[t].state = "FAILED"
  BY DEF SeenOK, Ends, Distinct
<1> HIDE DEF next
<1>4. row'[t] = next /\ \A w \in Transfers \ {t} : row'[w] = row[w]
  BY <1>2 DEF RowType
<1> QED BY <1>1, <1>3, <1>4 DEF StateMoves

LEMMA StatesMove ==
  ASSUME Distinct, SpendInv, [CashNext]_cashVars, NEW u \in Transfers
  PROVE  StateMoves(u)
<1>1. SettleInv /\ CashType /\ RowType /\ (account' = "ACTIVE" => account = "ACTIVE")
  BY SpendTypes, ActiveBefore
<1>2. ASSUME row' = row PROVE StateMoves(u)
  BY <1>2 DEF StateMoves
<1>3. ASSUME NEW t \in Transfers, Request(t) PROVE StateMoves(u)
  <2> DEFINE next == [NoRow EXCEPT !.state = "PENDING", !.created = now]
  <2>1. row' = [row EXCEPT ![t] = next] /\ next.state = "PENDING"
    BY <1>3 DEF Request, NoRow
  <2> HIDE DEF next
  <2> QED BY <1>1, <2>1 DEF RowType, StateMoves
<1>4. ASSUME NEW t \in Transfers, InitiateRejected(t) PROVE StateMoves(u)
  <2>1. /\ venue[t] = NoTransfer /\ Finish(t, "venue") /\ venue' = venue
        /\ call' = [call EXCEPT ![t] = [at |-> "done"]]
    BY <1>4 DEF InitiateRejected, CallTo
  <2>2. NeverArrives(t)'
    BY <2>1, SpendTypes DEF NeverArrives, Arrived
  <2> QED BY <1>1, <2>1, <2>2, FinishMoves
<1>5. ASSUME NEW t \in Transfers, NEW v \in Transfers, Link(t, v) PROVE StateMoves(u)
  BY <1>1, <1>5 DEF Link, RowType, TransferRows, StateMoves
<1>6. ASSUME NEW t \in Transfers, CallLinks(t) PROVE StateMoves(u)
  BY <1>2, <1>5, <1>6 DEF CallLinks
<1>7. ASSUME NEW t \in Transfers, CallApplies(t) PROVE StateMoves(u)
  <2>1. SeenOK(call[t].seen, t) /\ ApplyVenueState(t, t, call[t].seen)
    BY <1>1, <1>7 DEF SettleInv, CallOK, CallApplies
  <2> QED BY <1>1, <2>1, AnswerMoves
<1>8. ASSUME NEW p \in Syncs, SyncLinks(p) PROVE StateMoves(u)
  <2>1. Loaded(p).of \in Transfers /\ sync[p].of \in Transfers
    BY <1>1, <1>8, AtWork DEF SyncLinks
  <2> QED BY <1>2, <1>5, <1>8, <2>1 DEF SyncLinks
<1>9. ASSUME NEW p \in Syncs, SyncApplies(p) PROVE StateMoves(u)
  <2>1. /\ Loaded(p).of \in Transfers /\ sync[p].of \in Transfers /\ SeenOK(sync[p].seen, sync[p].of)
        /\ ApplyVenueState(Loaded(p).of, sync[p].of, sync[p].seen)
    BY <1>1, <1>9, AtWork DEF SyncApplies, WorkOK
  <2> QED BY <1>1, <2>1, AnswerMoves
<1>10. ASSUME NEW p \in Syncs, SyncFinishes(p) PROVE StateMoves(u)
  <2> PICK t : t = Loaded(p).of
    OBVIOUS
  <2>1. sync[p].at = "finish" /\ Finish(t, "never reached")
    BY <1>10 DEF SyncFinishes
  <2>2. /\ t \in Transfers /\ ReachOK(sync[p]) /\ Loads(sync[p])
        /\ sync[p].todo[1] = Loaded(p) /\ 1 \in 1 .. Len(sync[p].todo)
    BY <2>1, PassHolds
  <2>4. ~Arrived(t) /\ now > row[t].created + CallTicks /\ row[t].state # Absent
    BY <2>1, <2>2 DEF ReachOK, Loads
  <2>5. NeverArrives(t)
    BY <2>4 DEF NeverArrives
  <2>6. NeverArrives(t)'
    BY <2>2, <2>4, <2>5, NeverStays
  <2> QED BY <1>1, <2>1, <2>2, <2>6, FinishMoves
<1>11. ASSUME NEW p \in Syncs, SyncStep(p) \/ SyncFails(p) PROVE StateMoves(u)
  <2>1. CASE \/ StartSync(p) \/ ListTransfers(p) \/ ListingFails(p) \/ SyncLinked(p) \/ SyncDeferred(p)
             \/ SyncRecovers(p) \/ SyncNeverReached(p) \/ LookupFails(p)
    BY <1>2, <2>1 DEF StartSync, ListTransfers, ListingFails, SyncLinked, SyncDeferred, SyncRecovers,
                      SyncNeverReached, LookupFails
  <2> QED BY <1>8, <1>9, <1>10, <1>11, <2>1 DEF SyncStep, SyncFails
<1>12. CASE Archive
  BY <1>12 DEF Archive, ArchiveAccount, StateMoves
<1>13. CASE WatchStamps
  BY <1>1, <1>13 DEF WatchStamps, RowType, TransferRows, StateMoves
<1>14. ASSUME NEW t \in Transfers, \/ CallLost(t) \/ InitiateAnswered(t) \/ VenueReceivesTransfer(t)
                                   \/ VenueDecidesTransfer(t) \/ WatchReads(t) \/ CancelRequestLost(t)
                                   \/ AskVenueToCancel(t)
       PROVE  row' = row
  BY <1>14 DEF CallLost, InitiateAnswered, VenueReceivesTransfer, VenueDecidesTransfer, VenueTo,
               WatchReads, WatchTo, CancelRequestLost, AskVenueToCancel
<1>15. CASE StartReset \/ ResetCrashes \/ Tick \/ Trade \/ UNCHANGED cashVars
  BY <1>2, <1>15 DEF StartReset, ResetCrashes, Tick, Trade, transferVars, cashVars
<1> QED BY <1>2, <1>3, <1>4, <1>6, <1>7, <1>11, <1>12, <1>13, <1>14, <1>15 DEF CashNext, CallStep, ResetStep

LEMMA EndsKept ==
  ASSUME Distinct, SpendInv, [CashNext]_cashVars, NEW t \in Transfers
  PROVE  EndOK(t)'
<1> SUFFICES ASSUME account' = "ACTIVE"
             PROVE  /\ row'[t].state # "CANCELED"
                    /\ row'[t].state = "FAILED" => venue'[t].state = "FAILED" \/ NeverArrives(t)'
  BY DEF EndOK
<1>1. account = "ACTIVE" /\ EndOK(t) /\ VenueKept /\ StateMoves(t)
  BY SpendTypes, ActiveBefore, VenueStays, StatesMove DEF SpendInv
<1>2. venue[t].state = "FAILED" => venue'[t].state = "FAILED"
  BY <1>1 DEF VenueKept, Ends
<1>3. row[t].state = "FAILED" /\ NeverArrives(t) => NeverArrives(t)'
  BY NeverStays DEF Absent
<1> QED BY <1>1, <1>2, <1>3 DEF EndOK, StateMoves

--------------------------------------------------------------------------------
(* What the passes know of the venue.                                          *)

LEMMA ReachStays ==
  ASSUME SpendInv, [CashNext]_cashVars, NEW s, Loads(s), ReachOK(s)
  PROVE  ReachOK(s)'
<1>1. /\ now \in Nat /\ now' \in Nat /\ now <= now' /\ CallTicks \in Nat /\ s.started \in Nat /\ s.started <= now
      /\ \A t \in Transfers : row[t].created \in Nat
  BY SpendTypes, VenueStays, TickBounds DEF VenueKept, Loads
<1>2. \A t \in Transfers : ArrivalsKept(t) /\ RowKept(t)
  BY SpendTypes, Arrivals, RowsKept
<1>3. Len(s.todo) \in Nat /\ 1 \in 1 .. Len(s.todo)
  BY DEF Loads
<1>4. \A k \in 1 .. Len(s.todo) : s.todo[k].of \in Transfers /\ row'[s.todo[k].of].created = row[s.todo[k].of].created
  BY <1>2 DEF Loads, RowKept
<1>5. s.at = "listing" =>
        \A k \in 1 .. Len(s.todo) : row'[s.todo[1].of].created <= row'[s.todo[k].of].created
  BY <1>3, <1>4 DEF ReachOK
<1>6. ASSUME NEW k \in 1 .. Len(s.todo), Reaches(s, s.todo[k].of) PROVE Reaches(s, s.todo[k].of)'
  <2> PICK t : t = s.todo[k].of
    OBVIOUS
  <2>1. t \in Transfers /\ row'[t].created = row[t].created /\ ArrivalsKept(t) /\ Reaches(s, t)
    BY <1>2, <1>4, <1>6
  <2>2. Arrived(t)' /\ row'[t].created + CallTicks < s.started => Arrived(t)
    BY <1>1, <2>1 DEF ArrivalsKept
  <2> QED BY <2>1, <2>2 DEF Reaches
<1>7. s.at = "finish" => ~Arrived(s.todo[1].of)' /\ now' > row'[s.todo[1].of].created + CallTicks
  <2> SUFFICES ASSUME s.at = "finish"
               PROVE  ~Arrived(s.todo[1].of)' /\ now' > row'[s.todo[1].of].created + CallTicks
    OBVIOUS
  <2> PICK t : t = s.todo[1].of
    OBVIOUS
  <2>1. t \in Transfers /\ row'[t].created = row[t].created /\ ArrivalsKept(t)
    BY <1>2, <1>3, <1>4
  <2>2. ~Arrived(t) /\ now > row[t].created + CallTicks
    BY DEF ReachOK
  <2>3. ~Arrived(t)'
    BY <1>1, <2>1, <2>2 DEF ArrivalsKept
  <2> QED BY <1>1, <2>1, <2>2, <2>3 DEF Arrived
<1> QED BY <1>5, <1>6, <1>7 DEF ReachOK

\* A pass that goes on with what it has loaded and listed.
LEMMA SameReach ==
  ASSUME NEW s, NEW next, ReachOK(s), Loads(s), s.at # "listing",
         next.todo = s.todo, next.started = s.started, next.listed = s.listed, next.complete = s.complete,
         next.at # "listing",
         next.at = "finish" => ~Arrived(s.todo[1].of) /\ now > row[s.todo[1].of].created + CallTicks
  PROVE  ReachOK(next) /\ Loads(next)
BY DEF ReachOK, Loads, Reaches

LEMMA RestReaches ==
  ASSUME NEW s, NEW next, ReachOK(s), Loads(s), PassOK(s), s.at \notin {"idle", "listing"},
         next.todo = Tail(s.todo), next.todo # <<>>, next.started = s.started,
         next.listed = s.listed, next.complete = s.complete, next.at = "next"
  PROVE  ReachOK(next) /\ Loads(next)
<1>1. s.todo \in Seq(Entries) /\ s.todo # <<>>
  BY DEF PassOK
<1>2. /\ Len(next.todo) = Len(s.todo) - 1 /\ Len(s.todo) \in Nat
      /\ \A k \in 1 .. Len(next.todo) : next.todo[k] = s.todo[k + 1]
      /\ Len(next.todo) \in Nat \ {0}
  <2> DEFINE q == s.todo
             r == Tail(q)
  <2>1. q \in Seq(Entries) /\ q # <<>> /\ r # <<>> /\ next.todo = r
    BY <1>1
  <2>2. ASSUME q \in Seq(Entries), q # <<>>, r # <<>>
        PROVE  /\ Len(r) = Len(q) - 1 /\ Len(q) \in Nat
               /\ \A k \in 1 .. Len(r) : r[k] = q[k + 1]
               /\ Len(r) \in Nat \ {0}
    <3> HIDE DEF q
    <3>1. r \in Seq(Entries) /\ Len(r) = Len(q) - 1 /\ Len(q) \in Nat /\ \A k \in 1 .. Len(r) : r[k] = q[k + 1]
      BY <2>2
    <3> HIDE DEF r
    <3>2. Len(r) \in Nat \ {0}
      BY <2>2, <3>1
    <3> QED BY <3>1, <3>2
  <2> HIDE DEF r
  <2> QED BY <2>1, <2>2
<1>3. \A k \in 1 .. Len(next.todo) : k + 1 \in 1 .. Len(s.todo)
  BY <1>2
<1>4. Loads(next)
  BY <1>2, <1>3 DEF Loads
<1>5. next.complete => \A k \in 1 .. Len(next.todo) : Reaches(next, next.todo[k].of)
  BY <1>2, <1>3 DEF ReachOK, Reaches
<1> QED BY <1>4, <1>5 DEF ReachOK

\* What a pass moves to.
Moved(p) == \E s : sync' = [sync EXCEPT ![p] = s] /\ (s.at # "idle" => ReachOK(s) /\ Loads(s))

LEMMA ProceedReaches ==
  ASSUME SpendInv, NEW p \in Syncs, sync[p].at \notin {"idle", "listing"}, Proceed(p)
  PROVE  Moved(p)
<1> DEFINE rest == Tail(sync[p].todo)
           next == [at |-> "next", todo |-> rest, started |-> sync[p].started,
                    listed |-> sync[p].listed, complete |-> sync[p].complete]
<1>1. sync' = [sync EXCEPT ![p] = IF rest = <<>> THEN Ready ELSE next]
  BY DEF Proceed, SyncTo
<1>2. PassOK(sync[p]) /\ ReachOK(sync[p]) /\ Loads(sync[p])
  BY PassHolds
<1>3. CASE rest = <<>>
  <2>1. sync' = [sync EXCEPT ![p] = Ready] /\ Ready.at = "idle"
    BY <1>1, <1>3 DEF Ready
  <2> HIDE DEF next
  <2> QED BY <2>1 DEF Moved
<1>4. CASE rest # <<>>
  <2>1. /\ next.todo = Tail(sync[p].todo) /\ next.todo # <<>> /\ next.started = sync[p].started
        /\ next.listed = sync[p].listed /\ next.complete = sync[p].complete /\ next.at = "next"
    BY <1>4
  <2> HIDE DEF next
  <2>2. ReachOK(next) /\ Loads(next)
    BY <1>2, <2>1, RestReaches
  <2> QED BY <1>1, <1>4, <2>2 DEF Moved
<1> QED BY <1>3, <1>4

LEMMA WorkReaches ==
  ASSUME SpendInv, NEW p \in Syncs, sync[p].at \notin {"idle", "listing"},
         NEW step \in {"link", "apply", "finish"}, NEW v, NEW found, Work(p, step, v, found),
         step = "finish" => ~Arrived(Loaded(p).of) /\ now > row[Loaded(p).of].created + CallTicks
  PROVE  Moved(p)
<1> DEFINE next == [at |-> step, todo |-> sync[p].todo, started |-> sync[p].started,
                    listed |-> sync[p].listed, complete |-> sync[p].complete,
                    of |-> v, seen |-> found]
<1>1. sync' = [sync EXCEPT ![p] = next]
  BY DEF Work, SyncTo
<1>2. ReachOK(sync[p]) /\ Loads(sync[p]) /\ Loaded(p) = sync[p].todo[1]
  BY PassHolds
<1>3. /\ next.todo = sync[p].todo /\ next.started = sync[p].started /\ next.listed = sync[p].listed
      /\ next.at = step /\ next.complete = sync[p].complete
  OBVIOUS
<1> HIDE DEF next
<1>4. ReachOK(next) /\ Loads(next)
  BY <1>2, <1>3, SameReach
<1> QED BY <1>1, <1>4 DEF Moved

LEMMA StartReaches ==
  ASSUME SpendInv, NEW p \in Syncs, StartSync(p)
  PROVE  Moved(p)
<1> DEFINE pending == InState({"PENDING"})
<1>1. PICK byAge \in PendingByAge :
        SyncTo(p, [at |-> "listing", todo |-> LoadedPending(byAge), started |-> now])
  BY DEF StartSync
<1>2. /\ pending \in SUBSET Transfers /\ pending # {} /\ \A t \in pending : row[t].state # Absent
      /\ now \in Nat
  BY SpendTypes DEF InState, Absent, StartSync
<1>3. IsFiniteSet(pending)
  BY <1>2, TransferAssumption, FS_Subset
<1>4. Cardinality(pending) \in Nat \ {0}
  BY <1>2, <1>3, FS_CardinalityType, FS_EmptySet
<1>5. \A i, j \in DOMAIN byAge : i < j => row[byAge[i]].created <= row[byAge[j]].created
  BY DEF PendingByAge
<1> HIDE DEF pending
<1> DEFINE D == 1 .. Cardinality(pending)
<1>6. byAge \in [D -> pending]
  BY DEF PendingByAge, SetToSeqs, pending
<1> DEFINE todo == LoadedPending(byAge)
<1>7. todo = [k \in D |-> [of |-> byAge[k], venue |-> row[byAge[k]].venue]]
  BY <1>6 DEF LoadedPending
<1>8. Len(todo) = Cardinality(pending)
  BY <1>4, <1>7
<1>9. \A k \in D : todo[k].of = byAge[k] /\ byAge[k] \in pending
  BY <1>6, <1>7
<1> DEFINE next == [at |-> "listing", todo |-> todo, started |-> now]
<1>10. sync' = [sync EXCEPT ![p] = next]
  BY <1>1 DEF SyncTo
<1> HIDE DEF todo
<1>11. next.at = "listing" /\ next.todo = todo /\ next.started = now
  OBVIOUS
<1> HIDE DEF next
<1>12. Loads(next)
  BY <1>2, <1>4, <1>8, <1>9, <1>11 DEF Loads
<1>13. \A k \in D : row[byAge[1]].created <= row[byAge[k]].created
  <2> SUFFICES ASSUME NEW k \in D PROVE row[byAge[1]].created <= row[byAge[k]].created
    OBVIOUS
  <2>1. 1 \in DOMAIN byAge /\ k \in DOMAIN byAge /\ (k = 1 \/ 1 < k)
    BY <1>4, <1>6
  <2>2. row[byAge[k]].created \in Nat
    BY <1>2, <1>6, SpendTypes
  <2> QED BY <1>5, <2>1, <2>2
<1>14. 1 \in D
  BY <1>4
<1>15. \A k \in 1 .. Len(next.todo) : row[next.todo[1].of].created <= row[next.todo[k].of].created
  BY <1>8, <1>9, <1>11, <1>13, <1>14
<1>16. ReachOK(next)
  BY <1>11, <1>15 DEF ReachOK
<1> QED BY <1>10, <1>12, <1>16 DEF Moved

\* A listing that lacks nothing has what arrived for the rows loaded.
LEMMA ListReaches ==
  ASSUME SpendInv, NEW p \in Syncs, ListTransfers(p) \/ ListingFails(p)
  PROVE  Moved(p)
<1>1. /\ sync[p].at = "listing" /\ Loads(sync[p]) /\ ReachOK(sync[p])
      /\ Loaded(p) = sync[p].todo[1] /\ 1 \in 1 .. Len(sync[p].todo) /\ Loaded(p).of \in Transfers
  BY PassHolds DEF ListTransfers, ListingFails
<1>2. ASSUME NEW listed, NEW complete,
             complete => \A k \in 1 .. Len(sync[p].todo) : Arrived(sync[p].todo[k].of) => sync[p].todo[k].of \in DOMAIN listed,
             SyncTo(p, [at |-> "next", todo |-> sync[p].todo, started |-> sync[p].started,
                        listed |-> listed, complete |-> complete])
      PROVE  Moved(p)
  <2> DEFINE next == [at |-> "next", todo |-> sync[p].todo, started |-> sync[p].started,
                      listed |-> listed, complete |-> complete]
  <2>1. sync' = [sync EXCEPT ![p] = next]
    BY <1>2 DEF SyncTo
  <2>2. /\ next.todo = sync[p].todo /\ next.started = sync[p].started /\ next.at = "next"
        /\ next.listed = listed /\ next.complete = complete
    OBVIOUS
  <2> HIDE DEF next
  <2>3. Loads(next)
    BY <1>1, <2>2 DEF Loads
  <2>4. ReachOK(next)
    BY <1>2, <2>2 DEF ReachOK, Reaches
  <2> QED BY <2>1, <2>3, <2>4 DEF Moved
<1>3. CASE ListTransfers(p)
  <2>1. PICK unread :
          SyncTo(p, [at |-> "next", todo |-> sync[p].todo, started |-> sync[p].started,
                     listed |-> Listing(p, unread).listed, complete |-> Listing(p, unread).complete])
    BY <1>3 DEF ListTransfers
  <2>2. ASSUME Listing(p, unread).complete, NEW k \in 1 .. Len(sync[p].todo), Arrived(sync[p].todo[k].of)
        PROVE  sync[p].todo[k].of \in DOMAIN Listing(p, unread).listed
    <3> PICK t : t = sync[p].todo[k].of
      OBVIOUS
    <3> PICK h : h = Head(sync[p].todo).of
      OBVIOUS
    <3>1. unread = {}
      BY <2>2 DEF Listing
    <3>2. h = sync[p].todo[1].of /\ h \in Transfers
      BY <1>1 DEF Loaded
    <3>3. t \in Transfers /\ row[h].created <= row[t].created
      BY <1>1, <3>2 DEF Loads, ReachOK
    <3>4. row[t].created <= venue[t].created
      BY <2>2, <3>3 DEF SpendInv, TimesOK
    <3>5. venue[t].created >= row[h].created - RecoveryWindow
      <4>1. row[h].created \in Nat /\ row[t].created \in Nat /\ venue[t].created \in Nat
        BY <3>2, <3>3, SpendTypes
      <4>2. RecoveryWindow \in Nat
        BY TickBounds
      <4> QED BY <3>3, <3>4, <4>1, <4>2
    <3>6. t \in {v \in Transfers : venue[v] # NoTransfer /\ venue[v].created >= row[h].created - RecoveryWindow}
      BY <2>2, <3>3, <3>5 DEF Arrived
    <3> QED BY <3>1, <3>6 DEF Listing
  <2> QED BY <1>2, <2>1, <2>2
<1>4. CASE ListingFails(p)
  BY <1>2, <1>4 DEF ListingFails
<1> QED BY <1>3, <1>4

\* A pass gives up a row only if its transfer did not arrive and no longer can.
LEMMA NeverReached ==
  ASSUME Alone, Distinct, SpendInv, NEW p \in Syncs, SyncNeverReached(p)
  PROVE  ~Arrived(Loaded(p).of) /\ now > row[Loaded(p).of].created + CallTicks
<1> PICK t : t = Loaded(p).of
  OBVIOUS
<1> PICK s : s = sync[p]
  OBVIOUS
<1>1. s.at = "next" /\ Loaded(p).venue = None /\ ~Defers(p, t) /\ Candidates(p, t) = {}
  BY DEF SyncNeverReached
<1>2. PastGrace(t) /\ s.complete
  BY <1>1 DEF Defers
<1>3. /\ Knows(s) /\ ReachOK(s) /\ Loaded(p) = s.todo[1] /\ 1 \in 1 .. Len(s.todo) /\ t \in Transfers
  BY <1>1, PassHolds
<1>4. /\ s.started \in Nat /\ now <= s.started + PassTicks
      /\ row[t].created \in Nat /\ now \in Nat /\ venue[t].created \in Nat
  BY <1>3, SpendTypes DEF Knows
<1>5. now > row[t].created + CallTicks /\ row[t].created + CallTicks < s.started
  BY <1>2, <1>4, TickBounds DEF PastGrace
<1>6. ASSUME Arrived(t) PROVE FALSE
  <2>1. t \in DOMAIN s.listed
    BY <1>1, <1>2, <1>3, <1>5, <1>6 DEF ReachOK, Reaches
  <2>2. row[t].created <= venue[t].created /\ venue[t].created <= row[t].created + CallTicks
    BY <1>3, <1>6 DEF SpendInv, TimesOK
  <2>3. Distance(t, t) <= RecoveryWindow
    BY <1>4, <2>2, TickBounds, TransferAssumption DEF Distance
  <2>4. Matches(t, t)
    BY DEF Matches
  <2>5. Linked(t)
    BY <1>1, <2>1, <2>3, <2>4 DEF Candidates
  <2>6. PICK u \in Transfers : row[u].venue = t
    BY <2>5 DEF Linked
  <2>7. u = t /\ t # None
    BY <1>3, <2>6, TickBounds DEF SpendInv, SettleInv, RowLinks
  <2>8. EntryOK(s, 1)
    BY <1>3 DEF Knows
  <2>9. s.started <= row[t].created + CallTicks
    BY <1>1, <1>3, <2>6, <2>7, <2>8 DEF EntryOK
  <2> QED BY <1>4, <1>5, <2>9, TickBounds
<1> QED BY <1>5, <1>6

LEMMA PassesReach ==
  ASSUME Alone, Distinct, SpendInv, [CashNext]_cashVars, NEW q \in Syncs, sync'[q].at # "idle"
  PROVE  ReachOK(sync[q])'
<1>1. DOMAIN sync = Syncs
  BY SpendTypes DEF PassType
<1>2. ASSUME NEW s, sync'[q] = s, ReachOK(s), Loads(s) PROVE ReachOK(sync[q])'
  <2>1. ReachOK(s)'
    BY <1>2, ReachStays
  <2> QED BY <1>2, <2>1 DEF ReachOK, Reaches
<1>3. ASSUME sync'[q] = sync[q] PROVE ReachOK(sync[q])'
  <2>1. sync[q].at # "idle"
    BY <1>3
  <2> QED BY <1>2, <1>3, <2>1, PassHolds
<1>4. ASSUME Moved(q) PROVE ReachOK(sync[q])'
  <2>1. PICK s : sync' = [sync EXCEPT ![q] = s] /\ (s.at # "idle" => ReachOK(s) /\ Loads(s))
    BY <1>4 DEF Moved
  <2>2. sync'[q] = s
    BY <1>1, <2>1
  <2> QED BY <1>2, <2>1, <2>2
<1>5. ASSUME SyncStep(q) \/ SyncFails(q) PROVE ReachOK(sync[q])'
  <2>1. CASE StartSync(q) \/ ListTransfers(q) \/ ListingFails(q)
    BY <1>4, <2>1, StartReaches, ListReaches
  <2>2. CASE SyncDeferred(q) \/ LookupFails(q) \/ SyncApplies(q) \/ SyncFinishes(q)
    <3>1. Proceed(q) /\ sync[q].at \notin {"idle", "listing"}
      BY <2>2 DEF SyncDeferred, LookupFails, SyncApplies, SyncFinishes
    <3> QED BY <1>4, <3>1, ProceedReaches
  <2>3. CASE SyncLinked(q) \/ SyncRecovers(q)
    <3>1. sync[q].at = "next" /\ \E v, found : Work(q, "link", v, found)
      BY <2>3 DEF SyncLinked, SyncRecovers
    <3> QED BY <1>4, <3>1, WorkReaches
  <2>4. CASE SyncNeverReached(q)
    <3>1. sync[q].at = "next" /\ Work(q, "finish", None, "FAILED")
      BY <2>4 DEF SyncNeverReached
    <3>2. ~Arrived(Loaded(q).of) /\ now > row[Loaded(q).of].created + CallTicks
      BY <2>4, NeverReached
    <3> QED BY <1>4, <3>1, <3>2, WorkReaches
  <2>5. CASE SyncLinks(q)
    <3>1. sync[q].at = "link" /\ (Proceed(q) \/ Work(q, "apply", sync[q].of, sync[q].seen))
      BY <2>5 DEF SyncLinks
    <3> QED BY <1>4, <3>1, WorkReaches, ProceedReaches
  <2> QED BY <1>5, <2>1, <2>2, <2>3, <2>4, <2>5 DEF SyncStep, SyncFails
<1>6. ASSUME NEW p \in Syncs, SyncStep(p) \/ SyncFails(p) PROVE ReachOK(sync[q])'
  <2>1. p = q
    BY DEF Alone
  <2> QED BY <1>5, <1>6, <2>1
<1>7. ASSUME NEW t \in Transfers,
             \/ Request(t) \/ InitiateRejected(t) \/ CallLost(t) \/ CallStep(t)
             \/ VenueReceivesTransfer(t) \/ VenueDecidesTransfer(t)
             \/ WatchReads(t) \/ CancelRequestLost(t) \/ AskVenueToCancel(t)
      PROVE  UNCHANGED sync
  BY <1>7 DEF Request, InitiateRejected, CallLost, CallStep, InitiateAnswered, CallLinks, CallApplies,
              CallTo, VenueReceivesTransfer, VenueDecidesTransfer, VenueTo, WatchReads, WatchTo,
              CancelRequestLost, AskVenueToCancel, ResetTo
<1>8. CASE StartReset \/ Archive \/ ResetCrashes \/ WatchStamps \/ Tick \/ Trade \/ UNCHANGED cashVars
  BY <1>3, <1>8 DEF StartReset, Archive, ResetCrashes, ResetTo, WatchStamps, WatchTo, Tick, Trade,
                    transferVars, cashVars
<1> QED BY <1>3, <1>6, <1>7, <1>8 DEF CashNext, ResetStep

--------------------------------------------------------------------------------
(* The induction, and the sums.                                                *)

LEMMA InitSpend == CashInit => SpendInv
<1> SUFFICES ASSUME CashInit PROVE SpendInv
  OBVIOUS
<1>1. \A t \in Transfers : TimesOK(t) /\ EndOK(t)
  BY DEF CashInit, TimesOK, EndOK, Arrived, NoRow, NoTransfer, Ready, Absent
<1>2. \A p \in Syncs : sync[p].at = "idle"
  BY DEF CashInit, Ready
<1> QED BY <1>1, <1>2, InitSettle DEF SpendInv

LEMMA NextSpend ==
  ASSUME Alone, Distinct
  PROVE  SpendInv /\ [CashNext]_cashVars => SpendInv'
<1> SUFFICES ASSUME SpendInv, [CashNext]_cashVars PROVE SpendInv'
  OBVIOUS
<1>1. SettleInv'
  BY NextSettle DEF SpendInv, Unambiguous
<1>2. \A t \in Transfers : TimesOK(t)' /\ EndOK(t)'
  BY TimesKept, EndsKept
<1>3. \A p \in Syncs : sync'[p].at # "idle" => ReachOK(sync[p])'
  BY PassesReach
<1> QED BY <1>1, <1>2, <1>3 DEF SpendInv

LEMMA SpendableIsCovered ==
  ASSUME Distinct, SpendInv, RowsAndBookAgree
  PROVE  SpendableWithinVenueCash
<1> SUFFICES ASSUME account = "ACTIVE"
             PROVE  transferred - holds <= VenueSum(Transfers \ Withdrawals) - VenueSum(Withdrawals)
  BY DEF SpendableWithinVenueCash
<1> DEFINE In == {v \in Transfers \ Withdrawals : venue[v].state = "SETTLED"}
           Out == {v \in Withdrawals : venue[v].state = "SETTLED"}
           A == SettledIn
           B == SettledOut
           C == PendingOut
<1>1. \A t \in Transfers : row[t].state = "SETTLED" => venue[t].state = "SETTLED"
  BY DEF SpendInv, SettleInv, RowLinks, SettledAt
<1>2. \A t \in Transfers : venue[t].state = "SETTLED" => row[t].state \in {"PENDING", "SETTLED"}
  <2> SUFFICES ASSUME NEW t \in Transfers, venue[t].state = "SETTLED"
               PROVE  row[t].state \in {"PENDING", "SETTLED"}
    OBVIOUS
  <2>1. Arrived(t)
    BY DEF Arrived, NoTransfer, Absent
  <2>2. row[t].state \in TransferStates \cup {Absent}
    BY SpendTypes DEF TransferRows
  <2> QED BY <2>1, <2>2 DEF SpendInv, TimesOK, EndOK, NeverArrives, TransferStates
<1>3. /\ A \in SUBSET In /\ In \in SUBSET Transfers
      /\ Out \in SUBSET (B \cup C) /\ B \in SUBSET Transfers /\ C \in SUBSET Transfers
      /\ B \cap C = {}
  BY <1>1, <1>2, TransferAssumption DEF SettledIn, SettledOut, PendingOut, InState
<1>4. /\ holds = SumFunctionOnSet(Amount, C)
      /\ transferred = SumFunctionOnSet(Amount, A) - SumFunctionOnSet(Amount, B)
      /\ VenueSum(Transfers \ Withdrawals) = SumFunctionOnSet(Amount, In)
      /\ VenueSum(Withdrawals) = SumFunctionOnSet(Amount, Out)
  BY DEF RowsAndBookAgree, PendingSum, VenueSum, SettledIn, SettledOut, PendingOut
<1> HIDE DEF In, Out, A, B, C
<1>5. /\ SumFunctionOnSet(Amount, A) <= SumFunctionOnSet(Amount, In)
      /\ SumFunctionOnSet(Amount, A) \in Int /\ SumFunctionOnSet(Amount, In) \in Int
  BY <1>3, PartOfTransfers
<1> DEFINE W == B \cup C
<1>6. W \in SUBSET Transfers /\ Out \in SUBSET W
  BY <1>3
<1>7. SumFunctionOnSet(Amount, W) = SumFunctionOnSet(Amount, B) + SumFunctionOnSet(Amount, C)
  BY <1>3, TransferAssumption, TransferAmounts, SumApart
<1> HIDE DEF W
<1>8. /\ SumFunctionOnSet(Amount, Out) <= SumFunctionOnSet(Amount, W)
      /\ SumFunctionOnSet(Amount, Out) \in Int /\ SumFunctionOnSet(Amount, W) \in Int
  BY <1>6, PartOfTransfers
<1>9. SumFunctionOnSet(Amount, B) \in Int /\ SumFunctionOnSet(Amount, C) \in Int
  BY <1>3, PartOfTransfers
<1> QED BY <1>4, <1>5, <1>7, <1>8, <1>9

\* Cash that can be spent is at the venue, through lost answers, unreadable
\* listings, recoveries and resets.  The hypotheses are sharp: two passes that
\* overlap are enough to break it (MCCashNeverReached), and so are three alike
\* withdrawals and a listing that lacks one (LostInTurn of MCCashTransfers).
LEMMA SpendableIsAtTheVenue ==
  ASSUME Alone, Distinct
  PROVE  CashSpec => []SpendableWithinVenueCash
<1>1. SpendInv /\ CashInv => SpendableWithinVenueCash
  BY SpendableIsCovered DEF CashInv
<1>2. SpendInv /\ [CashNext]_cashVars => SpendInv'
  BY NextSpend
<1> QED BY <1>1, <1>2, InitSpend, InitCashInv, NextCashInv, PTL DEF CashSpec

(***************************************************************************)
(* Execution.                                                               *)
(***************************************************************************)

--------------------------------------------------------------------------------
(* What the pipeline holds.  An event or a tape entry is sound if what it      *)
(* says of an order's end is what the venue says; since an ended order never   *)
(* changes at the venue, it stays sound however long it is held.               *)

VenueStatuses == VenueOpen \cup VenueDone \cup {"none"}

\* The identifiers the two paths give their events (order_events.external_event_id).
PathEnvelopes ==
  {<<"ulid", n>> : n \in Nat}
    \cup {<<"recon", x>> : x \in Executions}
    \cup {<<"recon-status", o, s>> : o \in Orders, s \in VenueOpen \cup VenueDone}
    \cup {<<"recon-submit-failed", o>> : o \in Orders}

\* The venue statuses that an event of a terminal type claims one of.
Claims ==
  [ORDER_FILLED |-> {"filled"}, ORDER_CANCELLED |-> {"canceled"},
   ORDER_REJECTED |-> {"rejected"}, ORDER_EXPIRED |-> {"expired", "done_for_day"}]

\* The words for an order's end that are no execution.
OrderEnds == {"canceled", "rejected", "expired", "done_for_day"}

BrokerEvents == StatusEvents \cup FillEvents

\* Events that are sound when the orders have the statuses v at the venue.
SoundEvents(v) ==
  {e \in BrokerEvents : e.type \in DOMAIN Claims => v[Subject(e)] \in Claims[e.type]}

Reports ==
  [order : Orders, event : {"pending_new", "new", "pending_cancel"} \cup OrderEnds]

ExecutionReports == {r \in [order : Orders, event : {"partial_fill", "fill"}, exec : Executions] :
                r.order = OrderOf[r.exec]}

SoundReports ==
  {r \in Reports : r.event \in OrderEnds => vstatus[r.order] = r.event}

SoundExecutions ==
  {r \in ExecutionReports : r.event = "fill" => vstatus[r.order] = "filled"}

SoundEntries == SoundReports \cup SoundExecutions

Listings == [order : Orders, state : OrderStates \cup {Absent}]

ReconOK(s, v) ==
  s.at # "idle" =>
    /\ s.todo \in Seq(Listings) /\ s.todo # <<>>
    /\ s.at = "fills" => /\ s.status \in VenueStatuses \ {"none"}
                         /\ s.status \in VenueDone => v[Head(s.todo).order] = s.status
    /\ s.at = "apply" => s.events \in Seq(SoundEvents(v))

Stream == [next : (Nat \ {0}) \cup {Null}, due : BOOLEAN]

VenueOrdersType ==
  /\ vstatus \in [Orders -> VenueStatuses]
  /\ tape \in Seq(SoundEntries)
  /\ activities \in [Orders -> Seq(Executions)]
  /\ \A o \in Orders : activities[o] \in Seq({x \in Executions : OrderOf[x] = o})

StreamType ==
  /\ stream \in Stream /\ (stream.due => stream.next # Null)
  /\ lastUlid \in Nat \cup {Null} /\ cursor \in Nat \cup {Null}

ReconType == DOMAIN pass = Passes /\ \A p \in Passes : ReconOK(pass[p], vstatus)

PipelineType == VenueOrdersType /\ StreamType /\ ReconType

\* A finite number of orders was placed, so that a listing is a sequence.
PipelineInv == CoverInv /\ PipelineType

--------------------------------------------------------------------------------
(* What the venue ended stays ended.                                           *)

VenueKeepsEnds == \A o \in Orders : vstatus[o] \in VenueDone => vstatus'[o] = vstatus[o]

LEMMA ClaimsAreEnds == \A t \in DOMAIN Claims : Claims[t] \subseteq VenueDone
BY DEF Claims, VenueDone

LEMMA EventsStaySound ==
  ASSUME VenueKeepsEnds
  PROVE  SoundEvents(vstatus) \subseteq SoundEvents(vstatus')
<1> SUFFICES ASSUME NEW e \in SoundEvents(vstatus) PROVE e \in SoundEvents(vstatus')
  OBVIOUS
<1>1. e \in BrokerEvents /\ Subject(e) \in Orders
  BY BookAssumption DEF SoundEvents, BrokerEvents, StatusEvents, FillEvents, Subject, IsFill, StatusTypes,
        FillTypes, Unknown
<1>2. CASE e.type \in DOMAIN Claims
  <2>1. vstatus[Subject(e)] \in Claims[e.type] /\ Claims[e.type] \subseteq VenueDone
    BY <1>2, ClaimsAreEnds DEF SoundEvents
  <2>2. vstatus'[Subject(e)] \in Claims[e.type]
    BY <1>1, <2>1 DEF VenueKeepsEnds
  <2> QED BY <1>1, <2>2 DEF SoundEvents
<1>3. CASE e.type \notin DOMAIN Claims
  BY <1>1, <1>3 DEF SoundEvents
<1> QED BY <1>2, <1>3

LEMMA EntriesStaySound ==
  ASSUME VenueKeepsEnds
  PROVE  SoundEntries \subseteq SoundEntries'
<1>1. ASSUME NEW r \in SoundReports PROVE r \in SoundReports'
  <2>1. r.order \in Orders
    BY DEF SoundReports, Reports
  <2> QED BY <2>1 DEF SoundReports, VenueKeepsEnds, VenueDone, OrderEnds
<1>2. ASSUME NEW r \in SoundExecutions PROVE r \in SoundExecutions'
  <2>1. r.order \in Orders
    BY DEF SoundExecutions, ExecutionReports
  <2> QED BY <2>1 DEF SoundExecutions, VenueKeepsEnds, VenueDone
<1> QED BY <1>1, <1>2 DEF SoundEntries

\* What a pass holds stays sound.
LEMMA PassStays ==
  ASSUME VenueKeepsEnds, NEW s, ReconOK(s, vstatus)
  PROVE  ReconOK(s, vstatus')
<1>1. CASE s.at # "idle"
  <2>1. s.todo \in Seq(Listings) /\ s.todo # <<>>
    BY <1>1 DEF ReconOK
  <2>2. Head(s.todo).order \in Orders
    <3>1. Head(s.todo) \in Listings
      BY <2>1
    <3> QED BY <3>1 DEF Listings
  <2>3. ASSUME s.at = "fills"
        PROVE  /\ s.status \in VenueStatuses \ {"none"}
               /\ s.status \in VenueDone => vstatus'[Head(s.todo).order] = s.status
    BY <1>1, <2>2, <2>3 DEF ReconOK, VenueKeepsEnds
  <2>4. ASSUME s.at = "apply" PROVE s.events \in Seq(SoundEvents(vstatus'))
    <3>1. s.events \in Seq(SoundEvents(vstatus)) /\ SoundEvents(vstatus) \subseteq SoundEvents(vstatus')
      BY <1>1, <2>4, EventsStaySound DEF ReconOK
    <3> QED BY <3>1
  <2> QED BY <2>1, <2>3, <2>4 DEF ReconOK
<1>2. CASE s.at = "idle"
  BY <1>2 DEF ReconOK
<1> QED BY <1>1, <1>2

LEMMA IdleIsOK == ReconOK(Idle, vstatus)
BY DEF ReconOK, Idle

\* A pass that moves keeps what it needs.
LEMMA ReconMoves ==
  ASSUME ReconType, VenueKeepsEnds, NEW p \in Passes, NEW s, ReconOK(s, vstatus),
         pass' = [pass EXCEPT ![p] = s]
  PROVE  ReconType'
<1>1. ReconOK(s, vstatus') /\ \A q \in Passes : ReconOK(pass[q], vstatus')
  BY PassStays DEF ReconType
<1> QED BY <1>1 DEF ReconType

--------------------------------------------------------------------------------
(* The venue.                                                                  *)

\* A change of an order at the venue.
LEMMA VenueReports ==
  ASSUME VenueOrdersType, NEW o \in Orders, vstatus[o] \notin VenueDone,
         NEW s \in VenueStatuses, vstatus' = [vstatus EXCEPT ![o] = s],
         NEW r \in Reports, r.order = o, tape' = Append(tape, r), activities' = activities,
         r.event \in OrderEnds => s = r.event
  PROVE  VenueKeepsEnds /\ VenueOrdersType'
<1>1. VenueKeepsEnds /\ vstatus' \in [Orders -> VenueStatuses] /\ vstatus'[o] = s
  BY DEF VenueKeepsEnds, VenueOrdersType
<1>2. r \in SoundEntries'
  BY <1>1 DEF SoundEntries, SoundReports
<1>3. tape \in Seq(SoundEntries')
  BY <1>1, EntriesStaySound DEF VenueOrdersType
<1>4. tape' \in Seq(SoundEntries')
  BY <1>2, <1>3
<1> QED BY <1>1, <1>4 DEF VenueOrdersType

LEMMA VenueExecutes ==
  ASSUME VenueOrdersType, NEW x \in Executions, NEW o \in Orders, o = OrderOf[x],
         vstatus[o] \notin VenueDone,
         NEW s \in VenueStatuses, vstatus' = [vstatus EXCEPT ![o] = s],
         NEW r \in ExecutionReports, r.exec = x, tape' = Append(tape, r),
         activities' = [activities EXCEPT ![o] = Append(@, x)],
         r.event = "fill" => s = "filled"
  PROVE  VenueKeepsEnds /\ VenueOrdersType'
<1>1. VenueKeepsEnds /\ vstatus' \in [Orders -> VenueStatuses] /\ vstatus'[o] = s
  BY DEF VenueKeepsEnds, VenueOrdersType
<1>2. r \in SoundEntries'
  BY <1>1 DEF SoundEntries, SoundExecutions, ExecutionReports
<1>3. tape \in Seq(SoundEntries')
  BY <1>1, EntriesStaySound DEF VenueOrdersType
<1>4. tape' \in Seq(SoundEntries')
  BY <1>2, <1>3
<1>5. /\ activities'[o] = Append(activities[o], x)
      /\ \A p \in Orders \ {o} : activities'[p] = activities[p]
  <2>1. activities \in [Orders -> Seq(Executions)]
    BY DEF VenueOrdersType
  <2> QED BY <2>1
<1>6. Append(activities[o], x) \in Seq({y \in Executions : OrderOf[y] = o})
  <2> DEFINE own == {y \in Executions : OrderOf[y] = o}
  <2>1. x \in own /\ activities[o] \in Seq(own)
    BY DEF VenueOrdersType
  <2> HIDE DEF own
  <2>2. Append(activities[o], x) \in Seq(own)
    BY <2>1
  <2> QED BY <2>2 DEF own
<1>7. Append(activities[o], x) \in Seq(Executions)
  <2>1. activities[o] \in Seq(Executions)
    BY DEF VenueOrdersType
  <2> QED BY <2>1
<1>8. activities' \in [Orders -> Seq(Executions)]
  BY <1>7 DEF VenueOrdersType
<1>9. \A p \in Orders : activities'[p] \in Seq({y \in Executions : OrderOf[y] = p})
  BY <1>5, <1>6 DEF VenueOrdersType
<1> QED BY <1>1, <1>4, <1>8, <1>9 DEF VenueOrdersType

LEMMA VenueOrdersStay ==
  ASSUME VenueOrdersType, UNCHANGED venueVars
  PROVE  VenueKeepsEnds /\ VenueOrdersType'
<1>1. vstatus' = vstatus /\ tape' = tape /\ activities' = activities
  BY DEF venueVars
<1>2. SoundEntries' = SoundEntries
  BY <1>1 DEF SoundEntries, SoundReports, SoundExecutions
<1> QED BY <1>1, <1>2 DEF VenueKeepsEnds, VenueOrdersType

LEMMA EntryKinds ==
  /\ \A r \in Reports : ~IsExecution(r)
  /\ \A r \in ExecutionReports : IsExecution(r)
BY DEF Reports, ExecutionReports, IsExecution

LEMMA CancelAtVenue ==
  ASSUME VenueOrdersType, NEW o \in Orders, VenueCancels(o)
  PROVE  VenueKeepsEnds /\ VenueOrdersType'
<1> DEFINE r == [order |-> o, event |-> "pending_cancel"]
<1>1. r \in Reports /\ r.order = o /\ r.event = "pending_cancel"
  BY DEF Reports
<1>2. /\ vstatus[o] \notin VenueDone /\ "pending_cancel" \in VenueStatuses
      /\ vstatus' = [vstatus EXCEPT ![o] = "pending_cancel"]
      /\ tape' = Append(tape, r) /\ activities' = activities
  BY DEF VenueCancels, VenueOpen, VenueDone, VenueStatuses, Reported
<1> HIDE DEF r
<1> QED BY <1>1, <1>2, VenueReports

LEMMA VenueStep ==
  ASSUME VenueOrdersType, Venue
  PROVE  VenueKeepsEnds /\ VenueOrdersType'
<1>1. ASSUME NEW o \in Orders, NEW s \in VenueStatuses, vstatus[o] \notin VenueDone,
             NEW v \in {"pending_new", "new"} \cup OrderEnds,
             v \in OrderEnds => s = v,
             Emit(o, s, Reported(o, v))
      PROVE  VenueKeepsEnds /\ VenueOrdersType'
  <2> DEFINE r == Reported(o, v)
  <2>1. r \in Reports /\ r.order = o /\ r.event = v
    BY DEF Reports, Reported
  <2>2. ~IsExecution(r)
    BY <2>1, EntryKinds
  <2>3. /\ vstatus' = [vstatus EXCEPT ![o] = s] /\ tape' = Append(tape, r)
        /\ activities' = activities
    BY <1>1, <2>2 DEF Emit
  <2> HIDE DEF r
  <2> QED BY <1>1, <2>1, <2>3, VenueReports
<1>2. ASSUME NEW o \in Orders, VenueReceives(o) PROVE VenueKeepsEnds /\ VenueOrdersType'
  <2>1. PICK v \in FirstStatuses : Emit(o, v, Reported(o, v))
    BY <1>2 DEF VenueReceives
  <2>2. v \in {"pending_new", "new"} /\ v \in VenueStatuses
    BY ExecutionAssumption DEF VenueStatuses, VenueOpen
  <2>3. vstatus[o] \notin VenueDone
    BY <1>2 DEF VenueReceives, VenueDone
  <2> QED BY <1>1, <2>1, <2>2, <2>3
<1>3. ASSUME NEW o \in Orders, VenueAccepts(o) \/ VenueRejects(o) \/ VenueConfirmsCancel(o) \/ VenueExpires(o)
      PROVE  VenueKeepsEnds /\ VenueOrdersType'
  <2>1. PICK v \in {"new"} \cup OrderEnds :
          vstatus[o] \notin VenueDone /\ Emit(o, v, Reported(o, v))
    <3>1. CASE VenueAccepts(o) \/ VenueRejects(o) \/ VenueConfirmsCancel(o)
      BY <3>1 DEF VenueAccepts, VenueRejects, VenueConfirmsCancel, VenueDone, OrderEnds
    <3>2. CASE VenueExpires(o)
      BY <3>2, ExecutionAssumption DEF VenueExpires, VenueDone, OrderEnds
    <3> QED BY <1>3, <3>1, <3>2
  <2>2. v \in VenueStatuses
    BY DEF VenueStatuses, VenueOpen, VenueDone, OrderEnds
  <2> QED BY <1>1, <2>1, <2>2
<1>4. ASSUME NEW x \in Executions, VenueFillsLot(x) PROVE VenueKeepsEnds /\ VenueOrdersType'
  <2> DEFINE o == OrderOf[x]
  <2>1. o \in Orders /\ vstatus[o] \notin VenueDone
    BY <1>4, BookAssumption DEF VenueFillsLot, VenueDone
  <2>2. PICK s \in VenueStatuses, v \in {"fill", "partial_fill"} :
          (v = "fill" => s = "filled") /\ Emit(o, s, Executed(x, v))
    BY <1>4 DEF VenueFillsLot, VenueStatuses, VenueOpen, VenueDone
  <2> DEFINE r == Executed(x, v)
  <2>3. r \in ExecutionReports /\ r.exec = x /\ r.event = v
    BY <2>1 DEF Executed, ExecutionReports
  <2>4. IsExecution(r)
    BY <2>3, EntryKinds
  <2>5. /\ vstatus' = [vstatus EXCEPT ![o] = s] /\ tape' = Append(tape, r)
        /\ activities' = [activities EXCEPT ![o] = Append(@, x)]
    BY <2>2, <2>3, <2>4 DEF Emit
  <2> HIDE DEF r, o
  <2>6. o = OrderOf[x]
    BY DEF o
  <2> QED BY <2>1, <2>2, <2>3, <2>5, <2>6, VenueExecutes
<1> QED BY <1>2, <1>3, <1>4 DEF Venue

--------------------------------------------------------------------------------
(* Events.                                                                     *)

\* The event of a tape entry says what the entry says.
LEMMA StreamEventIsSound ==
  ASSUME PathEnvelopes \subseteq Envelopes, VenueOrdersType, NEW n \in 1..Len(tape)
  PROVE  StreamEvent(n) \in SoundEvents(vstatus)
<1> DEFINE r == tape[n]
<1>1. r \in SoundEntries /\ <<"ulid", n>> \in Envelopes
  BY DEF VenueOrdersType, PathEnvelopes
<1>2. CASE r \in SoundReports
  <2>1. r \in Reports /\ ~IsExecution(r)
    BY <1>2, EntryKinds DEF SoundReports
  <2> DEFINE e == [order |-> r.order, type |-> VendorStatuses[r.event], envelope |-> <<"ulid", n>>]
  <2>2. StreamEvent(n) = e
    BY <2>1 DEF StreamEvent
  <2>3. VendorStatuses[r.event] \in StatusTypes
    BY <2>1 DEF Reports, OrderEnds, VendorStatuses, StatusTypes
  <2>4. e \in StatusEvents /\ ~IsFill(e)
    BY <1>1, <2>1, <2>3 DEF StatusEvents, Reports, IsFill, StatusTypes, FillTypes
  <2>5. VendorStatuses[r.event] \in DOMAIN Claims =>
          r.event \in OrderEnds /\ r.event \in Claims[VendorStatuses[r.event]]
    BY <2>1 DEF Reports, OrderEnds, VendorStatuses, Claims
  <2>6. e.type \in DOMAIN Claims => vstatus[Subject(e)] \in Claims[e.type]
    BY <1>2, <2>4, <2>5 DEF SoundReports, Subject
  <2> HIDE DEF e
  <2> QED BY <2>2, <2>4, <2>6 DEF SoundEvents, BrokerEvents
<1>3. CASE r \in SoundExecutions
  <2>1. r \in ExecutionReports /\ IsExecution(r)
    BY <1>3, EntryKinds DEF SoundExecutions
  <2> DEFINE e == [exec |-> r.exec, type |-> VendorStatuses[r.event], envelope |-> <<"ulid", n>>]
  <2>2. StreamEvent(n) = e
    BY <2>1 DEF StreamEvent
  <2>3. VendorStatuses[r.event] \in FillTypes
    BY <2>1 DEF ExecutionReports, VendorStatuses, FillTypes
  <2>4. e \in FillEvents /\ IsFill(e)
    BY <1>1, <2>1, <2>3 DEF FillEvents, ExecutionReports, IsFill
  <2>5. VendorStatuses[r.event] \in DOMAIN Claims =>
          r.event = "fill" /\ "filled" \in Claims[VendorStatuses[r.event]]
    BY <2>1 DEF ExecutionReports, VendorStatuses, Claims
  <2>6. r.order = OrderOf[r.exec]
    BY <2>1 DEF ExecutionReports
  <2>7. e.type \in DOMAIN Claims => vstatus[Subject(e)] \in Claims[e.type]
    BY <1>3, <2>4, <2>5, <2>6 DEF SoundExecutions, Subject
  <2> HIDE DEF e
  <2> QED BY <2>2, <2>4, <2>7 DEF SoundEvents, BrokerEvents
<1> QED BY <1>1, <1>2, <1>3 DEF SoundEntries

LEMMA StatusEventIsSound ==
  ASSUME PathEnvelopes \subseteq Envelopes, NEW o \in Orders, NEW v, NEW s \in VenueStatuses \ {"none"},
         s \in VenueDone => v[o] = s
  PROVE  StatusEvent(o, s) \in Seq(SoundEvents(v))
<1>1. CASE s \in {"partially_filled", "filled"}
  <2>1. StatusEvent(o, s) = <<>>
    BY <1>1 DEF StatusEvent, VendorStatuses
  <2> QED BY <2>1
<1>2. CASE s \notin {"partially_filled", "filled"}
  <2>1. s \in {"pending_new", "new", "pending_cancel"} \cup OrderEnds
    BY <1>2 DEF VenueStatuses, VenueOpen, VenueDone, OrderEnds
  <2> DEFINE e == [order |-> o, type |-> VendorStatuses[s], envelope |-> <<"recon-status", o, s>>]
  <2>2. s \in DOMAIN VendorStatuses /\ VendorStatuses[s] \in StatusTypes
    BY <2>1 DEF VendorStatuses, StatusTypes, OrderEnds
  <2>3. StatusEvent(o, s) = <<e>>
    BY <2>2 DEF StatusEvent
  <2>4. <<"recon-status", o, s>> \in Envelopes
    BY <2>1 DEF PathEnvelopes, VenueOpen, VenueDone, OrderEnds
  <2>5. e \in StatusEvents /\ ~IsFill(e)
    BY <2>2, <2>4 DEF StatusEvents, IsFill, StatusTypes, FillTypes
  <2>6. VendorStatuses[s] \in DOMAIN Claims => s \in VenueDone /\ s \in Claims[VendorStatuses[s]]
    BY <2>1 DEF VendorStatuses, Claims, VenueDone, OrderEnds
  <2>7. e.type \in DOMAIN Claims => v[Subject(e)] \in Claims[e.type]
    BY <2>5, <2>6 DEF Subject
  <2> HIDE DEF e
  <2>8. e \in SoundEvents(v)
    BY <2>5, <2>7 DEF SoundEvents, BrokerEvents
  <2> QED BY <2>3, <2>8
<1> QED BY <1>1, <1>2

\* What a snapshot replays is sound as long as the order's end is.
LEMMA SnapshotIsSound ==
  ASSUME PathEnvelopes \subseteq Envelopes, NEW o \in Orders, NEW v, NEW s \in VenueStatuses \ {"none"},
         s \in VenueDone => v[o] = s,
         NEW visible \in Seq({x \in Executions : OrderOf[x] = o})
  PROVE  SnapshotEvents(o, s, visible) \in Seq(SoundEvents(v))
<1> DEFINE own == {x \in Executions : OrderOf[x] = o}
           Event(k) == [exec |-> visible[k],
                        type |-> IF k = Len(visible) /\ s = "filled" THEN "ORDER_FILLED"
                                                                     ELSE "ORDER_PARTIALLY_FILLED",
                        envelope |-> <<"recon", visible[k]>>]
           events == [k \in 1..Len(visible) |-> Event(k)]
<1>1. SnapshotEvents(o, s, visible) = events \o StatusEvent(o, s)
  BY DEF SnapshotEvents
<1>2. ASSUME NEW k \in 1..Len(visible) PROVE Event(k) \in SoundEvents(v)
  <2> DEFINE x == visible[k]
             type == IF k = Len(visible) /\ s = "filled" THEN "ORDER_FILLED" ELSE "ORDER_PARTIALLY_FILLED"
             e == [exec |-> x, type |-> type, envelope |-> <<"recon", x>>]
  <2>1. x \in Executions /\ OrderOf[x] = o
    BY DEF own
  <2>2. type \in FillTypes /\ (type = "ORDER_FILLED" => s = "filled")
    BY DEF FillTypes
  <2>3. <<"recon", x>> \in Envelopes
    BY <2>1 DEF PathEnvelopes
  <2> HIDE DEF x, type
  <2>4. e \in FillEvents /\ IsFill(e) /\ Subject(e) = o
    BY <2>1, <2>2, <2>3 DEF FillEvents, IsFill, Subject
  <2>5. e.type \in DOMAIN Claims => s = "filled" /\ "filled" \in Claims[e.type]
    BY <2>2 DEF Claims, FillTypes
  <2>6. e.type \in DOMAIN Claims => v[Subject(e)] \in Claims[e.type]
    BY <2>4, <2>5 DEF VenueDone
  <2>7. e \in SoundEvents(v)
    <3> HIDE DEF e
    <3> QED BY <2>4, <2>6 DEF SoundEvents, BrokerEvents
  <2> QED BY <2>7 DEF x, type
<1>3. Len(visible) \in Nat
  OBVIOUS
<1> HIDE DEF Event
<1>4. events \in Seq(SoundEvents(v))
  BY <1>2, <1>3
<1> HIDE DEF events
<1> QED BY <1>1, <1>4, StatusEventIsSound

LEMMA SubmitFailedIsSound ==
  ASSUME PathEnvelopes \subseteq Envelopes, NEW o \in Orders, NEW v
  PROVE  SubmitFailedEvent(o) \in SoundEvents(v)
BY DEF SubmitFailedEvent, PathEnvelopes, SoundEvents, BrokerEvents, StatusEvents, StatusTypes, Claims

--------------------------------------------------------------------------------
(* Steps.  Each is a transaction of the book while the venue stands still, or  *)
(* leaves the book alone.                                                      *)

BookMoves ==
  \/ UNCHANGED vars
  \/ /\ vstatus' = vstatus
     /\ \/ \E o \in Orders : Place(o) \/ RequestCancel(o) \/ FailSubmission(o)
        \/ \E e \in SoundEvents(vstatus) : Applied(e)

Keeps == BookMoves /\ VenueKeepsEnds /\ PipelineType'

LEMMA DeliveryMoves ==
  ASSUME NEW e \in SoundEvents(vstatus), vstatus' = vstatus, Deliver(e)
  PROVE  BookMoves
BY DEF Deliver, BookMoves

\* Steps of the API and of the venue leave stream and passes alone.
LEMMA OnlyTheVenue ==
  ASSUME PipelineType, VenueKeepsEnds, VenueOrdersType', UNCHANGED <<stream, lastUlid, cursor, pass>>
  PROVE  PipelineType'
<1>1. ReconType'
  BY PassStays DEF PipelineType, ReconType
<1> QED BY <1>1 DEF PipelineType, StreamType

LEMMA ApiStep ==
  ASSUME PipelineType, Api
  PROVE  Keeps
<1>1. VenueOrdersType
  BY DEF PipelineType
<1>2. ASSUME UNCHANGED venueVars, BookMoves, UNCHANGED <<stream, lastUlid, cursor, pass>>
      PROVE  Keeps
  BY <1>1, <1>2, VenueOrdersStay, OnlyTheVenue DEF Keeps
<1>3. PICK o \in Orders :
        \/ PlaceOrder(o) \/ StartSubmit(o) \/ SubmitAnswered(o) \/ PostFails(o)
        \/ SubmitLookup(o) \/ SubmitLookupFails(o) \/ SubmitGivesUp(o) \/ SubmitCrashes(o)
        \/ GracePasses(o) \/ CancelOrder(o) \/ CancelAccepted(o) \/ CancelRefused(o) \/ CancelLost(o)
  BY DEF Api
<1>4. CASE PlaceOrder(o)
  BY <1>2, <1>4 DEF PlaceOrder, BookMoves, streamVars, venueVars
<1>5. CASE StartSubmit(o) \/ SubmitAnswered(o) \/ PostFails(o) \/ SubmitLookup(o)
             \/ SubmitLookupFails(o) \/ SubmitCrashes(o) \/ GracePasses(o)
  BY <1>2, <1>5 DEF StartSubmit, SubmitAnswered, PostFails, SubmitLookup, SubmitLookupFails,
        SubmitCrashes, GracePasses, SubmitTo, BookMoves, streamVars
<1>6. CASE SubmitGivesUp(o)
  BY <1>2, <1>6 DEF SubmitGivesUp, SubmitTo, BookMoves, streamVars, venueVars
<1>7. CASE CancelOrder(o)
  BY <1>2, <1>7 DEF CancelOrder, CancelTo, BookMoves, streamVars, venueVars
<1>8. CASE CancelRefused(o) \/ CancelLost(o)
  BY <1>2, <1>8 DEF CancelRefused, CancelLost, CancelTo, BookMoves, streamVars
<1>9. CASE CancelAccepted(o)
  <2>1. UNCHANGED <<stream, lastUlid, cursor, pass>> /\ UNCHANGED vars
    BY <1>9 DEF CancelAccepted, CancelTo, streamVars
  <2>2. BookMoves
    BY <2>1 DEF BookMoves
  <2>3. VenueKeepsEnds /\ VenueOrdersType'
    BY <1>1, <1>9, CancelAtVenue, VenueOrdersStay DEF CancelAccepted
  <2> QED BY <2>1, <2>2, <2>3, OnlyTheVenue DEF Keeps
<1> QED BY <1>3, <1>4, <1>5, <1>6, <1>7, <1>8, <1>9

LEMMA VenueMoves ==
  ASSUME PipelineType, Venue
  PROVE  Keeps
<1>1. VenueKeepsEnds /\ VenueOrdersType'
  BY VenueStep DEF PipelineType
<1>2. UNCHANGED vars /\ UNCHANGED <<stream, lastUlid, cursor, pass>>
  BY DEF Venue, VenueReceives, VenueAccepts, VenueRejects, VenueConfirmsCancel, VenueExpires,
         VenueFillsLot, Emit, streamVars
<1> QED BY <1>1, <1>2, OnlyTheVenue DEF Keeps, BookMoves

LEMMA WorkerStep ==
  ASSUME PathEnvelopes \subseteq Envelopes, PipelineType, Worker
  PROVE  Keeps
<1>1. VenueOrdersType /\ StreamType /\ ReconType
  BY DEF PipelineType
<1>2. UNCHANGED venueVars
  BY DEF Worker, Connect, Consume, SaveCursor, Disconnect, WorkerCrashes, StartIngestion, StreamStep
<1>3. VenueKeepsEnds /\ VenueOrdersType' /\ vstatus' = vstatus
  BY <1>1, <1>2, VenueOrdersStay DEF venueVars
<1>4. ReconType'
  <2>1. CASE WorkerCrashes
    <3>1. pass' = [p \in Passes |-> IF p = WorkerPass THEN Idle ELSE pass[p]]
      BY <2>1 DEF WorkerCrashes
    <3> QED BY <1>1, <1>3, <3>1, IdleIsOK DEF ReconType
  <2>2. CASE ~WorkerCrashes
    <3>1. pass' = pass
      BY <2>2 DEF Worker, Connect, Consume, SaveCursor, Disconnect, StartIngestion, StreamStep
    <3> QED BY <1>1, <1>3, <3>1 DEF ReconType
  <2> QED BY <2>1, <2>2
<1>5. StreamType'
  <2>1. Len(tape) \in Nat
    BY <1>1 DEF VenueOrdersType
  <2>2. CASE Connect
    <3> DEFINE n == IF lastUlid = Null THEN Len(tape) + 1 ELSE lastUlid + 1
    <3>1. n \in Nat \ {0}
      BY <1>1, <2>1 DEF StreamType
    <3>2. stream' = [next |-> n, due |-> FALSE] /\ lastUlid' = lastUlid /\ cursor' = cursor
      BY <2>2 DEF Connect, StreamStep
    <3> HIDE DEF n
    <3> QED BY <1>1, <3>1, <3>2 DEF StreamType, Stream
  <2>3. CASE Consume
    <3>1. /\ lastUlid' = lastUlid /\ cursor' = cursor /\ stream.next # Null
          /\ \/ stream' = [next |-> Null, due |-> FALSE]
             \/ stream' = [stream EXCEPT !.due = TRUE]
      BY <2>3 DEF Consume, StreamStep
    <3>2. stream \in Stream
      BY <1>1 DEF StreamType
    <3>3. CASE stream' = [next |-> Null, due |-> FALSE]
      BY <1>1, <3>1, <3>3 DEF StreamType, Stream
    <3>4. CASE stream' = [stream EXCEPT !.due = TRUE]
      <4>1. stream' = [next |-> stream.next, due |-> TRUE]
        BY <3>2, <3>4 DEF Stream
      <4> QED BY <1>1, <3>1, <3>2, <4>1 DEF StreamType, Stream
    <3> QED BY <3>1, <3>3, <3>4
  <2>4. CASE SaveCursor
    <3>1. stream.next \in Nat \ {0}
      BY <1>1, <2>4 DEF SaveCursor, StreamType, Stream
    <3>2. /\ stream' = [next |-> stream.next + 1, due |-> FALSE]
          /\ lastUlid' = stream.next /\ cursor' = stream.next
      BY <2>4 DEF SaveCursor, StreamStep
    <3> DEFINE n == stream.next
    <3>3. n \in Nat \ {0} /\ stream' = [next |-> n + 1, due |-> FALSE] /\ lastUlid' = n /\ cursor' = n
      BY <3>1, <3>2
    <3> HIDE DEF n
    <3>4. n + 1 \in Nat \ {0} /\ n \in Nat
      BY <3>3
    <3> QED BY <3>3, <3>4 DEF StreamType, Stream
  <2>5. CASE Disconnect \/ WorkerCrashes
    <3>1. /\ stream' = [next |-> Null, due |-> FALSE]
          /\ cursor' = cursor /\ lastUlid' \in {lastUlid, Null}
      BY <2>5 DEF Disconnect, WorkerCrashes, StreamStep
    <3> QED BY <1>1, <3>1 DEF StreamType, Stream
  <2>6. CASE StartIngestion
    <3>1. stream' = stream /\ cursor' = cursor /\ lastUlid' = cursor
      BY <2>6 DEF StartIngestion
    <3> QED BY <1>1, <3>1 DEF StreamType
  <2> QED BY <2>2, <2>3, <2>4, <2>5, <2>6 DEF Worker
<1>6. BookMoves
  <2>1. CASE Consume
    <3> DEFINE e == StreamEvent(stream.next)
    <3>1. stream.next \in 1..Len(tape)
      BY <1>1, <2>1 DEF Consume, StreamType, Stream, VenueOrdersType
    <3>2. e \in SoundEvents(vstatus)
      BY <1>1, <3>1, StreamEventIsSound
    <3>3. UNCHANGED vars \/ Deliver(e)
      BY <2>1 DEF Consume
    <3> HIDE DEF e
    <3> QED BY <1>3, <3>2, <3>3, DeliveryMoves DEF BookMoves
  <2>2. CASE ~Consume
    BY <2>2 DEF Worker, Connect, SaveCursor, Disconnect, WorkerCrashes, StartIngestion, BookMoves
  <2> QED BY <2>1, <2>2
<1> QED BY <1>3, <1>4, <1>5, <1>6 DEF Keeps, PipelineType

\* The list a pass starts from, and what is left of it.
LEMMA ListIsTyped ==
  ASSUME BookInv, IsFiniteSet(PlacedOrders), NEW list \in OpenLists
  PROVE  list \in Seq(Listings)
<1>1. IsFiniteSet(OpenOrders)
  <2>1. OpenOrders \subseteq PlacedOrders
    BY StatesDisjoint DEF OpenOrders, PlacedOrders, OrderStates
  <2> QED BY <2>1, FS_Subset
<1>2. Cardinality(OpenOrders) \in Nat
  BY <1>1, FS_CardinalityType
<1>3. PICK open \in SetToSeqs(OpenOrders) :
        list = [k \in 1..(IF Len(open) <= ListLimit THEN Len(open) ELSE ListLimit) |-> Listed(open[k])]
  BY DEF OpenLists
<1> DEFINE n == IF Len(open) <= ListLimit THEN Len(open) ELSE ListLimit
<1>4. open \in [1..Cardinality(OpenOrders) -> OpenOrders]
  BY <1>3 DEF SetToSeqs
<1>5. open \in Seq(OpenOrders)
  BY <1>2, <1>4
<1>6. n \in Nat /\ n <= Len(open) /\ Len(open) \in Nat
  BY <1>5, ExecutionAssumption
<1>7. \A k \in 1..n : open[k] \in OpenOrders
  BY <1>5, <1>6
<1>8. \A o \in OpenOrders : Listed(o) \in Listings
  BY DEF Listed, Listings, OpenOrders, OrderStates
<1> HIDE DEF n
<1>9. list = [k \in 1..n |-> Listed(open[k])]
  BY <1>3 DEF n
<1> QED BY <1>6, <1>7, <1>8, <1>9

LEMMA NextOrderIsOK ==
  ASSUME NEW todo \in Seq(Listings), NEW v
  PROVE  ReconOK(NextOrder(todo), v)
BY DEF NextOrder, ReconOK, Idle

LEMMA RestIsTyped ==
  ASSUME ReconType, NEW p \in Passes, pass[p].at # "idle"
  PROVE  /\ pass[p].todo \in Seq(Listings) /\ Tail(pass[p].todo) \in Seq(Listings)
         /\ Head(pass[p].todo).order \in Orders
<1>1. pass[p].todo \in Seq(Listings) /\ pass[p].todo # <<>>
  BY DEF ReconType, ReconOK
<1>2. Head(pass[p].todo) \in Listings /\ Tail(pass[p].todo) \in Seq(Listings)
  BY <1>1
<1> QED BY <1>1, <1>2 DEF Listings

LEMMA ReconcileStep ==
  ASSUME PathEnvelopes \subseteq Envelopes, PipelineInv, Reconcile
  PROVE  Keeps
<1>1. VenueOrdersType /\ StreamType /\ ReconType /\ BookInv /\ IsFiniteSet(PlacedOrders)
  BY DEF PipelineInv, PipelineType, CoverInv
<1>2. PICK p \in Passes : \/ StartPass(p) \/ ReadOrder(p) \/ ReadFills(p) \/ Replay(p)
                          \/ ResendCancel(p) \/ FinishOrder(p) \/ PassFails(p)
  BY DEF Reconcile
<1>3. StreamType'
  <2>1. UNCHANGED <<stream, lastUlid, cursor>>
    BY <1>2 DEF StartPass, ReadOrder, ReadFills, Replay, ResendCancel, FinishOrder, PassFails, PassStep,
                streamVars
  <2> QED BY <1>1, <2>1 DEF StreamType
\* A move that leaves the venue alone.
<1>4. ASSUME NEW s, ReconOK(s, vstatus), PassStep(p, s), BookMoves, UNCHANGED venueVars
      PROVE  Keeps
  <2>1. VenueKeepsEnds /\ VenueOrdersType'
    BY <1>1, <1>4, VenueOrdersStay
  <2>2. ReconType'
    BY <1>1, <1>4, <2>1, ReconMoves DEF PassStep
  <2> QED BY <1>3, <1>4, <2>1, <2>2 DEF Keeps, PipelineType
<1>5. CASE StartPass(p)
  <2>1. PICK list \in OpenLists : PassStep(p, NextOrder(list))
    BY <1>5 DEF StartPass
  <2>2. ReconOK(NextOrder(list), vstatus)
    BY <1>1, ListIsTyped, NextOrderIsOK
  <2> QED BY <1>4, <1>5, <2>1, <2>2 DEF StartPass, BookMoves
<1>6. CASE ReadOrder(p)
  <2> DEFINE o == Head(pass[p].todo).order
             With(at, events) == [at |-> at, todo |-> pass[p].todo, status |-> vstatus[o], events |-> events]
             s == IF vstatus[o] = "none"
                    THEN IF GraceOver(Head(pass[p].todo)) THEN With("apply", <<SubmitFailedEvent(o)>>)
                                                          ELSE NextOrder(Tail(pass[p].todo))
                  ELSE IF VenueFills(o) # <<>> THEN With("fills", <<>>)
                  ELSE With("apply", SnapshotEvents(o, vstatus[o], <<>>))
  <2>1. /\ pass[p].at = "order" /\ PassStep(p, s) /\ UNCHANGED vars /\ UNCHANGED venueVars
    BY <1>6 DEF ReadOrder
  <2>2. /\ pass[p].todo \in Seq(Listings) /\ pass[p].todo # <<>> /\ o \in Orders
        /\ ReconOK(NextOrder(Tail(pass[p].todo)), vstatus)
    BY <1>1, <2>1, RestIsTyped, NextOrderIsOK DEF ReconType, ReconOK
  <2>3. vstatus[o] \in VenueStatuses
    BY <1>1, <2>2 DEF VenueOrdersType
  <2>4. ASSUME vstatus[o] # "none" PROVE SnapshotEvents(o, vstatus[o], <<>>) \in Seq(SoundEvents(vstatus))
    <3>1. <<>> \in Seq({x \in Executions : OrderOf[x] = o})
      OBVIOUS
    <3> HIDE DEF o
    <3> QED BY <2>2, <2>3, <2>4, <3>1, SnapshotIsSound
  <2>5. <<SubmitFailedEvent(o)>> \in Seq(SoundEvents(vstatus))
    BY <2>2, SubmitFailedIsSound
  <2>6. ReconOK(s, vstatus)
    <3>1. \A events \in Seq(SoundEvents(vstatus)) : ReconOK(With("apply", events), vstatus)
      BY <2>2 DEF ReconOK
    <3>2. vstatus[o] # "none" => ReconOK(With("fills", <<>>), vstatus)
      BY <2>2, <2>3 DEF ReconOK
    <3> HIDE DEF With, o
    <3> QED BY <2>2, <2>4, <2>5, <3>1, <3>2
  <2> HIDE DEF s
  <2> QED BY <1>4, <2>1, <2>6 DEF BookMoves
<1>7. CASE ReadFills(p)
  <2> DEFINE o == Head(pass[p].todo).order
             events == SnapshotEvents(o, pass[p].status, VenueFills(o))
             s == [pass[p] EXCEPT !.at = "apply", !.events = events]
  <2>1. /\ pass[p].at = "fills" /\ PassStep(p, s) /\ UNCHANGED vars /\ UNCHANGED venueVars
    BY <1>7 DEF ReadFills
  <2>2. /\ pass[p].todo \in Seq(Listings) /\ pass[p].todo # <<>> /\ o \in Orders
        /\ pass[p].status \in VenueStatuses \ {"none"}
        /\ pass[p].status \in VenueDone => vstatus[o] = pass[p].status
    BY <1>1, <2>1, RestIsTyped DEF ReconType, ReconOK
  <2>3. VenueFills(o) \in Seq({x \in Executions : OrderOf[x] = o})
    BY <1>1, <2>2 DEF VenueOrdersType, VenueFills
  <2>4. events \in Seq(SoundEvents(vstatus))
    <3> HIDE DEF o
    <3> QED BY <2>2, <2>3, SnapshotIsSound
  <2> HIDE DEF events
  <2>5. ReconOK(s, vstatus)
    BY <2>2, <2>4 DEF ReconOK
  <2> HIDE DEF s
  <2> QED BY <1>4, <2>1, <2>5 DEF BookMoves
<1>8. CASE Replay(p)
  <2> DEFINE e == Head(pass[p].events)
             s == [pass[p] EXCEPT !.events = Tail(@)]
  <2>1. /\ pass[p].at = "apply" /\ pass[p].events # <<>> /\ UNCHANGED venueVars
        /\ \/ PassStep(p, s) /\ UNCHANGED vars
           \/ PassStep(p, Idle) /\ UNCHANGED vars
           \/ PassStep(p, s) /\ Deliver(e)
    BY <1>8 DEF Replay
  <2>2. /\ pass[p].todo \in Seq(Listings) /\ pass[p].todo # <<>>
        /\ pass[p].events \in Seq(SoundEvents(vstatus))
    BY <1>1, <2>1 DEF ReconType, ReconOK
  <2>3. e \in SoundEvents(vstatus) /\ Tail(pass[p].events) \in Seq(SoundEvents(vstatus))
    BY <2>1, <2>2
  <2>4. ReconOK(s, vstatus)
    BY <2>1, <2>2, <2>3 DEF ReconOK
  <2>5. vstatus' = vstatus
    BY <2>1 DEF venueVars
  <2> HIDE DEF s, e
  <2>6. BookMoves
    BY <2>1, <2>3, <2>5, DeliveryMoves DEF BookMoves
  <2> QED BY <1>4, <2>1, <2>4, <2>6, IdleIsOK
<1>9. CASE ResendCancel(p)
  <2> DEFINE o == Head(pass[p].todo).order
             s == NextOrder(Tail(pass[p].todo))
  <2>1. /\ pass[p].at = "apply" /\ UNCHANGED vars /\ PassStep(p, s)
        /\ VenueCancels(o) \/ UNCHANGED venueVars
    BY <1>9 DEF ResendCancel, Replayed
  <2>2. o \in Orders /\ ReconOK(s, vstatus)
    BY <1>1, <2>1, RestIsTyped, NextOrderIsOK
  <2> HIDE DEF o, s
  <2>3. VenueKeepsEnds /\ VenueOrdersType'
    BY <1>1, <2>1, <2>2, CancelAtVenue, VenueOrdersStay
  <2>4. ReconType'
    BY <1>1, <2>1, <2>2, <2>3, ReconMoves DEF PassStep
  <2> QED BY <1>3, <2>1, <2>3, <2>4 DEF Keeps, BookMoves, PipelineType
<1>10. CASE FinishOrder(p)
  <2>1. /\ pass[p].at = "apply" /\ UNCHANGED vars /\ UNCHANGED venueVars
        /\ PassStep(p, NextOrder(Tail(pass[p].todo)))
    BY <1>10 DEF FinishOrder, Replayed
  <2>2. ReconOK(NextOrder(Tail(pass[p].todo)), vstatus)
    BY <1>1, <2>1, RestIsTyped, NextOrderIsOK
  <2> QED BY <1>4, <2>1, <2>2 DEF BookMoves
<1>11. CASE PassFails(p)
  BY <1>4, <1>11, IdleIsOK DEF PassFails, BookMoves
<1> QED BY <1>2, <1>5, <1>6, <1>7, <1>8, <1>9, <1>10, <1>11

--------------------------------------------------------------------------------
(* The pipeline implements the book.                                           *)

LEMMA MovesAreBookSteps ==
  ASSUME BookMoves
  PROVE  UNCHANGED vars \/ Next
<1>1. ASSUME NEW e \in SoundEvents(vstatus), Applied(e) PROVE Next
  <2>1. CASE IsFill(e)
    <3>1. e \in FillEvents
      BY <2>1 DEF SoundEvents, BrokerEvents, StatusEvents, IsFill, StatusTypes, FillTypes, Unknown
    <3> QED BY <1>1, <2>1, <3>1 DEF Applied, Next
  <2>2. CASE ~IsFill(e)
    <3>1. e \in StatusEvents
      BY <2>2 DEF SoundEvents, BrokerEvents, FillEvents, IsFill
    <3> QED BY <1>1, <2>2, <3>1 DEF Applied, Next
  <2> QED BY <2>1, <2>2
<1> QED BY <1>1 DEF BookMoves, Next

LEMMA PipelineKinds ==
  ASSUME PathEnvelopes \subseteq Envelopes, PipelineInv, [ExecNext]_execVars
  PROVE  Keeps
<1>1. PipelineType
  BY DEF PipelineInv
<1>2. CASE UNCHANGED execVars
  <2>1. UNCHANGED vars /\ UNCHANGED venueVars /\ UNCHANGED <<stream, lastUlid, cursor, pass>>
    BY <1>2 DEF execVars, pipelineVars, venueVars
  <2>2. VenueKeepsEnds /\ VenueOrdersType'
    BY <1>1, <2>1, VenueOrdersStay DEF PipelineType
  <2> QED BY <1>1, <2>1, <2>2, OnlyTheVenue DEF Keeps, BookMoves
<1> QED BY <1>1, <1>2, ApiStep, VenueMoves, WorkerStep, ReconcileStep DEF ExecNext

LEMMA InitPipeline == ExecInit => PipelineInv
<1> SUFFICES ASSUME ExecInit PROVE PipelineInv
  OBVIOUS
<1>1. CoverInv
  BY InitCover DEF ExecInit
<1>2. VenueOrdersType
  BY DEF ExecInit, VenueOrdersType, VenueStatuses
<1>3. StreamType
  BY ExecutionAssumption DEF ExecInit, StreamType, Stream
<1>4. ReconType
  BY IdleIsOK DEF ExecInit, ReconType
<1> QED BY <1>1, <1>2, <1>3, <1>4 DEF PipelineInv, PipelineType

LEMMA NextPipeline ==
  ASSUME PathEnvelopes \subseteq Envelopes, PipelineInv, [ExecNext]_execVars
  PROVE  PipelineInv' /\ [Next]_vars
<1>1. Keeps
  BY PipelineKinds
<1>2. [Next]_vars
  BY <1>1, MovesAreBookSteps DEF Keeps
<1>3. CoverInv'
  BY <1>2, NextCover DEF PipelineInv
<1> QED BY <1>1, <1>2, <1>3 DEF Keeps, PipelineInv

\* What the pipeline holds is well typed, and the venue's own history bears out
\* every event it holds, for any number of passes and whatever is lost.
THEOREM PipelineInvariant ==
  ASSUME PathEnvelopes \subseteq Envelopes
  PROVE  ExecSpec => []PipelineInv
<1>1. PipelineInv /\ [ExecNext]_execVars => PipelineInv'
  BY NextPipeline
<1> QED BY <1>1, InitPipeline, PTL DEF ExecSpec

\* Whatever submits, cancels, stream and passes do, the book sees only its own
\* transactions.
THEOREM PipelineImplementsBook ==
  ASSUME PathEnvelopes \subseteq Envelopes
  PROVE  ExecSpec => ImplementsBook
<1>1. ExecInit => Init
  BY DEF ExecInit
<1>2. PipelineInv /\ [ExecNext]_execVars => [UNCHANGED vars \/ Next]_vars
  BY NextPipeline
<1> QED BY <1>1, <1>2, PipelineInvariant, PTL DEF ExecSpec, ImplementsBook

\* What is open stays covered, and every execution counts once, whatever the
\* network loses.
THEOREM PipelineKeepsBooks ==
  ASSUME PathEnvelopes \subseteq Envelopes
  PROVE  ExecSpec => [](OpenOrdersAreCovered /\ FillsAddUp /\ ReservationsDerived)
<1>1. PipelineInv => OpenOrdersAreCovered /\ FillsAddUp /\ ReservationsDerived
  BY CoverHolds DEF PipelineInv, CoverInv, BookInv, FillsAddUp
<1> QED BY <1>1, PipelineInvariant, PTL

--------------------------------------------------------------------------------
(* The venue decides.                                                          *)

\* A terminal state other than SUBMIT_FAILED comes from an event that claims it.
LEMMA ClaimedOutcomes ==
  ASSUME NEW t \in EventTypes, t # Unknown, EventTarget[t] \in DOMAIN VenueOutcome
  PROVE  t \in DOMAIN Claims /\ VenueOutcome[EventTarget[t]] = Claims[t]
BY DEF EventTypes, FillTypes, StatusTypes, Unknown, EventTarget, VenueOutcome, Claims

LEMMA OutcomeIsClaimed ==
  ASSUME BookInv, NEW o \in Orders, NEW t \in EventTypes, NEW n, state[o] \in OrderStates,
         Transition(o, t, n), NEW p \in Orders, state'[p] \in DOMAIN VenueOutcome
  PROVE  \/ state'[p] = state[p]
         \/ p = o /\ t \in DOMAIN Claims /\ VenueOutcome[state'[p]] = Claims[t]
<1>1. state' = [state EXCEPT ![o] = FinalState(state[o], t)] /\ Plannable(state[o], t)
  BY DEF Transition, Allowed
<1>2. state \in [Orders -> OrderStates \cup {Absent}]
  BY DEF BookInv, TypeOK
<1>3. CASE p # o
  BY <1>1, <1>2, <1>3
<1>4. CASE p = o
  <2>1. state'[p] = FinalState(state[o], t)
    BY <1>1, <1>2, <1>4
  <2>2. \/ FinalState(state[o], t) = state[o]
        \/ t # Unknown /\ FinalState(state[o], t) = EventTarget[t]
    BY <1>1, FinalStateValue
  <2> QED BY <1>4, <2>1, <2>2, ClaimedOutcomes
<1> QED BY <1>3, <1>4

LEMMA MovesFollowVenue ==
  ASSUME BookInv, BookMoves, NEW p \in Orders, state'[p] \in DOMAIN VenueOutcome
  PROVE  \/ state'[p] = state[p]
         \/ vstatus' = vstatus /\ vstatus[p] \in VenueOutcome[state'[p]]
<1>1. \A o \in Orders : state[o] # Absent => state[o] \in OrderStates
  BY DEF BookInv, TypeOK
<1>2. CASE UNCHANGED vars
  BY <1>2 DEF vars
<1>3. ASSUME NEW o \in Orders, Place(o) PROVE state'[p] = state[p]
  <2>1. state' = [state EXCEPT ![o] = "PENDING_SUBMISSION"] /\ state \in [Orders -> OrderStates \cup {Absent}]
    BY <1>3 DEF Place, BookInv, TypeOK
  <2> QED BY <2>1 DEF VenueOutcome
<1>4. ASSUME NEW o \in Orders, RequestCancel(o) \/ FailSubmission(o) PROVE state'[p] = state[p]
  <2>1. PICK t \in {"ORDER_CANCEL_PENDING", "ORDER_SUBMIT_FAILED"} :
          state[o] # Absent /\ (Flag(o) \/ Transition(o, t, filled[o]))
    BY <1>4, StatesDisjoint DEF RequestCancel, FailSubmission, OrderStates
  <2>2. t \in EventTypes /\ t \notin DOMAIN Claims
    BY DEF EventTypes, StatusTypes, Claims
  <2> QED BY <1>1, <2>1, <2>2, OutcomeIsClaimed DEF Flag
<1>5. ASSUME NEW e \in SoundEvents(vstatus), Applied(e)
      PROVE  state'[p] = state[p] \/ vstatus[p] \in VenueOutcome[state'[p]]
  <2> DEFINE o == Subject(e)
  <2>1. o \in Orders /\ e.type \in EventTypes
    BY BookAssumption DEF SoundEvents, BrokerEvents, StatusEvents, FillEvents, Subject, IsFill, EventTypes,
          StatusTypes, FillTypes, Unknown
  <2>2. PICK n : state[o] # Absent /\ (Flag(o) \/ Transition(o, e.type, n))
    BY <1>5 DEF Applied, ApplyFill, ApplyStatus, Subject
  <2>3. e.type \in DOMAIN Claims => vstatus[o] \in Claims[e.type]
    BY DEF SoundEvents
  <2> HIDE DEF o
  <2>4. CASE Flag(o)
    BY <2>4 DEF Flag
  <2>5. CASE Transition(o, e.type, n)
    BY <1>1, <2>1, <2>2, <2>3, <2>5, OutcomeIsClaimed
  <2> QED BY <2>2, <2>4, <2>5
<1> QED BY <1>2, <1>3, <1>4, <1>5 DEF BookMoves

\* An order ends locally only as the venue ended it, whichever of stream and
\* passes brought the news.
THEOREM VenueHasTheLastWord ==
  ASSUME PathEnvelopes \subseteq Envelopes
  PROVE  ExecSpec => []VenueDecides
<1>1. ExecInit => VenueDecides
  BY DEF ExecInit, Init, VenueDecides, VenueOutcome, Absent
<1>2. PipelineInv /\ VenueDecides /\ [ExecNext]_execVars => VenueDecides'
  <2> SUFFICES ASSUME PipelineInv, VenueDecides, [ExecNext]_execVars, NEW o \in Orders,
                      state'[o] \in DOMAIN VenueOutcome
               PROVE  vstatus'[o] \in VenueOutcome[state'[o]]
    BY DEF VenueDecides
  <2>1. BookInv /\ BookMoves /\ VenueKeepsEnds
    BY PipelineKinds DEF PipelineInv, CoverInv, Keeps
  <2>2. CASE state'[o] = state[o]
    <3>1. vstatus[o] \in VenueOutcome[state[o]] /\ vstatus[o] \in VenueDone
      BY <2>2 DEF VenueDecides, VenueOutcome, VenueDone
    <3> QED BY <2>1, <2>2, <3>1 DEF VenueKeepsEnds
  <2> QED BY <2>1, <2>2, MovesFollowVenue
<1> QED BY <1>1, <1>2, PipelineInvariant, PTL DEF ExecSpec

--------------------------------------------------------------------------------
(* The cursor.                                                                 *)

\* While a cursor exists, the stream reads on from it, and what is before the
\* stream's position was applied.
CursorInv ==
  InitialCursor # Null =>
    /\ cursor \in Nat
    /\ worker = "up" => lastUlid = cursor
    /\ stream.next # Null => worker = "up" /\ stream.next = cursor + 1
    /\ \A n \in Nat \ {0} :
         n <= cursor \/ (stream.due /\ n = stream.next) => n <= Len(tape) /\ Consumed(n)

\* The book forgets no event, and the tape no entry.
BooksRemember == seen \subseteq seen' /\ fills \subseteq fills'
TapeGrows == Len(tape) <= Len(tape') /\ \A n \in 1..Len(tape) : tape'[n] = tape[n]

LEMMA MovesRemember ==
  ASSUME BookMoves
  PROVE  BooksRemember
<1>1. ASSUME NEW o \in Orders, Place(o) \/ RequestCancel(o) \/ FailSubmission(o) PROVE BooksRemember
  BY <1>1 DEF Place, RequestCancel, FailSubmission, BooksRemember
<1>2. ASSUME NEW e, Applied(e) PROVE BooksRemember
  BY <1>2 DEF Applied, ApplyFill, ApplyStatus, Record, Book, BooksRemember
<1>3. CASE UNCHANGED vars
  BY <1>3 DEF vars, BooksRemember
<1> QED BY <1>1, <1>2, <1>3 DEF BookMoves

LEMMA ConsumedStays ==
  ASSUME BooksRemember, TapeGrows, NEW n \in 1..Len(tape), Consumed(n)
  PROVE  Consumed(n)'
<1>1. tape'[n] = tape[n]
  BY DEF TapeGrows
<1>2. StreamEvent(n)' = StreamEvent(n)
  BY <1>1 DEF StreamEvent
<1> QED BY <1>2 DEF Consumed, BooksRemember, IsFill

LEMMA TapeOnlyGrows ==
  ASSUME PipelineType, [ExecNext]_execVars
  PROVE  TapeGrows
<1>1. tape \in Seq(SoundEntries)
  BY DEF PipelineType, VenueOrdersType
<1>2. tape' = tape \/ \E r : tape' = Append(tape, r)
  <2>1. ASSUME NEW o \in Orders, VenueCancels(o) PROVE \E r : tape' = Append(tape, r)
    BY <2>1 DEF VenueCancels
  <2>2. CASE Api
    <3>1. UNCHANGED venueVars \/ \E o \in Orders : VenueCancels(o)
      BY <2>2 DEF Api, PlaceOrder, StartSubmit, SubmitAnswered, PostFails, SubmitLookup, SubmitLookupFails,
                  SubmitGivesUp, SubmitCrashes, GracePasses, CancelOrder, CancelAccepted, CancelRefused,
                  CancelLost, SubmitTo
    <3> QED BY <2>1, <3>1 DEF venueVars
  <2>3. CASE Venue
    <3>1. \E o, s, r : Emit(o, s, r)
      BY <2>3 DEF Venue, VenueReceives, VenueAccepts, VenueRejects, VenueConfirmsCancel, VenueExpires,
                  VenueFillsLot
    <3> QED BY <3>1 DEF Emit
  <2>4. CASE Worker
    BY <2>4 DEF Worker, Connect, Consume, SaveCursor, Disconnect, WorkerCrashes, StartIngestion, StreamStep,
                venueVars
  <2>5. CASE Reconcile
    <3>1. PICK p \in Passes : \/ StartPass(p) \/ ReadOrder(p) \/ ReadFills(p) \/ Replay(p)
                              \/ ResendCancel(p) \/ FinishOrder(p) \/ PassFails(p)
      BY <2>5 DEF Reconcile
    <3>2. CASE ResendCancel(p)
      BY <3>2 DEF ResendCancel, VenueCancels, venueVars
    <3>3. CASE ~ResendCancel(p)
      BY <3>1, <3>3 DEF StartPass, ReadOrder, ReadFills, Replay, FinishOrder, PassFails, venueVars
    <3> QED BY <3>2, <3>3
  <2>6. CASE UNCHANGED execVars
    BY <2>6 DEF execVars, pipelineVars
  <2> QED BY <2>2, <2>3, <2>4, <2>5, <2>6 DEF ExecNext
<1>3. CASE tape' = tape
  BY <1>1, <1>3 DEF TapeGrows
<1>4. ASSUME NEW r, tape' = Append(tape, r) PROVE TapeGrows
  BY <1>1, <1>4 DEF TapeGrows
<1> QED BY <1>2, <1>3, <1>4

LEMMA NextCursor ==
  ASSUME PathEnvelopes \subseteq Envelopes, PipelineInv, CursorInv, [ExecNext]_execVars
  PROVE  CursorInv'
<1> SUFFICES ASSUME InitialCursor # Null PROVE CursorInv'
  BY DEF CursorInv
<1> DEFINE Read(n) == n <= cursor \/ (stream.due /\ n = stream.next)
<1>1. /\ cursor \in Nat /\ (worker = "up" => lastUlid = cursor)
      /\ stream.next # Null => worker = "up" /\ stream.next = cursor + 1
      /\ \A n \in Nat \ {0} : Read(n) => n <= Len(tape) /\ Consumed(n)
  BY DEF CursorInv
<1>2. TapeGrows /\ BooksRemember /\ PipelineType /\ Null \notin Nat
  BY TapeOnlyGrows, PipelineKinds, MovesRemember, ExecutionAssumption DEF PipelineInv, Keeps
<1>3. /\ Len(tape) \in Nat /\ Len(tape') \in Nat /\ Len(tape) <= Len(tape')
      /\ stream \in Stream /\ (stream.due => stream.next # Null)
  <2>1. VenueOrdersType /\ VenueOrdersType'
    BY <1>2, NextPipeline DEF PipelineType, PipelineInv
  <2> QED BY <1>2, <2>1 DEF PipelineType, StreamType, TapeGrows, VenueOrdersType
<1>4. \A n \in Nat \ {0} : Read(n) => n <= Len(tape') /\ Consumed(n)'
  <2> SUFFICES ASSUME NEW n \in Nat \ {0}, Read(n) PROVE n <= Len(tape') /\ Consumed(n)'
    OBVIOUS
  <2>1. n <= Len(tape) /\ Consumed(n)
    BY <1>1
  <2>2. n \in 1..Len(tape)
    BY <1>3, <2>1
  <2> QED BY <1>2, <1>3, <2>1, <2>2, ConsumedStays
\* What is read after the step was read before it, or is read now.
<1>5. ASSUME cursor' \in Nat, worker' = "up" => lastUlid' = cursor',
             stream'.next # Null => worker' = "up" /\ stream'.next = cursor' + 1,
             \A n \in Nat \ {0} : Read(n)' => Read(n) \/ (n <= Len(tape') /\ Consumed(n)')
      PROVE  CursorInv'
  <2>1. \A n \in Nat \ {0} : Read(n)' => n <= Len(tape') /\ Consumed(n)'
    BY <1>4, <1>5
  <2> QED BY <1>5, <2>1 DEF CursorInv
<1>6. CASE UNCHANGED <<stream, lastUlid, cursor>> /\ (worker' = "up" <=> worker = "up")
  BY <1>1, <1>5, <1>6
<1>7. CASE Connect
  <2>1. /\ worker = "up" /\ lastUlid' = lastUlid /\ cursor' = cursor /\ worker' = worker
        /\ stream' = [next |-> IF lastUlid = Null THEN Len(tape) + 1 ELSE lastUlid + 1, due |-> FALSE]
    BY <1>7 DEF Connect, StreamStep
  <2>2. stream' = [next |-> cursor + 1, due |-> FALSE]
    BY <1>1, <1>2, <2>1
  <2> QED BY <1>1, <1>5, <2>1, <2>2
<1>8. CASE Consume
  <2> DEFINE e == StreamEvent(stream.next)
  <2>1. /\ lastUlid' = lastUlid /\ cursor' = cursor /\ worker' = worker /\ tape' = tape
        /\ stream.next # Null /\ ~stream.due /\ stream.next <= Len(tape)
        /\ \/ stream' = [next |-> Null, due |-> FALSE]
           \/ stream' = [stream EXCEPT !.due = TRUE] /\ Deliver(e)
    BY <1>8 DEF Consume, StreamStep, venueVars
  <2>2. CASE stream' = [next |-> Null, due |-> FALSE]
    BY <1>1, <1>5, <2>1, <2>2
  <2>3. CASE stream' = [stream EXCEPT !.due = TRUE] /\ Deliver(e)
    <3>1. stream'.next = stream.next /\ stream'.due
      BY <1>3, <2>3 DEF Stream
    <3>2. ASSUME NEW n \in Nat \ {0}, n = stream.next PROVE n <= Len(tape') /\ Consumed(n)'
      <4>1. StreamEvent(n)' = StreamEvent(n) /\ e = StreamEvent(n)
        BY <2>1, <3>2 DEF StreamEvent
      <4>2. e.envelope \in seen' \/ (IsFill(e) /\ e.exec \in fills')
        BY <1>2, <2>3 DEF Deliver, Duplicate, Applied, ApplyFill, ApplyStatus, Record, BooksRemember
      <4> HIDE DEF e
      <4>3. Consumed(n)'
        BY <4>1, <4>2 DEF Consumed, IsFill
      <4> QED BY <2>1, <3>2, <4>3
    <3> HIDE DEF e
    <3> QED BY <1>1, <1>5, <2>1, <3>1, <3>2
  <2> QED BY <2>1, <2>2, <2>3
<1>9. CASE SaveCursor
  <2>1. /\ stream.due /\ worker' = worker /\ cursor' = stream.next /\ lastUlid' = stream.next
        /\ stream' = [next |-> stream.next + 1, due |-> FALSE]
    BY <1>9 DEF SaveCursor, StreamStep
  <2>2. worker = "up" /\ stream.next = cursor + 1
    BY <1>1, <1>3, <2>1
  <2>3. /\ cursor' = cursor + 1 /\ lastUlid' = cursor + 1 /\ worker' = "up"
        /\ stream' = [next |-> cursor + 2, due |-> FALSE]
    BY <1>1, <2>1, <2>2
  <2>4. \A n \in Nat \ {0} : Read(n)' => Read(n)
    BY <1>1, <2>1, <2>2, <2>3
  <2>5. cursor' \in Nat /\ stream'.next = cursor' + 1
    BY <1>1, <2>3
  <2> QED BY <1>5, <2>3, <2>4, <2>5
<1>10. CASE Disconnect \/ WorkerCrashes
  <2>1. /\ stream' = [next |-> Null, due |-> FALSE] /\ cursor' = cursor
        /\ worker' = "down" \/ (worker' = worker /\ lastUlid' = lastUlid)
    BY <1>10 DEF Disconnect, WorkerCrashes, StreamStep
  <2> QED BY <1>1, <1>5, <2>1
<1>11. CASE StartIngestion
  <2>1. stream' = stream /\ cursor' = cursor /\ lastUlid' = cursor /\ worker' = "up" /\ worker # "up"
    BY <1>11 DEF StartIngestion
  <2> QED BY <1>1, <1>5, <2>1
<1>12. Api \/ Venue \/ Reconcile \/ UNCHANGED execVars =>
         UNCHANGED <<stream, lastUlid, cursor>> /\ (worker' = "up" <=> worker = "up")
  <2>1. CASE Api
    <3>1. UNCHANGED streamVars /\ worker' = worker
      BY <2>1 DEF Api, PlaceOrder, StartSubmit, SubmitAnswered, PostFails, SubmitLookup, SubmitLookupFails,
                  SubmitGivesUp, SubmitCrashes, GracePasses, CancelOrder, CancelAccepted, CancelRefused,
                  CancelLost, SubmitTo, CancelTo
    <3> QED BY <3>1 DEF streamVars
  <2>2. CASE Venue
    BY <2>2 DEF Venue, VenueReceives, VenueAccepts, VenueRejects, VenueConfirmsCancel, VenueExpires,
                VenueFillsLot, Emit, streamVars
  <2>3. CASE Reconcile
    <3>1. PICK p \in Passes : \/ StartPass(p) \/ ReadOrder(p) \/ ReadFills(p) \/ Replay(p)
                              \/ ResendCancel(p) \/ FinishOrder(p) \/ PassFails(p)
      BY <2>3 DEF Reconcile
    <3>2. UNCHANGED streamVars
      BY <3>1 DEF StartPass, ReadOrder, ReadFills, Replay, ResendCancel, FinishOrder, PassFails, PassStep
    <3>3. worker' = "up" <=> worker = "up"
      BY <3>1 DEF StartPass, ReadOrder, ReadFills, Replay, ResendCancel, FinishOrder, PassFails
    <3> QED BY <3>2, <3>3 DEF streamVars
  <2>4. CASE UNCHANGED execVars
    BY <2>4 DEF execVars, pipelineVars
  <2> QED BY <2>1, <2>2, <2>3, <2>4
<1> QED BY <1>6, <1>7, <1>8, <1>9, <1>10, <1>11, <1>12 DEF ExecNext, Worker

LEMMA CursorIsKept ==
  ASSUME PathEnvelopes \subseteq Envelopes
  PROVE  ExecSpec => []CursorInv
<1>1. ExecInit => CursorInv
  <2> SUFFICES ASSUME ExecInit, InitialCursor # Null PROVE CursorInv
    BY DEF CursorInv
  <2>1. cursor = 0 /\ lastUlid = 0 /\ stream = [next |-> Null, due |-> FALSE]
    BY ExecutionAssumption DEF ExecInit
  <2> QED BY <2>1 DEF CursorInv
<1>2. PipelineInv /\ CursorInv /\ [ExecNext]_execVars => CursorInv'
  BY NextCursor
<1> QED BY <1>1, <1>2, PipelineInvariant, PTL DEF ExecSpec

\* No crash, reconnection or exception makes the stored cursor pass an event
\* that was not applied.
THEOREM CursorSkipsNothing ==
  ASSUME PathEnvelopes \subseteq Envelopes
  PROVE  ExecSpec => []CursorNeverSkips
<1>1. CursorInv => CursorNeverSkips
  BY DEF CursorInv, CursorNeverSkips
<1> QED BY <1>1, CursorIsKept, PTL

--------------------------------------------------------------------------------
(* Completeness.  With a cursor, the news of an order's end, whichever path    *)
(* brings it, comes after all of the order's executions: on the tape because   *)
(* the venue emits nothing after an end and the stream skips nothing, in a     *)
(* pass because the executions are read after the status and replayed before.  *)

EndTypes == {"ORDER_CANCELLED", "ORDER_REJECTED", "ORDER_EXPIRED"}

\* The executions the venue shows for an order.
Shown(o) == Range(activities[o])

Visible(x) == x \in Shown(OrderOf[x])

TapeInv ==
  /\ \A o \in Orders :
       /\ IsFiniteSet(Shown(o)) /\ Cardinality(Shown(o)) = Len(activities[o])
       /\ Len(activities[o]) <= Qty[o]
  /\ \A x \in Executions : (\E n \in 1..Len(tape) : IsExecution(tape[n]) /\ tape[n].exec = x) => Visible(x)
  /\ \A x \in Executions : Visible(x) => \E n \in 1..Len(tape) : IsExecution(tape[n]) /\ tape[n].exec = x
  /\ \A m, n \in 1..Len(tape) :
       tape[n].event \in OrderEnds /\ IsExecution(tape[m]) /\ tape[m].order = tape[n].order => m < n

\* An envelope that names an execution is recorded only with the execution.
BookTrace ==
  /\ \A x \in fills : Visible(x)
  /\ \A x \in Executions : <<"recon", x>> \in seen => x \in fills
  /\ \A n \in Nat : <<"ulid", n>> \in seen =>
       n \in 1..Len(tape) /\ (IsExecution(tape[n]) => tape[n].exec \in fills)

FillEnvelopes == {<<"recon", x>> : x \in Executions} \cup {<<"ulid", n>> : n \in Nat}

\* What a pass may still replay.
TracedEvents(events) ==
  \A k \in 1..Len(events) :
    LET e == events[k] IN
    /\ IsFill(e) => e.envelope = <<"recon", e.exec>> /\ \A x \in Executions : e.exec = x => Visible(x)
    /\ ~IsFill(e) => e.envelope \notin FillEnvelopes
    /\ \A o \in Orders : e.type \in EndTypes /\ e.order = o => \A x \in Shown(o) :
         x \in fills \/ \E j \in 1..(k - 1) : IsFill(events[j]) /\ events[j].exec = x

PassTrace == \A p \in Passes : pass[p].at = "apply" => TracedEvents(pass[p].events)

EndsComplete == \A o \in Orders : state[o] \in DOMAIN VenueOutcome => Shown(o) \subseteq fills

FillsCounted == \A o \in Orders : filled[o] = Cardinality(BookedFor(o)) \/ state[o] = "SUBMIT_FAILED"

TraceInv == InitialCursor # Null => TapeInv /\ BookTrace /\ PassTrace /\ EndsComplete /\ FillsCounted

\* How the venue's history grows.
VenueGrows ==
  \/ UNCHANGED venueVars
  \/ /\ UNCHANGED vars
     /\ \/ \E r \in Reports :
             vstatus[r.order] \notin VenueDone /\ tape' = Append(tape, r) /\ activities' = activities
        \/ \E r \in ExecutionReports :
             /\ vstatus[r.order] \notin VenueDone /\ r.exec \notin Shown(r.order)
             /\ Len(activities[r.order]) + 1 <= Qty[r.order]
             /\ tape' = Append(tape, r)
             /\ activities' = [activities EXCEPT ![r.order] = Append(@, r.exec)]

\* No execution disappears, and none is added to an order that ended.
ShownGrows ==
  \A o \in Orders : /\ Shown(o) \subseteq Shown(o)'
                    /\ vstatus[o] \in VenueDone => Shown(o)' = Shown(o)

LEMMA AppendRange ==
  ASSUME NEW S, NEW s \in Seq(S), NEW x \in S
  PROVE  Range(Append(s, x)) = Range(s) \cup {x}
<1>1. Append(s, x) \in Seq(S) /\ Len(Append(s, x)) = Len(s) + 1 /\ Len(s) \in Nat
  OBVIOUS
<1>2. \A i \in 1..Len(s) : Append(s, x)[i] = s[i]
  OBVIOUS
<1>3. Append(s, x)[Len(s) + 1] = x
  OBVIOUS
<1>4. DOMAIN Append(s, x) = 1..(Len(s) + 1) /\ DOMAIN s = 1..Len(s)
  OBVIOUS
<1>5. DOMAIN Append(s, x) = DOMAIN s \cup {Len(s) + 1}
  BY <1>1, <1>4
<1> QED BY <1>1, <1>2, <1>3, <1>4, <1>5 DEF Range

LEMMA VenueKinds ==
  ASSUME PipelineType, [ExecNext]_execVars
  PROVE  VenueGrows
<1>1. ASSUME NEW o \in Orders, VenueCancels(o), UNCHANGED vars PROVE VenueGrows
  <2> DEFINE r == [order |-> o, event |-> "pending_cancel"]
  <2>1. /\ r \in Reports /\ r.order = o /\ vstatus[o] \notin VenueDone
        /\ tape' = Append(tape, r) /\ activities' = activities
    BY <1>1 DEF VenueCancels, Reported, Reports, VenueOpen, VenueDone
  <2> HIDE DEF r
  <2> QED BY <1>1, <2>1 DEF VenueGrows
<1>2. CASE Api
  <2>1. UNCHANGED venueVars \/ \E o \in Orders : VenueCancels(o) /\ UNCHANGED vars
    BY <1>2 DEF Api, PlaceOrder, StartSubmit, SubmitAnswered, PostFails, SubmitLookup, SubmitLookupFails,
                SubmitGivesUp, SubmitCrashes, GracePasses, CancelOrder, CancelAccepted, CancelRefused,
                CancelLost, SubmitTo
  <2> QED BY <1>1, <2>1 DEF VenueGrows
<1>3. CASE Venue
  <2>1. ASSUME NEW o \in Orders, NEW v \in {"pending_new", "new"} \cup OrderEnds, NEW w,
               vstatus[o] \notin VenueDone, Emit(o, w, Reported(o, v))
        PROVE  VenueGrows
    <3> DEFINE r == Reported(o, v)
    <3>1. r \in Reports /\ r.order = o /\ ~IsExecution(r)
      BY EntryKinds DEF Reports, Reported
    <3>2. tape' = Append(tape, r) /\ activities' = activities /\ UNCHANGED vars
      BY <2>1, <3>1 DEF Emit
    <3> HIDE DEF r
    <3> QED BY <2>1, <3>1, <3>2 DEF VenueGrows
  <2>2. ASSUME NEW o \in Orders, VenueReceives(o) PROVE VenueGrows
    BY <2>1, <2>2, ExecutionAssumption DEF VenueReceives, VenueDone
  <2>3. ASSUME NEW o \in Orders, VenueAccepts(o) \/ VenueRejects(o) \/ VenueConfirmsCancel(o) \/ VenueExpires(o)
        PROVE  VenueGrows
    <3>1. PICK v \in {"new"} \cup OrderEnds :
            vstatus[o] \notin VenueDone /\ Emit(o, v, Reported(o, v))
      <4>1. CASE VenueAccepts(o) \/ VenueRejects(o) \/ VenueConfirmsCancel(o)
        BY <4>1 DEF VenueAccepts, VenueRejects, VenueConfirmsCancel, VenueDone, OrderEnds
      <4>2. CASE VenueExpires(o)
        BY <4>2, ExecutionAssumption DEF VenueExpires, VenueDone, OrderEnds
      <4> QED BY <2>3, <4>1, <4>2
    <3> QED BY <2>1, <3>1
  <2>4. ASSUME NEW x \in Executions, VenueFillsLot(x) PROVE VenueGrows
    <3> DEFINE o == OrderOf[x]
    <3>1. /\ o \in Orders /\ vstatus[o] \notin VenueDone /\ x \notin Shown(o)
          /\ Len(activities[o]) + 1 <= Qty[o]
      BY <2>4, BookAssumption DEF VenueFillsLot, VenueDone, VenueFills, Shown
    <3>2. PICK w \in VenueStatuses, v \in {"fill", "partial_fill"} : Emit(o, w, Executed(x, v))
      BY <2>4 DEF VenueFillsLot, VenueStatuses, VenueOpen, VenueDone
    <3> DEFINE r == Executed(x, v)
    <3>3. r \in ExecutionReports /\ r.exec = x /\ r.order = o /\ IsExecution(r)
      BY <3>1, EntryKinds DEF Executed, ExecutionReports
    <3>4. /\ tape' = Append(tape, r) /\ activities' = [activities EXCEPT ![o] = Append(@, r.exec)]
          /\ UNCHANGED vars
      BY <3>2, <3>3 DEF Emit
    <3> HIDE DEF r, o
    <3> QED BY <3>1, <3>3, <3>4 DEF VenueGrows
  <2> QED BY <1>3, <2>2, <2>3, <2>4 DEF Venue
<1>4. CASE Worker
  BY <1>4 DEF Worker, Connect, Consume, SaveCursor, Disconnect, WorkerCrashes, StartIngestion, StreamStep,
              VenueGrows
<1>5. CASE Reconcile
  <2>1. PICK p \in Passes : \/ StartPass(p) \/ ReadOrder(p) \/ ReadFills(p) \/ Replay(p)
                            \/ ResendCancel(p) \/ FinishOrder(p) \/ PassFails(p)
    BY <1>5 DEF Reconcile
  <2>2. CASE ResendCancel(p)
    <3>1. pass[p].at # "idle" /\ UNCHANGED vars
      BY <2>2 DEF ResendCancel, Replayed
    <3>2. Head(pass[p].todo).order \in Orders
      BY <3>1, RestIsTyped DEF PipelineType
    <3> QED BY <1>1, <2>2, <3>1, <3>2 DEF ResendCancel, VenueGrows
  <2>3. CASE ~ResendCancel(p)
    BY <2>1, <2>3 DEF StartPass, ReadOrder, ReadFills, Replay, FinishOrder, PassFails, VenueGrows
  <2> QED BY <2>2, <2>3
<1>6. CASE UNCHANGED execVars
  BY <1>6 DEF execVars, pipelineVars, venueVars, VenueGrows
<1> QED BY <1>2, <1>3, <1>4, <1>5, <1>6 DEF ExecNext

LEMMA TapeKeeps ==
  ASSUME VenueOrdersType, TapeInv, VenueGrows
  PROVE  TapeInv' /\ ShownGrows
<1>1. tape \in Seq(SoundEntries) /\ Len(tape) \in Nat
  BY DEF VenueOrdersType
<1>2. ASSUME NEW n \in 1..Len(tape)
      PROVE  /\ tape[n] \in SoundEntries
             /\ tape[n].order \in Orders
             /\ IsExecution(tape[n]) => /\ tape[n] \in ExecutionReports /\ tape[n].exec \in Executions
                                        /\ tape[n].order = OrderOf[tape[n].exec]
             /\ tape[n].event \in OrderEnds => vstatus[tape[n].order] \in VenueDone
  <2>1. tape[n] \in SoundReports \cup SoundExecutions
    BY <1>1 DEF SoundEntries
  <2>2. CASE tape[n] \in SoundReports
    BY <1>1, <2>2, EntryKinds DEF SoundReports, Reports, OrderEnds, VenueDone
  <2>3. CASE tape[n] \in SoundExecutions
    BY <1>1, <2>3, EntryKinds DEF SoundExecutions, ExecutionReports, OrderEnds, VenueDone
  <2> QED BY <2>1, <2>2, <2>3
<1>3. CASE UNCHANGED venueVars
  BY <1>3 DEF venueVars, TapeInv, Shown, Visible, ShownGrows
<1>4. ASSUME NEW r \in Reports, vstatus[r.order] \notin VenueDone, tape' = Append(tape, r),
             activities' = activities
      PROVE  TapeInv' /\ ShownGrows
  <2>1. \A o : Shown(o)' = Shown(o)
    BY <1>4 DEF Shown
  <2>2. \A x : Visible(x)' <=> Visible(x)
    BY <2>1 DEF Visible
  <2>3. /\ Len(tape') = Len(tape) + 1 /\ tape'[Len(tape) + 1] = r /\ ~IsExecution(r)
        /\ \A n \in 1..Len(tape) : tape'[n] = tape[n]
    BY <1>1, <1>4, EntryKinds
  <2>4. \A o \in Orders : /\ IsFiniteSet(Shown(o))' /\ Cardinality(Shown(o))' = Len(activities'[o])
                          /\ Len(activities'[o]) <= Qty[o]
    BY <1>4, <2>1 DEF TapeInv
  <2>5. \A n \in 1..Len(tape') : IsExecution(tape'[n]) => n \in 1..Len(tape) /\ tape'[n] = tape[n]
    BY <1>1, <2>3
  <2>6. \A x \in Executions : Visible(x)' <=> \E n \in 1..Len(tape') : IsExecution(tape'[n]) /\ tape'[n].exec = x
    <3> TAKE x \in Executions
    <3>1. Visible(x) <=> \E n \in 1..Len(tape) : IsExecution(tape[n]) /\ tape[n].exec = x
      BY DEF TapeInv
    <3>2. (\E n \in 1..Len(tape) : IsExecution(tape[n]) /\ tape[n].exec = x)
            <=> \E n \in 1..Len(tape') : IsExecution(tape'[n]) /\ tape'[n].exec = x
      BY <1>1, <2>3, <2>5
    <3> QED BY <2>2, <3>1, <3>2
  <2>7. \A m, n \in 1..Len(tape') :
          tape'[n].event \in OrderEnds /\ IsExecution(tape'[m]) /\ tape'[m].order = tape'[n].order => m < n
    <3> TAKE m, n \in 1..Len(tape')
    <3>1. CASE n = Len(tape) + 1
      BY <1>1, <2>5, <3>1
    <3>2. CASE n \in 1..Len(tape)
      BY <1>1, <2>3, <2>5, <3>2 DEF TapeInv
    <3> QED BY <1>1, <2>3, <3>1, <3>2
  <2> QED BY <2>1, <2>4, <2>5, <2>6, <2>7 DEF TapeInv, ShownGrows
<1>5. ASSUME NEW r \in ExecutionReports, vstatus[r.order] \notin VenueDone, r.exec \notin Shown(r.order),
             Len(activities[r.order]) + 1 <= Qty[r.order], tape' = Append(tape, r),
             activities' = [activities EXCEPT ![r.order] = Append(@, r.exec)]
      PROVE  TapeInv' /\ ShownGrows
  <2> DEFINE o == r.order
             x == r.exec
  <2>1. o \in Orders /\ x \in Executions /\ OrderOf[x] = o /\ IsExecution(r) /\ r.event \notin OrderEnds
    BY EntryKinds DEF ExecutionReports, OrderEnds
  <2>2. activities \in [Orders -> Seq(Executions)] /\ activities[o] \in Seq(Executions)
    BY <2>1 DEF VenueOrdersType
  <2>3. activities'[o] = Append(activities[o], x) /\ \A p \in Orders \ {o} : activities'[p] = activities[p]
    BY <1>5, <2>1, <2>2
  <2>4. Shown(o)' = Shown(o) \cup {x} /\ Len(activities'[o]) = Len(activities[o]) + 1
    BY <2>1, <2>2, <2>3, AppendRange DEF Shown
  <2>5. \A p \in Orders \ {o} : Shown(p)' = Shown(p)
    BY <2>3 DEF Shown
  <2>6. /\ Len(tape') = Len(tape) + 1 /\ tape'[Len(tape) + 1] = r
        /\ \A n \in 1..Len(tape) : tape'[n] = tape[n]
    BY <1>1, <1>5
  <2>7. \A p \in Orders : /\ IsFiniteSet(Shown(p))' /\ Cardinality(Shown(p))' = Len(activities'[p])
                          /\ Len(activities'[p]) <= Qty[p]
    <3> TAKE p \in Orders
    <3>1. CASE p # o
      BY <2>3, <2>5, <3>1 DEF TapeInv
    <3>2. CASE p = o
      <4>1. IsFiniteSet(Shown(o)) /\ Cardinality(Shown(o)) = Len(activities[o]) /\ x \notin Shown(o)
        BY <1>5, <2>1 DEF TapeInv
      <4>2. IsFiniteSet(Shown(o) \cup {x}) /\ Cardinality(Shown(o) \cup {x}) = Cardinality(Shown(o)) + 1
        BY <4>1, FS_AddElement
      <4> QED BY <1>5, <2>4, <3>2, <4>1, <4>2
    <3> QED BY <3>1, <3>2
  <2>8. \A y \in Executions : /\ Visible(y) => Visible(y)'
                              /\ Visible(y)' => Visible(y) \/ y = x
                              /\ Visible(x)'
    BY <2>1, <2>4, <2>5, BookAssumption DEF Visible
  <2>9. ASSUME NEW y \in Executions, NEW n \in 1..Len(tape'), IsExecution(tape'[n]), tape'[n].exec = y
        PROVE  Visible(y)'
    <3>1. CASE n = Len(tape) + 1
      BY <2>1, <2>6, <2>8, <2>9, <3>1
    <3>2. CASE n \in 1..Len(tape)
      BY <2>6, <2>8, <2>9, <3>2 DEF TapeInv
    <3> QED BY <1>1, <2>6, <3>1, <3>2
  <2>10. ASSUME NEW y \in Executions, Visible(y)'
         PROVE  \E n \in 1..Len(tape') : IsExecution(tape'[n]) /\ tape'[n].exec = y
    <3>1. CASE y = x
      <4>1. Len(tape) + 1 \in 1..Len(tape')
        BY <1>1, <2>6
      <4> QED BY <2>1, <2>6, <3>1, <4>1
    <3>2. CASE Visible(y)
      <4>1. PICK n \in 1..Len(tape) : IsExecution(tape[n]) /\ tape[n].exec = y
        BY <3>2 DEF TapeInv
      <4>2. n \in 1..Len(tape') /\ tape'[n] = tape[n]
        BY <1>1, <2>6
      <4> QED BY <4>1, <4>2
    <3> QED BY <2>8, <2>10, <3>1, <3>2
  <2>11. \A m, n \in 1..Len(tape') :
           tape'[n].event \in OrderEnds /\ IsExecution(tape'[m]) /\ tape'[m].order = tape'[n].order => m < n
    <3> SUFFICES ASSUME NEW m \in 1..Len(tape'), NEW n \in 1..Len(tape'), tape'[n].event \in OrderEnds,
                        IsExecution(tape'[m]), tape'[m].order = tape'[n].order
                 PROVE  m < n
      OBVIOUS
    <3>1. n \in 1..Len(tape) /\ tape'[n] = tape[n]
      BY <1>1, <2>1, <2>6
    <3>2. m # Len(tape) + 1
      BY <1>2, <1>5, <2>6, <3>1
    <3>3. m \in 1..Len(tape) /\ tape'[m] = tape[m]
      BY <1>1, <2>6, <3>2
    <3> QED BY <3>1, <3>3 DEF TapeInv
  <2> HIDE DEF o, x
  <2>12. ShownGrows
    BY <1>5, <2>4, <2>5 DEF ShownGrows, o
  <2> QED BY <2>7, <2>9, <2>10, <2>11, <2>12 DEF TapeInv
<1> QED BY <1>3, <1>4, <1>5 DEF VenueGrows

--------------------------------------------------------------------------------
(* An event about to be applied: it names its execution, and an end comes when *)
(* everything the venue shows is booked.                                       *)

Traced(e) ==
  /\ IsFill(e) =>
       /\ Visible(e.exec)
       /\ \/ e.envelope = <<"recon", e.exec>>
          \/ \E n \in 1..Len(tape) :
               e.envelope = <<"ulid", n>> /\ IsExecution(tape[n]) /\ tape[n].exec = e.exec
  /\ ~IsFill(e) =>
       /\ \A x \in Executions : e.envelope # <<"recon", x>>
       /\ \A n \in Nat : e.envelope = <<"ulid", n>> => n \in 1..Len(tape) /\ ~IsExecution(tape[n])
  /\ e.type \in EndTypes => Shown(Subject(e)) \subseteq fills

LEMMA EventParts ==
  ASSUME NEW e \in SoundEvents(vstatus)
  PROVE  /\ Subject(e) \in Orders /\ e.type \in EventTypes
         /\ IsFill(e) => e \in FillEvents /\ e.exec \in Executions /\ Subject(e) = OrderOf[e.exec]
         /\ ~IsFill(e) => e \in StatusEvents /\ Subject(e) = e.order
         /\ e.type \in EndTypes => ~IsFill(e) /\ vstatus[e.order] \in VenueDone
BY BookAssumption, ClaimsAreEnds DEF SoundEvents, BrokerEvents, StatusEvents, FillEvents, Subject, IsFill,
     EventTypes, StatusTypes, FillTypes, Unknown, EndTypes, Claims

\* The envelopes keep telling what was booked.
LEMMA TraceGrows ==
  ASSUME TapeInv, BookTrace, NEW e \in SoundEvents(vstatus), Traced(e), Applied(e), UNCHANGED venueVars
  PROVE  BookTrace'
<1>1. /\ seen' = seen \cup {e.envelope}
      /\ IsFill(e) => fills' = fills \cup {e.exec}
      /\ ~IsFill(e) => fills' = fills
  BY DEF Applied, ApplyFill, ApplyStatus, Record, Book
<1>2. tape' = tape /\ activities' = activities
  BY DEF venueVars
<1>3. \A x : Visible(x)' <=> Visible(x)
  BY <1>2 DEF Visible, Shown
<1>4. \A x \in fills' : Visible(x)'
  BY <1>1, <1>3 DEF BookTrace, Traced
<1>5. ASSUME NEW x \in Executions, <<"recon", x>> \in seen' PROVE x \in fills'
  BY <1>1, <1>5 DEF BookTrace, Traced
<1>6. ASSUME NEW n \in Nat, <<"ulid", n>> \in seen'
      PROVE  n \in 1..Len(tape') /\ (IsExecution(tape'[n]) => tape'[n].exec \in fills')
  BY <1>1, <1>2, <1>6 DEF BookTrace, Traced
<1> QED BY <1>4, <1>5, <1>6 DEF BookTrace

\* Only an event that claims it ends an order.
LEMMA NoEndWithoutEvent ==
  ASSUME BookInv, NEW o \in Orders, Place(o) \/ RequestCancel(o) \/ FailSubmission(o),
         NEW p \in Orders, state'[p] \in DOMAIN VenueOutcome
  PROVE  state'[p] = state[p]
<1>1. \A q \in Orders : state[q] # Absent => state[q] \in OrderStates
  BY DEF BookInv, TypeOK
<1>2. CASE Place(o)
  <2>1. state' = [state EXCEPT ![o] = "PENDING_SUBMISSION"] /\ state \in [Orders -> OrderStates \cup {Absent}]
    BY <1>2 DEF Place, BookInv, TypeOK
  <2> QED BY <2>1 DEF VenueOutcome
<1>3. CASE RequestCancel(o) \/ FailSubmission(o)
  <2>1. PICK t \in {"ORDER_CANCEL_PENDING", "ORDER_SUBMIT_FAILED"} :
          state[o] # Absent /\ (Flag(o) \/ Transition(o, t, filled[o]))
    BY <1>3, StatesDisjoint DEF RequestCancel, FailSubmission, OrderStates
  <2>2. t \in EventTypes /\ t \notin DOMAIN Claims
    BY DEF EventTypes, StatusTypes, Claims
  <2> QED BY <1>1, <2>1, <2>2, OutcomeIsClaimed DEF Flag
<1> QED BY <1>2, <1>3

\* An order that is then filled has all of its executions.
LEMMA FilledHasAll ==
  ASSUME BookInv', TapeInv', BookTrace', NEW o \in Orders, state'[o] = "FILLED"
  PROVE  Shown(o)' \subseteq fills'
<1> DEFINE S == Shown(o)'
           B == BookedFor(o)'
<1>1. filled'[o] = Qty[o] /\ filled'[o] <= Cardinality(B) /\ Qty[o] \in Nat
  BY BookAssumption DEF BookInv, FilledIsComplete, FillAccounting
<1>2. IsFiniteSet(S) /\ Cardinality(S) <= Qty[o]
  BY DEF TapeInv
<1>3. B \subseteq S /\ B \subseteq fills'
  BY DEF BookedFor, BookTrace, Visible
<1> HIDE DEF S, B
<1>4. Cardinality(S) \in Nat /\ Cardinality(B) \in Nat /\ (Cardinality(B) = Cardinality(S) => B = S)
  BY <1>2, <1>3, FS_Subset, FS_CardinalityType
<1>5. Cardinality(B) <= Cardinality(S)
  BY <1>2, <1>3, FS_Subset
<1>6. B = S
  BY <1>1, <1>2, <1>4, <1>5
<1> QED BY <1>3, <1>6 DEF S

LEMMA EndsStayComplete ==
  ASSUME BookInv, BookInv', TapeInv, TapeInv', BookTrace', EndsComplete,
         NEW e \in SoundEvents(vstatus), Traced(e), Applied(e), UNCHANGED venueVars
  PROVE  EndsComplete'
<1> SUFFICES ASSUME NEW p \in Orders, state'[p] \in DOMAIN VenueOutcome
             PROVE  Shown(p)' \subseteq fills'
  BY DEF EndsComplete
<1> DEFINE o == Subject(e)
<1>1. Shown(p)' = Shown(p) /\ fills \subseteq fills'
  BY DEF venueVars, Shown, Applied, ApplyFill, ApplyStatus, Book
<1>2. CASE state'[p] = state[p]
  BY <1>1, <1>2 DEF EndsComplete
<1>3. CASE state'[p] # state[p]
  <2>1. o \in Orders /\ e.type \in EventTypes
    BY EventParts
  <2>2. PICK n : state[o] # Absent /\ (Flag(o) \/ Transition(o, e.type, n))
    BY DEF Applied, ApplyFill, ApplyStatus, Subject
  <2>3. state[o] \in OrderStates
    BY <2>1, <2>2 DEF BookInv, TypeOK
  <2> HIDE DEF o
  <2>4. Transition(o, e.type, n)
    BY <1>3, <2>2 DEF Flag
  <2>5. p = o /\ e.type \in DOMAIN Claims /\ VenueOutcome[state'[p]] = Claims[e.type]
    BY <1>3, <2>1, <2>3, <2>4, OutcomeIsClaimed
  <2>6. CASE e.type \in EndTypes
    BY <1>1, <2>5, <2>6 DEF Traced, o
  <2>7. CASE e.type = "ORDER_FILLED"
    <3>1. state'[p] = "FILLED"
      BY <2>5, <2>7 DEF VenueOutcome, Claims
    <3> QED BY <3>1, FilledHasAll
  <2> QED BY <2>5, <2>6, <2>7 DEF Claims, EndTypes
<1> QED BY <1>2, <1>3

\* What arrives for an order that ended otherwise is booked already.
LEMMA CountsWithEvent ==
  ASSUME BookInv, BookInv', EndsComplete, FillsCounted, [Next]_vars,
         NEW e \in SoundEvents(vstatus), Traced(e), Applied(e)
  PROVE  FillsCounted'
<1> SUFFICES ASSUME NEW p \in Orders
             PROVE  filled'[p] = Cardinality(BookedFor(p))' \/ state'[p] = "SUBMIT_FAILED"
  BY DEF FillsCounted
<1> DEFINE o == Subject(e)
<1>1. TypeOK /\ state[p] \in OrderStates \cup {Absent} /\ o \in Orders
  BY EventParts DEF BookInv, TypeOK
<1>2. CASE state[p] = "SUBMIT_FAILED"
  BY <1>2, RowStep DEF TerminalStates
<1>3. CASE state[p] # "SUBMIT_FAILED"
  <2>1. filled[p] = Cardinality(BookedFor(p))
    BY <1>3 DEF FillsCounted
  <2>2. CASE ~IsFill(e)
    <3>1. fills' = fills /\ (Flag(o) \/ Transition(o, e.type, filled[o]))
      BY <2>2 DEF Applied, ApplyStatus, Subject
    <3>2. BookedFor(p)' = BookedFor(p)
      BY <3>1 DEF BookedFor
    <3>3. filled'[p] = filled[p]
      BY <1>1, <3>1 DEF Flag, Transition, TypeOK
    <3> QED BY <2>1, <3>2, <3>3
  <2>3. CASE IsFill(e)
    <3> DEFINE x == e.exec
    <3>1. /\ x \in Executions /\ o = OrderOf[x] /\ x \notin fills /\ fills' = fills \cup {x} /\ state[o] # Absent
          /\ IF AuditOnly(o, e.type) THEN Flag(o) ELSE Transition(o, e.type, filled[o] + 1)
          /\ e.type \in FillTypes /\ Visible(x)
      BY <2>3, EventParts DEF Applied, ApplyFill, NotYetBooked, Book, Subject, IsFill, Traced
    <3>2. /\ o = p => Cardinality(BookedFor(p))' = Cardinality(BookedFor(p)) + 1
          /\ o # p => BookedFor(p)' = BookedFor(p)
      BY <1>1, <3>1, BookingCounts
    <3> HIDE DEF o, x
    <3>3. CASE o # p
      <4>1. filled'[p] = filled[p]
        BY <1>1, <3>1, <3>3 DEF Flag, Transition, TypeOK
      <4> QED BY <2>1, <3>2, <3>3, <4>1
    <3>4. CASE o = p
      <4>1. ~AuditOnly(o, e.type)
        <5> SUFFICES ASSUME AuditOnly(o, e.type) PROVE FALSE
          OBVIOUS
        <5>1. state[o] \in TerminalStates
          BY <3>1 DEF AuditOnly, FillTypes, Unknown
        <5>2. state[o] \in DOMAIN VenueOutcome
          BY <1>3, <3>4, <5>1 DEF TerminalStates, VenueOutcome
        <5>3. x \in Shown(o) /\ Shown(o) \subseteq fills
          BY <1>1, <3>1, <5>2 DEF EndsComplete, Visible
        <5> QED BY <3>1, <5>3
      <4>2. filled'[o] = filled[o] + 1
        BY <1>1, <3>1, <4>1 DEF Transition, TypeOK
      <4> QED BY <2>1, <3>2, <3>4, <4>2
    <3> QED BY <3>3, <3>4
  <2> QED BY <2>2, <2>3
<1> QED BY <1>2, <1>3

\* A placement, a cancel intent, SUBMIT_FAILED.
LEMMA CountsWithout ==
  ASSUME BookInv, BookInv', FillsCounted, [Next]_vars,
         NEW o \in Orders, Place(o) \/ RequestCancel(o) \/ FailSubmission(o)
  PROVE  FillsCounted'
<1> SUFFICES ASSUME NEW p \in Orders
             PROVE  filled'[p] = Cardinality(BookedFor(p))' \/ state'[p] = "SUBMIT_FAILED"
  BY DEF FillsCounted
<1>1. fills' = fills
  BY DEF Place, RequestCancel, FailSubmission
<1>2. BookedFor(p)' = BookedFor(p)
  BY <1>1 DEF BookedFor
<1>3. filled'[p] = filled[p]
  BY DEF Place, RequestCancel, FailSubmission, Flag, Transition, BookInv, TypeOK
<1>4. state[p] = "SUBMIT_FAILED" => state'[p] = "SUBMIT_FAILED"
  BY RowStep DEF TerminalStates
<1> QED BY <1>2, <1>3, <1>4 DEF FillsCounted

--------------------------------------------------------------------------------
(* Where the events come from.                                                 *)

\* What a snapshot replays: the executions it saw, then the status read before.
LEMMA SnapshotTraced ==
  ASSUME VenueOrdersType, NEW o \in Orders, NEW s \in VenueStatuses \ {"none"}
  PROVE  TracedEvents(SnapshotEvents(o, s, activities[o]))
<1> DEFINE own == activities[o]
           n == Len(own)
           Event(k) == [exec |-> own[k],
                        type |-> IF k = n /\ s = "filled" THEN "ORDER_FILLED" ELSE "ORDER_PARTIALLY_FILLED",
                        envelope |-> <<"recon", own[k]>>]
           first == [k \in 1..n |-> Event(k)]
           rest == StatusEvent(o, s)
           events == first \o rest
<1>1. SnapshotEvents(o, s, activities[o]) = events
  BY DEF SnapshotEvents
<1>2. n \in Nat /\ \A k \in 1..n : own[k] \in Executions /\ OrderOf[own[k]] = o /\ own[k] \in Shown(o)
  <2>1. own \in Seq({x \in Executions : OrderOf[x] = o})
    BY DEF VenueOrdersType
  <2> QED BY <2>1 DEF Shown, Range
<1>3. \A x \in Shown(o) : \E k \in 1..n : own[k] = x
  <2>1. own \in Seq(Executions)
    BY DEF VenueOrdersType
  <2> QED BY <2>1 DEF Shown, Range
<1> HIDE DEF own, n
<1>4. /\ rest \in Seq(StatusEvents \cup {rest[1]}) /\ Len(rest) \in {0, 1}
      /\ Len(rest) = 1 => /\ rest[1].order = o /\ rest[1].type \in StatusTypes
                          /\ rest[1].envelope = <<"recon-status", o, s>>
  <2>1. CASE s \in DOMAIN VendorStatuses
    <3> DEFINE e == [order |-> o, type |-> VendorStatuses[s], envelope |-> <<"recon-status", o, s>>]
    <3>1. rest = <<e>>
      BY <2>1 DEF StatusEvent
    <3>2. VendorStatuses[s] \in StatusTypes
      BY <2>1 DEF VendorStatuses, StatusTypes, VenueStatuses, VenueOpen, VenueDone
    <3>3. e.order = o /\ e.type \in StatusTypes /\ e.envelope = <<"recon-status", o, s>>
      BY <3>2
    <3> HIDE DEF e
    <3> QED BY <3>1, <3>3
  <2>2. CASE s \notin DOMAIN VendorStatuses
    BY <2>2 DEF StatusEvent
  <2> QED BY <2>1, <2>2
<1>5. \A k \in 1..n : first[k].exec = own[k] /\ first[k].type \in FillTypes \ EndTypes
                      /\ first[k].envelope = <<"recon", own[k]>>
  BY DEF FillTypes, EndTypes
<1> DEFINE some == {Event(k) : k \in 1..n} \cup StatusEvents \cup {rest[1]}
<1>6. first \in Seq(some) /\ Len(first) = n
  BY <1>2
<1> HIDE DEF Event, first, rest
<1>7. rest \in Seq(some)
  BY <1>4
<1> HIDE DEF some
<1>8. /\ events \in Seq(some) /\ Len(events) = n + Len(rest)
      /\ \A k \in 1..n : events[k] = first[k]
      /\ \A k \in 1..Len(events) : k \notin 1..n => k = n + 1 /\ Len(rest) = 1 /\ events[k] = rest[1]
  <2>1. /\ events \in Seq(some) /\ Len(events) = n + Len(rest)
        /\ \A k \in 1..Len(first) : events[k] = first[k]
        /\ \A k \in 1..Len(rest) : events[Len(first) + k] = rest[k]
    BY <1>6, <1>7
  <2>2. ASSUME NEW k \in 1..Len(events), k \notin 1..n PROVE k = n + 1 /\ Len(rest) = 1
    BY <1>2, <1>4, <2>1, <2>2
  <2> HIDE DEF events
  <2>3. ASSUME NEW k \in 1..Len(events), k \notin 1..n PROVE events[k] = rest[1]
    <3>1. k = n + 1 /\ 1 \in 1..Len(rest)
      BY <2>2, <2>3
    <3>2. events[Len(first) + 1] = rest[1]
      BY <2>1, <3>1
    <3> QED BY <1>6, <3>1, <3>2
  <2> QED BY <1>6, <2>1, <2>2, <2>3
<1> HIDE DEF events
<1>9. ASSUME NEW k \in 1..n
      PROVE  LET e == events[k] IN
             /\ IsFill(e) /\ e.envelope = <<"recon", e.exec>> /\ \A x \in Executions : e.exec = x => Visible(x)
             /\ e.type \notin EndTypes
  BY <1>2, <1>5, <1>8 DEF IsFill, Visible
<1>10. ASSUME NEW k \in 1..Len(events), k \notin 1..n
       PROVE  LET e == events[k] IN
              /\ ~IsFill(e) /\ e.envelope \notin FillEnvelopes /\ e.order = o
              /\ \A x \in Shown(o) : \E j \in 1..(k - 1) : IsFill(events[j]) /\ events[j].exec = x
  <2>1. k = n + 1 /\ events[k] = rest[1] /\ Len(rest) = 1
    BY <1>8, <1>10
  <2>2. ~IsFill(events[k]) /\ events[k].order = o
    BY <1>4, <2>1 DEF IsFill, StatusTypes, FillTypes
  <2>3. events[k].envelope \notin FillEnvelopes
    BY <1>4, <2>1 DEF FillEnvelopes
  <2>4. ASSUME NEW x \in Shown(o) PROVE \E j \in 1..(k - 1) : IsFill(events[j]) /\ events[j].exec = x
    <3>1. PICK j \in 1..n : own[j] = x
      BY <1>3
    <3>2. j \in 1..(k - 1) /\ IsFill(events[j]) /\ events[j].exec = x
      BY <1>2, <1>5, <1>8, <2>1, <3>1 DEF IsFill
    <3> QED BY <3>2
  <2> QED BY <2>2, <2>3, <2>4
<1> QED BY <1>1, <1>9, <1>10 DEF TracedEvents

LEMMA FailureTraced ==
  ASSUME NEW o \in Orders
  PROVE  TracedEvents(<<SubmitFailedEvent(o)>>)
<1> DEFINE e == SubmitFailedEvent(o)
<1>1. ~IsFill(e) /\ e.envelope \notin FillEnvelopes /\ e.type \notin EndTypes
  BY DEF SubmitFailedEvent, IsFill, FillTypes, EndTypes, FillEnvelopes
<1> HIDE DEF e
<1>2. <<e>> \in Seq({e}) /\ Len(<<e>>) = 1 /\ <<e>>[1] = e
  OBVIOUS
<1> QED BY <1>1, <1>2 DEF TracedEvents, e

\* What a pass holds stays traced: an ended order has no further execution.
LEMMA TracedStay ==
  ASSUME NEW events \in Seq(SoundEvents(vstatus)), TracedEvents(events), fills \subseteq fills', ShownGrows
  PROVE  TracedEvents(events)'
<1> SUFFICES ASSUME NEW k \in 1..Len(events)
             PROVE  LET e == events[k] IN
                    /\ IsFill(e) => e.envelope = <<"recon", e.exec>>
                                    /\ \A x \in Executions : e.exec = x => Visible(x)'
                    /\ ~IsFill(e) => e.envelope \notin FillEnvelopes
                    /\ \A o \in Orders : e.type \in EndTypes /\ e.order = o => \A x \in Shown(o)' :
                         x \in fills' \/ \E j \in 1..(k - 1) : IsFill(events[j]) /\ events[j].exec = x
  BY DEF TracedEvents, IsFill, FillEnvelopes
<1> DEFINE e == events[k]
<1>1. e \in SoundEvents(vstatus)
  OBVIOUS
<1>2. \A x \in Executions : Visible(x) => Visible(x)'
  BY BookAssumption DEF ShownGrows, Visible
<1>3. /\ IsFill(e) => e.envelope = <<"recon", e.exec>> /\ \A x \in Executions : e.exec = x => Visible(x)
      /\ ~IsFill(e) => e.envelope \notin FillEnvelopes
      /\ \A o \in Orders : e.type \in EndTypes /\ e.order = o => \A x \in Shown(o) :
           x \in fills \/ \E j \in 1..(k - 1) : IsFill(events[j]) /\ events[j].exec = x
  BY DEF TracedEvents
<1>4. \A o \in Orders : e.type \in EndTypes /\ e.order = o => Shown(o)' = Shown(o)
  BY <1>1, EventParts DEF ShownGrows
<1> HIDE DEF e
<1>5. \A o \in Orders : e.type \in EndTypes /\ e.order = o => \A x \in Shown(o)' :
        x \in fills' \/ \E j \in 1..(k - 1) : IsFill(events[j]) /\ events[j].exec = x
  BY <1>3, <1>4
<1> QED BY <1>2, <1>3, <1>5 DEF e

\* What remains after an event that is booked, or carries no execution.
LEMMA TailTraced ==
  ASSUME NEW events \in Seq(SoundEvents(vstatus)), events # <<>>, TracedEvents(events)',
         IsFill(Head(events)) => Head(events).exec \in fills'
  PROVE  TracedEvents(Tail(events))'
<1> DEFINE rest == Tail(events)
<1>1. /\ rest \in Seq(SoundEvents(vstatus)) /\ Len(events) \in Nat /\ Len(rest) = Len(events) - 1
      /\ \A k \in 1..Len(rest) : k + 1 \in 1..Len(events) /\ rest[k] = events[k + 1]
      /\ Head(events) = events[1]
  OBVIOUS
<1> HIDE DEF rest
<1> SUFFICES ASSUME NEW k \in 1..Len(rest)
             PROVE  LET e == rest[k] IN
                    /\ IsFill(e) => e.envelope = <<"recon", e.exec>>
                                    /\ \A x \in Executions : e.exec = x => Visible(x)'
                    /\ ~IsFill(e) => e.envelope \notin FillEnvelopes
                    /\ \A o \in Orders : e.type \in EndTypes /\ e.order = o => \A x \in Shown(o)' :
                         x \in fills' \/ \E j \in 1..(k - 1) : IsFill(rest[j]) /\ rest[j].exec = x
  BY DEF TracedEvents, IsFill, FillEnvelopes, rest
<1> DEFINE e == events[k + 1]
<1>2. rest[k] = e /\ k + 1 \in 1..Len(events)
  BY <1>1
<1>3. /\ IsFill(e) => e.envelope = <<"recon", e.exec>> /\ \A x \in Executions : e.exec = x => Visible(x)'
      /\ ~IsFill(e) => e.envelope \notin FillEnvelopes
      /\ \A o \in Orders : e.type \in EndTypes /\ e.order = o => \A x \in Shown(o)' :
           x \in fills' \/ \E j \in 1..((k + 1) - 1) : IsFill(events[j]) /\ events[j].exec = x
  BY <1>2 DEF TracedEvents, IsFill, FillEnvelopes
<1>4. ASSUME NEW j \in 1..((k + 1) - 1), IsFill(events[j])
      PROVE  events[j].exec \in fills' \/ \E i \in 1..(k - 1) : IsFill(rest[i]) /\ rest[i].exec = events[j].exec
  <2>1. CASE j = 1
    BY <1>1, <1>4, <2>1
  <2>2. CASE j # 1
    <3>1. j - 1 \in 1..(k - 1) /\ j - 1 \in 1..Len(rest) /\ (j - 1) + 1 = j
      BY <1>1, <2>2
    <3>2. rest[j - 1] = events[j]
      BY <1>1, <3>1
    <3> QED BY <1>4, <3>1, <3>2
  <2> QED BY <2>1, <2>2
<1> HIDE DEF e
<1>5. \A o \in Orders : e.type \in EndTypes /\ e.order = o => \A x \in Shown(o)' :
        x \in fills' \/ \E i \in 1..(k - 1) : IsFill(rest[i]) /\ rest[i].exec = x
  BY <1>3, <1>4
<1> QED BY <1>2, <1>3, <1>5

LEMMA HeadTraced ==
  ASSUME NEW events \in Seq(SoundEvents(vstatus)), events # <<>>, TracedEvents(events)
  PROVE  Traced(Head(events))
<1> DEFINE e == Head(events)
<1>1. e \in SoundEvents(vstatus) /\ e = events[1] /\ 1 \in 1..Len(events)
  OBVIOUS
<1>2. /\ IsFill(e) => e.envelope = <<"recon", e.exec>> /\ \A x \in Executions : e.exec = x => Visible(x)
      /\ ~IsFill(e) => e.envelope \notin FillEnvelopes
      /\ \A o \in Orders : e.type \in EndTypes /\ e.order = o => \A x \in Shown(o) : x \in fills
  BY <1>1 DEF TracedEvents
<1> HIDE DEF e
<1>3. IsFill(e) => Visible(e.exec)
  BY <1>1, <1>2, EventParts
<1>4. e.type \in EndTypes => Shown(Subject(e)) \subseteq fills
  BY <1>1, <1>2, EventParts
<1>5. ~IsFill(e) => /\ \A x \in Executions : e.envelope # <<"recon", x>>
                    /\ \A n \in Nat : e.envelope # <<"ulid", n>>
  BY <1>2 DEF FillEnvelopes
<1> QED BY <1>2, <1>3, <1>4, <1>5 DEF Traced, e

\* What the stream delivers: all before it was consumed.
LEMMA StreamTraced ==
  ASSUME VenueOrdersType, TapeInv, BookTrace, CursorInv, InitialCursor # Null, NEW n \in 1..Len(tape), n = stream.next
  PROVE  Traced(StreamEvent(n))
<1> DEFINE r == tape[n]
           e == StreamEvent(n)
<1>1. tape \in Seq(SoundEntries) /\ Len(tape) \in Nat /\ n \in Nat /\ Null \notin Nat
  BY ExecutionAssumption DEF VenueOrdersType
<1>2. ASSUME NEW m \in 1..Len(tape), IsExecution(tape[m])
      PROVE  /\ tape[m] \in ExecutionReports /\ tape[m].exec \in Executions
             /\ tape[m].order = OrderOf[tape[m].exec]
  BY <1>1, <1>2, EntryKinds DEF SoundEntries, SoundReports, SoundExecutions, ExecutionReports
<1>3. CASE IsExecution(r)
  <2>1. /\ e.exec = r.exec /\ e.envelope = <<"ulid", n>>
        /\ e.type \in FillTypes /\ e.type \notin EndTypes
    BY <1>2, <1>3 DEF StreamEvent, ExecutionReports, VendorStatuses, FillTypes, EndTypes
  <2>2. Visible(r.exec)
    BY <1>2, <1>3 DEF TapeInv
  <2> HIDE DEF e
  <2> QED BY <1>3, <2>1, <2>2 DEF Traced, IsFill, e
<1>4. CASE ~IsExecution(r)
  <2>1. r \in Reports
    BY <1>1, <1>4, EntryKinds DEF SoundEntries, SoundReports, SoundExecutions
  <2>2. /\ e.order = r.order /\ e.envelope = <<"ulid", n>> /\ ~IsFill(e)
        /\ e.type \in EndTypes => r.event \in OrderEnds
    BY <1>4, <2>1 DEF StreamEvent, Reports, VendorStatuses, FillTypes, IsFill, EndTypes, OrderEnds
  <2>3. ASSUME r.event \in OrderEnds, NEW x \in Shown(r.order) PROVE x \in fills
    <3>1. x \in Executions /\ OrderOf[x] = r.order
      <4>1. r.order \in Orders
        BY <2>1 DEF Reports
      <4>2. activities[r.order] \in Seq({y \in Executions : OrderOf[y] = r.order})
        BY <4>1 DEF VenueOrdersType
      <4> QED BY <2>3, <4>2 DEF Shown, Range
    <3>2. Visible(x)
      BY <2>3, <3>1 DEF Visible
    <3>3. PICK m \in 1..Len(tape) : IsExecution(tape[m]) /\ tape[m].exec = x
      BY <3>1, <3>2 DEF TapeInv
    <3>4. tape[m].order = r.order
      BY <1>2, <3>1, <3>3
    <3>5. m < n
      BY <2>3, <3>3, <3>4 DEF TapeInv
    <3>6. Consumed(m)
      <4>1. n = cursor + 1 /\ cursor \in Nat
        BY <1>1 DEF CursorInv
      <4>2. m \in Nat \ {0} /\ m <= cursor
        BY <1>1, <3>5, <4>1
      <4> QED BY <4>2 DEF CursorInv
    <3>7. StreamEvent(m).envelope = <<"ulid", m>> /\ StreamEvent(m).exec = x
      BY <3>3 DEF StreamEvent
    <3>8. <<"ulid", m>> \in seen \/ x \in fills
      BY <3>6, <3>7 DEF Consumed
    <3> QED BY <1>1, <3>3, <3>8 DEF BookTrace
  <2> HIDE DEF e
  <2>4. \A k \in Nat : e.envelope = <<"ulid", k>> => k = n
    BY <2>2
  <2>5. \A x \in Executions : e.envelope # <<"recon", x>>
    BY <2>2
  <2>6. e.type \in EndTypes => Shown(Subject(e)) \subseteq fills
    BY <2>2, <2>3 DEF Subject
  <2> HIDE DEF r
  <2> QED BY <1>4, <2>2, <2>4, <2>5, <2>6 DEF Traced, e, r
<1> QED BY <1>3, <1>4

--------------------------------------------------------------------------------
(* Steps.                                                                      *)

TraceMoves ==
  \/ UNCHANGED vars
  \/ UNCHANGED venueVars /\ \E o \in Orders : Place(o) \/ RequestCancel(o) \/ FailSubmission(o)
  \/ UNCHANGED venueVars /\ \E e \in SoundEvents(vstatus) : Traced(e) /\ Applied(e)

LEMMA PassesTraced ==
  ASSUME \A p \in Passes : pass'[p].at = "apply" =>
           \E events : pass'[p].events = events /\ TracedEvents(events)'
  PROVE  PassTrace'
<1> SUFFICES ASSUME NEW p \in Passes, NEW events, pass'[p].at = "apply", pass'[p].events = events,
                    TracedEvents(events)'
             PROVE  TracedEvents(pass[p].events)'
  BY DEF PassTrace
<1> QED BY DEF TracedEvents

\* A delivery books what it names, now or before.
LEMMA DeliveredIsBooked ==
  ASSUME BookTrace, NEW e \in SoundEvents(vstatus), IsFill(e), e.envelope = <<"recon", e.exec>>,
         BooksRemember, Deliver(e)
  PROVE  e.exec \in fills'
<1>1. e.exec \in Executions
  BY EventParts
<1>2. CASE Duplicate(e)
  BY <1>1, <1>2 DEF Duplicate, BookTrace, BooksRemember
<1>3. CASE ~Duplicate(e)
  BY <1>3 DEF Deliver, Applied, ApplyFill, Book
<1> QED BY <1>2, <1>3

LEMMA DeliveryTraced ==
  ASSUME NEW e \in SoundEvents(vstatus), Traced(e), UNCHANGED venueVars, Deliver(e)
  PROVE  TraceMoves
BY DEF Deliver, TraceMoves

LEMMA ApiTraced ==
  ASSUME Api
  PROVE  TraceMoves /\ pass' = pass
<1>1. PICK o \in Orders :
        \/ PlaceOrder(o) \/ StartSubmit(o) \/ SubmitAnswered(o) \/ PostFails(o)
        \/ SubmitLookup(o) \/ SubmitLookupFails(o) \/ SubmitGivesUp(o) \/ SubmitCrashes(o)
        \/ GracePasses(o) \/ CancelOrder(o) \/ CancelAccepted(o) \/ CancelRefused(o) \/ CancelLost(o)
  BY DEF Api
<1>2. pass' = pass
  BY <1>1 DEF PlaceOrder, StartSubmit, SubmitAnswered, PostFails, SubmitLookup, SubmitLookupFails,
              SubmitGivesUp, SubmitCrashes, GracePasses, CancelOrder, CancelAccepted, CancelRefused,
              CancelLost, SubmitTo
<1>3. CASE PlaceOrder(o) \/ SubmitGivesUp(o) \/ CancelOrder(o)
  <2>1. UNCHANGED venueVars
    BY <1>3 DEF PlaceOrder, SubmitGivesUp, CancelOrder, SubmitTo
  <2>2. UNCHANGED vars \/ Place(o) \/ RequestCancel(o) \/ FailSubmission(o)
    BY <1>3 DEF PlaceOrder, SubmitGivesUp, CancelOrder
  <2>3. TraceMoves
    BY <2>1, <2>2 DEF TraceMoves
  <2> QED BY <1>2, <2>3
<1>4. CASE ~(PlaceOrder(o) \/ SubmitGivesUp(o) \/ CancelOrder(o))
  <2>1. UNCHANGED vars
    BY <1>1, <1>4 DEF StartSubmit, SubmitAnswered, PostFails, SubmitLookup, SubmitLookupFails, SubmitCrashes,
                      GracePasses, CancelAccepted, CancelRefused, CancelLost
  <2> QED BY <1>2, <2>1 DEF TraceMoves
<1> QED BY <1>2, <1>3, <1>4

LEMMA WorkerTraced ==
  ASSUME PathEnvelopes \subseteq Envelopes, PipelineType, CursorInv, TapeInv, BookTrace, InitialCursor # Null,
         Worker
  PROVE  TraceMoves /\ \A p \in Passes : pass'[p] \in {pass[p], Idle}
<1>1. \A p \in Passes : pass'[p] \in {pass[p], Idle}
  <2>1. CASE WorkerCrashes
    BY <2>1 DEF WorkerCrashes
  <2>2. CASE ~WorkerCrashes
    <3>1. pass' = pass
      BY <2>2 DEF Worker, Connect, Consume, SaveCursor, Disconnect, StartIngestion, StreamStep
    <3> QED BY <3>1
  <2> QED BY <2>1, <2>2
<1>2. CASE ~Consume
  <2>1. UNCHANGED vars
    BY <1>2 DEF Worker, Connect, SaveCursor, Disconnect, WorkerCrashes, StartIngestion
  <2> QED BY <1>1, <2>1 DEF TraceMoves
<1>3. CASE Consume
  <2> DEFINE e == StreamEvent(stream.next)
  <2>1. VenueOrdersType /\ stream.next \in 1..Len(tape)
    BY <1>3 DEF Consume, PipelineType, StreamType, Stream, VenueOrdersType
  <2>2. e \in SoundEvents(vstatus) /\ Traced(e)
    BY <2>1, StreamEventIsSound, StreamTraced
  <2>3. UNCHANGED venueVars /\ (UNCHANGED vars \/ Deliver(e))
    BY <1>3 DEF Consume, StreamStep
  <2> HIDE DEF e
  <2>4. UNCHANGED vars => TraceMoves
    BY DEF TraceMoves
  <2> QED BY <1>1, <2>2, <2>3, <2>4, DeliveryTraced
<1> QED BY <1>2, <1>3

LEMMA ReconcileTraced ==
  ASSUME PathEnvelopes \subseteq Envelopes, PipelineInv, BookTrace, PassTrace, ShownGrows, BooksRemember,
         NEW p \in Passes,
         \/ StartPass(p) \/ ReadOrder(p) \/ ReadFills(p) \/ Replay(p)
         \/ ResendCancel(p) \/ FinishOrder(p) \/ PassFails(p)
  PROVE  /\ TraceMoves
         /\ \A q \in Passes \ {p} : pass'[q] = pass[q]
         /\ pass'[p].at = "apply" => \E events : pass'[p].events = events /\ TracedEvents(events)'
<1>1. /\ VenueOrdersType /\ ReconType /\ BookInv /\ IsFiniteSet(PlacedOrders) /\ DOMAIN pass = Passes
      /\ fills \subseteq fills'
  BY DEF PipelineInv, PipelineType, ReconType, CoverInv, BooksRemember
\* What the pass moves to.
<1>2. ASSUME NEW s, PassStep(p, s)
      PROVE  pass'[p] = s /\ \A q \in Passes \ {p} : pass'[q] = pass[q]
  BY <1>1, <1>2 DEF PassStep
<1>3. ASSUME NEW s, PassStep(p, s), s.at # "apply", UNCHANGED vars
      PROVE  /\ TraceMoves
             /\ \A q \in Passes \ {p} : pass'[q] = pass[q]
             /\ pass'[p].at = "apply" => \E events : pass'[p].events = events /\ TracedEvents(events)'
  BY <1>2, <1>3 DEF TraceMoves
<1>4. Idle.at # "apply" /\ \A todo : NextOrder(todo).at # "apply"
  BY DEF Idle, NextOrder
\* Events that were read now.
<1>5. ASSUME NEW s, NEW events \in Seq(SoundEvents(vstatus)), PassStep(p, s), s.events = events,
             TracedEvents(events), UNCHANGED vars
      PROVE  /\ TraceMoves
             /\ \A q \in Passes \ {p} : pass'[q] = pass[q]
             /\ pass'[p].at = "apply" => \E evs : pass'[p].events = evs /\ TracedEvents(evs)'
  <2>1. TracedEvents(events)'
    BY <1>1, <1>5, TracedStay
  <2> QED BY <1>2, <1>5, <2>1 DEF TraceMoves
<1>6. CASE StartPass(p) \/ FinishOrder(p) \/ ResendCancel(p) \/ PassFails(p)
  <2>1. UNCHANGED vars
    BY <1>6 DEF StartPass, FinishOrder, ResendCancel, PassFails
  <2>2. \E todo : PassStep(p, NextOrder(todo)) \/ PassStep(p, Idle)
    BY <1>6 DEF StartPass, FinishOrder, ResendCancel, PassFails
  <2> QED BY <1>3, <1>4, <2>1, <2>2
<1>7. CASE ReadOrder(p)
  <2> DEFINE o == Head(pass[p].todo).order
             With(at, evs) == [at |-> at, todo |-> pass[p].todo, status |-> vstatus[o], events |-> evs]
             failed == With("apply", <<SubmitFailedEvent(o)>>)
             shown == With("apply", SnapshotEvents(o, vstatus[o], <<>>))
  <2>1. /\ pass[p].at = "order" /\ UNCHANGED vars
        /\ \/ PassStep(p, failed)
           \/ PassStep(p, NextOrder(Tail(pass[p].todo)))
           \/ PassStep(p, With("fills", <<>>))
           \/ vstatus[o] # "none" /\ VenueFills(o) = <<>> /\ PassStep(p, shown)
    BY <1>7 DEF ReadOrder
  <2>2. o \in Orders /\ vstatus[o] \in VenueStatuses
    BY <1>1, <2>1, RestIsTyped DEF VenueOrdersType
  <2>3. /\ <<SubmitFailedEvent(o)>> \in Seq(SoundEvents(vstatus)) /\ TracedEvents(<<SubmitFailedEvent(o)>>)
    BY <2>2, SubmitFailedIsSound, FailureTraced
  <2>4. ASSUME vstatus[o] # "none", VenueFills(o) = <<>>
        PROVE  /\ SnapshotEvents(o, vstatus[o], <<>>) \in Seq(SoundEvents(vstatus))
               /\ TracedEvents(SnapshotEvents(o, vstatus[o], <<>>))
    <3>1. <<>> \in Seq({x \in Executions : OrderOf[x] = o}) /\ activities[o] = <<>>
      BY <2>4 DEF VenueFills
    <3> HIDE DEF o
    <3>2. TracedEvents(SnapshotEvents(o, vstatus[o], activities[o]))
      BY <1>1, <2>2, <2>4, SnapshotTraced
    <3> QED BY <2>2, <2>4, <3>1, <3>2, SnapshotIsSound
  <2>5. /\ failed.events = <<SubmitFailedEvent(o)>> /\ With("fills", <<>>).at # "apply"
        /\ shown.events = SnapshotEvents(o, vstatus[o], <<>>)
    OBVIOUS
  <2> HIDE DEF With, failed, shown, o
  <2> QED BY <1>3, <1>4, <1>5, <2>1, <2>3, <2>4, <2>5
<1>8. CASE ReadFills(p)
  <2> DEFINE o == Head(pass[p].todo).order
             evs == SnapshotEvents(o, pass[p].status, activities[o])
             s == [pass[p] EXCEPT !.at = "apply", !.events = evs]
  <2>1. /\ pass[p].at = "fills" /\ PassStep(p, s) /\ UNCHANGED vars
    BY <1>8 DEF ReadFills, VenueFills
  <2>2. /\ o \in Orders /\ pass[p].status \in VenueStatuses \ {"none"}
        /\ pass[p].status \in VenueDone => vstatus[o] = pass[p].status
        /\ activities[o] \in Seq({x \in Executions : OrderOf[x] = o})
    BY <1>1, <2>1, RestIsTyped DEF ReconType, ReconOK, VenueOrdersType
  <2>3. evs \in Seq(SoundEvents(vstatus)) /\ TracedEvents(evs)
    <3> HIDE DEF o
    <3> QED BY <1>1, <2>2, SnapshotIsSound, SnapshotTraced
  <2>4. PICK events \in Seq(SoundEvents(vstatus)) : events = evs /\ TracedEvents(events)
    BY <2>3
  <2> HIDE DEF evs
  <2>5. s.events = events
    BY <2>4
  <2> HIDE DEF s
  <2> QED BY <1>5, <2>1, <2>4, <2>5
<1>9. CASE Replay(p)
  <2>1. PICK events \in Seq(SoundEvents(vstatus)) :
          events = pass[p].events /\ events # <<>> /\ TracedEvents(events)
    BY <1>1, <1>9 DEF Replay, ReconType, ReconOK, PassTrace
  <2>2. PICK e \in SoundEvents(vstatus) : e = Head(events) /\ Traced(e)
    BY <2>1, HeadTraced
  <2> DEFINE s == [pass[p] EXCEPT !.events = Tail(@)]
  <2>3. /\ UNCHANGED venueVars
        /\ \/ PassStep(p, Idle) /\ UNCHANGED vars
           \/ PassStep(p, s) /\ ((UNCHANGED vars /\ Skipped(p, e)) \/ Deliver(e))
    BY <1>9, <2>1, <2>2 DEF Replay
  <2>4. s.events = Tail(events)
    BY <2>1
  <2> HIDE DEF s
  <2>5. CASE PassStep(p, Idle) /\ UNCHANGED vars
    BY <1>3, <1>4, <2>5
  <2>6. CASE PassStep(p, s) /\ ((UNCHANGED vars /\ Skipped(p, e)) \/ Deliver(e))
    <3>1. TracedEvents(events)'
      BY <1>1, <2>1, TracedStay
    <3>2. IsFill(e) => e.exec \in fills'
      <4>1. CASE Skipped(p, e)
        BY <4>1 DEF Skipped, IsFill, FillTypes
      <4>2. CASE Deliver(e)
        BY <2>2, <4>2, DeliveredIsBooked, <2>1 DEF TracedEvents
      <4> QED BY <2>6, <4>1, <4>2
    <3>3. TracedEvents(Tail(events))'
      BY <2>1, <2>2, <3>1, <3>2, TailTraced
    <3>4. TraceMoves
      <4>1. CASE UNCHANGED vars
        BY <4>1 DEF TraceMoves
      <4>2. CASE Deliver(e)
        BY <2>2, <2>3, <4>2, DeliveryTraced
      <4> QED BY <2>6, <4>1, <4>2
    <3> QED BY <1>2, <2>4, <2>6, <3>3, <3>4
  <2> QED BY <2>3, <2>5, <2>6
<1> QED BY <1>6, <1>7, <1>8, <1>9

\* One step of the book keeps the trace.
LEMMA NextTraceInBook ==
  ASSUME PipelineInv, BookInv', [Next]_vars, VenueDecides, TapeInv, TapeInv', ShownGrows, TapeGrows,
         BookTrace, EndsComplete, FillsCounted, TraceMoves
  PROVE  BookTrace' /\ EndsComplete' /\ FillsCounted'
<1>1. BookInv /\ tape \in Seq(SoundEntries)
  BY DEF PipelineInv, CoverInv, PipelineType, VenueOrdersType
<1>2. ASSUME fills' = fills, seen' = seen PROVE BookTrace'
  <2>1. \A x \in Executions : Visible(x) => Visible(x)'
    BY BookAssumption DEF ShownGrows, Visible
  <2>2. \A n \in 1..Len(tape) : n \in 1..Len(tape') /\ tape'[n] = tape[n]
    BY <1>1 DEF TapeGrows
  <2>3. fills \subseteq Executions
    BY <1>1 DEF BookInv, TypeOK
  <2>4. \A x \in fills' : Visible(x)'
    BY <1>2, <2>1, <2>3 DEF BookTrace
  <2>5. \A x \in Executions : <<"recon", x>> \in seen' => x \in fills'
    BY <1>2 DEF BookTrace
  <2>6. \A n \in Nat : <<"ulid", n>> \in seen' =>
          n \in 1..Len(tape') /\ (IsExecution(tape'[n]) => tape'[n].exec \in fills')
    BY <1>2, <2>2 DEF BookTrace
  <2> QED BY <2>4, <2>5, <2>6 DEF BookTrace
<1>3. ASSUME fills' = fills, \A o \in Orders : state'[o] \in DOMAIN VenueOutcome => state'[o] = state[o]
      PROVE  EndsComplete'
  <2> SUFFICES ASSUME NEW o \in Orders, state'[o] \in DOMAIN VenueOutcome
               PROVE  Shown(o)' \subseteq fills'
    BY DEF EndsComplete
  <2>1. state[o] \in DOMAIN VenueOutcome
    BY <1>3
  <2>2. vstatus[o] \in VenueDone
    BY <2>1 DEF VenueDecides, VenueOutcome, VenueDone
  <2> QED BY <1>3, <2>1, <2>2 DEF ShownGrows, EndsComplete
<1>4. CASE UNCHANGED vars
  <2>1. fills' = fills /\ seen' = seen /\ state' = state /\ filled' = filled
    BY <1>4 DEF vars
  <2>2. FillsCounted'
    BY <2>1 DEF FillsCounted, BookedFor
  <2> QED BY <1>2, <1>3, <2>1, <2>2
<1>5. ASSUME NEW o \in Orders, Place(o) \/ RequestCancel(o) \/ FailSubmission(o)
      PROVE  BookTrace' /\ EndsComplete' /\ FillsCounted'
  <2>1. fills' = fills /\ seen' = seen
    BY <1>5 DEF Place, RequestCancel, FailSubmission
  <2>2. \A p \in Orders : state'[p] \in DOMAIN VenueOutcome => state'[p] = state[p]
    BY <1>1, <1>5, NoEndWithoutEvent
  <2>3. FillsCounted'
    BY <1>1, <1>5, CountsWithout
  <2> QED BY <1>2, <1>3, <2>1, <2>2, <2>3
<1>6. ASSUME NEW e \in SoundEvents(vstatus), Traced(e), Applied(e), UNCHANGED venueVars
      PROVE  BookTrace' /\ EndsComplete' /\ FillsCounted'
  <2>1. BookTrace'
    BY <1>6, TraceGrows
  <2>2. EndsComplete'
    BY <1>1, <1>6, <2>1, EndsStayComplete
  <2>3. FillsCounted'
    BY <1>1, <1>6, CountsWithEvent
  <2> QED BY <2>1, <2>2, <2>3
<1> QED BY <1>4, <1>5, <1>6 DEF TraceMoves

LEMMA NextTrace ==
  ASSUME PathEnvelopes \subseteq Envelopes, PipelineInv, VenueDecides, CursorInv, TraceInv,
         [ExecNext]_execVars
  PROVE  TraceInv'
<1> SUFFICES ASSUME InitialCursor # Null PROVE TraceInv'
  BY DEF TraceInv
<1>1. /\ TapeInv /\ BookTrace /\ PassTrace /\ EndsComplete /\ FillsCounted
      /\ PipelineType /\ VenueOrdersType /\ ReconType
  BY DEF TraceInv, PipelineInv, PipelineType
<1>2. TapeInv' /\ ShownGrows
  BY <1>1, VenueKinds, TapeKeeps
<1>3. TapeGrows /\ BooksRemember /\ [Next]_vars /\ BookInv'
  BY <1>1, TapeOnlyGrows, PipelineKinds, MovesRemember, NextPipeline DEF Keeps, PipelineInv, CoverInv
<1>4. fills \subseteq fills'
  BY <1>3 DEF BooksRemember
\* A pass that stays holds what it held.
<1>5. ASSUME NEW p \in Passes, pass'[p] = pass[p] \/ pass'[p] = Idle, pass'[p].at = "apply"
      PROVE  \E events : pass'[p].events = events /\ TracedEvents(events)'
  <2>1. pass'[p] = pass[p]
    BY <1>5 DEF Idle
  <2>2. PICK events \in Seq(SoundEvents(vstatus)) : events = pass[p].events /\ TracedEvents(events)
    BY <1>1, <1>5, <2>1 DEF ReconType, ReconOK, PassTrace
  <2>3. TracedEvents(events)'
    BY <1>2, <1>4, <2>2, TracedStay
  <2> QED BY <2>1, <2>2, <2>3
<1>6. TraceMoves /\ PassTrace'
  <2>1. CASE Api
    BY <1>5, <2>1, ApiTraced, PassesTraced
  <2>2. CASE Venue \/ UNCHANGED execVars
    <3>1. UNCHANGED vars /\ pass' = pass
      BY <2>2 DEF Venue, VenueReceives, VenueAccepts, VenueRejects, VenueConfirmsCancel, VenueExpires,
                  VenueFillsLot, Emit, execVars, pipelineVars
    <3> QED BY <1>5, <3>1, PassesTraced DEF TraceMoves
  <2>3. CASE Worker
    BY <1>1, <1>5, <2>3, WorkerTraced, PassesTraced
  <2>4. CASE Reconcile
    <3>1. PICK p \in Passes : \/ StartPass(p) \/ ReadOrder(p) \/ ReadFills(p) \/ Replay(p)
                              \/ ResendCancel(p) \/ FinishOrder(p) \/ PassFails(p)
      BY <2>4 DEF Reconcile
    <3>2. /\ TraceMoves
          /\ \A q \in Passes \ {p} : pass'[q] = pass[q]
          /\ pass'[p].at = "apply" => \E events : pass'[p].events = events /\ TracedEvents(events)'
      BY <1>1, <1>2, <1>3, <3>1, ReconcileTraced
    <3> QED BY <1>5, <3>2, PassesTraced
  <2> QED BY <2>1, <2>2, <2>3, <2>4 DEF ExecNext
<1>7. BookTrace' /\ EndsComplete' /\ FillsCounted'
  BY <1>1, <1>2, <1>3, <1>6, NextTraceInBook
<1> QED BY <1>2, <1>6, <1>7 DEF TraceInv

LEMMA InitTrace == ExecInit => TraceInv
<1> SUFFICES ASSUME ExecInit PROVE TapeInv /\ BookTrace /\ PassTrace /\ EndsComplete /\ FillsCounted
  BY DEF TraceInv
<1>1. /\ tape = <<>> /\ activities = [o \in Orders |-> <<>>] /\ fills = {} /\ seen = {}
      /\ state = [o \in Orders |-> Absent] /\ filled = [o \in Orders |-> 0]
      /\ pass = [p \in Passes |-> Idle]
  BY DEF ExecInit, Init
<1>2. \A o \in Orders : Shown(o) = {}
  BY <1>1 DEF Shown, Range
<1>3. TapeInv
  <2>1. \A o \in Orders : Len(activities[o]) = 0 /\ Qty[o] \in Nat
    BY <1>1, BookAssumption
  <2>2. \A x \in Executions : ~Visible(x)
    BY <1>2, BookAssumption DEF Visible
  <2>3. Len(tape) = 0 /\ 1..0 = {}
    BY <1>1
  <2>4. \A o \in Orders : /\ IsFiniteSet(Shown(o)) /\ Cardinality(Shown(o)) = Len(activities[o])
                          /\ Len(activities[o]) <= Qty[o]
    BY <1>2, <2>1, FS_EmptySet
  <2>5. \A x \in Executions : ~\E n \in 1..Len(tape) : IsExecution(tape[n]) /\ tape[n].exec = x
    BY <2>3
  <2>6. \A m, n \in 1..Len(tape) :
          tape[n].event \in OrderEnds /\ IsExecution(tape[m]) /\ tape[m].order = tape[n].order => m < n
    BY <2>3
  <2> QED BY <2>2, <2>4, <2>5, <2>6 DEF TapeInv
<1>4. BookTrace
  BY <1>1 DEF BookTrace
<1>5. PassTrace
  BY <1>1 DEF PassTrace, Idle
<1>6. EndsComplete
  BY <1>1 DEF EndsComplete, VenueOutcome, Absent
<1>7. FillsCounted
  <2>1. \A o \in Orders : BookedFor(o) = {}
    BY <1>1 DEF BookedFor
  <2> QED BY <1>1, <2>1, FS_EmptySet DEF FillsCounted
<1> QED BY <1>3, <1>4, <1>5, <1>6, <1>7

\* With a cursor from before the orders, an execution is booked without moving
\* filled_qty only for an order declared SUBMIT_FAILED: through any number of
\* overlapping passes, reconnections and crashes, no order ends locally before
\* everything the venue executed of it is booked.
THEOREM LateFillsMeanFalseFailure ==
  ASSUME PathEnvelopes \subseteq Envelopes
  PROVE  ExecSpec => []LateOnlyAfterFalseFailure
<1>1. PipelineInv /\ VenueDecides /\ CursorInv /\ TraceInv /\ [ExecNext]_execVars => TraceInv'
  BY NextTrace
<1>2. TraceInv => LateOnlyAfterFalseFailure
  BY DEF TraceInv, FillsCounted, LateOnlyAfterFalseFailure, LateFilled
<1> QED BY <1>1, <1>2, InitTrace, PipelineInvariant, VenueHasTheLastWord, CursorIsKept, PTL DEF ExecSpec
================================================================================
