------------------------------- MODULE Accounts -------------------------------
(***************************************************************************)
(* The accounts of one user (core/accounts and its callers in               *)
(* server/api/portfolio.ts): opening an account at the venue, activating it *)
(* once the venue reports the cash, and the reset, which archives the       *)
(* active account and opens the next.                                       *)
(*                                                                          *)
(* Accounts are numbered in the order of created_at.  A call holds between  *)
(* two awaits what it read before: each of its transactions and venue       *)
(* requests is an action.  Orders matter here only in that a reset waits    *)
(* for them, so an order is its account and how far it has come.            *)
(***************************************************************************)
EXTENDS Naturals, FiniteSets, Sequences

CONSTANTS
  Openings,     \* POST /account/provision calls
  Resets,       \* POST /account/reset calls
  Polls,        \* GET /me calls
  Sweeps,       \* the worker's provisioning sweeps
  Orders,
  MaxAccounts,  \* bound on the accounts the user ever has
  MaxFaults     \* bound on crashes and failed venue requests

ASSUME AccountAssumption ==
  /\ {MaxAccounts, MaxFaults} \subseteq Nat
  /\ Openings \cap Resets = {} /\ (Openings \cup Resets) \cap (Polls \cup Sweeps) = {}

VARIABLES
  account,   \* accounts and broker_accounts
  deposits,  \* opening DEPOSIT entries of each account in the ledger
  venue,     \* how far the venue's own account has come
  call,      \* what each call holds in memory
  order,     \* orders, as the reset sees them
  faults

accountVars == <<account, deposits, venue, call, order, faults>>

Ids == 1 .. MaxAccounts
Calls == Openings \cup Resets \cup Polls \cup Sweeps

Statuses == {"none", "PROVISIONING", "ACTIVE", "ARCHIVED", "PROVISIONING_FAILED"}
OpenStatuses == {"PROVISIONING", "ACTIVE"}
VenueStages == <<"none", "account", "relationship", "funding", "settled">>
OrderStates == {"none", "submitting", "working", "canceling", "ended"}

WithStatus(statuses) == {a \in Ids : account[a].status \in statuses}
Rows == WithStatus(Statuses \ {"none"})
Latest(ids) == IF ids = {} THEN 0 ELSE CHOOSE a \in ids : \A b \in ids : b <= a

\* getActiveForUser, getCurrentForUser.
Active == Latest(WithStatus({"ACTIVE"}))
Current == Latest(Rows \ WithStatus({"ARCHIVED"}))

OpenOrders(a) ==
  {o \in Orders : order[o].account = a /\ order[o].state \in {"submitting", "working", "canceling"}}

Idle == [at |-> "idle", id |-> 0, todo |-> {}]
Continue(c, at) == call' = [call EXCEPT ![c].at = at]
Return(c) == call' = [call EXCEPT ![c] = Idle]
SetStatus(a, status) == account' = [account EXCEPT ![a].status = status]

\* by and looked are history: the reset that archived the account, and the
\* account that reset had listed the orders of.
NoAccount == [status |-> "none", linked |-> FALSE, by |-> {}, looked |-> 0]

Init ==
  /\ account = [a \in Ids |-> NoAccount]
  /\ deposits = [a \in Ids |-> 0]
  /\ venue = [a \in Ids |-> 1]
  /\ call = [c \in Calls |-> Idle]
  /\ order = [o \in Orders |-> [account |-> 0, state |-> "none", after |-> {}]]
  /\ faults = 0

--------------------------------------------------------------------------------
(* openPaperAccount.                                                            *)

\* provisionAccount refuses while the user has an account that has not failed.
StartProvision(c) ==
  /\ call[c] = Idle
  /\ Current \in {0} \cup WithStatus({"PROVISIONING_FAILED"})
  /\ Continue(c, "creating")
  /\ UNCHANGED <<account, deposits, venue, order, faults>>

\* accounts_one_open_per_user.
Insertable == WithStatus(OpenStatuses) = {}

\* Mutant: the partial index covers ACTIVE accounts only.
InsertableUnlessActive == WithStatus({"ACTIVE"}) = {}

\* repo.create; the unique index turns the losing insert away.
Create(c) ==
  LET new == Cardinality(Rows) + 1 IN
  /\ call[c].at = "creating"
  /\ \/ /\ Insertable
        /\ new \in Ids
        /\ SetStatus(new, "PROVISIONING")
        /\ call' = [call EXCEPT ![c] = [at |-> "provisioning", id |-> new, todo |-> {}]]
     \/ /\ ~Insertable
        /\ Return(c)
        /\ UNCHANGED account
  /\ UNCHANGED <<deposits, venue, order, faults>>

\* The requests of provisionAccount: the account, the bank relationship, the
\* transfer that funds it.
Posted(a) == venue' = [venue EXCEPT ![a] = @ + 1]

PostNext(c) ==
  /\ call[c].at = "provisioning"
  /\ Posted(call[c].id)
  /\ Continue(c, IF VenueStages[venue[call[c].id] + 1] = "funding" THEN "linking" ELSE "provisioning")
  /\ UNCHANGED <<account, deposits, order, faults>>

\* Mutant: the transfer is requested again and again.
PostNextAgain(c) ==
  /\ call[c].at = "provisioning"
  /\ Posted(call[c].id)
  /\ UNCHANGED <<account, deposits, call, order, faults>>

\* A request that fails may have been executed.
PostFails(c) ==
  /\ call[c].at = "provisioning"
  /\ faults < MaxFaults /\ faults' = faults + 1
  /\ Posted(call[c].id) \/ UNCHANGED venue
  /\ Continue(c, "failing")
  /\ UNCHANGED <<account, deposits, order>>

MarkFailed(c) ==
  /\ call[c].at = "failing"
  /\ SetStatus(call[c].id, "PROVISIONING_FAILED")
  /\ Return(c)
  /\ UNCHANGED <<deposits, venue, order, faults>>

Link(c) ==
  /\ call[c].at = "linking"
  /\ account' = [account EXCEPT ![call[c].id].linked = TRUE]
  /\ Continue(c, "reading")
  /\ UNCHANGED <<deposits, venue, order, faults>>

--------------------------------------------------------------------------------
(* tryActivate: by the call that opened the account, by the user's polling, by  *)
(* the worker.                                                                  *)

Try(c, a) == call' = [call EXCEPT ![c] = [at |-> "reading", id |-> a, todo |-> {}]]

\* getMe.
Poll(c) ==
  /\ call[c] = Idle
  /\ Current \in WithStatus({"PROVISIONING"})
  /\ Try(c, Current)
  /\ UNCHANGED <<account, deposits, venue, order, faults>>

\* activatePendingAccounts.
Sweep(c) ==
  /\ call[c] = Idle
  /\ \E a \in WithStatus({"PROVISIONING"}) : Try(c, a)
  /\ UNCHANGED <<account, deposits, venue, order, faults>>

ReadAccount(c) ==
  /\ call[c].at = "reading"
  /\ IF account[call[c].id].status = "PROVISIONING" /\ account[call[c].id].linked
       THEN Continue(c, "asking")
       ELSE Return(c)
  /\ UNCHANGED <<account, deposits, venue, order, faults>>

\* Mutant: activation does not wait for the venue.
FundedOnceRequested(a) == VenueStages[venue[a]] \in {"funding", "settled"}

\* Deterministic and external venues alike report zero until the cash settled.
Funded(a) == VenueStages[venue[a]] = "settled"

\* Mutant: an account that is not funded at the first look has failed.
AskVenueOnce(c) ==
  /\ call[c].at = "asking"
  /\ Continue(c, IF Funded(call[c].id) THEN "activating" ELSE "failing")
  /\ UNCHANGED <<account, deposits, venue, order, faults>>

AskVenue(c) ==
  /\ call[c].at = "asking"
  /\ IF Funded(call[c].id) THEN Continue(c, "activating") ELSE Return(c)
  /\ UNCHANGED <<account, deposits, venue, order, faults>>

\* The status is checked again under the account's lock.
MayActivate(a) == account[a].status = "PROVISIONING"

\* Mutant: the status read before the venue was asked is trusted.
MayActivateUnchecked(a) == TRUE

Activate(c) ==
  LET a == call[c].id IN
  /\ call[c].at = "activating"
  /\ IF MayActivate(a)
       THEN /\ SetStatus(a, "ACTIVE")
            /\ deposits' = [deposits EXCEPT ![a] = @ + 1]
       ELSE UNCHANGED <<account, deposits>>
  /\ Return(c)
  /\ UNCHANGED <<venue, order, faults>>

--------------------------------------------------------------------------------
(* resetAccount.                                                                *)

StartReset(c) ==
  /\ call[c] = Idle
  /\ Active # 0
  /\ call' = [call EXCEPT ![c] = [at |-> "canceling", id |-> Active,
                                  todo |-> {o \in OpenOrders(Active) : order[o].state = "working"}]]
  /\ UNCHANGED <<account, deposits, venue, order, faults>>

\* requestCancel on the locked order, then the venue's cancel: what the venue
\* answers comes as an outcome of the order.
CancelNext(c) ==
  /\ call[c].at = "canceling"
  /\ \E o \in call[c].todo :
       /\ order' = [order EXCEPT ![o].state = IF @ = "working" THEN "canceling" ELSE @]
       /\ call' = [call EXCEPT ![c].todo = @ \ {o}]
  /\ UNCHANGED <<account, deposits, venue, faults>>

\* Mutant: the 409 is forgotten.
LastLookIgnored(c) ==
  /\ call[c].at = "canceling" /\ call[c].todo = {}
  /\ Continue(c, "archiving")
  /\ UNCHANGED <<account, deposits, venue, order, faults>>

\* Ten looks, then one after a reconciliation; 409 if orders remain.
LastLook(c) ==
  /\ call[c].at = "canceling" /\ call[c].todo = {}
  /\ IF OpenOrders(call[c].id) = {} THEN Continue(c, "archiving") ELSE Return(c)
  /\ UNCHANGED <<account, deposits, venue, order, faults>>

\* archiveAndReprovision: the account that is active by now, if there is one.
Archive(c) ==
  /\ call[c].at = "archiving"
  /\ IF Active = 0
       THEN Return(c) /\ UNCHANGED account
       ELSE /\ account' = [account EXCEPT ![Active].status = "ARCHIVED",
                                          ![Active].by = {c}, ![Active].looked = call[c].id]
            /\ Continue(c, "creating")
  /\ UNCHANGED <<deposits, venue, order, faults>>

--------------------------------------------------------------------------------
(* The venue, the user's orders, and crashes.                                   *)

\* The simulated bank transfer clears.
FundingSettles(a) ==
  /\ VenueStages[venue[a]] = "funding"
  /\ venue' = [venue EXCEPT ![a] = @ + 1]
  /\ UNCHANGED <<account, deposits, call, order, faults>>

\* Placement checks the status under the account's lock.  after: the resets
\* that have had their last look.
Place(o) ==
  /\ order[o].state = "none"
  /\ Active # 0
  /\ order' = [order EXCEPT ![o] = [account |-> Active, state |-> "submitting",
                                    after |-> {c \in Resets : call[c].at = "archiving"}]]
  /\ UNCHANGED <<account, deposits, venue, call, faults>>

Submitted(o) ==
  /\ order[o].state = "submitting"
  /\ order' = [order EXCEPT ![o].state = "working"]
  /\ UNCHANGED <<account, deposits, venue, call, faults>>

Ends(o) ==
  /\ order[o].state \in {"submitting", "working", "canceling"}
  /\ order' = [order EXCEPT ![o].state = "ended"]
  /\ UNCHANGED <<account, deposits, venue, call, faults>>

\* The process dies, or a transaction or a request throws out of the call.
Dies(c) ==
  /\ call[c] # Idle
  /\ faults < MaxFaults /\ faults' = faults + 1
  /\ Return(c)
  /\ UNCHANGED <<account, deposits, venue, order>>

CallStep(c) ==
  \/ Create(c) \/ PostNext(c) \/ MarkFailed(c) \/ Link(c)
  \/ ReadAccount(c) \/ AskVenue(c) \/ Activate(c)
  \/ CancelNext(c) \/ LastLook(c) \/ Archive(c)

Next ==
  \/ \E c \in Openings : StartProvision(c)
  \/ \E c \in Resets : StartReset(c)
  \/ \E c \in Polls : Poll(c)
  \/ \E c \in Sweeps : Sweep(c)
  \/ \E c \in Calls : CallStep(c) \/ PostFails(c) \/ Dies(c)
  \/ \E a \in Ids : FundingSettles(a)
  \/ \E o \in Orders : Place(o) \/ Submitted(o) \/ Ends(o)

AccountSpec == Init /\ [][Next]_accountVars

\* Calls go on, the worker is woken again and again, transfers clear.  Users
\* and orders owe nothing.
FairAccountSpec ==
  /\ AccountSpec
  /\ \A c \in Calls : WF_accountVars(CallStep(c))
  /\ \A c \in Sweeps : WF_accountVars(Sweep(c))
  /\ \A a \in Ids : WF_accountVars(FundingSettles(a))

--------------------------------------------------------------------------------
\* Types.
AccountsTypeOK ==
  /\ account \in [Ids -> [status : Statuses, linked : BOOLEAN, by : SUBSET Resets, looked : 0 .. MaxAccounts]]
  /\ deposits \in [Ids -> Nat]
  /\ venue \in [Ids -> 1 .. Len(VenueStages)]
  /\ call \in [Calls -> [at : {"idle", "creating", "provisioning", "failing", "linking", "reading",
                               "asking", "activating", "canceling", "archiving"},
                         id : 0 .. MaxAccounts, todo : SUBSET Orders]]
  /\ order \in [Orders -> [account : 0 .. MaxAccounts, state : OrderStates, after : SUBSET Resets]]
  /\ faults \in 0 .. MaxFaults

\* However many polls, sweeps and openings race, an account has one opening
\* deposit if it was ever active and none before, and never one that the venue
\* does not hold in settled cash (accounts.ts: "the DEPOSIT can never post twice
\* no matter how many pollers and workers call this concurrently").
OneFundedDeposit ==
  \A a \in Ids :
    /\ deposits[a] = IF account[a].status \in {"ACTIVE", "ARCHIVED"} THEN 1 ELSE 0
    /\ deposits[a] # 0 => VenueStages[venue[a]] = "settled"

\* The account the interface shows and polls (the latest that is not archived)
\* is the open one whenever there is one: no retry after a failure, double
\* submission or reset that meets an opening leaves an open account hidden.
OpenAccountIsCurrent ==
  \A a \in WithStatus(OpenStatuses) : Current = a

\* A user has one account to trade on, the one shown, opened with one deposit.
OneFundedCurrentAccount == OneFundedDeposit /\ OpenAccountIsCurrent

\* A reset that archives the account it examined leaves on it no order but one
\* placed after its last look (resetAccount: "REFUSES to archive while any order
\* is unresolved").
ArchiveWaitsForOrders ==
  \A a \in WithStatus({"ARCHIVED"}) :
    account[a].looked = a => \A o \in OpenOrders(a) : account[a].by \subseteq order[o].after

\* An account whose venue account is linked becomes active, though polls, sweeps
\* and the opening race and one of them dies between its steps: time and again no
\* linked account (a link is never undone) is left inactive.
LinkedAccountActivates ==
  []<>(\A a \in Ids : account[a].linked => account[a].status \in {"ACTIVE", "ARCHIVED"})

\* What resetAccount says of itself: the account a reset archives is the one
\* whose orders it saw resolved.
ResetArchivesWhatItExamined ==
  \A a \in WithStatus({"ARCHIVED"}) : account[a].looked = a

\* What onboarding.tsx tells the user of a PROVISIONING account: "This page
\* updates by itself".
SetupEnds ==
  \A a \in Ids : account[a].status = "PROVISIONING" ~> account[a].status # "PROVISIONING"
================================================================================
