------------------------------ MODULE VenueCash ------------------------------
(* The cash half of the in-process venue: one account's funding and its paper
   transfers (deterministic-broker.ts, provisionAccount and CashTransferVenue).
   No method awaits anything, so each is one step.  Transfers settle at once
   unless they are held; held ones are completed, failed or cancelled later. *)
EXTENDS Integers, FiniteSets, FiniteSetsExt

CONSTANTS
  StartingCash,   \* what the account is provisioned with
  Amounts,        \* amounts a transfer can have
  MaxTransfers    \* bound: calls of initiate that reach the venue

VARIABLES
  accountCash,  \* settled cash of the account
  heldFunding,  \* funding that has not landed yet
  provisioned,  \* the account exists
  transfers,    \* venue transfer id -> record, for the ids the venue remembers
  lastId,       \* nextId("det-xfer")
  fault,        \* nextTransferFault
  answered      \* history: transfer -> every record of it a caller could read

cashVars == <<accountCash, heldFunding, provisioned, transfers, lastId, fault, answered>>

Directions == {"DEPOSIT", "WITHDRAWAL"}

Init ==
  /\ accountCash = 0 /\ heldFunding = 0 /\ provisioned = FALSE
  /\ transfers = << >>
  /\ lastId = 0
  /\ fault = "none"
  /\ answered = [i \in 1..MaxTransfers |-> {}]

\* provisionAccount(), once for the account.  Held funding leaves the cash at
\* zero until it is released.
ProvisionAccount ==
  /\ ~provisioned
  /\ provisioned' = TRUE
  /\ \E hold \in BOOLEAN :
        /\ accountCash' = IF hold THEN 0 ELSE StartingCash
        /\ heldFunding' = IF hold THEN StartingCash ELSE heldFunding
  /\ UNCHANGED <<transfers, lastId, fault, answered>>

\* releaseFunding(): the cash is set, not added to.
ReleaseFunding ==
  /\ heldFunding # 0
  /\ accountCash' = heldFunding
  /\ heldFunding' = 0
  /\ UNCHANGED <<provisioned, transfers, lastId, fault, answered>>

Moved(t) == IF t.direction = "DEPOSIT" THEN t.amount ELSE 0 - t.amount
Record(dir, amount, state) == [direction |-> dir, amount |-> amount, state |-> state]
Answer(i) == answered' = [answered EXCEPT ![i] = @ \union {transfers'[i]}]

FailNextTransfer ==
  /\ fault = "none"
  /\ fault' \in {"reject", "timeout"}
  /\ UNCHANGED <<accountCash, heldFunding, provisioned, transfers, lastId, answered>>

\* initiate(): an armed fault is used up and nothing is recorded; otherwise the
\* record exists, settled at once unless transfers are held.  The caller transfers
\* only for an ACTIVE account, one whose funding has landed.
Initiate ==
  /\ provisioned /\ heldFunding = 0
  /\ IF fault # "none"
     THEN fault' = "none" /\ UNCHANGED <<accountCash, transfers, lastId, answered>>
     ELSE /\ lastId < MaxTransfers
          /\ lastId' = lastId + 1
          /\ UNCHANGED fault
          /\ \E dir \in Directions, amount \in Amounts, hold \in BOOLEAN :
               LET t == Record(dir, amount, IF hold THEN "PENDING" ELSE "SETTLED") IN
               /\ transfers' = [i \in DOMAIN transfers \union {lastId'} |->
                                  IF i = lastId' THEN t ELSE transfers[i]]
               /\ accountCash' = IF hold THEN accountCash ELSE accountCash + Moved(t)
               /\ Answer(lastId')
  /\ UNCHANGED <<heldFunding, provisioned>>

\* Mutants: an end applied to a record whatever its state, and to one that is not settled.
OpenAlways(i) == i \in DOMAIN transfers
OpenUnlessSettled(i) == i \in DOMAIN transfers /\ transfers[i].state # "SETTLED"

\* Only a record the venue remembers and that is PENDING can end.
Open(i) == i \in DOMAIN transfers /\ transfers[i].state = "PENDING"

CompleteTransfer(i) ==
  /\ Open(i)
  /\ transfers' = [transfers EXCEPT ![i].state = "SETTLED"]
  /\ accountCash' = accountCash + Moved(transfers[i])
  /\ Answer(i)
  /\ UNCHANGED <<heldFunding, provisioned, lastId, fault>>

\* failTransfer() and cancelTransfer(), which answers true; a refused cancel
\* changes nothing and is no step.
FailTransfer(i) ==
  /\ Open(i)
  /\ transfers' = [transfers EXCEPT ![i].state = "FAILED"]
  /\ Answer(i)
  /\ UNCHANGED <<accountCash, heldFunding, provisioned, lastId, fault>>

\* forgetTransfers(): a restart of the venue loses the records, not the cash.
ForgetTransfers ==
  /\ transfers # << >>
  /\ transfers' = << >>
  /\ UNCHANGED <<accountCash, heldFunding, provisioned, lastId, fault, answered>>

Next ==
  \/ ProvisionAccount \/ ReleaseFunding \/ FailNextTransfer \/ Initiate \/ ForgetTransfers
  \/ \E i \in 1..MaxTransfers : CompleteTransfer(i) \/ FailTransfer(i)

-----------------------------------------------------------------------------
Ended(i) == {a \in answered[i] : a.state # "PENDING"}
Settlements ==
  UNION {{<<i, a>> : a \in {b \in answered[i] : b.state = "SETTLED"}} : i \in 1..MaxTransfers}
SettledSum == SumFunctionOnSet([s \in Settlements |-> Moved(s[2])], Settlements)

\* Whatever is held, failed, cancelled or forgotten, and in whatever order: the
\* venue's cash is what the account was funded with plus the transfers a caller
\* was ever told had settled, each once, and none was also told to have failed.
CashIsWhatSettled ==
  /\ provisioned => accountCash + heldFunding = StartingCash + SettledSum
  /\ \A i \in 1..MaxTransfers : \A a, b \in Ended(i) : a = b
=============================================================================
