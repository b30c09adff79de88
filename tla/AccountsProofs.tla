----------------------------- MODULE AccountsProofs -----------------------------
(***************************************************************************)
(* Theorems of Accounts, for every number of openings, resets, polls,       *)
(* sweeps, orders, accounts and faults; then of the watchlist and of the    *)
(* pages of an order, which stand on one dashboard with it (MCDashboard).   *)
(***************************************************************************)
EXTENDS MCDashboard, FiniteSetTheorems, TLAPS

Places ==
  {"idle", "creating", "provisioning", "failing", "linking", "reading", "asking", "activating",
   "canceling", "archiving"}

AccountRows == [status : Statuses, linked : BOOLEAN, by : SUBSET Resets, looked : 0 .. MaxAccounts]
CallRows == [at : Places, id : 0 .. MaxAccounts, todo : SUBSET Orders]
OrderRows == [account : 0 .. MaxAccounts, state : OrderStates, after : SUBSET Resets]

LEMMA Stages ==
  /\ Len(VenueStages) = 5
  /\ \A n \in 1 .. 5 : /\ VenueStages[n] = "funding" <=> n = 4
                       /\ VenueStages[n] = "settled" <=> n = 5
BY DEF VenueStages

LEMMA Typed ==
  ASSUME AccountsTypeOK
  PROVE  /\ MaxAccounts \in Nat /\ MaxFaults \in Nat
         /\ account \in [Ids -> AccountRows] /\ deposits \in [Ids -> Nat]
         /\ venue \in [Ids -> 1 .. 5] /\ call \in [Calls -> CallRows]
         /\ order \in [Orders -> OrderRows] /\ faults \in 0 .. MaxFaults
BY AccountAssumption, Stages DEF AccountsTypeOK, Places, AccountRows, CallRows, OrderRows

LEMMA TypedNext ==
  ASSUME account' \in [Ids -> AccountRows], deposits' \in [Ids -> Nat],
         venue' \in [Ids -> 1 .. 5], call' \in [Calls -> CallRows],
         order' \in [Orders -> OrderRows], faults' \in 0 .. MaxFaults
  PROVE  AccountsTypeOK'
BY Stages DEF AccountsTypeOK, Places, AccountRows, CallRows, OrderRows

\* The one place the last of a set of rows is looked up.
LEMMA LatestIs ==
  ASSUME NEW ids \in SUBSET Nat, NEW a \in ids, \A b \in ids : b <= a
  PROVE  Latest(ids) = a
<1>1. Latest(ids) = CHOOSE x \in ids : \A b \in ids : b <= x
  BY DEF Latest
<1>2. \A x \in ids : (\A b \in ids : b <= x) => x = a
  OBVIOUS
<1> QED
  BY <1>1, <1>2

--------------------------------------------------------------------------------
(* What the calls hold between their awaits.  The call that inserted a row     *)
(* owns it until it links it or gives it up; nobody can activate it before.    *)

Owning == {"provisioning", "failing", "linking"}

CallOK(c) ==
  LET at == call[c].at  a == call[c].id IN
  /\ at \notin {"idle", "creating"} => a \in Ids /\ account[a].status # "none"
  /\ at \in Owning => account[a].status = "PROVISIONING" /\ ~account[a].linked
  /\ at = "provisioning" => venue[a] <= 3
  /\ at \in {"asking", "activating"} => account[a].linked
  /\ at = "activating" => Funded(a)
  /\ at \in {"canceling", "archiving"} => c \in Resets
  /\ at = "archiving" => \A o \in OpenOrders(a) : c \in order[o].after

OneOwner ==
  \A c, d \in Calls :
    call[c].at \in Owning /\ call[d].at \in Owning /\ call[c].id = call[d].id => c = d

\* Rows are numbered without gaps, and a row not yet inserted is untouched.
RowsInOrder ==
  \E n \in 0 .. MaxAccounts : \A a \in Ids : account[a].status # "none" <=> a <= n

FreshRows ==
  \A a \in Ids : account[a].status = "none" => ~account[a].linked /\ venue[a] = 1

\* No row was inserted while an account is open, so the open one is the last.
LastIsOpen ==
  \A a, b \in Ids : account[a].status \in OpenStatuses /\ account[b].status # "none" => b <= a

AccountInv ==
  /\ AccountsTypeOK
  /\ \A c \in Calls : CallOK(c)
  /\ OneOwner
  /\ RowsInOrder /\ FreshRows /\ LastIsOpen
  /\ OneFundedDeposit
  /\ ArchiveWaitsForOrders

\* What the two ways a call goes on leave of it.
LEMMA Continues ==
  ASSUME call \in [Calls -> CallRows], NEW c \in Calls, NEW at \in Places, Continue(c, at)
  PROVE  /\ call' \in [Calls -> CallRows]
         /\ call'[c].at = at /\ call'[c].id = call[c].id /\ call'[c].todo = call[c].todo
         /\ \A d \in Calls \ {c} : call'[d] = call[d]
BY DEF Continue, CallRows

LEMMA Returns ==
  ASSUME AccountsTypeOK, NEW c \in Calls, Return(c)
  PROVE  /\ call' \in [Calls -> CallRows] /\ call'[c].at = "idle"
         /\ \A d \in Calls \ {c} : call'[d] = call[d]
<1>1. Idle \in CallRows
  BY AccountAssumption DEF Idle, CallRows, Places
<1> QED
  BY <1>1, Typed DEF Return, Idle

\* A step that moves one call and nothing it shares.
LEMMA CallMoves ==
  ASSUME AccountInv, NEW c \in Calls, UNCHANGED <<account, deposits, venue, order>>,
         call' \in [Calls -> CallRows], faults' \in 0 .. MaxFaults,
         \A d \in Calls \ {c} : call'[d] = call[d],
         CallOK(c)',
         call'[c].at \in Owning => call[c].at \in Owning /\ call'[c].id = call[c].id
  PROVE  AccountInv'
<1>1. AccountsTypeOK'
  BY Typed, TypedNext DEF AccountInv
<1>2. \A d \in Calls : CallOK(d)'
  BY DEF AccountInv, CallOK, Funded, OpenOrders
<1>3. OneOwner'
  BY DEF AccountInv, OneOwner
<1>4. RowsInOrder' /\ FreshRows' /\ LastIsOpen'
  BY DEF AccountInv, RowsInOrder, FreshRows, LastIsOpen
<1>5. OneFundedDeposit' /\ ArchiveWaitsForOrders'
  BY DEF AccountInv, OneFundedDeposit, ArchiveWaitsForOrders, WithStatus, OpenOrders
<1> QED
  BY <1>1, <1>2, <1>3, <1>4, <1>5 DEF AccountInv

LEMMA ReturnKeeps ==
  ASSUME AccountInv, NEW c \in Calls, UNCHANGED <<account, deposits, venue, order>>,
         faults' \in 0 .. MaxFaults, Return(c)
  PROVE  AccountInv'
<1>1. /\ call' \in [Calls -> CallRows] /\ call'[c].at = "idle"
      /\ \A d \in Calls \ {c} : call'[d] = call[d]
  BY Returns DEF AccountInv
<1>2. CallOK(c)'
  BY <1>1 DEF CallOK, Owning
<1> QED
  BY <1>1, <1>2, CallMoves DEF Owning

LEMMA ActiveIs ==
  ASSUME AccountInv, Active # 0
  PROVE  Active \in Ids /\ account[Active].status = "ACTIVE"
<1> DEFINE S == WithStatus({"ACTIVE"})
<1>1. S # {}
  BY DEF Active, Latest
<1>2. PICK a : a \in S
  BY <1>1
<1>3. \A b \in S : b <= a
  BY <1>2 DEF AccountInv, LastIsOpen, OpenStatuses, WithStatus, Ids
<1>4. S \in SUBSET Nat
  BY DEF WithStatus, Ids
<1>5. Latest(S) = a
  BY <1>2, <1>3, <1>4, LatestIs
<1> QED
  BY <1>2, <1>5 DEF Active, WithStatus

LEMMA AccountInit == Init => AccountInv
<1> SUFFICES ASSUME Init PROVE AccountInv
  OBVIOUS
<1>1. MaxAccounts \in Nat /\ MaxFaults \in Nat
  BY AccountAssumption
<1>2. AccountsTypeOK
  BY <1>1, Stages DEF Init, AccountsTypeOK, NoAccount, Idle, Statuses, OrderStates
<1>3. \A c \in Calls : CallOK(c) /\ call[c].at = "idle"
  BY DEF Init, CallOK, Idle, Owning
<1>4. RowsInOrder
  <2>1. 0 \in 0 .. MaxAccounts /\ \A a \in Ids : account[a].status # "none" <=> a <= 0
    BY <1>1 DEF Init, NoAccount, Ids
  <2> QED
    BY <2>1 DEF RowsInOrder
<1>5. FreshRows /\ LastIsOpen
  BY DEF Init, FreshRows, LastIsOpen, NoAccount, OpenStatuses
<1>6. OneFundedDeposit /\ ArchiveWaitsForOrders
  BY DEF Init, OneFundedDeposit, ArchiveWaitsForOrders, NoAccount, WithStatus
<1>7. OneOwner
  BY <1>3 DEF OneOwner, Owning
<1> QED
  BY <1>2, <1>3, <1>4, <1>5, <1>6, <1>7 DEF AccountInv

--------------------------------------------------------------------------------
(* The steps that change rows, one lemma for each kind.                        *)

\* An insert finds no open account, and the new row comes after every other.
LEMMA CreateKeeps ==
  ASSUME AccountInv, NEW c \in Calls, Create(c)
  PROVE  AccountInv'
<1> DEFINE new == Cardinality(Rows) + 1
<1>1. CASE ~Insertable
  BY <1>1, Typed, ReturnKeeps DEF Create, AccountInv
<1>2. CASE Insertable
  <2>1. /\ new \in Ids /\ SetStatus(new, "PROVISIONING")
        /\ call' = [call EXCEPT ![c] = [at |-> "provisioning", id |-> new, todo |-> {}]]
        /\ UNCHANGED <<deposits, venue, order, faults>>
    BY <1>2 DEF Create
  <2>2. \A a \in Ids : account[a].status # "none" <=> a < new
    <3>1. PICK n \in 0 .. MaxAccounts : \A a \in Ids : account[a].status # "none" <=> a <= n
      BY DEF AccountInv, RowsInOrder
    <3>2. Rows = 1 .. n
      BY <3>1, Typed DEF AccountInv, Rows, WithStatus, Ids, AccountRows
    <3>3. Cardinality(1 .. n) = n
      BY <3>1, Typed, FS_Interval DEF AccountInv
    <3> QED
      BY <3>1, <3>2, <3>3, Typed DEF AccountInv, Ids
  <2> HIDE DEF new
  <2>3. new \in Nat \ {0} /\ account[new].status = "none" /\ Ids \subseteq Nat
    BY <2>1, <2>2 DEF Ids
  <2>4. \A a \in Ids : account[a].status \notin OpenStatuses
    BY <1>2 DEF Insertable, WithStatus
  <2>5. /\ account' \in [Ids -> AccountRows] /\ account'[new].status = "PROVISIONING"
        /\ account'[new].linked = account[new].linked
        /\ \A a \in Ids \ {new} : account'[a] = account[a]
    BY <2>1, Typed DEF AccountInv, SetStatus, AccountRows, Statuses
  <2>6. [at |-> "provisioning", id |-> new, todo |-> {}] \in CallRows
    BY <2>1 DEF CallRows, Places, Ids
  <2>7. /\ call' \in [Calls -> CallRows] /\ call'[c].at = "provisioning" /\ call'[c].id = new
        /\ \A d \in Calls \ {c} : call'[d] = call[d]
    BY <2>1, <2>6, Typed DEF AccountInv
  <2>8. \A d \in Calls \ {c} : call[d].at \notin {"idle", "creating"} => call[d].id # new /\ call[d].id \in Ids
    BY <2>3 DEF AccountInv, CallOK
  <2>9. AccountsTypeOK'
    BY <2>1, <2>5, <2>7, Typed, TypedNext DEF AccountInv
  <2>10. CallOK(c)'
    BY <2>1, <2>3, <2>5, <2>7 DEF AccountInv, FreshRows, CallOK, Owning
  <2>11. ASSUME NEW d \in Calls \ {c} PROVE CallOK(d)'
    <3>1. CallOK(d) /\ call'[d] = call[d]
      BY <2>7 DEF AccountInv
    <3>2. call[d].at \notin {"idle", "creating"} => account'[call[d].id] = account[call[d].id]
      BY <2>5, <2>8
    <3> QED
      BY <2>1, <3>1, <3>2 DEF CallOK, Owning, Funded, OpenOrders
  <2>12. OneOwner'
    BY <2>7, <2>8 DEF AccountInv, OneOwner, Owning
  <2>13. RowsInOrder'
    <3>1. \A a \in Ids : account'[a].status # "none" <=> a <= new
      BY <2>2, <2>3, <2>5
    <3>2. new \in 0 .. MaxAccounts
      BY <2>1 DEF Ids
    <3> QED
      BY <3>1, <3>2 DEF RowsInOrder
  <2>14. FreshRows'
    BY <2>1, <2>5 DEF AccountInv, FreshRows
  <2>15. LastIsOpen'
    BY <2>2, <2>3, <2>4, <2>5 DEF LastIsOpen
  <2>16. OneFundedDeposit'
    BY <2>1, <2>3, <2>5 DEF AccountInv, OneFundedDeposit
  <2>17. ArchiveWaitsForOrders'
    BY <2>1, <2>5 DEF AccountInv, ArchiveWaitsForOrders, WithStatus, OpenOrders
  <2> QED
    BY <2>9, <2>10, <2>11, <2>12, <2>13, <2>14, <2>15, <2>16, <2>17 DEF AccountInv
<1> QED
  BY <1>1, <1>2

\* The venue comes further with an account whose call is still posting, or
\* whose transfer clears.
LEMMA VenueMoves ==
  ASSUME AccountInv, NEW a \in Ids, Posted(a), UNCHANGED <<account, deposits, order>>,
         account[a].status # "none", venue[a] <= 4,
         faults' \in 0 .. MaxFaults, call' \in [Calls -> CallRows],
         \A c \in Calls : \/ call'[c] = call[c]
                          \/ /\ call[c].at = "provisioning" /\ call'[c].id = call[c].id
                             /\ call'[c].at \in Owning,
         \A c \in Calls : call'[c].at = "provisioning" /\ call[c].id = a => venue[a] < 3
  PROVE  AccountInv'
<1>1. /\ venue' \in [Ids -> 1 .. 5] /\ venue'[a] = venue[a] + 1
      /\ \A b \in Ids \ {a} : venue'[b] = venue[b]
  BY Typed DEF AccountInv, Posted
<1>2. \A b \in Ids : Funded(b) => Funded(b)'
  BY <1>1, Stages, Typed DEF AccountInv, Funded
<1>3. AccountsTypeOK'
  BY <1>1, Typed, TypedNext DEF AccountInv
<1>4. ASSUME NEW c \in Calls PROVE CallOK(c)'
  <2>1. CallOK(c)
    BY DEF AccountInv
  <2>2. CASE call'[c] = call[c]
    BY <1>1, <1>2, <2>1, <2>2, Typed DEF AccountInv, CallOK, Owning, OpenOrders
  <2>3. CASE call[c].at = "provisioning" /\ call'[c].id = call[c].id /\ call'[c].at \in Owning
    BY <1>1, <2>1, <2>3, Typed DEF AccountInv, CallOK, Owning
  <2> QED
    BY <2>2, <2>3
<1>5. OneOwner'
  BY DEF AccountInv, OneOwner, Owning
<1>6. RowsInOrder' /\ LastIsOpen'
  BY DEF AccountInv, RowsInOrder, LastIsOpen
<1>7. FreshRows'
  BY <1>1 DEF AccountInv, FreshRows
<1>8. OneFundedDeposit'
  BY <1>2 DEF AccountInv, OneFundedDeposit, Funded
<1>9. ArchiveWaitsForOrders'
  BY DEF AccountInv, ArchiveWaitsForOrders, WithStatus, OpenOrders
<1> QED
  BY <1>3, <1>4, <1>5, <1>6, <1>7, <1>8, <1>9 DEF AccountInv

LEMMA PostKeeps ==
  ASSUME AccountInv, NEW c \in Calls, PostNext(c) \/ PostFails(c)
  PROVE  AccountInv'
<1> DEFINE a == call[c].id
<1>1. /\ call[c].at = "provisioning" /\ CallOK(c) /\ UNCHANGED <<account, deposits, order>>
  BY DEF PostNext, PostFails, AccountInv
<1>2. a \in Ids /\ account[a].status = "PROVISIONING" /\ venue[a] \in 1 .. 3
  BY <1>1, Typed DEF AccountInv, CallOK, Owning
<1>3. faults' \in 0 .. MaxFaults
  BY Typed DEF AccountInv, PostNext, PostFails
<1>4. ASSUME NEW at \in Owning, Continue(c, at)
      PROVE  /\ call' \in [Calls -> CallRows] /\ call'[c].at = at /\ call'[c].id = a
             /\ \A d \in Calls \ {c} : call'[d] = call[d]
  BY <1>4, Typed, Continues DEF AccountInv, Owning, Places
<1>5. ASSUME NEW d \in Calls, d # c, call[d].at = "provisioning" PROVE call[d].id # a
  BY <1>1, <1>5 DEF AccountInv, OneOwner, Owning
<1>6. CASE PostNext(c)
  <2>1. PICK at \in {"linking", "provisioning"} :
          Continue(c, at) /\ (at = "linking" <=> VenueStages[venue[a] + 1] = "funding")
    BY <1>6 DEF PostNext
  <2>2. at \in Owning /\ (at = "provisioning" => venue[a] < 3) /\ Posted(a)
    BY <1>2, <1>6, <2>1, Stages DEF Owning, PostNext
  <2>3. /\ call' \in [Calls -> CallRows] /\ call'[c].at = at /\ call'[c].id = a
        /\ \A d \in Calls \ {c} : call'[d] = call[d]
    BY <1>4, <2>1, <2>2
  <2> QED
    BY <1>1, <1>2, <1>3, <1>5, <2>2, <2>3, VenueMoves
<1>7. CASE PostFails(c)
  <2>1. Continue(c, "failing") /\ (Posted(a) \/ UNCHANGED venue)
    BY <1>7 DEF PostFails
  <2>2. /\ call' \in [Calls -> CallRows] /\ call'[c].at = "failing" /\ call'[c].id = a
        /\ \A d \in Calls \ {c} : call'[d] = call[d]
    BY <1>4, <2>1 DEF Owning
  <2>3. CASE Posted(a)
    BY <1>1, <1>2, <1>3, <1>5, <2>2, <2>3, VenueMoves DEF Owning
  <2>4. CASE UNCHANGED venue
    <3>1. CallOK(c)'
      BY <1>1, <2>2, <2>4 DEF CallOK, Owning
    <3> QED
      BY <1>1, <1>3, <2>2, <2>4, <3>1, CallMoves DEF Owning
  <2> QED
    BY <2>1, <2>3, <2>4
<1> QED
  BY <1>6, <1>7

LEMMA SettleKeeps ==
  ASSUME AccountInv, NEW a \in Ids, FundingSettles(a)
  PROVE  AccountInv'
<1>1. venue[a] = 4 /\ Posted(a) /\ UNCHANGED <<account, deposits, call, order, faults>>
  BY Stages, Typed DEF AccountInv, FundingSettles, Posted
<1>2. account[a].status # "none"
  BY <1>1 DEF AccountInv, FreshRows
<1>3. ASSUME NEW c \in Calls, call[c].at = "provisioning" PROVE call[c].id # a
  BY <1>1, <1>3 DEF AccountInv, CallOK
<1> QED
  BY <1>1, <1>2, <1>3, Typed, VenueMoves DEF AccountInv

\* The status or the link of one open account changes, in a call that owns it
\* or while nobody does.
LEMMA RowMoves ==
  ASSUME AccountInv, NEW a \in Ids, NEW c \in Calls,
         account' \in [Ids -> AccountRows], \A b \in Ids \ {a} : account'[b] = account[b],
         account[a].status \in OpenStatuses, account'[a].status # "none",
         account[a].linked => account'[a].linked,
         deposits' \in [Ids -> Nat], \A b \in Ids \ {a} : deposits'[b] = deposits[b],
         deposits'[a] = IF account'[a].status \in {"ACTIVE", "ARCHIVED"} THEN 1 ELSE 0,
         deposits'[a] # 0 => Funded(a),
         UNCHANGED <<venue, order, faults>>,
         call' \in [Calls -> CallRows], \A d \in Calls \ {c} : call'[d] = call[d],
         CallOK(c)',
         call'[c].at \in Owning => call[c].at \in Owning /\ call'[c].id = call[c].id,
         \A d \in Calls \ {c} : call[d].at \in Owning => call[d].id # a,
         account'[a].status = "ARCHIVED" /\ account'[a].looked = a =>
           \A o \in OpenOrders(a) : account'[a].by \subseteq order[o].after
  PROVE  AccountInv'
<1>1. AccountsTypeOK'
  BY Typed, TypedNext DEF AccountInv
<1>2. ASSUME NEW d \in Calls \ {c} PROVE CallOK(d)'
  <2>1. CallOK(d) /\ call'[d] = call[d]
    BY DEF AccountInv
  <2>2. CASE call[d].id = a
    <3>1. call[d].at \notin Owning
      BY <2>2
    <3> QED
      BY <2>1, <2>2, <3>1 DEF CallOK, Owning, Funded, OpenOrders
  <2>3. CASE call[d].id # a
    BY <2>1, <2>3 DEF CallOK, Owning, Funded, OpenOrders
  <2> QED
    BY <2>2, <2>3
<1>3. OneOwner'
  BY DEF AccountInv, OneOwner
<1>4. \A b \in Ids : account'[b].status # "none" <=> account[b].status # "none"
  BY DEF OpenStatuses
<1>5. \A b \in Ids : account'[b].status \in OpenStatuses => account[b].status \in OpenStatuses
  OBVIOUS
<1>6. RowsInOrder' /\ LastIsOpen'
  BY <1>4, <1>5 DEF AccountInv, RowsInOrder, LastIsOpen
<1>7. FreshRows'
  BY <1>4 DEF AccountInv, FreshRows
<1>8. OneFundedDeposit'
  BY DEF AccountInv, OneFundedDeposit, Funded
<1>9. ArchiveWaitsForOrders'
  BY DEF AccountInv, ArchiveWaitsForOrders, WithStatus, OpenOrders
<1> QED
  BY <1>1, <1>2, <1>3, <1>6, <1>7, <1>8, <1>9 DEF AccountInv

\* Nobody owns an account but the call that does, and nobody a linked one.
LEMMA Unowned ==
  ASSUME AccountInv, NEW c \in Calls, NEW d \in Calls \ {c}, call[d].at \in Owning
  PROVE  /\ call[c].at \in Owning => call[d].id # call[c].id
         /\ \A a \in Ids : account[a].linked \/ account[a].status # "PROVISIONING" => call[d].id # a
<1>1. CallOK(d) /\ OneOwner
  BY DEF AccountInv
<1> QED
  BY <1>1 DEF CallOK, OneOwner

LEMMA MarkFailedKeeps ==
  ASSUME AccountInv, NEW c \in Calls, MarkFailed(c)
  PROVE  AccountInv'
<1> DEFINE a == call[c].id
<1>1. call[c].at = "failing" /\ SetStatus(a, "PROVISIONING_FAILED") /\ Return(c)
      /\ UNCHANGED <<deposits, venue, order, faults>>
  BY DEF MarkFailed
<1>2. a \in Ids /\ account[a].status = "PROVISIONING" /\ deposits[a] = 0
  BY <1>1 DEF AccountInv, CallOK, Owning, OneFundedDeposit
<1>3. /\ account' \in [Ids -> AccountRows] /\ account'[a].status = "PROVISIONING_FAILED"
      /\ account'[a].linked = account[a].linked /\ \A b \in Ids \ {a} : account'[b] = account[b]
  BY <1>1, <1>2, Typed DEF AccountInv, SetStatus, AccountRows, Statuses
<1>4. call' \in [Calls -> CallRows] /\ call'[c].at = "idle" /\ \A d \in Calls \ {c} : call'[d] = call[d]
  BY <1>1, Returns DEF AccountInv
<1>5. CallOK(c)' /\ call'[c].at \notin Owning
  BY <1>4 DEF CallOK, Owning
<1>6. \A d \in Calls \ {c} : call[d].at \in Owning => call[d].id # a
  BY <1>1, Unowned DEF Owning
<1> HIDE DEF a
<1> QED
  BY <1>1, <1>2, <1>3, <1>4, <1>5, <1>6, Typed, RowMoves DEF AccountInv, OpenStatuses

LEMMA LinkKeeps ==
  ASSUME AccountInv, NEW c \in Calls, Link(c)
  PROVE  AccountInv'
<1> DEFINE a == call[c].id
<1>1. call[c].at = "linking" /\ account' = [account EXCEPT ![a].linked = TRUE] /\ Continue(c, "reading")
      /\ UNCHANGED <<deposits, venue, order, faults>>
  BY DEF Link
<1>2. a \in Ids /\ account[a].status = "PROVISIONING" /\ deposits[a] = 0
  BY <1>1 DEF AccountInv, CallOK, Owning, OneFundedDeposit
<1>3. /\ account' \in [Ids -> AccountRows] /\ account'[a].status = "PROVISIONING"
      /\ account'[a].linked = TRUE /\ \A b \in Ids \ {a} : account'[b] = account[b]
  BY <1>1, <1>2, Typed DEF AccountInv, AccountRows
<1>4. /\ call' \in [Calls -> CallRows] /\ call'[c].at = "reading" /\ call'[c].id = a
      /\ \A d \in Calls \ {c} : call'[d] = call[d]
  BY <1>1, Typed, Continues DEF AccountInv, Places
<1>5. CallOK(c)' /\ call'[c].at \notin Owning
  BY <1>2, <1>3, <1>4 DEF CallOK, Owning
<1>6. \A d \in Calls \ {c} : call[d].at \in Owning => call[d].id # a
  BY <1>1, Unowned DEF Owning
<1> HIDE DEF a
<1> QED
  BY <1>1, <1>2, <1>3, <1>4, <1>5, <1>6, Typed, RowMoves DEF AccountInv, OpenStatuses

\* The venue was asked before; the status is looked at again under the lock.
LEMMA ActivateKeeps ==
  ASSUME AccountInv, NEW c \in Calls, Activate(c)
  PROVE  AccountInv'
<1> DEFINE a == call[c].id
<1>1. call[c].at = "activating" /\ Return(c) /\ UNCHANGED <<venue, order, faults>>
  BY DEF Activate
<1>2. a \in Ids /\ account[a].linked /\ Funded(a)
  BY <1>1 DEF AccountInv, CallOK
<1>3. CASE ~MayActivate(a)
  BY <1>1, <1>3, Typed, ReturnKeeps DEF AccountInv, Activate
<1>4. CASE MayActivate(a)
  <2>1. SetStatus(a, "ACTIVE") /\ deposits' = [deposits EXCEPT ![a] = @ + 1]
    BY <1>4 DEF Activate
  <2>2. account[a].status = "PROVISIONING" /\ deposits[a] = 0
    BY <1>2, <1>4 DEF AccountInv, MayActivate, OneFundedDeposit
  <2>3. /\ account' \in [Ids -> AccountRows] /\ account'[a].status = "ACTIVE"
        /\ account'[a].linked = account[a].linked /\ \A b \in Ids \ {a} : account'[b] = account[b]
    BY <1>2, <2>1, Typed DEF AccountInv, SetStatus, AccountRows, Statuses
  <2>4. deposits' \in [Ids -> Nat] /\ deposits'[a] = 1 /\ \A b \in Ids \ {a} : deposits'[b] = deposits[b]
    BY <1>2, <2>1, <2>2, Typed DEF AccountInv
  <2>5. call' \in [Calls -> CallRows] /\ call'[c].at = "idle" /\ \A d \in Calls \ {c} : call'[d] = call[d]
    BY <1>1, Returns DEF AccountInv
  <2>6. CallOK(c)' /\ call'[c].at \notin Owning
    BY <2>5 DEF CallOK, Owning
  <2>7. \A d \in Calls \ {c} : call[d].at \in Owning => call[d].id # a
    BY <1>2, Unowned
  <2> HIDE DEF a
  <2> QED
    BY <1>1, <1>2, <2>2, <2>3, <2>4, <2>5, <2>6, <2>7, RowMoves DEF OpenStatuses
<1> QED
  BY <1>3, <1>4

\* A reset archives whatever account is active by now.
LEMMA ArchiveKeeps ==
  ASSUME AccountInv, NEW c \in Calls, Archive(c)
  PROVE  AccountInv'
<1>1. call[c].at = "archiving" /\ CallOK(c) /\ UNCHANGED <<deposits, venue, order, faults>>
  BY DEF Archive, AccountInv
<1>2. CASE Active = 0
  BY <1>1, <1>2, Typed, ReturnKeeps DEF AccountInv, Archive
<1>3. CASE Active # 0
  <2>1. PICK a \in Ids : a = Active /\ account[a].status = "ACTIVE"
    BY <1>3, ActiveIs
  <2>2. /\ account' = [account EXCEPT ![a].status = "ARCHIVED", ![a].by = {c}, ![a].looked = call[c].id]
        /\ Continue(c, "creating")
    BY <1>3, <2>1 DEF Archive
  <2>3. c \in Resets /\ call[c].id \in Ids /\ \A o \in OpenOrders(call[c].id) : c \in order[o].after
    BY <1>1 DEF CallOK
  <2>4. account \in [Ids -> AccountRows] /\ call[c].id \in 0 .. MaxAccounts
    BY Typed DEF AccountInv, CallRows
  <2>5. /\ account' \in [Ids -> AccountRows] /\ account'[a].status = "ARCHIVED"
        /\ account'[a].by = {c} /\ account'[a].looked = call[c].id
        /\ account'[a].linked = account[a].linked /\ \A b \in Ids \ {a} : account'[b] = account[b]
    BY <2>2, <2>3, <2>4 DEF AccountRows, Statuses
  <2>6. deposits[a] = 1 /\ Funded(a)
    BY <2>1 DEF AccountInv, OneFundedDeposit, Funded
  <2>7. /\ call' \in [Calls -> CallRows] /\ call'[c].at = "creating" /\ \A d \in Calls \ {c} : call'[d] = call[d]
    BY <2>2, Typed, Continues DEF AccountInv, Places
  <2>8. CallOK(c)' /\ call'[c].at \notin Owning
    BY <2>7 DEF CallOK, Owning
  <2>9. \A d \in Calls \ {c} : call[d].at \in Owning => call[d].id # a
    BY <2>1, Unowned
  <2>10. account'[a].looked = a => \A o \in OpenOrders(a) : account'[a].by \subseteq order[o].after
    BY <2>3, <2>5
  <2> QED
    BY <1>1, <2>1, <2>5, <2>6, <2>7, <2>8, <2>9, <2>10, Typed, RowMoves DEF AccountInv, OpenStatuses
<1> QED
  BY <1>2, <1>3

\* No order is opened by what happens to orders once they are placed.
LEMMA OrderMoves ==
  ASSUME AccountInv, UNCHANGED <<account, deposits, venue, faults>>,
         order' \in [Orders -> OrderRows], call' \in [Calls -> CallRows],
         \A c \in Calls : call'[c].at = call[c].at /\ call'[c].id = call[c].id,
         \A o \in Orders : /\ order'[o].account = order[o].account /\ order'[o].after = order[o].after
                           /\ order'[o].state \in {"submitting", "working", "canceling"} =>
                                order[o].state \in {"submitting", "working", "canceling"}
  PROVE  AccountInv'
<1>1. AccountsTypeOK'
  BY Typed, TypedNext DEF AccountInv
<1>2. \A a \in Ids : OpenOrders(a)' \subseteq OpenOrders(a)
  BY DEF OpenOrders
<1>3. ASSUME NEW c \in Calls PROVE CallOK(c)'
  <2>1. CallOK(c)
    BY DEF AccountInv
  <2>2. call'[c].at = "archiving" => \A o \in OpenOrders(call[c].id)' : c \in order'[o].after
    BY <1>2, <2>1 DEF CallOK, OpenOrders
  <2>3. call[c]' = call'[c] /\ call'[c].at = call[c].at /\ call'[c].id = call[c].id
    OBVIOUS
  <2>4. call'[c].at = "archiving" => \A o \in Orders :
          order'[o].account = call'[c].id /\ order'[o].state \in {"submitting", "working", "canceling"}
          => c \in order'[o].after
    BY <2>2, <2>3 DEF OpenOrders
  <2> QED
    BY <2>1, <2>3, <2>4 DEF CallOK, Owning, Funded, OpenOrders
<1>4. OneOwner'
  BY DEF AccountInv, OneOwner
<1>5. RowsInOrder' /\ FreshRows' /\ LastIsOpen' /\ OneFundedDeposit'
  BY DEF AccountInv, RowsInOrder, FreshRows, LastIsOpen, OneFundedDeposit
<1>6. ArchiveWaitsForOrders'
  BY <1>2 DEF AccountInv, ArchiveWaitsForOrders, WithStatus, OpenOrders
<1> QED
  BY <1>1, <1>3, <1>4, <1>5, <1>6 DEF AccountInv

\* An order is placed on the active account, after the resets that had their
\* last look.
LEMMA PlaceKeeps ==
  ASSUME AccountInv, NEW o \in Orders, Place(o)
  PROVE  AccountInv'
<1> DEFINE new == [account |-> Active, state |-> "submitting",
                   after |-> {c \in Resets : call[c].at = "archiving"}]
<1>1. /\ order' = [order EXCEPT ![o] = new] /\ Active \in Ids /\ account[Active].status = "ACTIVE"
      /\ UNCHANGED <<account, deposits, venue, call, faults>>
  BY ActiveIs DEF Place
<1>2. new \in OrderRows
  BY <1>1, Typed DEF AccountInv, OrderRows, OrderStates, Ids
<1>3. /\ order' \in [Orders -> OrderRows] /\ order'[o] = new
      /\ \A p \in Orders \ {o} : order'[p] = order[p]
  BY <1>1, <1>2, Typed DEF AccountInv
<1>4. AccountsTypeOK'
  BY <1>1, <1>3, Typed, TypedNext DEF AccountInv
<1>5. ASSUME NEW c \in Calls PROVE CallOK(c)'
  <2>1. CallOK(c)
    BY DEF AccountInv
  <2>2. ASSUME call[c].at = "archiving", NEW p \in OpenOrders(call[c].id)' PROVE c \in order'[p].after
    <3>1. CASE p = o
      BY <1>3, <2>1, <2>2, <3>1 DEF CallOK
    <3>2. CASE p # o
      BY <1>1, <1>3, <2>1, <2>2, <3>2 DEF CallOK, OpenOrders
    <3> QED
      BY <3>1, <3>2
  <2> QED
    BY <1>1, <2>1, <2>2 DEF CallOK, Owning, Funded, OpenOrders
<1>6. OneOwner' /\ RowsInOrder' /\ FreshRows' /\ LastIsOpen' /\ OneFundedDeposit'
  BY <1>1 DEF AccountInv, OneOwner, RowsInOrder, FreshRows, LastIsOpen, OneFundedDeposit
<1>7. ArchiveWaitsForOrders'
  <2>1. ASSUME NEW a \in Ids, account[a].status = "ARCHIVED", NEW p \in OpenOrders(a)'
        PROVE  p \in OpenOrders(a) /\ order'[p].after = order[p].after
    BY <1>1, <1>3, <2>1 DEF OpenOrders
  <2> QED
    BY <1>1, <2>1 DEF AccountInv, ArchiveWaitsForOrders, WithStatus
<1> QED
  BY <1>4, <1>5, <1>6, <1>7 DEF AccountInv

--------------------------------------------------------------------------------
LEMMA CallStepKeeps ==
  ASSUME AccountInv, NEW c \in Calls, CallStep(c)
  PROVE  AccountInv'
<1>1. /\ CallOK(c) /\ call \in [Calls -> CallRows] /\ faults \in 0 .. MaxFaults
  BY Typed DEF AccountInv
<1>2. CASE CancelNext(c)
  <2>1. PICK o \in call[c].todo :
          /\ order' = [order EXCEPT ![o].state = IF @ = "working" THEN "canceling" ELSE @]
          /\ call' = [call EXCEPT ![c].todo = @ \ {o}]
    BY <1>2 DEF CancelNext
  <2>2. o \in Orders /\ order \in [Orders -> OrderRows]
    BY <1>1, Typed DEF AccountInv, CallRows
  <2>3. /\ call' \in [Calls -> CallRows]
        /\ \A d \in Calls : call'[d].at = call[d].at /\ call'[d].id = call[d].id
    BY <1>1, <2>1 DEF CallRows
  <2>4. order' \in [Orders -> OrderRows]
    BY <2>1, <2>2 DEF OrderRows, OrderStates
  <2>5. \A p \in Orders : /\ order'[p].account = order[p].account /\ order'[p].after = order[p].after
                          /\ order'[p].state \in {"submitting", "working", "canceling"} =>
                               order[p].state \in {"submitting", "working", "canceling"}
    BY <2>1, <2>2 DEF OrderRows
  <2> QED
    BY <1>2, <2>3, <2>4, <2>5, OrderMoves DEF CancelNext
<1>3. ASSUME NEW at \in Places \ Owning, Continue(c, at), UNCHANGED <<account, deposits, venue, order, faults>>,
             at = "asking" => call[c].at = "reading" /\ account[call[c].id].linked,
             at = "activating" => call[c].at = "asking" /\ Funded(call[c].id),
             at = "archiving" => call[c].at = "canceling" /\ OpenOrders(call[c].id) = {},
             at \in {"asking", "activating", "archiving"}
      PROVE  AccountInv'
  <2>1. /\ call' \in [Calls -> CallRows] /\ call'[c].at = at /\ call'[c].id = call[c].id
        /\ \A d \in Calls \ {c} : call'[d] = call[d]
    BY <1>1, <1>3, Continues
  <2>2. CallOK(c)'
    BY <1>1, <1>3, <2>1 DEF CallOK, Owning, Funded, OpenOrders
  <2> QED
    BY <1>1, <1>3, <2>1, <2>2, CallMoves
<1>4. CASE ReadAccount(c)
  BY <1>1, <1>3, <1>4, ReturnKeeps DEF ReadAccount, Places, Owning
<1>5. CASE AskVenue(c)
  BY <1>1, <1>3, <1>5, ReturnKeeps DEF AskVenue, Places, Owning
<1>6. CASE LastLook(c)
  BY <1>1, <1>3, <1>6, ReturnKeeps DEF LastLook, Places, Owning
<1> QED
  BY <1>2, <1>4, <1>5, <1>6, CreateKeeps, PostKeeps, MarkFailedKeeps, LinkKeeps, ActivateKeeps, ArchiveKeeps
  DEF CallStep

\* A call begins with an account it found, or with none.
LEMMA BeginKeeps ==
  ASSUME AccountInv, NEW c \in Calls,
         StartProvision(c) \/ (c \in Resets /\ StartReset(c)) \/ Poll(c) \/ Sweep(c)
  PROVE  AccountInv'
<1>1. call \in [Calls -> CallRows] /\ faults \in 0 .. MaxFaults /\ call[c] = Idle
      /\ UNCHANGED <<account, deposits, venue, order, faults>>
  BY Typed DEF AccountInv, StartProvision, StartReset, Poll, Sweep
<1>2. CASE StartProvision(c)
  <2>1. /\ call' \in [Calls -> CallRows] /\ call'[c].at = "creating"
        /\ \A d \in Calls \ {c} : call'[d] = call[d]
    BY <1>1, <1>2, Continues DEF StartProvision, Places
  <2>2. CallOK(c)'
    BY <2>1 DEF CallOK, Owning
  <2> QED
    BY <1>1, <2>1, <2>2, CallMoves DEF Owning
<1>3. CASE c \in Resets /\ StartReset(c)
  <2> DEFINE new == [at |-> "canceling", id |-> Active,
                     todo |-> {o \in OpenOrders(Active) : order[o].state = "working"}]
  <2>1. Active \in Ids /\ account[Active].status = "ACTIVE" /\ call' = [call EXCEPT ![c] = new]
    BY <1>3, ActiveIs DEF StartReset
  <2>2. new \in CallRows
    BY <2>1 DEF CallRows, Places, Ids, OpenOrders
  <2>3. /\ call' \in [Calls -> CallRows] /\ call'[c].at = "canceling" /\ call'[c].id = Active
        /\ \A d \in Calls \ {c} : call'[d] = call[d]
    BY <1>1, <2>1, <2>2
  <2>4. CallOK(c)'
    BY <1>1, <1>3, <2>1, <2>3 DEF CallOK, Owning
  <2> QED
    BY <1>1, <2>3, <2>4, CallMoves DEF Owning
<1>4. CASE Poll(c) \/ Sweep(c)
  <2>1. PICK a \in Ids : account[a].status = "PROVISIONING" /\ Try(c, a)
    BY <1>4 DEF Poll, Sweep, WithStatus
  <2>2. [at |-> "reading", id |-> a, todo |-> {}] \in CallRows
    BY DEF CallRows, Places, Ids
  <2>3. /\ call' \in [Calls -> CallRows] /\ call'[c].at = "reading" /\ call'[c].id = a
        /\ \A d \in Calls \ {c} : call'[d] = call[d]
    BY <1>1, <2>1, <2>2 DEF Try
  <2>4. CallOK(c)'
    BY <1>1, <2>1, <2>3 DEF CallOK, Owning
  <2> QED
    BY <1>1, <2>3, <2>4, CallMoves DEF Owning
<1> QED
  BY <1>2, <1>3, <1>4

LEMMA AccountStep == AccountInv /\ [Next]_accountVars => AccountInv'
<1> SUFFICES ASSUME AccountInv, [Next]_accountVars PROVE AccountInv'
  OBVIOUS
<1>1. CASE \E c \in Calls : CallStep(c) \/ PostFails(c) \/ Dies(c)
  <2>1. ASSUME NEW c \in Calls, Dies(c) PROVE AccountInv'
    <3>1. faults' \in 0 .. MaxFaults
      BY <2>1, Typed DEF AccountInv, Dies
    <3> QED
      BY <2>1, <3>1, ReturnKeeps DEF Dies
  <2> QED
    BY <1>1, <2>1, CallStepKeeps, PostKeeps
<1>2. CASE \/ \E c \in Openings : StartProvision(c)
           \/ \E c \in Resets : StartReset(c)
           \/ \E c \in Polls : Poll(c)
           \/ \E c \in Sweeps : Sweep(c)
  BY <1>2, BeginKeeps DEF Calls
<1>3. CASE \E o \in Orders : Submitted(o) \/ Ends(o)
  <2>1. PICK o \in Orders : Submitted(o) \/ Ends(o)
    BY <1>3
  <2>2. PICK s \in {"working", "ended"} :
          /\ order' = [order EXCEPT ![o].state = s]
          /\ order[o].state \in {"submitting", "working", "canceling"}
          /\ UNCHANGED <<account, deposits, venue, call, faults>>
    BY <2>1 DEF Submitted, Ends
  <2>3. order \in [Orders -> OrderRows] /\ call \in [Calls -> CallRows]
    BY Typed DEF AccountInv
  <2>4. order' \in [Orders -> OrderRows]
    BY <2>2, <2>3 DEF OrderRows, OrderStates
  <2>5. \A p \in Orders : /\ order'[p].account = order[p].account /\ order'[p].after = order[p].after
                          /\ order'[p].state \in {"submitting", "working", "canceling"} =>
                               order[p].state \in {"submitting", "working", "canceling"}
    BY <2>2, <2>3 DEF OrderRows
  <2> QED
    BY <2>2, <2>3, <2>4, <2>5, OrderMoves
<1>4. CASE UNCHANGED accountVars
  BY <1>4 DEF accountVars, AccountInv, AccountsTypeOK, CallOK, OneOwner, RowsInOrder, FreshRows, LastIsOpen,
              OneFundedDeposit, ArchiveWaitsForOrders, Funded, OpenOrders, WithStatus
<1> QED
  BY <1>1, <1>2, <1>3, <1>4, SettleKeeps, PlaceKeeps DEF Next

(* Every variable has its type, in every instance.                             *)
THEOREM AccountsTyped == AccountSpec => []AccountsTypeOK
<1>1. AccountInv => AccountsTypeOK
  BY DEF AccountInv
<1> QED
  BY <1>1, AccountInit, AccountStep, PTL DEF AccountSpec

(* However many openings, polls, sweeps and resets race, each account that was *)
(* ever active has exactly one opening deposit, backed by settled cash, and    *)
(* the open account is the one the interface shows.                            *)
THEOREM OneAccountToTradeOn == AccountSpec => []OneFundedCurrentAccount
<1>1. AccountInv => OneFundedCurrentAccount
  <2> SUFFICES ASSUME AccountInv, NEW a \in WithStatus(OpenStatuses) PROVE Current = a
    BY DEF OneFundedCurrentAccount, OpenAccountIsCurrent, AccountInv
  <2> DEFINE S == Rows \ WithStatus({"ARCHIVED"})
  <2>1. a \in Ids /\ account[a].status \in OpenStatuses
    BY DEF WithStatus
  <2>2. a \in S
    BY <2>1 DEF Rows, WithStatus, OpenStatuses, Statuses
  <2>3. S \in SUBSET Nat
    BY DEF Rows, WithStatus, Ids
  <2>4. \A b \in S : b <= a
    BY <2>1 DEF AccountInv, LastIsOpen, Rows, WithStatus, Statuses
  <2> QED
    BY <2>2, <2>3, <2>4, LatestIs DEF Current
<1> QED
  BY <1>1, AccountInit, AccountStep, PTL DEF AccountSpec

(* A reset leaves on the account it examined and archived no open order but    *)
(* one placed after its last look, whatever crashed or was retried meanwhile.  *)
THEOREM ResetsWait == AccountSpec => []ArchiveWaitsForOrders
<1>1. AccountInv => ArchiveWaitsForOrders
  BY DEF AccountInv
<1> QED
  BY <1>1, AccountInit, AccountStep, PTL DEF AccountSpec

--------------------------------------------------------------------------------
(* The watchlist: rows by the call that inserted them.                         *)

Names == Symbols \cup {Watch!NoSymbol}
WatchRows == [id : Nat, symbol : Symbols]
WatchCalls ==
  [n : Nat, op : {"add", "remove", "list"}, row : [id : Nat, symbol : Names], stage : Watch!Stages,
   list : SUBSET WatchRows, awaited : BOOLEAN]

\* Rows that have been on the list.
Listed ==
  items \cup cache.list
    \cup (UNION {c.list : c \in calls}) \cup {c.row : c \in {d \in calls : d.op = "remove"}}

\* Calls that may still insert a row, and those that may still take one away.
Adding == {c \in calls : c.op = "add" /\ c.stage = "sent"}
Removing == {c \in calls : c.op = "remove" /\ c.stage = "sent"}

WatchTyped ==
  /\ items \subseteq WatchRows /\ calls \subseteq WatchCalls /\ clicks \in Nat
  /\ cache.list \subseteq WatchRows /\ \A c \in calls : c.op # "list" => c.row \in WatchRows
  /\ last \in [Symbols -> {"untouched", "add", "added", "remove"}]
  /\ place \in Symbols \cup {Watch!Dashboard}

RowsAreNew ==
  /\ \A r \in Listed : r.id <= clicks
  /\ \A c \in calls : c.n <= clicks /\ (c.op # "list" => c.n >= 1) /\ (c.op = "list" => c.stage # "sent")
  /\ \A c \in Adding : c.row.id = c.n /\ \A r \in Listed : r.id # c.row.id
  /\ \A c, d \in calls : c.n = d.n /\ c.n >= 1 => c = d
  /\ \A r, s \in Listed : r.id = s.id => r.symbol = s.symbol

\* What was added after the last removal stays.
Safe(s) == \E r \in items : r.symbol = s /\ \A c \in Removing : c.row.id # r.id

WatchInv ==
  /\ WatchTyped
  /\ RowsAreNew
  /\ \A s \in Symbols : last[s] = "added" => Safe(s)

LEMMA WatchInitInv == Watch!Init => WatchInv
<1> SUFFICES ASSUME Watch!Init PROVE WatchInv
  OBVIOUS
<1>1. items \subseteq WatchRows /\ \A r, s \in items : r = s
  BY DEF Watch!Init, Watch!Row, WatchRows, Names
<1>2. \A r \in items : r.id = 0
  BY DEF Watch!Init, Watch!Row
<1>3. Listed = items /\ calls = {} /\ clicks = 0 /\ cache.list = {}
  BY DEF Watch!Init, Listed
<1>4. last \in [Symbols -> {"untouched", "add", "added", "remove"}] /\ \A s \in Symbols : last[s] # "added"
  BY DEF Watch!Init
<1>5. place \in Symbols \cup {Watch!Dashboard}
  BY DEF Watch!Init
<1>6. WatchTyped
  BY <1>1, <1>3, <1>4, <1>5 DEF WatchTyped
<1>7. RowsAreNew
  BY <1>1, <1>2, <1>3 DEF RowsAreNew, Adding
<1> QED BY <1>4, <1>6, <1>7 DEF WatchInv

\* A step that lets no call add or remove more than it did.
LEMMA Quieter ==
  ASSUME WatchInv, items' = items, last' = last, clicks' = clicks,
         WatchTyped', Listed' \subseteq Listed,
         \A c \in calls' :
           \/ c.op = "list" /\ c.n = 0 /\ c.stage # "sent"
           \/ \E d \in calls :
                /\ c.n = d.n /\ c.op = d.op /\ c.row = d.row
                /\ c.stage = "sent" => d.stage = "sent",
         \A c, d \in calls' : c.n = d.n /\ c.n >= 1 => c = d
  PROVE  WatchInv'
<1>1. \A c \in Adding' : \E d \in Adding : d.n = c.n /\ d.row = c.row
  BY DEF Adding
<1>2. \A c \in Removing' : \E d \in Removing : d.row = c.row
  BY DEF Removing
<1>3. \A c \in calls' : c.n <= clicks' /\ (c.op # "list" => c.n >= 1) /\ (c.op = "list" => c.stage # "sent")
  BY DEF WatchInv, WatchTyped, RowsAreNew
<1>4. RowsAreNew'
  BY <1>1, <1>3 DEF WatchInv, RowsAreNew
<1>5. \A s \in Symbols : last'[s] = "added" => Safe(s)'
  BY <1>2 DEF WatchInv, Safe
<1> QED BY <1>4, <1>5 DEF WatchInv

\* Where a listed row is.
ListedMeans ==
  \A r : r \in Listed <=> \/ r \in items \/ r \in cache.list
                          \/ \E c \in calls : r \in c.list
                          \/ \E c \in calls : c.op = "remove" /\ r = c.row

LEMMA ListedIs == ListedMeans /\ ListedMeans'
<1>1. ListedMeans
  <2> DEFINE lists == UNION {c.list : c \in calls}
             removed == {c.row : c \in {d \in calls : d.op = "remove"}}
  <2>1. \A r : r \in lists <=> \E c \in calls : r \in c.list
    OBVIOUS
  <2>2. \A r : r \in removed <=> \E c \in calls : c.op = "remove" /\ r = c.row
    OBVIOUS
  <2>3. Listed = items \cup cache.list \cup lists \cup removed
    BY Zenon DEF Listed
  <2> HIDE DEF lists, removed
  <2>4. \A r : r \in Listed <=> r \in items \/ r \in cache.list \/ r \in lists \/ r \in removed
    BY <2>3
  <2> QED BY <2>1, <2>2, <2>4, Zenon DEF ListedMeans
<1>2. ListedMeans'
  <2> DEFINE lists == UNION {c.list : c \in calls'}
             removed == {c.row : c \in {d \in calls' : d.op = "remove"}}
  <2>1. \A r : r \in lists <=> \E c \in calls' : r \in c.list
    OBVIOUS
  <2>2. \A r : r \in removed <=> \E c \in calls' : c.op = "remove" /\ r = c.row
    OBVIOUS
  <2>3. Listed' = items' \cup cache'.list \cup lists \cup removed
    BY Zenon DEF Listed
  <2> HIDE DEF lists, removed
  <2>4. \A r : r \in Listed' <=> r \in items' \/ r \in cache'.list \/ r \in lists \/ r \in removed
    BY <2>3
  <2> QED BY <2>1, <2>2, <2>4, Zenon DEF ListedMeans
<1> QED BY <1>1, <1>2

LEMMA ListedTyped == ASSUME WatchTyped PROVE \A r \in Listed : r \in WatchRows /\ r.id \in Nat
<1>1. \A c \in calls : c.list \subseteq WatchRows
  BY DEF WatchTyped, WatchCalls
<1> QED BY <1>1, ListedIs DEF ListedMeans, WatchTyped, WatchRows

LEMMA ClickKeeps ==
  ASSUME WatchInv, NEW op \in {"add", "remove"}, NEW row \in WatchRows, Watch!Click(op, row),
         row.symbol \in Symbols,
         op = "add" => row.id = clicks + 1,
         op = "remove" => row \in Listed,
         UNCHANGED <<items, cache, place>>
  PROVE  WatchInv'
<1>1. clicks' = clicks + 1 /\ clicks \in Nat /\ clicks' \in Nat
  BY DEF WatchInv, WatchTyped, Watch!Click
<1>2. PICK c : c = Watch!Call(clicks', op, row)
  OBVIOUS
<1>3. c \in WatchCalls /\ c.n = clicks + 1 /\ c.op = op /\ c.row = row /\ c.stage = "sent" /\ c.list = {}
  BY <1>1, <1>2 DEF Watch!Call, WatchCalls, WatchRows, Names, Watch!Stages
<1>4. calls' = calls \cup {c} /\ last' = [last EXCEPT ![row.symbol] = op]
  BY <1>2 DEF Watch!Click
<1>5. WatchTyped'
  BY <1>1, <1>3, <1>4 DEF WatchInv, WatchTyped
<1>6. \A r \in Listed' : r \in Listed \/ (op = "remove" /\ r = row)
  <2>1. ASSUME NEW r \in Listed'
        PROVE  \/ r \in items \/ r \in cache.list
               \/ \E d \in calls' : r \in d.list
               \/ \E d \in calls' : d.op = "remove" /\ r = d.row
    BY <2>1, ListedIs DEF ListedMeans
  <2> QED BY <1>3, <1>4, <2>1, ListedIs DEF ListedMeans
<1>7. Listed' \subseteq Listed
  BY <1>6
<1>8. \A r \in Listed : r.id \in Nat
  BY ListedTyped DEF WatchInv
<1>9. \A d \in calls : d.n \in Nat /\ d.n <= clicks
  BY DEF WatchInv, WatchTyped, RowsAreNew, WatchCalls
<1>10. RowsAreNew'
  <2>1. \A r \in Listed : r.id <= clicks
    BY DEF WatchInv, RowsAreNew
  <2>2. \A r \in Listed' : r.id <= clicks'
    BY <1>1, <1>7, <1>8, <2>1
  <2>3. \A d \in calls' : d.n <= clicks'
    BY <1>1, <1>3, <1>4, <1>9
  <2>7. \A d \in calls' : (d.op # "list" => d.n >= 1) /\ (d.op = "list" => d.stage # "sent")
    BY <1>1, <1>3, <1>4 DEF WatchInv, RowsAreNew
  <2>4. \A d \in Adding' : d \in Adding \/ (d = c /\ op = "add")
    BY <1>3, <1>4 DEF Adding
  <2>5. \A d \in Adding' : d.row.id = d.n /\ \A r \in Listed' : r.id # d.row.id
    BY <1>1, <1>3, <1>7, <1>8, <2>1, <2>4 DEF WatchInv, RowsAreNew
  <2>6. \A d, e \in calls' : d.n = e.n /\ d.n >= 1 => d = e
    BY <1>1, <1>3, <1>4, <1>9 DEF WatchInv, RowsAreNew
  <2> QED BY <1>7, <2>2, <2>3, <2>5, <2>6, <2>7 DEF WatchInv, RowsAreNew
<1>11. ASSUME NEW s \in Symbols, last'[s] = "added" PROVE Safe(s)'
  <2>1. s # row.symbol /\ last[s] = "added"
    BY <1>4, <1>11 DEF WatchInv, WatchTyped
  <2>2. PICK r \in items : r.symbol = s /\ \A d \in Removing : d.row.id # r.id
    BY <2>1 DEF WatchInv, Safe
  <2>3. op = "remove" => row.id # r.id
    BY <2>1, <2>2 DEF WatchInv, RowsAreNew, Listed
  <2>4. \A d \in Removing' : d.row.id # r.id
    BY <1>3, <1>4, <2>2, <2>3 DEF Removing
  <2> QED BY <2>2, <2>4 DEF Safe
<1> QED BY <1>5, <1>10, <1>11 DEF WatchInv

LEMMA CommitKeeps == ASSUME WatchInv, NEW n, Watch!Commit(n) PROVE WatchInv'
<1>1. PICK c \in calls :
        /\ c.n = n /\ c.stage = "sent"
        /\ items' = Watch!Changed(c)
        /\ calls' = (calls \ {c}) \cup {[c EXCEPT !.stage = "committed"]}
        /\ last' = IF c.row \in items' \ items /\ last[c.row.symbol] = "add"
                     THEN [last EXCEPT ![c.row.symbol] = "added"] ELSE last
  BY DEF Watch!Commit
<1>2. PICK d : d = [c EXCEPT !.stage = "committed"]
  OBVIOUS
<1>3. c \in WatchCalls
  BY DEF WatchInv, WatchTyped
<1>4. d \in WatchCalls /\ d.n = c.n /\ d.op = c.op /\ d.row = c.row /\ d.list = c.list /\ d.stage = "committed"
  BY <1>2, <1>3 DEF WatchCalls, Watch!Stages
<1>5. calls' = (calls \ {c}) \cup {d} /\ UNCHANGED <<cache, place, clicks>>
  BY <1>1, <1>2 DEF Watch!Commit
<1>6. c.op \in {"add", "remove"} /\ c.n \in Nat /\ c.n >= 1 /\ c.row \in WatchRows
  BY <1>1, <1>3 DEF WatchInv, WatchTyped, RowsAreNew, WatchCalls
<1>7. \A r \in items' : r \in items \/ (c.op = "add" /\ r = c.row)
  BY <1>1, <1>6 DEF Watch!Changed, Watch!Gone
<1>8. last' \in [Symbols -> {"untouched", "add", "added", "remove"}]
  BY <1>1 DEF WatchInv, WatchTyped
<1>9. WatchTyped'
  BY <1>4, <1>5, <1>6, <1>7, <1>8 DEF WatchInv, WatchTyped
<1>10. ASSUME NEW r \in Listed' PROVE r \in Listed \/ (c.op = "add" /\ r = c.row)
  <2>1. \/ r \in items' \/ r \in cache.list
        \/ \E e \in calls' : r \in e.list
        \/ \E e \in calls' : e.op = "remove" /\ r = e.row
    BY <1>5, <1>10, ListedIs DEF ListedMeans
  <2>2. \A e \in calls' : \E f \in calls : e.list = f.list /\ e.op = f.op /\ e.row = f.row
    BY <1>4, <1>5
  <2> QED BY <1>7, <2>1, <2>2, ListedIs DEF ListedMeans
<1>11. \A e \in Adding' : e \in Adding /\ e # c /\ e.n # c.n
  BY <1>1, <1>4, <1>5, <1>6 DEF Adding, WatchInv, RowsAreNew
<1>12. \A e \in Removing' : e \in Removing /\ e # c
  BY <1>4, <1>5 DEF Removing
<1>13. c.op = "add" => c \in Adding
  BY <1>1 DEF Adding
<1>14. RowsAreNew'
  <2>1. \A r \in Listed : r.id <= clicks /\ r.id \in Nat
    BY ListedTyped DEF WatchInv, RowsAreNew
  <2>2. c.op = "add" => c.row.id <= clicks /\ c.row.id = c.n /\ \A r \in Listed : r.id # c.row.id
    BY <1>13 DEF WatchInv, RowsAreNew
  <2>3. \A r \in Listed' : r.id <= clicks'
    BY <1>5, <1>10, <2>1, <2>2
  <2>4. \A e \in calls' : e.n <= clicks' /\ (e.op # "list" => e.n >= 1) /\ (e.op = "list" => e.stage # "sent")
    BY <1>4, <1>5 DEF WatchInv, RowsAreNew
  <2>5. \A e \in Adding' : e.row.id = e.n /\ \A r \in Listed' : r.id # e.row.id
    BY <1>10, <1>11, <2>2 DEF WatchInv, RowsAreNew
  <2>6. \A e, f \in calls' : e.n = f.n /\ e.n >= 1 => e = f
    BY <1>4, <1>5 DEF WatchInv, RowsAreNew
  <2>7. \A r, s \in Listed' : r.id = s.id => r.symbol = s.symbol
    BY <1>10, <2>2 DEF WatchInv, RowsAreNew
  <2> QED BY <2>3, <2>4, <2>5, <2>6, <2>7 DEF RowsAreNew
<1>15. ASSUME NEW s \in Symbols, last'[s] = "added" PROVE Safe(s)'
  <2>1. CASE last[s] = "added"
    <3>1. PICK r \in items : r.symbol = s /\ \A e \in Removing : e.row.id # r.id
      BY <2>1 DEF WatchInv, Safe
    <3>2. r \in items'
      <4>1. c.op = "remove" => c \in Removing
        BY <1>1 DEF Removing
      <4> QED BY <1>1, <1>6, <3>1, <4>1 DEF Watch!Changed, Watch!Gone
    <3> QED BY <1>12, <3>1, <3>2 DEF Safe
  <2>2. CASE last[s] # "added"
    <3>1. c.row \in items' \ items /\ c.row.symbol = s
      BY <1>1, <1>15, <2>2 DEF WatchInv, WatchTyped
    <3>2. c.op = "add"
      BY <1>7, <3>1
    <3>3. \A e \in Removing : e.row \in Listed
      BY ListedIs DEF Removing, ListedMeans
    <3>4. \A e \in Removing : e.row.id # c.row.id
      BY <1>13, <3>2, <3>3 DEF WatchInv, RowsAreNew
    <3> QED BY <1>12, <3>1, <3>4 DEF Safe
  <2> QED BY <2>1, <2>2
<1> QED BY <1>9, <1>14, <1>15 DEF WatchInv

LEMMA ReadKeeps == ASSUME WatchInv, NEW n, Watch!ReadList(n) PROVE WatchInv'
<1>1. PICK c \in calls : c.n = n /\ c.stage = "committed"
                        /\ calls' = (calls \ {c}) \cup {[c EXCEPT !.stage = "read", !.list = items]}
  BY DEF Watch!ReadList
<1>2. PICK d : d = [c EXCEPT !.stage = "read", !.list = items]
  OBVIOUS
<1>3. c \in WatchCalls /\ items \subseteq WatchRows
  BY DEF WatchInv, WatchTyped
<1>4. d \in WatchCalls /\ d.n = c.n /\ d.op = c.op /\ d.row = c.row /\ d.list = items /\ d.stage = "read"
  BY <1>2, <1>3 DEF WatchCalls, Watch!Stages
<1>5. calls' = (calls \ {c}) \cup {d} /\ UNCHANGED <<items, cache, place, clicks, last>>
  BY <1>1, <1>2 DEF Watch!ReadList
<1>6. WatchTyped'
  BY <1>4, <1>5 DEF WatchInv, WatchTyped
<1>7. Listed' \subseteq Listed
  <2>1. ASSUME NEW r \in Listed' PROVE r \in Listed
    <3>1. \/ r \in items \/ r \in cache.list
          \/ \E e \in calls' : r \in e.list
          \/ \E e \in calls' : e.op = "remove" /\ r = e.row
      BY <1>5, <2>1, ListedIs DEF ListedMeans
    <3> QED BY <1>4, <1>5, <3>1, ListedIs DEF ListedMeans
  <2> QED BY <2>1
<1>8. \A e \in calls' : \E f \in calls : e.n = f.n /\ e.op = f.op /\ e.row = f.row /\ (e.stage = "sent" => f.stage = "sent")
  BY <1>4, <1>5
<1>9. \A e, f \in calls' : e.n = f.n /\ e.n >= 1 => e = f
  BY <1>4, <1>5 DEF WatchInv, RowsAreNew
<1> QED BY <1>5, <1>6, <1>7, <1>8, <1>9, Quieter

LEMMA ArriveKeeps == ASSUME WatchInv, NEW n, Watch!Arrive(n) PROVE WatchInv'
<1>1. PICK c \in calls : calls' = calls \ {c}
                        /\ cache' = IF c.awaited THEN [known |-> TRUE, list |-> c.list] ELSE cache
  BY DEF Watch!Arrive
<1>2. cache'.list \in {cache.list, c.list} /\ UNCHANGED <<items, place, clicks, last>>
  BY <1>1 DEF Watch!Arrive
<1>3. c.list \subseteq WatchRows
  BY DEF WatchInv, WatchTyped, WatchCalls
<1>4. WatchTyped'
  BY <1>1, <1>2, <1>3 DEF WatchInv, WatchTyped
<1>5. Listed' \subseteq Listed
  <2>1. ASSUME NEW r \in Listed' PROVE r \in Listed
    <3>1. \/ r \in items \/ r \in cache'.list
          \/ \E e \in calls' : r \in e.list
          \/ \E e \in calls' : e.op = "remove" /\ r = e.row
      BY <1>2, <2>1, ListedIs DEF ListedMeans
    <3> QED BY <1>1, <1>2, <3>1, ListedIs DEF ListedMeans
  <2> QED BY <2>1
<1> QED BY <1>1, <1>2, <1>4, <1>5, Quieter DEF WatchInv, RowsAreNew

LEMMA LoseKeeps == ASSUME WatchInv, NEW n, Watch!Lose(n) PROVE WatchInv'
<1>1. PICK c \in calls : calls' \in {calls \ {c}, (calls \ {c}) \cup {[c EXCEPT !.awaited = FALSE]}}
  BY DEF Watch!Lose
<1>2. PICK d : d = [c EXCEPT !.awaited = FALSE]
  OBVIOUS
<1>3. c \in WatchCalls
  BY DEF WatchInv, WatchTyped
<1>4. d \in WatchCalls /\ d.n = c.n /\ d.op = c.op /\ d.row = c.row /\ d.list = c.list /\ d.stage = c.stage
  BY <1>2, <1>3 DEF WatchCalls
<1>5. calls' \subseteq (calls \ {c}) \cup {d} /\ UNCHANGED <<items, cache, place, clicks, last>>
  BY <1>1, <1>2 DEF Watch!Lose
<1>6. WatchTyped'
  BY <1>4, <1>5 DEF WatchInv, WatchTyped
<1>7. Listed' \subseteq Listed
  <2>1. ASSUME NEW r \in Listed' PROVE r \in Listed
    <3>1. \/ r \in items \/ r \in cache.list
          \/ \E e \in calls' : r \in e.list
          \/ \E e \in calls' : e.op = "remove" /\ r = e.row
      BY <1>5, <2>1, ListedIs DEF ListedMeans
    <3> QED BY <1>4, <1>5, <3>1, ListedIs DEF ListedMeans
  <2> QED BY <2>1
<1>8. \A e \in calls' : \E f \in calls : e.n = f.n /\ e.op = f.op /\ e.row = f.row /\ (e.stage = "sent" => f.stage = "sent")
  BY <1>4, <1>5
<1>9. \A e, f \in calls' : e.n = f.n /\ e.n >= 1 => e = f
  BY <1>4, <1>5 DEF WatchInv, RowsAreNew
<1> QED BY <1>5, <1>6, <1>7, <1>8, <1>9, Quieter

LEMMA StartPollKeeps == ASSUME WatchInv, Watch!StartPoll PROVE WatchInv'
<1>1. PICK c : c = [Watch!Call(Watch!Poll, "list", Watch!Row(0, Watch!NoSymbol)) EXCEPT !.stage = "committed"]
  OBVIOUS
<1>2. c \in WatchCalls /\ c.n = 0 /\ c.op = "list" /\ c.list = {} /\ c.stage = "committed"
  BY <1>1 DEF Watch!Call, Watch!Poll, Watch!Row, WatchCalls, WatchRows, Names, Watch!Stages
<1>3. calls' = calls \cup {c} /\ UNCHANGED <<items, cache, place, clicks, last>>
  BY <1>1 DEF Watch!StartPoll
<1>4. WatchTyped'
  BY <1>2, <1>3 DEF WatchInv, WatchTyped
<1>5. Listed' \subseteq Listed
  <2>1. ASSUME NEW r \in Listed' PROVE r \in Listed
    <3>1. \/ r \in items \/ r \in cache.list
          \/ \E e \in calls' : r \in e.list
          \/ \E e \in calls' : e.op = "remove" /\ r = e.row
      BY <1>3, <2>1, ListedIs DEF ListedMeans
    <3> QED BY <1>2, <1>3, <3>1, ListedIs DEF ListedMeans
  <2> QED BY <2>1
<1>6. \A e, f \in calls' : e.n = f.n /\ e.n >= 1 => e = f
  BY <1>2, <1>3 DEF WatchInv, RowsAreNew
<1> QED BY <1>2, <1>3, <1>4, <1>5, <1>6, Quieter

LEMMA WatchNextInv == WatchInv /\ (Watch!WatchNext \/ UNCHANGED watchVars) => WatchInv'
<1> SUFFICES ASSUME WatchInv, Watch!WatchNext \/ UNCHANGED watchVars PROVE WatchInv'
  OBVIOUS
<1>1. CASE UNCHANGED watchVars
  BY <1>1 DEF watchVars, WatchInv, WatchTyped, RowsAreNew, Listed, Adding, Removing, Safe
<1>2. CASE \E p \in Symbols \cup {Watch!Dashboard} : Watch!GoTo(p)
  <2>1. place' \in Symbols \cup {Watch!Dashboard} /\ UNCHANGED <<items, cache, calls, clicks, last>>
    BY <1>2 DEF Watch!GoTo
  <2> QED BY <2>1 DEF WatchInv, WatchTyped, RowsAreNew, Listed, Adding, Removing, Safe
<1>3. CASE Watch!RemoveRow
  <2>1. PICK r \in cache.list : Watch!Click("remove", r)
    BY <1>3 DEF Watch!RemoveRow
  <2>2. r \in WatchRows /\ r \in Listed /\ r.symbol \in Symbols
    BY ListedIs DEF WatchInv, WatchTyped, ListedMeans, WatchRows
  <2>3. UNCHANGED <<items, cache, place>>
    BY <2>1 DEF Watch!Click
  <2> QED BY <2>1, <2>2, <2>3, ClickKeeps
<1>4. CASE Watch!Toggle
  <2>1. CASE \E r \in cache.list : r.symbol = place /\ Watch!Click("remove", r)
    <3>1. PICK r \in cache.list : Watch!Click("remove", r)
      BY <2>1
    <3>2. r \in WatchRows /\ r \in Listed /\ r.symbol \in Symbols
      BY ListedIs DEF WatchInv, WatchTyped, ListedMeans, WatchRows
    <3>3. UNCHANGED <<items, cache, place>>
      BY <3>1 DEF Watch!Click
    <3> QED BY <3>1, <3>2, <3>3, ClickKeeps
  <2>2. CASE Watch!Click("add", Watch!Row(clicks + 1, place))
    <3>1. PICK r : r = Watch!Row(clicks + 1, place)
      OBVIOUS
    <3>2. r \in WatchRows /\ r.id = clicks + 1 /\ r.symbol \in Symbols
      BY <1>4, <3>1 DEF Watch!Toggle, Watch!Row, WatchInv, WatchTyped, WatchRows
    <3>3. Watch!Click("add", r) /\ UNCHANGED <<items, cache, place>>
      BY <2>2, <3>1 DEF Watch!Click
    <3> QED BY <3>2, <3>3, ClickKeeps
  <2> QED BY <1>4, <2>1, <2>2 DEF Watch!Toggle
<1> QED
  BY <1>1, <1>2, <1>3, <1>4, StartPollKeeps, CommitKeeps, ReadKeeps, ArriveKeeps, LoseKeeps DEF Watch!WatchNext

LEMMA WatchKept == WatchInv => Watch!KeptOnceAdded
BY DEF WatchInv, Safe, Watch!KeptOnceAdded, Watch!SymbolsOf

--------------------------------------------------------------------------------
(* The pages of an order: no copy is ahead of the book.                        *)

PageCopies ==
  [state : {"none", "absent", "ended", "submitting", "working", "canceling"}, at : Nat]
PageData == [Pages!Queries -> [known : BOOLEAN, copy : PageCopies]]
PageFetches == [Pages!Queries -> [stage : {"none", "sent", "read"}, copy : PageCopies]]

PagesTyped ==
  /\ book \in PageCopies /\ data \in PageData /\ fetch \in PageFetches
  /\ seen.copy \in PageCopies
  /\ page \in Pages!Pages /\ told \in Nat

NotAhead ==
  /\ book.state = "none" => book.at = 0
  /\ told <= book.at
  /\ \A q \in Pages!Queries : data[q].copy.at <= book.at /\ fetch[q].copy.at <= book.at

\* The answer under way accounts for what the page has shown.
AnswerIsCurrent ==
  "balances" \in Pages!Mounted(page) /\ fetch["balances"].stage = "read" =>
    fetch["balances"].copy.at >= told

PagesInv == PagesTyped /\ NotAhead /\ AnswerIsCurrent /\ Pages!BalancesFollowTable

LEMMA PageFacts ==
  /\ Pages!NoFetch.copy = Pages!Unseen.copy /\ Pages!NoFetch.stage = "none"
  /\ Pages!Sent.stage = "sent" /\ Pages!Sent.copy = Pages!Unseen.copy
  /\ Pages!Unseen.copy \in PageCopies /\ Pages!Unseen.copy.at = 0 /\ Pages!Unseen.copy.state = "none"
  /\ Pages!Sent \in [stage : {"none", "sent", "read"}, copy : PageCopies]
  /\ Pages!NoFetch \in [stage : {"none", "sent", "read"}, copy : PageCopies]
<1>1. PICK c : c = Pages!Unseen.copy
  OBVIOUS
<1>2. c \in PageCopies /\ c.at = 0 /\ c.state = "none"
  BY <1>1 DEF Pages!Unseen, PageCopies
<1>3. PICK f : f = [stage |-> "none", copy |-> c]
  OBVIOUS
<1>4. Pages!NoFetch = f
  BY <1>1, <1>3 DEF Pages!NoFetch
<1>5. f.stage = "none" /\ f.copy = c /\ f \in [stage : {"none", "sent", "read"}, copy : PageCopies]
  BY <1>2, <1>3
<1>6. PICK g : g = [f EXCEPT !.stage = "sent"]
  OBVIOUS
<1>7. g.stage = "sent" /\ g.copy = c /\ g \in [stage : {"none", "sent", "read"}, copy : PageCopies]
  BY <1>5, <1>6
<1> QED BY <1>1, <1>2, <1>4, <1>5, <1>6, <1>7 DEF Pages!Sent

LEMMA PagesInitInv == Pages!Init => PagesInv
<1> SUFFICES ASSUME Pages!Init PROVE PagesInv
  OBVIOUS
<1>1. PagesTyped
  BY PageFacts DEF Pages!Init, PagesTyped, PageData, PageFetches, Pages!Unseen, Pages!Pages
<1>2. NotAhead
  BY PageFacts DEF Pages!Init, NotAhead, Pages!Unseen
<1>3. fetch["balances"].stage = "sent"
  BY PageFacts DEF Pages!Init, Pages!Queries
<1> QED BY <1>1, <1>2, <1>3 DEF PagesInv, AnswerIsCurrent, Pages!BalancesFollowTable

\* What an invalidation on page p leaves of the fetches f, where the data is d.
LEMMA RestartedIs ==
  ASSUME NEW p, NEW f \in PageFetches, NEW d
  PROVE  /\ Pages!Restarted(p, f, d) \in PageFetches
         /\ \A q \in Pages!Queries :
              Pages!Restarted(p, f, d)[q].copy \in {Pages!Unseen.copy, f[q].copy}
         /\ Pages!Restarted(p, f, d)["balances"] = f["balances"]
              \/ Pages!Restarted(p, f, d)["balances"] = Pages!Sent
         /\ Pages!BalancesShown(p, d) => Pages!Restarted(p, f, d)["balances"].stage = "sent"
BY PageFacts DEF Pages!Restarted, Pages!BalancesShown, PageFetches, Pages!Queries

\* A refresh, with what it may tell: nothing, or a copy of the order that it has.
LEMMA EffectIs ==
  ASSUME NEW p \in Pages!Pages, NEW last1, NEW d \in PageData, NEW f \in PageFetches, NEW s, NEW t \in Nat,
         seen.copy \in PageCopies, last1.copy \in PageCopies,
         Pages!Effect(p, last1, d, f, s, t)
  PROVE  /\ seen'.copy \in PageCopies
         /\ \/ fetch' = f /\ stale' = s /\ told' = t
            \/ /\ last1.known
               /\ fetch' = Pages!Restarted(p, f, d) /\ stale' = Pages!Queries
               /\ \/ told' = t
                  \/ Pages!BalancesShown(p, d) /\ \E q \in Pages!Queries : told' = d[q].copy.at
<1> DEFINE now == {d[q].copy : q \in {r \in Pages!ShownBy(p) : d[r].known}}
<1>1. \A copy \in now : \E q \in Pages!Queries : copy = d[q].copy
  BY DEF Pages!ShownBy, Pages!Mounted, Pages!Queries, Pages!Pages
<1>2. \A copy \in now : copy \in PageCopies
  BY <1>1 DEF PageData
<1>3. CASE now = {}
  BY <1>3 DEF Pages!Effect
<1>4. CASE now # {}
  <2>1. PICK copy \in now :
          /\ seen' = [known |-> TRUE, copy |-> copy]
          /\ IF last1.known /\ Pages!Signature(last1.copy) # Pages!Signature(copy)
               THEN /\ fetch' = Pages!Restarted(p, f, d)
                    /\ stale' = Pages!Queries
                    /\ told' = IF Pages!BalancesShown(p, d) THEN copy.at ELSE t
               ELSE fetch' = f /\ stale' = s /\ told' = t
    BY <1>4 DEF Pages!Effect
  <2> HIDE DEF now
  <2> QED BY <2>1, <1>1, <1>2
<1> QED BY <1>3, <1>4

LEMMA PagesStep == ASSUME PagesInv, Pages!PagesNext PROVE PagesInv'
<1> USE DEF Pages!Queries
<1>0. "balances" \in Pages!Queries /\ Pages!Unseen.copy.at = 0
  BY PageFacts
<1>1. ASSUME NEW q \in Pages!Queries, Pages!Refetch(q) PROVE PagesInv'
  <2>1. fetch' = [fetch EXCEPT ![q] = Pages!Sent] /\ UNCHANGED <<book, data, stale, page, seen, told>>
    BY <1>1 DEF Pages!Refetch
  <2>2. PagesTyped'
    BY <2>1, PageFacts DEF PagesInv, PagesTyped, PageFetches
  <2>3. \A r \in Pages!Queries : fetch'[r] = IF r = q THEN Pages!Sent ELSE fetch[r]
    BY <2>1 DEF PagesInv, PagesTyped, PageFetches
  <2>4. NotAhead'
    BY <2>1, <2>3, PageFacts DEF PagesInv, PagesTyped, PageCopies, NotAhead
  <2>5. AnswerIsCurrent' /\ Pages!BalancesFollowTable'
    BY <1>0, <2>1, <2>3, PageFacts DEF PagesInv, AnswerIsCurrent, Pages!BalancesFollowTable, Pages!Mounted
  <2> QED BY <2>2, <2>4, <2>5 DEF PagesInv
<1>2. ASSUME NEW q \in Pages!Queries, Pages!ReadAtServer(q) PROVE PagesInv'
  <2>1. PICK c : c = Pages!Answer(q)
    OBVIOUS
  <2>2. c \in PageCopies /\ c.at = book.at
    BY <2>1 DEF Pages!Answer, PagesInv, PagesTyped, PageCopies
  <2>3. /\ fetch' = [fetch EXCEPT ![q] = [stage |-> "read", copy |-> c]]
        /\ UNCHANGED <<book, data, stale, page, seen, told>>
    BY <1>2, <2>1 DEF Pages!ReadAtServer
  <2>4. PagesTyped'
    BY <2>2, <2>3 DEF PagesInv, PagesTyped, PageFetches
  <2>5. \A r \in Pages!Queries : fetch'[r] = IF r = q THEN [stage |-> "read", copy |-> c] ELSE fetch[r]
    BY <2>3 DEF PagesInv, PagesTyped, PageFetches
  <2>6. NotAhead'
    BY <2>2, <2>3, <2>5 DEF PagesInv, PagesTyped, PageCopies, NotAhead
  <2>7. c.at >= told
    BY <2>2 DEF PagesInv, PagesTyped, PageCopies, NotAhead
  <2>8. AnswerIsCurrent'
    BY <1>0, <2>3, <2>5, <2>7 DEF PagesInv, AnswerIsCurrent
  <2>9. Pages!BalancesFollowTable'
    BY <1>0, <2>3, <2>5, <1>2 DEF PagesInv, Pages!BalancesFollowTable, Pages!ReadAtServer
  <2> QED BY <2>4, <2>6, <2>8, <2>9 DEF PagesInv
<1>3. ASSUME NEW q \in Pages!Queries, Pages!Fail(q) PROVE PagesInv'
  <2>1. /\ fetch' = [fetch EXCEPT ![q] = Pages!NoFetch] /\ stale' = stale \cup {q}
        /\ UNCHANGED <<book, data, page, seen, told>>
    BY <1>3 DEF Pages!Fail
  <2>2. PagesTyped'
    BY <2>1, PageFacts DEF PagesInv, PagesTyped, PageFetches
  <2>3. \A r \in Pages!Queries : fetch'[r] = IF r = q THEN Pages!NoFetch ELSE fetch[r]
    BY <2>1 DEF PagesInv, PagesTyped, PageFetches
  <2>4. NotAhead'
    BY <2>1, <2>3, PageFacts DEF PagesInv, PagesTyped, PageCopies, NotAhead
  <2>5. AnswerIsCurrent' /\ Pages!BalancesFollowTable'
    BY <1>0, <2>1, <2>3, PageFacts DEF PagesInv, AnswerIsCurrent, Pages!BalancesFollowTable, Pages!Mounted
  <2> QED BY <2>2, <2>4, <2>5 DEF PagesInv
\* The end of a fetch, or a new page, and the effect of either.
<1>4. ASSUME NEW q \in Pages!Queries, Pages!Arrive(q) PROVE PagesInv'
  <2>1. PICK d : d = [data EXCEPT ![q] = [known |-> TRUE, copy |-> fetch[q].copy]]
    OBVIOUS
  <2>2. d \in PageData /\ \A r \in Pages!Queries :
          d[r] = IF r = q THEN [known |-> TRUE, copy |-> fetch[q].copy] ELSE data[r]
    BY <2>1 DEF PagesInv, PagesTyped, PageData, PageFetches
  <2>3. PICK f : f = [fetch EXCEPT ![q] = Pages!NoFetch]
    OBVIOUS
  <2>4. f \in PageFetches /\ \A r \in Pages!Queries :
          f[r] = IF r = q THEN Pages!NoFetch ELSE fetch[r]
    BY <2>3, PageFacts DEF PagesInv, PagesTyped, PageFetches
  <2>5. /\ data' = d /\ Pages!Effect(page, seen, d, f, stale \ {q}, told)
        /\ UNCHANGED <<book, page>> /\ fetch[q].stage = "read"
    BY <1>4, <2>1, <2>3 DEF Pages!Arrive
  <2>6. /\ seen'.copy \in PageCopies
        /\ \/ fetch' = f /\ stale' = stale \ {q} /\ told' = told
           \/ /\ fetch' = Pages!Restarted(page, f, d) /\ stale' = Pages!Queries
              /\ \/ told' = told
                 \/ Pages!BalancesShown(page, d) /\ \E r \in Pages!Queries : told' = d[r].copy.at
    BY <2>2, <2>4, <2>5, EffectIs DEF PagesInv, PagesTyped
  <2>7. \A r \in Pages!Queries : d[r].copy.at <= book.at /\ f[r].copy.at <= book.at
    BY <2>2, <2>4, PageFacts DEF PagesInv, NotAhead, PagesTyped, PageCopies
  <2>8. \A r \in Pages!Queries : d[r].copy.at \in Nat
    BY <2>2 DEF PageData, PageCopies
  <2>9. CASE fetch' = f /\ stale' = stale \ {q} /\ told' = told
    <3>1. PagesTyped' /\ NotAhead'
      BY <2>2, <2>4, <2>5, <2>6, <2>7, <2>9 DEF PagesInv, PagesTyped, NotAhead
    <3>2. AnswerIsCurrent' /\ Pages!BalancesFollowTable'
      BY <1>0, <2>2, <2>4, <2>5, <2>9, PageFacts
         DEF PagesInv, AnswerIsCurrent, Pages!BalancesFollowTable, Pages!BalancesShown
    <3> QED BY <3>1, <3>2 DEF PagesInv
  <2>10. CASE /\ fetch' = Pages!Restarted(page, f, d) /\ stale' = Pages!Queries
              /\ \/ told' = told
                 \/ Pages!BalancesShown(page, d) /\ \E r \in Pages!Queries : told' = d[r].copy.at
    <3>1. PICK g : g = Pages!Restarted(page, f, d)
      OBVIOUS
    <3>2. /\ g \in PageFetches
          /\ \A r \in Pages!Queries : g[r].copy \in {Pages!Unseen.copy, f[r].copy}
          /\ g["balances"] = f["balances"] \/ g["balances"] = Pages!Sent
          /\ Pages!BalancesShown(page, d) => g["balances"].stage = "sent"
      BY <2>4, <3>1, RestartedIs
    <3>3. fetch' = g /\ stale' = Pages!Queries
      BY <2>10, <3>1
    <3>4. book.at \in Nat
      BY DEF PagesInv, PagesTyped, PageCopies
    <3>5. \A r \in Pages!Queries : g[r].copy.at <= book.at
      BY <1>0, <2>7, <3>2, <3>4
    <3>6. told' \in Nat /\ told' <= book.at
      BY <2>7, <2>8, <2>10 DEF PagesInv, PagesTyped, NotAhead
    <3>7. PagesTyped' /\ NotAhead'
      BY <2>2, <2>5, <2>6, <2>7, <3>2, <3>3, <3>5, <3>6 DEF PagesInv, PagesTyped, NotAhead
    <3>8. f["balances"].stage = "read" => f["balances"] = fetch["balances"]
      BY <1>0, <2>4, PageFacts
    <3>9. AnswerIsCurrent' /\ Pages!BalancesFollowTable'
      BY <2>5, <2>10, <3>2, <3>3, <3>8, PageFacts
         DEF PagesInv, AnswerIsCurrent, Pages!BalancesFollowTable
    <3> QED BY <3>7, <3>9 DEF PagesInv
  <2> QED BY <2>6, <2>9, <2>10
<1>5. ASSUME NEW p \in Pages!Pages, Pages!GoTo(p) PROVE PagesInv'
  <2>1. PICK due \in SUBSET Pages!Queries :
          /\ Pages!Effect(p, Pages!Unseen, data,
                          [q \in Pages!Queries |-> IF q \in due THEN Pages!Sent ELSE fetch[q]], stale, 0)
          /\ page' = p /\ UNCHANGED <<book, data>>
    <3>1. PICK old \in SUBSET {q \in Pages!Mounted(p) \ Pages!Mounted(page) : fetch[q].stage = "none"} :
            LET due == old \cup {q \in {r \in Pages!Mounted(p) \ Pages!Mounted(page) : fetch[r].stage = "none"} :
                                   ~data[q].known \/ q \in stale}
            IN Pages!Effect(p, Pages!Unseen, data,
                 [q \in Pages!Queries |-> IF q \in due THEN Pages!Sent ELSE fetch[q]], stale, 0)
      BY <1>5 DEF Pages!GoTo
    <3>2. Pages!Mounted(p) \subseteq Pages!Queries
      BY DEF Pages!Mounted, Pages!Pages
    <3>3. page' = p /\ UNCHANGED <<book, data>>
      BY <1>5 DEF Pages!GoTo
    <3>4. PICK due : due = old \cup {q \in {r \in Pages!Mounted(p) \ Pages!Mounted(page) : fetch[r].stage = "none"} :
                                        ~data[q].known \/ q \in stale}
      OBVIOUS
    <3>5. due \in SUBSET Pages!Queries
      BY <3>2, <3>4
    <3>6. Pages!Effect(p, Pages!Unseen, data,
                       [q \in Pages!Queries |-> IF q \in due THEN Pages!Sent ELSE fetch[q]], stale, 0)
      BY <3>1, <3>4
    <3> QED BY <3>3, <3>5, <3>6
  <2>2. PICK f : f = [q \in Pages!Queries |-> IF q \in due THEN Pages!Sent ELSE fetch[q]]
    OBVIOUS
  <2>3. f \in PageFetches /\ \A q \in Pages!Queries : f[q] = IF q \in due THEN Pages!Sent ELSE fetch[q]
    BY <2>2, PageFacts DEF PagesInv, PagesTyped, PageFetches
  <2>4. Pages!Unseen.known = FALSE
    BY DEF Pages!Unseen
  <2>5. seen'.copy \in PageCopies /\ fetch' = f /\ stale' = stale /\ told' = 0
    BY <2>1, <2>2, <2>3, <2>4, EffectIs, PageFacts DEF PagesInv, PagesTyped
  <2>6. PagesTyped' /\ NotAhead'
    BY <1>0, <2>1, <2>3, <2>5, PageFacts DEF PagesInv, PagesTyped, PageCopies, NotAhead
  <2>7. \A q \in Pages!Queries : fetch'[q].copy.at >= 0 /\ data'[q].copy.at >= 0
    BY <2>6 DEF PagesTyped, PageData, PageFetches, PageCopies
  <2>8. AnswerIsCurrent' /\ Pages!BalancesFollowTable'
    BY <1>0, <2>5, <2>7 DEF AnswerIsCurrent, Pages!BalancesFollowTable
  <2> QED BY <2>6, <2>8 DEF PagesInv
\* The book moves on, or every query is invalidated, or neither.
<1>6. ASSUME book' \in PageCopies, book'.at >= book.at, book'.state # "none" \/ book' = book,
             \/ fetch' = fetch /\ stale' = stale
             \/ fetch' = Pages!Restarted(page, fetch, data) /\ stale' = Pages!Queries,
             UNCHANGED <<data, page, seen, told>>
      PROVE  PagesInv'
  <2>1. PICK g : g = Pages!Restarted(page, fetch, data)
    OBVIOUS
  <2>2. fetch \in PageFetches
    BY DEF PagesInv, PagesTyped
  <2>3. /\ g \in PageFetches
        /\ \A q \in Pages!Queries : g[q].copy \in {Pages!Unseen.copy, fetch[q].copy}
        /\ g["balances"] = fetch["balances"] \/ g["balances"] = Pages!Sent
        /\ Pages!BalancesShown(page, data) => g["balances"].stage = "sent"
    BY <2>1, <2>2, RestartedIs
  <2>4. fetch' = fetch \/ (fetch' = g /\ stale' = Pages!Queries)
    BY <1>6, <2>1
  <2>5. \A q \in Pages!Queries : fetch[q].copy.at <= book.at /\ data[q].copy.at <= book.at
    BY DEF PagesInv, NotAhead
  <2>6. book.at \in Nat /\ book'.at \in Nat /\ told \in Nat
    BY <1>6 DEF PagesInv, PagesTyped, PageCopies
  <2>7. \A q \in Pages!Queries : g[q].copy.at <= book.at
    BY <1>0, <2>3, <2>5, <2>6
  <2>8. \A q \in Pages!Queries : data[q].copy.at \in Nat /\ fetch'[q].copy.at \in Nat
    BY <2>2, <2>3, <2>4 DEF PagesInv, PagesTyped, PageData, PageFetches, PageCopies
  <2>9. PagesTyped'
    BY <1>6, <2>2, <2>3, <2>4 DEF PagesInv, PagesTyped
  <2>10. \A q \in Pages!Queries : data'[q].copy.at <= book'.at /\ fetch'[q].copy.at <= book'.at
    BY <1>6, <2>4, <2>5, <2>6, <2>7, <2>8
  <2>11. NotAhead'
    BY <1>6, <2>6, <2>10 DEF PagesInv, NotAhead
  <2>12. AnswerIsCurrent'
    BY <1>6, <2>3, <2>4, PageFacts DEF PagesInv, AnswerIsCurrent
  <2>13. Pages!BalancesFollowTable'
    BY <1>6, <2>3, <2>4, PageFacts DEF PagesInv, Pages!BalancesFollowTable
  <2> QED BY <2>9, <2>11, <2>12, <2>13 DEF PagesInv
<1>7. book \in PageCopies
  BY DEF PagesInv, PagesTyped
<1>8. ASSUME NEW state \in {"working", "canceling", "ended"}, Pages!Becomes(state)
      PROVE  book' \in PageCopies /\ book'.at >= book.at /\ book'.state # "none"
  BY <1>7, <1>8 DEF Pages!Becomes, PageCopies
<1>9. CASE Pages!Place
  <2>1. book' = [state |-> "submitting", at |-> 1] /\ book.at = 0
    BY <1>9 DEF Pages!Place, PagesInv, NotAhead
  <2>2. book' \in PageCopies /\ book'.at >= book.at /\ book'.state # "none"
    BY <2>1 DEF PageCopies
  <2> QED BY <1>6, <1>9, <2>2 DEF Pages!Place
<1>10. CASE Pages!Cancel
  BY <1>6, <1>7, <1>10 DEF Pages!Cancel, PageCopies
<1>11. CASE Pages!Settled
  BY <1>6, <1>7, <1>11 DEF Pages!Settled, PageCopies
<1>12. CASE Pages!HandleCancel
  BY <1>6, <1>7, <1>8, <1>12 DEF Pages!HandleCancel, PageCopies
<1>13. CASE Pages!Progress
  BY <1>6, <1>7, <1>8, <1>13 DEF Pages!Progress
<1> QED
  BY <1>1, <1>2, <1>3, <1>4, <1>5, <1>9, <1>10, <1>11, <1>12, <1>13 DEF Pages!PagesNext

LEMMA PagesStutter == PagesInv /\ UNCHANGED pageVars => PagesInv'
BY DEF pageVars, PagesInv, PagesTyped, NotAhead, AnswerIsCurrent, Pages!BalancesFollowTable

(* A symbol whose last click was an add that inserted its row is on the list,  *)
(* and where the page shows an order's change beside balances it has, these    *)
(* account for it, or are being fetched, or their fetch failed: for any number *)
(* of symbols, clicks, answers out of order and refreshes that fail.           *)
THEOREM PagesStayTrue == DashboardSpec => []PagesAgree
<1>1. DashboardInit => WatchInv /\ PagesInv
  BY WatchInitInv, PagesInitInv DEF DashboardInit
<1>2. WatchInv /\ PagesInv /\ [DashboardNext]_vars => WatchInv' /\ PagesInv'
  BY WatchNextInv, PagesStep, PagesStutter DEF DashboardNext, vars
<1>3. WatchInv /\ PagesInv => PagesAgree
  BY WatchKept DEF PagesAgree, PagesInv
<1>4. DashboardSpec => DashboardInit /\ [][DashboardNext]_vars
  BY PTL DEF DashboardSpec
<1> QED BY <1>1, <1>2, <1>3, <1>4, PTL
================================================================================
