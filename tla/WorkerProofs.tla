------------------------------ MODULE WorkerProofs ------------------------------
(***************************************************************************)
(* Theorems of the worker's two parts.  ScheduledJobs: for every list of    *)
(* jobs, intervals, leases, triggers and faults, if every run is recorded   *)
(* within its lease, no two triggers run one job and successes stay an      *)
(* interval apart.  PriceAlerts: for every set of alerts, users, symbols,   *)
(* prices, callers and readers, and every cap, age and lifetime.            *)
(***************************************************************************)
EXTENDS ScheduledJobs, PriceAlerts, FiniteSetTheorems, FunctionTheorems, TLAPS

--------------------------------------------------------------------------------
(* Jobs: types.                                                                *)

Pcs == {"idle", "next", "claim", "run", "succeed", "fail"}

Calls == [pc : Pcs, at : Nat \ {0}, age : Nat, read : Nat]

JobsType ==
  /\ since \in [Jobs -> Nat \cup {Never}]
  /\ lease \in [Jobs -> Int \cup {Free}]
  /\ trigger \in [Triggers -> Calls]
  /\ faults \in 0..MaxFaults

\* What a call holds at each place: no instant is read before its place.
CallOK(t) ==
  /\ trigger[t].at \in 1..(Len(JobList) + 1)
  /\ trigger[t].pc \notin {"idle", "next"} => trigger[t].at <= Len(JobList)
  /\ trigger[t].pc \in {"idle", "next"} => trigger[t].age = 0
  /\ trigger[t].pc = "claim" => trigger[t].age <= CallDelay
  /\ trigger[t].pc \in {"idle", "next", "claim", "run"} => trigger[t].read = 0
  /\ trigger[t].read <= CallDelay

DistancesOK ==
  \A j \in Jobs : /\ since[j] # Never => since[j] <= SinceCap(j)
                  /\ lease[j] # Free => lease[j] \in -(CallDelay + 1)..Lease[j]

TypeInv == JobsType /\ DistancesOK /\ \A t \in Triggers : CallOK(t)

\* The larger and the smaller of two numbers.
LEMMA MinOfTwo ==
  ASSUME NEW a \in Int, NEW b \in Int
  PROVE  Min({a, b}) = IF a <= b THEN a ELSE b
BY DEF Min

LEMMA MaxOfTwo ==
  ASSUME NEW a \in Int, NEW b \in Int
  PROVE  Max({a, b}) = IF a >= b THEN a ELSE b
BY DEF Max

\* A call that is past "next" is at a job of the list.
LEMMA JobOfType ==
  ASSUME JobsType, NEW t \in Triggers, trigger[t].at <= Len(JobList)
  PROVE  JobOf(t) \in Jobs
BY JobsAssumption DEF JobsType, Calls, JobOf

\* What a call moved on to the next job, or made older, holds.
LEMMA NextCall ==
  ASSUME NEW n \in Nat \ {0}, NEW c, c = [Idle EXCEPT !.pc = "next", !.at = n]
  PROVE  c \in Calls /\ c.pc = "next" /\ c.at = n /\ c.age = 0 /\ c.read = 0
<1>1. Idle \in Calls
  BY DEF Calls, Pcs, Idle
<1>2. c \in Calls
  BY <1>1 DEF Calls, Pcs
<1> QED
  BY <1>2 DEF Idle

LEMMA OlderCall ==
  ASSUME NEW b \in Calls, NEW a \in Nat, NEW r \in Nat, NEW c, c = [b EXCEPT !.age = a, !.read = r]
  PROVE  c \in Calls /\ c.pc = b.pc /\ c.at = b.at /\ c.age = a /\ c.read = r
<1>1. c \in Calls
  BY DEF Calls
<1> QED
  BY <1>1 DEF Calls

LEMMA TypeInit == JobsInit => TypeInv
<1> SUFFICES ASSUME JobsInit PROVE TypeInv
  OBVIOUS
<1>1. Len(JobList) \in Nat
  BY JobsAssumption
<1> QED
  BY <1>1, JobsAssumption DEF JobsInit, TypeInv, JobsType, DistancesOK, CallOK, Calls, Pcs, Idle

LEMMA TypeStep == TypeInv /\ [JobsNext]_jobVars => TypeInv'
<1> SUFFICES ASSUME TypeInv, [JobsNext]_jobVars PROVE TypeInv'
  OBVIOUS
<1> USE DEF TypeInv, JobsType, Calls, Pcs
<1>1. Len(JobList) \in Nat /\ CallDelay \in Nat /\ Interval \in [Jobs -> Nat \ {0}]
      /\ Lease \in [Jobs -> Nat \ {0}] /\ MaxFaults \in Nat /\ Never \notin Int /\ Free \notin Int
  BY JobsAssumption
<1>2. ASSUME NEW t \in Triggers, trigger[t].at <= Len(JobList)
      PROVE  JobOf(t) \in Jobs /\ Lease[JobOf(t)] \in Nat \ {0} /\ Interval[JobOf(t)] \in Nat \ {0}
             /\ CallDelay < Lease[JobOf(t)] /\ CallDelay < Interval[JobOf(t)]
  BY <1>2, JobOfType, JobsAssumption
<1>3. Idle \in Calls /\ Idle = [pc |-> "idle", at |-> 1, age |-> 0, read |-> 0]
  BY DEF Idle
<1>4. ASSUME NEW t \in Triggers, trigger[t].at <= Len(JobList), ToNextJob(t)
      PROVE  trigger' \in [Triggers -> Calls] /\ \A u \in Triggers : CallOK(u)'
  <2> DEFINE next == [Idle EXCEPT !.pc = "next", !.at = trigger[t].at + 1]
  <2>1. trigger[t].at \in 1..Len(JobList)
    BY <1>1, <1>4
  <2>2. /\ next \in Calls /\ next.pc = "next" /\ next.at = trigger[t].at + 1
        /\ next.age = 0 /\ next.read = 0
    <3>1. trigger[t].at + 1 \in Nat \ {0}
      BY <1>1, <2>1
    <3> QED
      BY <3>1, NextCall
  <2>3. trigger' = [trigger EXCEPT ![t] = next]
    BY <1>4 DEF ToNextJob
  <2> HIDE DEF next
  <2>4. trigger' \in [Triggers -> Calls]
    BY <2>2, <2>3
  <2>5. ASSUME NEW u \in Triggers PROVE CallOK(u)'
    <3>1. CASE u = t
      BY <1>1, <2>1, <2>2, <2>3, <3>1 DEF CallOK
    <3>2. CASE u # t
      BY <2>3, <3>2 DEF CallOK
    <3> QED
      BY <3>1, <3>2
  <2> QED
    BY <2>4, <2>5
<1>5. ASSUME NEW t \in Triggers, Rejects(t)
      PROVE  trigger' \in [Triggers -> Calls] /\ \A u \in Triggers : CallOK(u)'
  BY <1>1, <1>3, <1>5 DEF Rejects, CallOK
<1>6. ASSUME NEW t \in Triggers, TakeLease(t), trigger[t].pc = "claim"
      PROVE  lease' \in [Jobs -> Int \cup {Free}]
             /\ \A j \in Jobs : lease[j]' # Free => lease[j]' \in -(CallDelay + 1)..Lease[j]
  <2>3. trigger[t].age \in Nat /\ CallOK(t)
    OBVIOUS
  <2>1. trigger[t].at <= Len(JobList) /\ trigger[t].age \in 0..CallDelay
    BY <1>1, <1>6, <2>3 DEF CallOK
  <2>2. Lease[JobOf(t)] - trigger[t].age \in 0..Lease[JobOf(t)]
    BY <1>1, <1>2, <2>1
  <2> QED
    BY <1>1, <1>2, <1>6, <2>1, <2>2 DEF TakeLease, DistancesOK
<1>7. ASSUME NEW t \in Triggers, trigger[t].pc \in {"succeed", "fail"}
      PROVE  /\ RecordSuccess(t) => /\ since' \in [Jobs -> Nat \cup {Never}]
                                    /\ lease' \in [Jobs -> Int \cup {Free}]
                                    /\ DistancesOK'
             /\ RecordFailure(t) => /\ since' \in [Jobs -> Nat \cup {Never}]
                                    /\ lease' \in [Jobs -> Int \cup {Free}]
                                    /\ DistancesOK'
  <2>1. trigger[t].read \in Nat /\ CallOK(t)
    OBVIOUS
  <2>3. trigger[t].at <= Len(JobList) /\ trigger[t].read \in 0..CallDelay
    BY <1>1, <1>7, <2>1 DEF CallOK
  <2>2. trigger[t].read <= SinceCap(JobOf(t))
    BY <1>1, <1>2, <2>3 DEF SinceCap
  <2> QED
    BY <1>1, <1>2, <2>2, <2>3 DEF RecordSuccess, RecordFailure, DistancesOK, SinceCap
<1>8. ASSUME NEW t \in Triggers, NEW q \in Pcs, To(t, q), trigger[t].at <= Len(JobList) \/ q = "next",
             q \in {"idle", "next", "claim", "run"} => trigger[t].read = 0,
             q \in {"idle", "next", "claim"} => trigger[t].age = 0
      PROVE  trigger' \in [Triggers -> Calls] /\ \A u \in Triggers : CallOK(u)'
  BY <1>1, <1>8 DEF To, CallOK
<1>9. ASSUME NEW t \in Triggers, Begin(t) PROVE TypeInv'
  BY <1>8, <1>9 DEF Begin, CallOK, DistancesOK, SinceCap
<1>10. ASSUME NEW t \in Triggers, SkipDisabled(t) PROVE TypeInv'
  BY <1>4, <1>10 DEF SkipDisabled, DistancesOK, SinceCap
<1>11. ASSUME NEW t \in Triggers, StartJob(t) PROVE TypeInv'
  BY <1>8, <1>11 DEF StartJob, CallOK, DistancesOK, SinceCap
<1>12. ASSUME NEW t \in Triggers, Return(t) PROVE TypeInv'
  BY <1>5, <1>12 DEF Return, DistancesOK, SinceCap
<1>13. ASSUME NEW t \in Triggers, Claim(t) PROVE TypeInv'
  BY <1>1, <1>6, <1>8, <1>13 DEF Claim, CallOK, DistancesOK, SinceCap
<1>14. ASSUME NEW t \in Triggers, NotDue(t) PROVE TypeInv'
  BY <1>4, <1>14 DEF NotDue, CallOK, DistancesOK, SinceCap
<1>15. ASSUME NEW t \in Triggers, ClaimThrows(t) PROVE TypeInv'
  BY <1>1, <1>5, <1>6, <1>15 DEF ClaimThrows, Fault, CallOK, DistancesOK, SinceCap
<1>16. ASSUME NEW t \in Triggers, RunEnds(t) PROVE TypeInv'
  BY <1>8, <1>16 DEF RunEnds, CallOK, DistancesOK, SinceCap
<1>17. ASSUME NEW t \in Triggers, Succeed(t) PROVE TypeInv'
  BY <1>4, <1>7, <1>17 DEF Succeed, CallOK
<1>18. ASSUME NEW t \in Triggers, SucceedThrows(t) PROVE TypeInv'
  BY <1>1, <1>7, <1>8, <1>18 DEF SucceedThrows, Fault, CallOK, DistancesOK, SinceCap
<1>19. ASSUME NEW t \in Triggers, Fail(t) PROVE TypeInv'
  BY <1>4, <1>7, <1>19 DEF Fail, CallOK
<1>20. ASSUME NEW t \in Triggers, FailThrows(t) PROVE TypeInv'
  BY <1>1, <1>5, <1>7, <1>20 DEF FailThrows, Fault, CallOK, DistancesOK, SinceCap
<1>21. CASE WorkerCrash
  <2>1. trigger' \in [Triggers -> Calls] /\ \A u \in Triggers : CallOK(u)'
    BY <1>1, <1>3, <1>21 DEF WorkerCrash, CallOK
  <2> QED
    BY <1>1, <1>21, <2>1 DEF WorkerCrash, Fault, DistancesOK, SinceCap
<1>22. CASE ClockTick
  <2>1. ASSUME NEW j \in Jobs
        PROVE  /\ since'[j] \in Nat \cup {Never} /\ (since'[j] # Never => since'[j] <= SinceCap(j))
               /\ lease'[j] \in Int \cup {Free}
               /\ lease'[j] # Free => lease'[j] \in -(CallDelay + 1)..Lease[j]
    <3>1. Interval[j] \in Nat /\ Lease[j] \in Nat /\ SinceCap(j) \in Nat
      BY <1>1 DEF SinceCap
    <3>2. ASSUME since[j] # Never
          PROVE  since'[j] \in Nat /\ since'[j] <= SinceCap(j)
      <4>1. since[j] + 1 \in Nat /\ since'[j] = Min({since[j] + 1, SinceCap(j)})
        BY <1>22, <3>2 DEF ClockTick
      <4> QED
        BY <3>1, <4>1, MinOfTwo
    <3>3. ASSUME lease[j] # Free
          PROVE  lease'[j] \in Int /\ lease'[j] \in -(CallDelay + 1)..Lease[j]
      <4>1. /\ lease[j] \in Int /\ lease[j] - 1 \in Int /\ -(CallDelay + 1) \in Int /\ lease[j] <= Lease[j]
            /\ lease'[j] = Max({lease[j] - 1, -(CallDelay + 1)})
        BY <1>1, <1>22, <3>3 DEF ClockTick, DistancesOK
      <4>2. lease'[j] = IF lease[j] - 1 >= -(CallDelay + 1) THEN lease[j] - 1 ELSE -(CallDelay + 1)
        BY <4>1, MaxOfTwo
      <4> QED
        BY <1>1, <3>1, <4>1, <4>2
    <3> QED
      BY <1>22, <3>2, <3>3 DEF ClockTick, DistancesOK
  <2>2. ASSUME NEW t \in Triggers PROVE Older(t) \in Calls /\ CallOK(t)'
    <3>1. trigger'[t] = Older(t)
      BY <1>22 DEF ClockTick
    <3>2. MayWait(t)
      BY <1>22 DEF ClockTick
    <3>3. CASE trigger[t].pc \in {"idle", "next"}
      BY <3>1, <3>3 DEF Older, Claimed, CallOK
    <3>4. CASE trigger[t].pc \notin {"idle", "next"}
      <4>1. trigger[t].at <= Len(JobList)
        BY <3>4 DEF CallOK
      <4>2. AgeCap(t) \in Nat /\ CallDelay < AgeCap(t)
        BY <1>1, <1>2, <4>1 DEF AgeCap
      <4>3. Min({trigger[t].age + 1, AgeCap(t)})
              = IF trigger[t].age + 1 <= AgeCap(t) THEN trigger[t].age + 1 ELSE AgeCap(t)
        BY <4>2, MinOfTwo
      <4>4. trigger[t].age + 1 \in Nat /\ trigger[t] \in Calls
        OBVIOUS
      <4>5. trigger[t].pc \in Claimed \cup {"claim"}
        BY <3>4, <4>4 DEF Claimed
      <4> DEFINE a == IF trigger[t].age + 1 <= AgeCap(t) THEN trigger[t].age + 1 ELSE AgeCap(t)
                 r == IF trigger[t].pc \in {"succeed", "fail"} THEN trigger[t].read + 1
                      ELSE trigger[t].read
      <4>6. Older(t) = [trigger[t] EXCEPT !.age = a, !.read = r]
        BY <4>3, <4>5 DEF Older
      <4>7. a \in Nat /\ r \in Nat
        BY <4>2, <4>4
      <4>8. /\ Older(t) \in Calls /\ Older(t).pc = trigger[t].pc /\ Older(t).at = trigger[t].at
            /\ Older(t).age = a /\ Older(t).read = r
        <5> HIDE DEF a, r
        <5> QED
          BY <4>4, <4>6, <4>7, OlderCall
      <4> QED
        BY <1>1, <3>1, <3>2, <3>4, <4>1, <4>2, <4>4, <4>8 DEF CallOK, MayWait
    <3> QED
      BY <3>3, <3>4
  <2> QED
    BY <1>22, <2>1, <2>2 DEF ClockTick, DistancesOK, SinceCap
<1>23. CASE UNCHANGED jobVars
  BY <1>23 DEF jobVars, CallOK, DistancesOK, SinceCap
<1> QED
  BY <1>9, <1>10, <1>11, <1>12, <1>13, <1>14, <1>15, <1>16, <1>17, <1>18, <1>19, <1>20, <1>21,
     <1>22, <1>23 DEF JobsNext, Step

(* Every variable has its type, in every instance. *)
THEOREM JobsTyped == JobsSpec => []TypeOK
<1>1. TypeInv => TypeOK
  BY DEF TypeInv, JobsType, DistancesOK, CallOK, Calls, Pcs, TypeOK, Claimed
<1> QED
  BY <1>1, TypeInit, TypeStep, PTL DEF JobsSpec

--------------------------------------------------------------------------------
(* Leases.  While runs fit their leases, a run holds what is left of the lease *)
(* it took, and the claim of another trigger sees it; the one exception is a   *)
(* run whose success was recorded and whose answer was lost: its lease is      *)
(* free while its failure is being recorded, and only the interval since that  *)
(* success keeps others out, which a forced run would not look at.             *)

HoldsLease(t) ==
  \/ lease[JobOf(t)] = Lease[JobOf(t)] - trigger[t].age
  \/ /\ trigger[t].pc = "fail" /\ Forced = {}
     /\ lease[JobOf(t)] = Free /\ since[JobOf(t)] = trigger[t].read

\* What the interval of a run that was not forced still says at each place.
WasDue(t) ==
  t \notin Forced /\ since[JobOf(t)] # Never =>
    /\ trigger[t].pc = "run" => since[JobOf(t)] >= Interval[JobOf(t)]
    /\ trigger[t].pc = "succeed" => since[JobOf(t)] >= Interval[JobOf(t)] + trigger[t].read

RunOK(t) ==
  trigger[t].pc \in Claimed =>
    /\ trigger[t].age <= Lease[JobOf(t)]
    /\ HoldsLease(t)
    /\ WasDue(t)

\* At most one call is in a run of one job.
Exclusive ==
  \A t, u \in Triggers :
    /\ trigger[t].pc \in Claimed /\ trigger[u].pc \in Claimed /\ JobOf(t) = JobOf(u)
    => t = u

LeaseInv == TypeInv /\ Exclusive /\ \A t \in Triggers : RunOK(t)

(* The hypothesis: runs fit their leases, and if an answer may be lost, none   *)
(* is forced.                                                                  *)
Punctual == RunsFitLease /\ (Forced = {} \/ MaxFaults = 0)

\* A claim that wins finds no run of its job.
LEMMA ClaimFindsNoRun ==
  ASSUME LeaseInv, NEW t \in Triggers, trigger[t].pc = "claim", LeaseOver(t), IsDue(t)
  PROVE  \A u \in Triggers : trigger[u].pc \in Claimed => JobOf(u) # JobOf(t)
<1> SUFFICES ASSUME NEW u \in Triggers, trigger[u].pc \in Claimed, JobOf(u) = JobOf(t)
             PROVE  FALSE
  OBVIOUS
<1>1. /\ trigger[t] \in Calls /\ trigger[u] \in Calls /\ CallOK(t) /\ CallOK(u) /\ RunOK(u)
  BY DEF LeaseInv, TypeInv, JobsType
<1>2. trigger[t].age \in Nat /\ trigger[u].age \in Nat /\ trigger[u].read \in Nat /\ trigger[u].read <= CallDelay
  BY <1>1 DEF Calls, CallOK
<1>3. JobOf(t) \in Jobs
  BY <1>1, JobOfType DEF LeaseInv, TypeInv, CallOK
<1>4. /\ Lease[JobOf(t)] \in Nat /\ Interval[JobOf(t)] \in Nat /\ CallDelay \in Nat
      /\ CallDelay < Interval[JobOf(t)] /\ Never \notin Int /\ Free \notin Int
  BY <1>3, JobsAssumption
<1>5. trigger[u].age <= Lease[JobOf(t)] /\ HoldsLease(u)
  BY <1>1 DEF RunOK
<1>6. CASE lease[JobOf(t)] = Lease[JobOf(t)] - trigger[u].age
  <2>1. lease[JobOf(t)] \in Nat
    BY <1>2, <1>4, <1>5, <1>6
  <2>2. lease[JobOf(t)] < -trigger[t].age
    BY <1>4, <2>1 DEF LeaseOver
  <2> QED
    BY <1>2, <2>1, <2>2
<1>7. CASE Forced = {} /\ since[JobOf(t)] = trigger[u].read
  <2>1. since[JobOf(t)] >= trigger[t].age + Interval[JobOf(t)]
    BY <1>2, <1>4, <1>7 DEF IsDue
  <2> QED
    BY <1>2, <1>4, <1>7, <2>1
<1> QED
  BY <1>5, <1>6, <1>7 DEF HoldsLease

LEMMA LeaseInit == JobsInit => LeaseInv
<1> SUFFICES ASSUME JobsInit PROVE LeaseInv
  OBVIOUS
<1>1. TypeInv
  BY TypeInit
<1>2. \A t \in Triggers : trigger[t].pc = "idle"
  BY DEF JobsInit, Idle
<1> QED
  BY <1>1, <1>2 DEF LeaseInv, Exclusive, RunOK, Claimed

\* No other call than t's is in a run of t's job.
NoOtherRun(t) == \A u \in Triggers \ {t} : trigger[u].pc \in Claimed => JobOf(u) # JobOf(t)

LEMMA RunsAlone ==
  ASSUME LeaseInv, NEW t \in Triggers, trigger[t].pc \in Claimed
  PROVE  NoOtherRun(t)
BY DEF LeaseInv, Exclusive, NoOtherRun

\* One call moves, and writes the row of its job only if nobody else runs it.
LEMMA OneCallMoves ==
  ASSUME LeaseInv, TypeInv', NEW t \in Triggers,
         \A u \in Triggers \ {t} : trigger'[u] = trigger[u],
         \/ UNCHANGED <<since, lease>>
         \/ /\ NoOtherRun(t)
            /\ \A j \in Jobs \ {JobOf(t)} : since'[j] = since[j] /\ lease'[j] = lease[j],
         trigger'[t].pc \in Claimed =>
           JobOf(t)' = JobOf(t) /\ RunOK(t)' /\ NoOtherRun(t)
  PROVE  LeaseInv'
<1>1. ASSUME NEW u \in Triggers \ {t}, trigger[u].pc \in Claimed
      PROVE  JobOf(u) \in Jobs /\ JobOf(u)' = JobOf(u)
  <2>1. CallOK(u) /\ JobsType
    BY DEF LeaseInv, TypeInv
  <2>2. JobOf(u) \in Jobs
    BY <1>1, <2>1, JobOfType DEF CallOK, Claimed
  <2> QED
    BY <2>2 DEF JobOf
<1>2. ASSUME NEW u \in Triggers \ {t} PROVE RunOK(u)'
  <2>1. SUFFICES ASSUME trigger[u].pc \in Claimed PROVE RunOK(u)'
    BY <1>2 DEF RunOK
  <2>2. RunOK(u) /\ trigger'[u] = trigger[u] /\ JobOf(u) \in Jobs /\ JobOf(u)' = JobOf(u)
    BY <1>1, <2>1 DEF LeaseInv
  <2>3. since'[JobOf(u)] = since[JobOf(u)] /\ lease'[JobOf(u)] = lease[JobOf(u)]
    BY <2>1, <2>2 DEF NoOtherRun
  <2> QED
    BY <2>1, <2>2, <2>3 DEF RunOK, HoldsLease, WasDue
<1>3. \A u \in Triggers : RunOK(u)'
  <2>1. RunOK(t)'
    BY DEF RunOK
  <2> QED
    BY <1>2, <2>1
<1>4. Exclusive'
  <2>1. ASSUME NEW u \in Triggers, NEW v \in Triggers,
               trigger'[u].pc \in Claimed, trigger'[v].pc \in Claimed, JobOf(u)' = JobOf(v)'
        PROVE  u = v
    <3>1. CASE u # t /\ v # t
      BY <1>1, <2>1, <3>1 DEF LeaseInv, Exclusive
    <3>2. CASE u = t /\ v # t
      BY <1>1, <2>1, <3>2 DEF NoOtherRun
    <3>3. CASE u # t /\ v = t
      BY <1>1, <2>1, <3>3 DEF NoOtherRun
    <3> QED
      BY <3>1, <3>2, <3>3
  <2> QED
    BY <2>1 DEF Exclusive
<1> QED
  BY <1>3, <1>4 DEF LeaseInv

LEMMA LeaseStep ==
  ASSUME Punctual, LeaseInv, [JobsNext]_jobVars
  PROVE  LeaseInv'
<1>1. TypeInv /\ TypeInv'
  BY TypeStep DEF LeaseInv
<1>2. /\ since \in [Jobs -> Nat \cup {Never}] /\ lease \in [Jobs -> Int \cup {Free}]
      /\ trigger \in [Triggers -> Calls] /\ trigger' \in [Triggers -> Calls]
      /\ \A t \in Triggers : CallOK(t) /\ CallOK(t)' /\ RunOK(t)
      /\ \A t \in Triggers : trigger[t].age \in Nat /\ trigger[t].read \in Nat
  BY <1>1 DEF TypeInv, JobsType, Calls, LeaseInv
<1>3. ASSUME NEW t \in Triggers, trigger[t].pc \notin {"idle", "next"}
      PROVE  /\ JobOf(t) \in Jobs /\ Lease[JobOf(t)] \in Nat \ {0} /\ Interval[JobOf(t)] \in Nat \ {0}
             /\ CallDelay \in Nat /\ CallDelay < Lease[JobOf(t)] /\ CallDelay < Interval[JobOf(t)]
             /\ Never \notin Int /\ Free \notin Int
  <2>1. JobOf(t) \in Jobs
    BY <1>1, <1>2, <1>3, JobOfType DEF TypeInv, CallOK
  <2> QED
    BY <2>1, JobsAssumption
<1>4. ASSUME NEW t \in Triggers, trigger'[t].pc \in {"idle", "next"},
             \A u \in Triggers \ {t} : trigger'[u] = trigger[u],
             UNCHANGED <<since, lease>>
      PROVE  LeaseInv'
  BY <1>1, <1>4, OneCallMoves DEF LeaseInv, Claimed
<1>5. ASSUME NEW t \in Triggers, ToNextJob(t)
      PROVE  /\ trigger'[t].pc = "next" /\ \A u \in Triggers \ {t} : trigger'[u] = trigger[u]
  BY <1>2, <1>5 DEF ToNextJob, Idle
<1>6. ASSUME NEW t \in Triggers, Rejects(t)
      PROVE  /\ trigger'[t].pc = "idle" /\ \A u \in Triggers \ {t} : trigger'[u] = trigger[u]
  BY <1>2, <1>6 DEF Rejects, Idle
<1>7. ASSUME NEW t \in Triggers, NEW q \in Pcs, To(t, q)
      PROVE  /\ trigger'[t].pc = q /\ trigger'[t].at = trigger[t].at /\ trigger'[t].age = trigger[t].age
             /\ trigger'[t].read = trigger[t].read /\ JobOf(t)' = JobOf(t)
             /\ \A u \in Triggers \ {t} : trigger'[u] = trigger[u]
  BY <1>2, <1>7 DEF To, Calls, JobOf
<1>8. ASSUME NEW t \in Triggers, Begin(t) \/ SkipDisabled(t) \/ Return(t) \/ NotDue(t) PROVE LeaseInv'
  BY <1>4, <1>5, <1>6, <1>7, <1>8 DEF Begin, SkipDisabled, Return, NotDue, Pcs
<1>9. ASSUME NEW t \in Triggers, StartJob(t) PROVE LeaseInv'
  BY <1>1, <1>7, <1>9, OneCallMoves DEF StartJob, Pcs, Claimed, LeaseInv
<1>10. ASSUME NEW t \in Triggers, TakeLease(t), trigger[t].pc = "claim", LeaseOver(t), IsDue(t), UNCHANGED since
       PROVE  /\ NoOtherRun(t)
              /\ \A j \in Jobs \ {JobOf(t)} : since'[j] = since[j] /\ lease'[j] = lease[j]
              /\ lease'[JobOf(t)] = Lease[JobOf(t)] - trigger[t].age
  BY <1>2, <1>3, <1>10, ClaimFindsNoRun DEF NoOtherRun, TakeLease
<1>11. ASSUME NEW t \in Triggers, Claim(t) PROVE LeaseInv'
  <2>1. To(t, "run") /\ trigger[t].pc = "claim" /\ LeaseOver(t) /\ IsDue(t) /\ TakeLease(t) /\ UNCHANGED since
    BY <1>11 DEF Claim
  <2>2. RunOK(t)'
    <3>1. trigger'[t].pc = "run" /\ trigger'[t].age = trigger[t].age /\ JobOf(t)' = JobOf(t)
      BY <1>7, <2>1 DEF Pcs
    <3>2. trigger[t].age <= Lease[JobOf(t)] /\ JobOf(t) \in Jobs
      BY <1>2, <1>3, <2>1 DEF CallOK
    <3>3. HoldsLease(t)'
      BY <1>10, <2>1, <3>1 DEF HoldsLease
    <3>4. WasDue(t)'
      <4>1. SUFFICES ASSUME t \notin Forced, since[JobOf(t)] # Never
                     PROVE  since[JobOf(t)] >= Interval[JobOf(t)]
        BY <2>1, <3>1 DEF WasDue
      <4>2. since[JobOf(t)] >= trigger[t].age + Interval[JobOf(t)] /\ since[JobOf(t)] \in Nat
        BY <1>2, <2>1, <3>2, <4>1 DEF IsDue
      <4> QED
        BY <1>2, <1>3, <2>1, <4>2
    <3> QED
      BY <3>1, <3>2, <3>3, <3>4 DEF RunOK
  <2> QED
    BY <1>1, <1>7, <1>10, <2>1, <2>2, OneCallMoves DEF Pcs
<1>12. ASSUME NEW t \in Triggers, ClaimThrows(t) PROVE LeaseInv'
  <2>1. trigger[t].pc = "claim" /\ Rejects(t) /\ UNCHANGED since
        /\ (UNCHANGED lease \/ (LeaseOver(t) /\ IsDue(t) /\ TakeLease(t)))
    BY <1>12 DEF ClaimThrows
  <2>2. trigger'[t].pc \notin Claimed
    BY <1>6, <2>1 DEF Claimed
  <2> QED
    BY <1>1, <1>6, <1>10, <2>1, <2>2, OneCallMoves
<1>13. ASSUME NEW t \in Triggers, RunEnds(t) PROVE LeaseInv'
  <2>1. PICK q \in {"succeed", "fail"} : To(t, q)
    BY <1>13 DEF RunEnds
  <2>2. trigger[t].pc = "run" /\ UNCHANGED <<since, lease>>
    BY <1>13 DEF RunEnds
  <2>3. /\ trigger'[t].pc = q /\ trigger'[t].age = trigger[t].age /\ JobOf(t)' = JobOf(t)
        /\ trigger'[t].read = 0 /\ \A u \in Triggers \ {t} : trigger'[u] = trigger[u]
    BY <1>2, <1>7, <2>1, <2>2 DEF Pcs, CallOK
  <2>4. RunOK(t)'
    <3>1. HoldsLease(t)'
      BY <1>2, <2>2, <2>3 DEF RunOK, HoldsLease, Claimed
    <3>2. WasDue(t)'
      BY <1>2, <1>3, <2>2, <2>3 DEF RunOK, WasDue, Claimed
    <3> QED
      BY <1>2, <2>2, <2>3, <3>1, <3>2 DEF RunOK, Claimed
  <2> QED
    BY <1>1, <2>2, <2>3, <2>4, RunsAlone, OneCallMoves DEF Claimed
<1>14. ASSUME NEW t \in Triggers, trigger[t].pc \in {"succeed", "fail"}, RecordSuccess(t) \/ RecordFailure(t)
       PROVE  /\ NoOtherRun(t)
              /\ \A j \in Jobs \ {JobOf(t)} : since'[j] = since[j] /\ lease'[j] = lease[j]
              /\ lease'[JobOf(t)] = Free
              /\ RecordSuccess(t) => since'[JobOf(t)] = trigger[t].read
  BY <1>2, <1>3, <1>14, RunsAlone DEF RecordSuccess, RecordFailure, Claimed
<1>15. ASSUME NEW t \in Triggers, Succeed(t) PROVE LeaseInv'
  <2>1. trigger[t].pc = "succeed" /\ RecordSuccess(t) /\ ToNextJob(t)
    BY <1>15 DEF Succeed
  <2>2. trigger'[t].pc \notin Claimed
    BY <1>5, <2>1 DEF Claimed
  <2> QED
    BY <1>1, <1>5, <1>14, <2>1, <2>2, OneCallMoves
<1>16. ASSUME NEW t \in Triggers, Fail(t) PROVE LeaseInv'
  <2>1. trigger[t].pc = "fail" /\ RecordFailure(t) /\ ToNextJob(t)
    BY <1>16 DEF Fail
  <2>2. trigger'[t].pc \notin Claimed
    BY <1>5, <2>1 DEF Claimed
  <2> QED
    BY <1>1, <1>5, <1>14, <2>1, <2>2, OneCallMoves
<1>17. ASSUME NEW t \in Triggers, FailThrows(t) PROVE LeaseInv'
  <2>1. trigger[t].pc = "fail" /\ Rejects(t) /\ (RecordFailure(t) \/ UNCHANGED <<since, lease>>)
    BY <1>17 DEF FailThrows
  <2>2. trigger'[t].pc \notin Claimed
    BY <1>6, <2>1 DEF Claimed
  <2> QED
    BY <1>1, <1>6, <1>14, <2>1, <2>2, OneCallMoves
<1>18. ASSUME NEW t \in Triggers, SucceedThrows(t) PROVE LeaseInv'
  <2>1. trigger[t].pc = "succeed" /\ To(t, "fail") /\ (RecordSuccess(t) \/ UNCHANGED <<since, lease>>)
    BY <1>18 DEF SucceedThrows
  <2>2. Forced = {}
    BY <1>1, <1>18, JobsAssumption DEF SucceedThrows, Fault, Punctual, TypeInv, JobsType
  <2>3. /\ trigger'[t].pc = "fail" /\ trigger'[t].age = trigger[t].age /\ JobOf(t)' = JobOf(t)
        /\ trigger'[t].read = trigger[t].read /\ \A u \in Triggers \ {t} : trigger'[u] = trigger[u]
    BY <1>7, <2>1 DEF Pcs
  <2>4. RunOK(t)'
    <3>1. HoldsLease(t)'
      <4>1. CASE RecordSuccess(t)
        BY <1>14, <2>1, <2>2, <2>3, <4>1 DEF HoldsLease
      <4>2. CASE UNCHANGED <<since, lease>>
        BY <1>2, <2>1, <2>3, <4>2 DEF RunOK, HoldsLease, Claimed
      <4> QED
        BY <2>1, <4>1, <4>2
    <3> QED
      BY <1>2, <2>1, <2>3, <3>1 DEF RunOK, WasDue, Claimed
  <2> QED
    BY <1>1, <1>14, <2>1, <2>3, <2>4, RunsAlone, OneCallMoves DEF Claimed
<1>19. CASE WorkerCrash
  <2>1. UNCHANGED <<since, lease>> /\ \A t \in Triggers : trigger'[t] = Idle \/ trigger'[t] = trigger[t]
    BY <1>19 DEF WorkerCrash
  <2>2. ASSUME NEW t \in Triggers, trigger'[t].pc \in Claimed PROVE trigger'[t] = trigger[t]
    BY <2>1, <2>2 DEF Idle, Claimed
  <2>3. ASSUME NEW t \in Triggers PROVE RunOK(t)'
    BY <1>2, <2>1, <2>2 DEF RunOK, HoldsLease, WasDue, JobOf
  <2>4. Exclusive'
    BY <2>2 DEF LeaseInv, Exclusive, JobOf
  <2> QED
    BY <1>1, <2>3, <2>4 DEF LeaseInv
<1>20. CASE ClockTick
  <2>1. ASSUME NEW t \in Triggers
        PROVE  trigger'[t].pc = trigger[t].pc /\ trigger'[t].at = trigger[t].at /\ JobOf(t)' = JobOf(t)
    BY <1>2, <1>20 DEF ClockTick, Older, Calls, JobOf
  <2>2. ASSUME NEW t \in Triggers, trigger[t].pc \in Claimed
        PROVE  /\ trigger[t].age < Lease[JobOf(t)] /\ trigger'[t].age = trigger[t].age + 1
               /\ trigger'[t].read = IF trigger[t].pc = "run" THEN trigger[t].read ELSE trigger[t].read + 1
               /\ trigger[t].pc # "run" => trigger[t].read < CallDelay
    <3>1. MayWait(t) /\ trigger'[t] = Older(t) /\ trigger[t] \in Calls /\ RunsFitLease
      BY <1>2, <1>20 DEF ClockTick, Punctual
    <3>2. trigger[t].age < Lease[JobOf(t)] /\ (trigger[t].pc # "run" => trigger[t].read < CallDelay)
      BY <2>2, <3>1 DEF MayWait, Claimed
    <3>3. Min({trigger[t].age + 1, AgeCap(t)}) = trigger[t].age + 1
      <4>1. trigger[t].age + 1 \in Int /\ AgeCap(t) \in Int /\ trigger[t].age + 1 <= AgeCap(t)
        BY <1>2, <1>3, <2>2, <3>2 DEF AgeCap, Claimed
      <4> QED
        BY <4>1, MinOfTwo
    <3> QED
      BY <2>2, <3>1, <3>2, <3>3 DEF Older, Claimed, Calls
  <2>3. ASSUME NEW j \in Jobs, since[j] # Never
        PROVE  since'[j] # Never /\ since'[j] = IF since[j] + 1 <= SinceCap(j) THEN since[j] + 1 ELSE SinceCap(j)
    <3>1. since[j] + 1 \in Int /\ SinceCap(j) \in Int /\ Never \notin Int
      BY <1>2, <2>3, JobsAssumption DEF SinceCap
    <3>2. Min({since[j] + 1, SinceCap(j)}) \in Int
      BY <3>1, MinOfTwo
    <3> QED
      BY <1>20, <2>3, <3>1, <3>2, MinOfTwo DEF ClockTick
  <2>4. ASSUME NEW t \in Triggers, trigger[t].pc \in Claimed PROVE HoldsLease(t)'
    <3>1. CASE lease[JobOf(t)] = Lease[JobOf(t)] - trigger[t].age
      <4>1. lease[JobOf(t)] - 1 \in Nat /\ -(CallDelay + 1) \in Int /\ -(CallDelay + 1) < 0
            /\ lease[JobOf(t)] # Free
        BY <1>2, <1>3, <2>2, <2>4, <3>1 DEF Claimed
      <4>2. Max({lease[JobOf(t)] - 1, -(CallDelay + 1)}) = lease[JobOf(t)] - 1
        BY <4>1, MaxOfTwo
      <4>3. lease'[JobOf(t)] = lease[JobOf(t)] - 1
        BY <1>3, <1>20, <2>4, <4>1, <4>2 DEF ClockTick, Claimed
      <4> QED
        BY <1>2, <1>3, <2>1, <2>2, <2>4, <3>1, <4>3 DEF HoldsLease, Claimed
    <3>2. CASE trigger[t].pc = "fail" /\ Forced = {} /\ lease[JobOf(t)] = Free /\ since[JobOf(t)] = trigger[t].read
      <4>1. lease'[JobOf(t)] = Free
        BY <1>3, <1>20, <3>2 DEF ClockTick
      <4>2. since[JobOf(t)] # Never /\ since[JobOf(t)] + 1 <= SinceCap(JobOf(t))
        BY <1>2, <1>3, <2>2, <2>4, <3>2 DEF SinceCap
      <4>3. since'[JobOf(t)] = trigger'[t].read
        BY <1>3, <2>2, <2>3, <2>4, <3>2, <4>2
      <4> QED
        BY <2>1, <3>2, <4>1, <4>3 DEF HoldsLease
    <3> QED
      BY <1>2, <2>4, <3>1, <3>2 DEF RunOK, HoldsLease
  <2>5. ASSUME NEW t \in Triggers, trigger[t].pc \in Claimed PROVE WasDue(t)'
    <3>1. JobOf(t) \in Jobs
      BY <1>3, <2>5 DEF Claimed
    <3>2. CASE since[JobOf(t)] = Never
      BY <1>20, <2>1, <3>1, <3>2 DEF ClockTick, WasDue
    <3>3. CASE since[JobOf(t)] # Never
      <4>1. since[JobOf(t)] \in Nat /\ WasDue(t)
        BY <1>2, <2>5, <3>1, <3>3 DEF RunOK
      <4> QED
        BY <1>2, <1>3, <2>1, <2>2, <2>3, <2>5, <3>1, <3>3, <4>1 DEF WasDue, SinceCap, Claimed
    <3> QED
      BY <3>2, <3>3
  <2>6. ASSUME NEW t \in Triggers PROVE RunOK(t)'
    BY <1>2, <1>3, <2>1, <2>2, <2>4, <2>5 DEF RunOK, Claimed
  <2>7. Exclusive'
    BY <2>1 DEF LeaseInv, Exclusive
  <2> QED
    BY <1>1, <2>6, <2>7 DEF LeaseInv
<1>21. CASE UNCHANGED jobVars
  BY <1>1, <1>21 DEF jobVars, LeaseInv, Exclusive, RunOK, HoldsLease, WasDue, JobOf
<1> QED
  BY <1>8, <1>9, <1>11, <1>12, <1>13, <1>15, <1>16, <1>17, <1>18, <1>19, <1>20, <1>21 DEF JobsNext, Step

(* No two triggers run one job at the same time, whatever crashes, whichever   *)
(* claims and records lose their answers and however statements overtake one   *)
(* another.                                                                    *)
THEOREM RunsAreExclusive ==
  ASSUME Punctual
  PROVE  JobsSpec => []OneRunAtATime
<1>1. LeaseInv => OneRunAtATime
  <2> SUFFICES ASSUME LeaseInv, NEW j \in Jobs
               PROVE  Cardinality({t \in RunsOf(j) : trigger[t].pc = "run"}) <= 1
    BY DEF OneRunAtATime
  <2> DEFINE R == {t \in RunsOf(j) : trigger[t].pc = "run"}
  <2>1. \A t, u \in R : t = u
    BY DEF LeaseInv, Exclusive, RunsOf
  <2>2. CASE R = {}
    BY <2>2, FS_EmptySet
  <2>3. CASE R # {}
    <3>1. PICK t \in R : R = {t}
      BY <2>1, <2>3
    <3> QED
      BY <3>1, FS_Singleton
  <2> QED
    BY <2>2, <2>3
<1>2. LeaseInv /\ [JobsNext]_jobVars => LeaseInv'
  BY LeaseStep
<1> QED
  BY <1>1, <1>2, LeaseInit, PTL DEF JobsSpec

(* A run that was not forced records its success at least its job's interval   *)
(* after the success before it.                                                *)
THEOREM IntervalsAreKept ==
  ASSUME Punctual
  PROVE  JobsSpec => SuccessesAreSpaced
<1> DEFINE Spaced ==
      \A t \in Triggers \ Forced :
        /\ Succeed(t) \/ (SucceedThrows(t) /\ RecordSuccess(t))
        /\ since[JobOf(t)] # Never
        => since[JobOf(t)] - trigger[t].read >= Interval[JobOf(t)]
<1>1. LeaseInv /\ [JobsNext]_jobVars => [Spaced]_jobVars
  <2> SUFFICES ASSUME LeaseInv, NEW t \in Triggers \ Forced, trigger[t].pc = "succeed",
                      since[JobOf(t)] # Never
               PROVE  since[JobOf(t)] - trigger[t].read >= Interval[JobOf(t)]
    BY DEF Succeed, SucceedThrows
  <2>1. JobsType /\ CallOK(t) /\ RunOK(t) /\ trigger[t] \in Calls
    BY DEF LeaseInv, TypeInv, JobsType
  <2>2. JobOf(t) \in Jobs
    BY <2>1, JobOfType DEF CallOK
  <2>3. since[JobOf(t)] \in Nat /\ trigger[t].read \in Nat /\ Interval[JobOf(t)] \in Nat
    BY <2>1, <2>2, JobsAssumption DEF JobsType, Calls
  <2>4. since[JobOf(t)] >= Interval[JobOf(t)] + trigger[t].read
    BY <2>1 DEF RunOK, WasDue, Claimed
  <2> QED
    BY <2>3, <2>4
<1>2. LeaseInv /\ [JobsNext]_jobVars => LeaseInv'
  BY LeaseStep
<1> QED
  BY <1>1, <1>2, LeaseInit, PTL DEF JobsSpec, SuccessesAreSpaced

--------------------------------------------------------------------------------
(* Alerts: types.                                                              *)

Places == {"status", "quotes", "list", "trigger"}

AlertRows == [state : {"NONE", "ACTIVE", "TRIGGERED", "CANCELED"}, price : Prices \cup {None}]

\* A row has its trigger facts once it was triggered.
RowOK(a) ==
  /\ row[a].state \in {"NONE", "ACTIVE"} => row[a].price = None
  /\ row[a].state = "TRIGGERED" => row[a].price \in Prices

IdleRows == [pc : {"idle"}, due : BOOLEAN]

QuoteTables == UNION {[S -> Quote \cup {None}] : S \in SUBSET Symbols}

EvalRows ==
  [pc : Places, age : 0 .. PassTicks, alerts : SUBSET Alerts, todo : SUBSET Symbols, quotes : QuoteTables]

CreateRows == [pc : {"check", "insert"}, alert : Alerts]

CacheRows == [price : Prices, age : 0 .. Oldest, left : 0 .. QuoteTtl]

RowsType ==
  /\ row \in [Alerts -> AlertRows] /\ \A a \in Alerts : RowOK(a)
  /\ locked \subseteq Users
  /\ client \in [Clients -> {IdleClient} \cup CreateRows]

MarketType ==
  /\ open \in BOOLEAN /\ sinceOpen \in Nat
  /\ live \in [Symbols -> Quote]
  /\ cache \in [Symbols -> CacheRows \cup {None}]
  /\ memo \in [Evaluators -> [open : BOOLEAN, left : 0 .. StatusTtl]]

EvalType == eval \in [Evaluators -> IdleRows \cup EvalRows]

--------------------------------------------------------------------------------
(* Creation.  A user's lock is held by the one transaction that creates for    *)
(* the user; what it read of the user's alerts stays an upper bound.           *)

LockHeld ==
  /\ \A c \in Clients : client[c].pc # "idle" =>
       UserOf[client[c].alert] \in locked /\ row[client[c].alert].state = "NONE"
  /\ \A c, d \in Clients :
       /\ client[c].pc # "idle" /\ client[d].pc # "idle"
       /\ UserOf[client[c].alert] = UserOf[client[d].alert]
       => c = d

\* What a creation that may insert a has read.
Room(a) ==
  Duplicates(a) = {} /\ Cardinality(Active(AlertsOf(UserOf[a]))) < MaxActive

CapKept ==
  /\ IsFiniteSet(Active(Alerts))
  /\ \A u \in Users : Cardinality(Active(AlertsOf(u))) <= MaxActive
  /\ \A c \in Clients : \A a \in Alerts : client[c].pc = "insert" /\ client[c].alert = a => Room(a)

CreateInv == RowsType /\ LockHeld /\ CapKept

--------------------------------------------------------------------------------
(* Evaluation.  An evaluation that came past the status read it open; the      *)
(* verdicts it still has to write were true when it read the clock.            *)

MarketInv ==
  /\ MarketType
  /\ open => sinceOpen = 0
  /\ \A e \in Evaluators : memo[e].open /\ memo[e].left > 0 => sinceOpen + memo[e].left <= StatusTtl

\* Whether e may be in state s while the market was last open so long ago.
Sound(e, s, closedFor) ==
  s.pc # "idle" =>
    /\ IsFiniteSet(s.todo)
    /\ s.pc \in {"status", "quotes"} => \A a \in s.alerts : SymbolOf[a] \in s.todo
    /\ s.pc \in {"status", "quotes"} /\ e = Job => s.alerts = {}
    /\ s.pc = "list" => \A a \in s.alerts : SymbolOf[a] \in DOMAIN s.quotes
    /\ s.pc # "status" => closedFor <= StatusTtl + s.age
    /\ s.pc = "trigger" => \A a \in s.alerts :
         LET quote == s.quotes[SymbolOf[a]] IN
         /\ SymbolOf[a] \in DOMAIN s.quotes /\ quote \in Quote
         /\ quote.age <= MaxAge + s.age /\ quote.price \in Meets[a]

EvalInv == EvalType /\ \A e \in Evaluators : Sound(e, eval[e], sinceOpen)

AlertsInv == CreateInv /\ MarketInv /\ EvalInv

--------------------------------------------------------------------------------
(* The rows.                                                                   *)

LEMMA Params ==
  /\ MaxActive \in Nat /\ MaxAge \in Nat /\ StatusTtl \in Nat /\ QuoteTtl \in Nat /\ PassTicks \in Nat
  /\ PassTicks <= MaxAge /\ Oldest \in Nat
  /\ \A a \in Alerts : UserOf[a] \in Users /\ SymbolOf[a] \in Symbols /\ Meets[a] \subseteq Prices
  /\ None \notin Prices
BY AlertsAssumption DEF Oldest

LEMMA Creating ==
  ASSUME RowsType, NEW c \in Clients, client[c].pc # "idle"
  PROVE  client[c] \in CreateRows /\ client[c].alert \in Alerts /\ client[c].pc \in {"check", "insert"}
<1>1. client[c] # IdleClient
  BY DEF IdleClient
<1>2. client[c] \in CreateRows
  BY <1>1 DEF RowsType
<1> QED
  BY <1>2 DEF CreateRows

LEMMA ActiveFinite ==
  ASSUME IsFiniteSet(Active(Alerts)), NEW S \in SUBSET Alerts
  PROVE  /\ IsFiniteSet(Active(S)) /\ Cardinality(Active(S)) \in Nat
         /\ \A T \in SUBSET Active(S) : Cardinality(T) \in Nat /\ Cardinality(T) <= Cardinality(Active(S))
<1>1. Active(S) \subseteq Active(Alerts)
  BY DEF Active
<1>2. IsFiniteSet(Active(S))
  BY <1>1, FS_Subset
<1> QED
  BY <1>2, FS_Subset, FS_CardinalityType

\* What a trigger or a delete leaves: fewer active alerts.
LEMMA FewerActive ==
  ASSUME CapKept, LockHeld, UNCHANGED <<locked, client>>, RowsType,
         \A a \in Alerts : row'[a].state = "ACTIVE" => row[a].state = "ACTIVE",
         \A a \in Alerts : row[a].state = "NONE" => row'[a].state = "NONE"
  PROVE  CapKept' /\ LockHeld'
<1>1. ASSUME NEW S \in SUBSET Alerts PROVE Active(S)' \subseteq Active(S)
  BY DEF Active
<1>2. \A u \in Users : AlertsOf(u) \in SUBSET Alerts /\ AlertsOf(u)' = AlertsOf(u)
  BY DEF AlertsOf
<1>3. ASSUME NEW u \in Users
      PROVE  /\ Cardinality(Active(AlertsOf(u)))' \in Nat /\ Cardinality(Active(AlertsOf(u))) \in Nat
             /\ Cardinality(Active(AlertsOf(u)))' <= Cardinality(Active(AlertsOf(u)))
  BY <1>1, <1>2, ActiveFinite DEF CapKept
<1>4. IsFiniteSet(Active(Alerts))'
  BY <1>1, FS_Subset DEF CapKept
<1>5. \A u \in Users : Cardinality(Active(AlertsOf(u)))' <= MaxActive
  BY <1>3, AlertsAssumption DEF CapKept
<1>6. ASSUME NEW a \in Alerts, Room(a) PROVE Room(a)'
  <2>1. Duplicates(a)' \subseteq Duplicates(a)
    BY <1>1 DEF Duplicates, SameTerms
  <2>2. UserOf[a] \in Users
    BY Params
  <2> QED
    BY <1>3, <1>6, <2>1, <2>2, Params DEF Room
<1>7. LockHeld'
  <2>1. \A c \in Clients : client[c].pc # "idle" => client[c].alert \in Alerts
    BY Creating
  <2> QED
    BY <2>1 DEF LockHeld
<1> QED
  BY <1>4, <1>5, <1>6, <1>7 DEF CapKept

\* The end of a creation, which leaves the rows alone or inserts its alert.
LEMMA Ends ==
  ASSUME CreateInv, NEW c \in Clients, client[c].pc # "idle", EndCreate(c)
  PROVE  /\ client' \in [Clients -> {IdleClient} \cup CreateRows]
         /\ client'[c] = IdleClient /\ client'[c].pc = "idle"
         /\ \A d \in Clients \ {c} : client'[d] = client[d]
         /\ locked' = locked \ {UserOf[client[c].alert]}
         /\ \A d \in Clients \ {c} : client[d].pc # "idle" =>
              UserOf[client[d].alert] # UserOf[client[c].alert]
BY DEF CreateInv, RowsType, LockHeld, EndCreate, IdleClient

LEMMA EndKeeps ==
  ASSUME CreateInv, NEW c \in Clients, client[c].pc # "idle", EndCreate(c), UNCHANGED row
  PROVE  CreateInv'
<1>1. RowsType'
  BY Ends DEF CreateInv, RowsType, RowOK
<1>2. LockHeld'
  BY Ends DEF CreateInv, LockHeld
<1>3. CapKept'
  BY Ends DEF CreateInv, CapKept, Room, Duplicates, Active
<1> QED
  BY <1>1, <1>2, <1>3 DEF CreateInv

LEMMA BeginKeeps ==
  ASSUME CreateInv, NEW c \in Clients, NEW a \in Alerts, BeginCreate(c, a)
  PROVE  CreateInv'
<1> DEFINE new == [pc |-> "check", alert |-> a]
<1>1. /\ client[c].pc = "idle" /\ row[a].state = "NONE" /\ UserOf[a] \notin locked
      /\ locked' = locked \cup {UserOf[a]} /\ client' = [client EXCEPT ![c] = new] /\ UNCHANGED row
  BY DEF BeginCreate, LockUser
<1>2. new \in CreateRows /\ new.pc = "check" /\ new.alert = a
  BY DEF CreateRows
<1> HIDE DEF new
<1>3. /\ client' \in [Clients -> {IdleClient} \cup CreateRows] /\ client'[c] = new
      /\ \A d \in Clients \ {c} : client'[d] = client[d]
  BY <1>1, <1>2 DEF CreateInv, RowsType
<1>4. RowsType'
  BY <1>1, <1>3, Params DEF CreateInv, RowsType, RowOK
<1>5. LockHeld'
  BY <1>1, <1>2, <1>3 DEF CreateInv, LockHeld
<1>6. CapKept'
  BY <1>1, <1>2, <1>3 DEF CreateInv, CapKept, Room, Duplicates, Active
<1> QED
  BY <1>4, <1>5, <1>6 DEF CreateInv

LEMMA MayInsertKeeps ==
  ASSUME CreateInv, NEW c \in Clients, MayInsert(c)
  PROVE  CreateInv'
<1>1. client[c].pc = "check" /\ client' = [client EXCEPT ![c].pc = "insert"] /\ UNCHANGED <<row, locked>>
  BY DEF MayInsert
<1>2. client[c] \in CreateRows
  BY <1>1, Creating DEF CreateInv
<1>3. /\ client' \in [Clients -> {IdleClient} \cup CreateRows]
      /\ client'[c].pc = "insert" /\ client'[c].alert = client[c].alert
      /\ \A d \in Clients \ {c} : client'[d] = client[d]
  BY <1>1, <1>2 DEF CreateInv, RowsType, CreateRows
<1>4. RowsType' /\ LockHeld'
  BY <1>1, <1>3 DEF CreateInv, RowsType, RowOK, LockHeld
<1>5. Room(client[c].alert)
  BY DEF MayInsert, Room
<1>6. CapKept'
  <2>1. \A a \in Alerts : Room(a)' = Room(a)
    BY <1>1 DEF Room, Duplicates, Active
  <2>2. \A d \in Clients : \A a \in Alerts : client'[d].pc = "insert" /\ client'[d].alert = a => Room(a)
    BY <1>3, <1>5 DEF CreateInv, CapKept
  <2> QED
    BY <1>1, <2>1, <2>2 DEF CreateInv, CapKept, Active
<1> QED
  BY <1>4, <1>6 DEF CreateInv

\* What the transaction read under the lock still holds when it inserts.
LEMMA InsertKeeps ==
  ASSUME CreateInv, NEW c \in Clients, Insert(c)
  PROVE  CreateInv'
<1> DEFINE a == client[c].alert
<1>1. client[c].pc = "insert" /\ EndCreate(c)
  BY DEF Insert
<1>2. a \in Alerts /\ UserOf[a] \in Users /\ Room(a) /\ row[a].state = "NONE"
  BY <1>1, Creating, Params DEF CreateInv, CapKept, LockHeld
<1>3. row' = [row EXCEPT ![a].state = "ACTIVE"]
  BY <1>2 DEF Insert, Room
<1>4. /\ client' \in [Clients -> {IdleClient} \cup CreateRows] /\ client'[c].pc = "idle"
      /\ \A d \in Clients \ {c} : client'[d] = client[d]
      /\ locked' = locked \ {UserOf[a]}
      /\ \A d \in Clients \ {c} : client[d].pc # "idle" => UserOf[client[d].alert] # UserOf[a]
  BY <1>1, Ends
<1> HIDE DEF a
<1>5. /\ row' \in [Alerts -> AlertRows] /\ row'[a].state = "ACTIVE" /\ row'[a].price = row[a].price
      /\ \A b \in Alerts \ {a} : row'[b] = row[b]
  BY <1>2, <1>3 DEF CreateInv, RowsType, AlertRows
<1>6. RowsType'
  BY <1>2, <1>4, <1>5 DEF CreateInv, RowsType, RowOK
<1>7. LockHeld'
  <2>1. ASSUME NEW d \in Clients, client'[d].pc # "idle"
        PROVE  d # c /\ client'[d] = client[d] /\ client[d].alert \in Alerts \ {a}
    BY <1>4, <2>1, Creating DEF CreateInv
  <2>2. \A d \in Clients : client'[d].pc # "idle" =>
           UserOf[client'[d].alert] \in locked' /\ row'[client'[d].alert].state = "NONE"
    BY <1>4, <1>5, <2>1 DEF CreateInv, LockHeld
  <2> QED
    BY <2>1, <2>2 DEF CreateInv, LockHeld
<1>8. ASSUME NEW S \in SUBSET Alerts PROVE Active(S)' = IF a \in S THEN Active(S) \cup {a} ELSE Active(S)
  BY <1>2, <1>5 DEF Active
<1>9. IsFiniteSet(Active(Alerts)) /\ IsFiniteSet(Active(Alerts))'
  BY <1>2, <1>8, FS_AddElement DEF CreateInv, CapKept
<1>10. ASSUME NEW u \in Users
       PROVE  /\ Cardinality(Active(AlertsOf(u)))' <= MaxActive
              /\ u # UserOf[a] => Active(AlertsOf(u))' = Active(AlertsOf(u))
  <2>1. AlertsOf(u) \in SUBSET Alerts /\ (a \in AlertsOf(u) <=> u = UserOf[a])
    BY <1>2 DEF AlertsOf
  <2>2. IsFiniteSet(Active(AlertsOf(u))) /\ Cardinality(Active(AlertsOf(u))) \in Nat
    BY <1>9, <2>1, ActiveFinite
  <2>3. CASE u # UserOf[a]
    <3>1. Active(AlertsOf(u))' = Active(AlertsOf(u))
      BY <1>8, <2>1, <2>3 DEF AlertsOf
    <3> QED
      BY <2>3, <3>1 DEF CreateInv, CapKept
  <2>4. CASE u = UserOf[a]
    <3>1. Active(AlertsOf(u))' = Active(AlertsOf(u)) \cup {a}
      BY <1>8, <2>1, <2>4 DEF AlertsOf
    <3>2. Cardinality(Active(AlertsOf(u)) \cup {a}) <= Cardinality(Active(AlertsOf(u))) + 1
      <4> DEFINE S == Active(AlertsOf(u))
      <4>1. IsFiniteSet(S) /\ Cardinality(S) \in Nat
        BY <2>2
      <4> HIDE DEF S
      <4>2. Cardinality(S \cup {a}) = IF a \in S THEN Cardinality(S) ELSE Cardinality(S) + 1
        BY <4>1, FS_AddElement
      <4>3. Cardinality(S \cup {a}) <= Cardinality(S) + 1
        BY <4>1, <4>2
      <4> QED
        BY <4>3 DEF S
    <3>3. Cardinality(Active(AlertsOf(u)) \cup {a}) \in Nat
      BY <2>2, FS_AddElement, FS_CardinalityType
    <3> QED
      BY <1>2, <2>2, <2>4, <3>1, <3>2, <3>3, Params DEF Room
  <2> QED
    BY <2>3, <2>4
<1>11. ASSUME NEW b \in Alerts, UserOf[b] # UserOf[a], Room(b) PROVE Room(b)'
  <2>1. Duplicates(b)' \subseteq Duplicates(b)
    BY <1>5, <1>11 DEF Duplicates, SameTerms, Active
  <2>2. UserOf[b] \in Users
    BY Params
  <2> QED
    BY <1>10, <1>11, <2>1, <2>2 DEF Room
<1>12. CapKept'
  <2>1. ASSUME NEW d \in Clients, NEW b \in Alerts, client'[d].pc = "insert", client'[d].alert = b
        PROVE  Room(b)'
    <3>1. d # c /\ client'[d] = client[d] /\ UserOf[b] # UserOf[a]
      BY <1>4, <2>1
    <3> QED
      BY <1>11, <2>1, <3>1 DEF CreateInv, CapKept
  <2> QED
    BY <1>9, <1>10, <2>1 DEF CapKept
<1> QED
  BY <1>6, <1>7, <1>12 DEF CreateInv

LEMMA CreateKeeps ==
  ASSUME CreateInv, NEW c \in Clients, Create(c)
  PROVE  CreateInv'
BY BeginKeeps, MayInsertKeeps, InsertKeeps, EndKeeps DEF Create, CreateReturns, CreateAborts

\* A delete, or the conditional update that triggers.
LEMMA RowKeeps ==
  ASSUME CreateInv, UNCHANGED <<locked, client>>, NEW a \in Alerts,
         Cancel(a) \/ \E p \in Prices : MarkTriggered(a, p)
  PROVE  CreateInv'
<1>1. row \in [Alerts -> AlertRows] /\ \A b \in Alerts : RowOK(b)
  BY DEF CreateInv, RowsType
<1>2. /\ row' \in [Alerts -> AlertRows] /\ \A b \in Alerts \ {a} : row'[b] = row[b]
      /\ \/ row'[a] = row[a]
         \/ row[a].state \in {"ACTIVE", "TRIGGERED"} /\ row'[a].state = "CANCELED"
         \/ row[a].state = "ACTIVE" /\ row'[a].state = "TRIGGERED" /\ row'[a].price \in Prices
  BY <1>1 DEF Cancel, MarkTriggered, AlertRows
<1>3. RowsType'
  BY <1>1, <1>2 DEF CreateInv, RowsType, RowOK
<1>4. \A b \in Alerts : row'[b].state = "ACTIVE" => row[b].state = "ACTIVE"
  BY <1>2
<1>5. \A b \in Alerts : row[b].state = "NONE" => row'[b].state = "NONE"
  BY <1>2
<1>6. CapKept' /\ LockHeld'
  BY <1>4, <1>5, FewerActive DEF CreateInv
<1> QED
  BY <1>3, <1>6 DEF CreateInv

--------------------------------------------------------------------------------
(* Quotes and the market's status.                                             *)

LEMMA Tables ==
  /\ \A q \in QuoteTables : DOMAIN q \subseteq Symbols /\ q \in [DOMAIN q -> Quote \cup {None}]
  /\ \A S \in SUBSET Symbols : [S -> Quote \cup {None}] \subseteq QuoteTables
BY DEF QuoteTables

LEMMA NoTable == <<>> \in QuoteTables
<1>1. <<>> \in [{} -> Quote \cup {None}]
  OBVIOUS
<1> QED
  BY <1>1, Tables

LEMMA AgedQuote ==
  ASSUME NEW q \in Quote \cup {None}
  PROVE  /\ Aged(q) \in Quote \cup {None}
         /\ q \in Quote => Aged(q) \in Quote /\ Aged(q).price = q.price /\ Aged(q).age <= q.age + 1
<1>1. CASE q = None
  <2>1. q \in Quote => q.age \in Nat
    BY Params DEF Quote
  <2> QED
    BY <1>1, <2>1 DEF Aged
<1>2. CASE q # None
  <2>1. q \in Quote /\ q.age \in Nat /\ Oldest \in Nat
    BY <1>2, Params DEF Quote
  <2>2. Min({q.age + 1, Oldest}) = IF q.age + 1 <= Oldest THEN q.age + 1 ELSE Oldest
    BY <2>1, MinOfTwo
  <2> DEFINE n == Min({q.age + 1, Oldest})
  <2>3. n \in 0 .. Oldest /\ n <= q.age + 1
    BY <2>1, <2>2
  <2>4. Aged(q) = [q EXCEPT !.age = n]
    BY <1>2 DEF Aged
  <2> HIDE DEF n
  <2> QED
    BY <2>1, <2>3, <2>4 DEF Quote
<1> QED
  BY <1>1, <1>2

\* What getMarketStatus returns is open only if the market was, at most a
\* memoized status ago.
LEMMA StatusRead ==
  ASSUME MarketInv, NEW e \in Evaluators
  PROVE  /\ Remembered(e).open \in BOOLEAN /\ Remembered(e).left \in 0 .. StatusTtl
         /\ Remembered(e) \in [open : BOOLEAN, left : 0 .. StatusTtl]
         /\ Remembered(e).open => sinceOpen <= StatusTtl /\ sinceOpen + Remembered(e).left <= StatusTtl
<1>1. /\ memo[e] \in [open : BOOLEAN, left : 0 .. StatusTtl] /\ StatusTtl \in Nat
      /\ open \in BOOLEAN /\ sinceOpen \in Nat
  BY Params DEF MarketInv, MarketType
<1>2. [open |-> open, left |-> StatusTtl] \in [open : BOOLEAN, left : 0 .. StatusTtl]
  BY <1>1
<1> QED
  BY <1>1, <1>2 DEF MarketInv, Remembered

LEMMA MarketKeeps ==
  ASSUME MarketInv, UNCHANGED marketVars, NEW e \in Evaluators,
         \/ UNCHANGED memo
         \/ memo' = [memo EXCEPT ![e] = Remembered(e)]
         \/ memo' = [memo EXCEPT ![e].left = 0, ![e].open = FALSE],
         cache' \in [Symbols -> CacheRows \cup {None}]
  PROVE  MarketInv'
<1>1. StatusTtl \in Nat /\ memo \in [Evaluators -> [open : BOOLEAN, left : 0 .. StatusTtl]]
  BY Params DEF MarketInv, MarketType
<1>2. CASE UNCHANGED memo
  BY <1>2 DEF MarketInv, MarketType, marketVars
<1>3. CASE memo' = [memo EXCEPT ![e] = Remembered(e)]
  BY <1>1, <1>3, StatusRead DEF MarketInv, MarketType, marketVars
<1>4. CASE memo' = [memo EXCEPT ![e].left = 0, ![e].open = FALSE]
  <2>1. /\ memo' \in [Evaluators -> [open : BOOLEAN, left : 0 .. StatusTtl]] /\ memo'[e].open = FALSE
        /\ \A d \in Evaluators \ {e} : memo'[d] = memo[d]
    <3>1. 0 \in 0 .. StatusTtl /\ memo[e] \in [open : BOOLEAN, left : 0 .. StatusTtl]
      BY <1>1
    <3>2. /\ \A d \in Evaluators \ {e} : memo'[d] = memo[d]
          /\ DOMAIN memo' = Evaluators /\ memo' = [d \in Evaluators |-> memo'[d]]
          /\ memo'[e] = [[memo[e] EXCEPT !.left = 0] EXCEPT !.open = FALSE]
      BY <1>1, <1>4
    <3>3. memo'[e] \in [open : BOOLEAN, left : 0 .. StatusTtl] /\ memo'[e].open = FALSE
      BY <3>1, <3>2
    <3>4. \A d \in Evaluators : memo'[d] \in [open : BOOLEAN, left : 0 .. StatusTtl]
      BY <1>1, <3>2, <3>3
    <3> QED
      BY <3>2, <3>3, <3>4
  <2> QED
    BY <2>1 DEF MarketInv, MarketType, marketVars
<1> QED
  BY <1>2, <1>3, <1>4

--------------------------------------------------------------------------------
(* The evaluations, step by step.                                              *)

LEMMA Running ==
  ASSUME EvalInv, NEW e \in Evaluators, eval[e].pc # "idle"
  PROVE  /\ eval[e] \in EvalRows /\ eval[e].pc \in Places /\ eval[e].age \in 0 .. PassTicks
         /\ eval[e].alerts \subseteq Alerts /\ eval[e].todo \subseteq Symbols
         /\ eval[e].quotes \in QuoteTables
         /\ Sound(e, eval[e], sinceOpen)
<1>1. eval[e] \notin IdleRows
  BY DEF IdleRows
<1>2. eval[e] \in EvalRows
  BY <1>1 DEF EvalInv, EvalType
<1> QED
  BY <1>2 DEF EvalInv, EvalRows

LEMMA EvalMoves ==
  ASSUME EvalInv, UNCHANGED sinceOpen, NEW e \in Evaluators, NEW s \in IdleRows \cup EvalRows,
         Becomes(e, s), Sound(e, s, sinceOpen)
  PROVE  EvalInv'
BY DEF EvalInv, EvalType, Becomes

LEMMA Stops ==
  ASSUME EvalInv, UNCHANGED sinceOpen, NEW e \in Evaluators, Becomes(e, IdleEval)
  PROVE  EvalInv'
<1>1. IdleEval \in IdleRows /\ Sound(e, IdleEval, sinceOpen)
  BY DEF IdleEval, IdleRows, Sound
<1> QED
  BY <1>1, EvalMoves

LEMMA SymbolsFinite ==
  ASSUME NEW S, IsFiniteSet(S)
  PROVE  IsFiniteSet({SymbolOf[a] : a \in S})
<1> DEFINE T == {SymbolOf[a] : a \in S}
           f == [a \in S |-> SymbolOf[a]]
<1>1. f \in [S -> T] /\ \A t \in T : \E a \in S : f[a] = t
  OBVIOUS
<1> HIDE DEF f, T
<1>2. f \in Surjection(S, T)
  BY <1>1, Fun_IsSurj
<1>3. IsFiniteSet(T)
  BY <1>2, FS_Surjection
<1> QED
  BY <1>3 DEF T

LEMMA StartKeeps ==
  ASSUME AlertsInv, NEW e \in Evaluators, StartEvaluation(e)
  PROVE  EvalInv'
<1> DEFINE listed == Active(IF e = Job THEN Alerts ELSE AlertsOf(ReaderUser[e]))
           todo == {SymbolOf[a] : a \in listed}
           alerts == IF e = Job THEN {} ELSE listed
           s == [pc |-> "status", age |-> 0, alerts |-> alerts, todo |-> todo, quotes |-> <<>>]
<1>1. Becomes(e, s) /\ UNCHANGED sinceOpen
  BY DEF StartEvaluation, marketVars
<1>2. listed \subseteq Active(Alerts) /\ listed \subseteq Alerts
  BY DEF Active, AlertsOf
<1>3. IsFiniteSet(listed)
  BY <1>2, FS_Subset DEF AlertsInv, CreateInv, CapKept
<1>4. todo \subseteq Symbols
  BY <1>2, Params
<1>5. IsFiniteSet(todo)
  BY <1>3, SymbolsFinite
<1>6. alerts \subseteq Alerts /\ (e = Job => alerts = {}) /\ \A a \in alerts : SymbolOf[a] \in todo
  BY <1>2
<1> HIDE DEF listed, todo, alerts
<1>7. s \in EvalRows
  BY <1>4, <1>6, NoTable, Params DEF EvalRows, Places
<1>8. Sound(e, s, sinceOpen)
  BY <1>5, <1>6 DEF Sound
<1> QED
  BY <1>1, <1>7, <1>8, EvalMoves DEF AlertsInv

LEMMA ReadStatusKeeps ==
  ASSUME AlertsInv, NEW e \in Evaluators, ReadStatus(e)
  PROVE  EvalInv'
<1>1. eval[e].pc = "status" /\ UNCHANGED sinceOpen
  BY DEF ReadStatus, marketVars
<1>2. CASE ~Remembered(e).open
  BY <1>1, <1>2, Stops DEF AlertsInv, ReadStatus
<1>3. CASE Remembered(e).open
  <2> DEFINE s == [eval[e] EXCEPT !.pc = "quotes"]
  <2>1. eval[e] \in EvalRows /\ Sound(e, eval[e], sinceOpen) /\ eval[e].age \in Nat
    BY <1>1, Running, Params DEF AlertsInv
  <2>2. /\ s \in EvalRows /\ s.pc = "quotes" /\ s.age = eval[e].age /\ s.todo = eval[e].todo
        /\ s.alerts = eval[e].alerts
    BY <2>1 DEF EvalRows, Places
  <2>3. Becomes(e, s)
    BY <1>3 DEF ReadStatus
  <2>4. sinceOpen <= StatusTtl + s.age
    BY <1>3, <2>1, <2>2, StatusRead, Params DEF AlertsInv, MarketInv, MarketType
  <2> HIDE DEF s
  <2>5. Sound(e, s, sinceOpen)
    BY <1>1, <2>1, <2>2, <2>4 DEF Sound
  <2> QED
    BY <1>1, <2>2, <2>3, <2>5, EvalMoves DEF AlertsInv
<1> QED
  BY <1>2, <1>3

\* A reader asks for every symbol of its alerts at once.
LEMMA ReceivedKeeps ==
  ASSUME AlertsInv, NEW e \in Evaluators, NEW batch \in SUBSET Symbols,
         NEW quotes \in [batch -> Quote \cup {None}], Received(e, batch, quotes)
  PROVE  EvalInv'
<1> DEFINE s == [eval[e] EXCEPT !.pc = "list", !.todo = @ \ batch, !.quotes = quotes]
<1>1. /\ eval[e].pc = "quotes" /\ Batch(e, batch) /\ Becomes(e, s) /\ UNCHANGED sinceOpen
  BY DEF Received, marketVars
<1>2. eval[e] \in EvalRows /\ Sound(e, eval[e], sinceOpen)
  BY <1>1, Running DEF AlertsInv
<1>3. quotes \in QuoteTables /\ DOMAIN quotes = batch
  BY Tables
<1>4. /\ s \in EvalRows /\ s.pc = "list" /\ s.age = eval[e].age /\ s.todo = eval[e].todo \ batch
      /\ s.alerts = eval[e].alerts /\ s.quotes = quotes
  BY <1>2, <1>3 DEF EvalRows, Places
<1> HIDE DEF s
<1>5. IsFiniteSet(eval[e].todo) /\ IsFiniteSet(eval[e].todo \ batch)
  BY <1>1, <1>2, FS_Difference DEF Sound
<1>6. \A a \in eval[e].alerts : SymbolOf[a] \in batch
  <2>1. CASE e = Job
    BY <1>1, <1>2, <2>1 DEF Sound
  <2>2. CASE e # Job
    <3>1. batch \in SUBSET eval[e].todo /\ Cardinality(batch) = Cardinality(eval[e].todo)
      BY <1>1, <2>2 DEF Batch
    <3>2. batch = eval[e].todo
      BY <1>5, <3>1, FS_Subset
    <3> QED
      BY <1>1, <1>2, <3>2 DEF Sound
  <2> QED
    BY <2>1, <2>2
<1>7. Sound(e, s, sinceOpen)
  BY <1>1, <1>2, <1>3, <1>4, <1>5, <1>6 DEF Sound
<1> QED
  BY <1>1, <1>4, <1>7, EvalMoves DEF AlertsInv

LEMMA CachedQuote ==
  ASSUME MarketInv, NEW x \in Symbols
  PROVE  /\ live[x] \in Quote /\ Cached(x) \in Quote \cup {None}
         /\ [price |-> live[x].price, age |-> live[x].age, left |-> QuoteTtl] \in CacheRows
<1>1. live[x] \in Quote /\ cache[x] \in CacheRows \cup {None} /\ QuoteTtl \in Nat
  BY Params DEF MarketInv, MarketType
<1>2. CASE cache[x] = None
  BY <1>1, <1>2 DEF Cached, Quote, CacheRows
<1>3. CASE cache[x] # None
  BY <1>1, <1>3 DEF Cached, Quote, CacheRows
<1> QED
  BY <1>2, <1>3

LEMMA QuotesKeep ==
  ASSUME AlertsInv, NEW e \in Evaluators, NEW batch \in SUBSET Symbols,
         \/ VendorFails(e, batch)
         \/ \E fresh \in SUBSET Symbols : VendorAnswers(e, batch, fresh)
  PROVE  EvalInv' /\ MarketInv' /\ UNCHANGED rowVars
<1>1. CASE VendorFails(e, batch)
  <2> DEFINE quotes == [x \in batch |-> Cached(x)]
  <2>1. quotes \in [batch -> Quote \cup {None}]
    BY CachedQuote DEF AlertsInv
  <2>2. Received(e, batch, quotes) /\ UNCHANGED cache
    BY <1>1 DEF VendorFails
  <2>3. memo' = [memo EXCEPT ![e] = Remembered(e)] /\ UNCHANGED <<rowVars, marketVars>>
    BY <2>2 DEF Received
  <2> QED
    BY <2>1, <2>2, <2>3, ReceivedKeeps, MarketKeeps DEF AlertsInv, MarketInv, MarketType
<1>2. ASSUME NEW fresh \in SUBSET Symbols, VendorAnswers(e, batch, fresh)
      PROVE  EvalInv' /\ MarketInv' /\ UNCHANGED rowVars
  <2> DEFINE quotes == [x \in batch |-> IF x \in fresh THEN live[x]
                                        ELSE IF x \in Misses(batch) THEN None ELSE Cached(x)]
  <2>1. quotes \in [batch -> Quote \cup {None}]
    BY CachedQuote DEF AlertsInv
  <2>2. cache' \in [Symbols -> CacheRows \cup {None}]
    BY <1>2, CachedQuote DEF VendorAnswers, AlertsInv, MarketInv, MarketType
  <2>3. Received(e, batch, quotes)
    BY <1>2 DEF VendorAnswers
  <2>4. memo' = [memo EXCEPT ![e] = Remembered(e)] /\ UNCHANGED <<rowVars, marketVars>>
    BY <2>3 DEF Received
  <2> QED
    BY <2>1, <2>2, <2>3, <2>4, ReceivedKeeps, MarketKeeps DEF AlertsInv
<1> QED
  BY <1>1, <1>2

LEMMA QuotesFailKeeps ==
  ASSUME AlertsInv, NEW e \in Evaluators, QuotesFail(e)
  PROVE  EvalInv'
<1>1. eval[e].pc = "quotes" /\ UNCHANGED sinceOpen
  BY DEF QuotesFail, marketVars
<1>2. PICK batch \in SUBSET eval[e].todo :
        IF e = Job THEN Becomes(e, [eval[e] EXCEPT !.todo = @ \ batch]) ELSE Becomes(e, IdleEval)
  BY DEF QuotesFail
<1>3. CASE e # Job
  BY <1>1, <1>2, <1>3, Stops DEF AlertsInv
<1>4. CASE e = Job
  <2> DEFINE s == [eval[e] EXCEPT !.todo = @ \ batch]
  <2>1. eval[e] \in EvalRows /\ Sound(e, eval[e], sinceOpen)
    BY <1>1, Running DEF AlertsInv
  <2>2. /\ s \in EvalRows /\ s.pc = "quotes" /\ s.age = eval[e].age /\ s.todo = eval[e].todo \ batch
        /\ s.alerts = eval[e].alerts
    BY <1>1, <2>1 DEF EvalRows, Places
  <2> HIDE DEF s
  <2>3. IsFiniteSet(s.todo)
    BY <1>1, <2>1, <2>2, FS_Difference DEF Sound
  <2>4. s.alerts = {} /\ sinceOpen <= StatusTtl + s.age
    BY <1>1, <1>4, <2>1, <2>2 DEF Sound
  <2>5. Sound(e, s, sinceOpen)
    BY <2>2, <2>3, <2>4 DEF Sound
  <2> QED
    BY <1>1, <1>2, <1>4, <2>2, <2>5, EvalMoves DEF AlertsInv, s
<1> QED
  BY <1>3, <1>4

\* Every verdict of the batch is fixed against the quotes it holds.
LEMMA JudgeKeeps ==
  ASSUME AlertsInv, NEW e \in Evaluators, Judge(e)
  PROVE  EvalInv'
<1> DEFINE quotes == eval[e].quotes
           listed == IF e = Job THEN {a \in Active(Alerts) : SymbolOf[a] \in DOMAIN quotes}
                     ELSE eval[e].alerts
           judged == {a \in listed : Verdict(a, quotes)}
           s == [eval[e] EXCEPT !.pc = "trigger", !.alerts = judged]
<1>1. eval[e].pc = "list" /\ Becomes(e, s) /\ UNCHANGED sinceOpen
  BY DEF Judge, marketVars
<1>2. /\ eval[e] \in EvalRows /\ Sound(e, eval[e], sinceOpen) /\ eval[e].alerts \subseteq Alerts
      /\ quotes \in [DOMAIN quotes -> Quote \cup {None}] /\ eval[e].age \in Nat
  BY <1>1, Running, Tables, Params DEF AlertsInv
<1>3. judged \subseteq Alerts /\ \A a \in judged : SymbolOf[a] \in DOMAIN quotes /\ Verdict(a, quotes)
  BY <1>1, <1>2 DEF Active, Sound
<1>4. \A a \in judged : /\ quotes[SymbolOf[a]] \in Quote /\ quotes[SymbolOf[a]].price \in Meets[a]
                        /\ quotes[SymbolOf[a]].age <= MaxAge + eval[e].age
  <2>1. \A q \in Quote : q.age \in Nat
    BY Params DEF Quote
  <2> QED
    BY <1>2, <1>3, <2>1, Params DEF Verdict
<1> HIDE DEF judged, quotes
<1>5. /\ s \in EvalRows /\ s.pc = "trigger" /\ s.age = eval[e].age /\ s.todo = eval[e].todo
      /\ s.alerts = judged /\ s.quotes = eval[e].quotes
  BY <1>2, <1>3 DEF EvalRows, Places
<1> HIDE DEF s
<1>6. Sound(e, s, sinceOpen)
  BY <1>1, <1>2, <1>3, <1>4, <1>5 DEF Sound, quotes
<1> QED
  BY <1>1, <1>5, <1>6, EvalMoves DEF AlertsInv

LEMMA DropKeeps ==
  ASSUME AlertsInv, NEW e \in Evaluators, NEW a, eval[e].pc = "trigger", UNCHANGED sinceOpen,
         Becomes(e, [eval[e] EXCEPT !.alerts = @ \ {a}])
  PROVE  EvalInv'
<1> DEFINE s == [eval[e] EXCEPT !.alerts = @ \ {a}]
<1>1. eval[e] \in EvalRows /\ Sound(e, eval[e], sinceOpen)
  BY Running DEF AlertsInv
<1>2. /\ s \in EvalRows /\ s.pc = "trigger" /\ s.age = eval[e].age /\ s.todo = eval[e].todo
      /\ s.alerts = eval[e].alerts \ {a} /\ s.quotes = eval[e].quotes
  BY <1>1 DEF EvalRows, Places
<1>3. Becomes(e, s)
  OBVIOUS
<1> HIDE DEF s
<1>4. Sound(e, s, sinceOpen)
  BY <1>1, <1>2 DEF Sound
<1> QED
  BY <1>2, <1>3, <1>4, EvalMoves DEF AlertsInv

LEMMA BatchDoneKeeps ==
  ASSUME AlertsInv, NEW e \in Evaluators, BatchDone(e)
  PROVE  EvalInv'
<1> DEFINE s == [eval[e] EXCEPT !.pc = "quotes", !.quotes = <<>>]
<1>1. eval[e].pc = "trigger" /\ eval[e].alerts = {} /\ Becomes(e, s) /\ UNCHANGED sinceOpen
  BY DEF BatchDone, marketVars
<1>2. eval[e] \in EvalRows /\ Sound(e, eval[e], sinceOpen)
  BY <1>1, Running DEF AlertsInv
<1>3. /\ s \in EvalRows /\ s.pc = "quotes" /\ s.age = eval[e].age /\ s.todo = eval[e].todo
      /\ s.alerts = eval[e].alerts
  BY <1>2, NoTable DEF EvalRows, Places
<1> HIDE DEF s
<1>4. Sound(e, s, sinceOpen)
  BY <1>1, <1>2, <1>3 DEF Sound
<1> QED
  BY <1>1, <1>3, <1>4, EvalMoves DEF AlertsInv

--------------------------------------------------------------------------------
(* Time passes for all of them at once.                                        *)

LEMMA AgedEvalOK ==
  ASSUME EvalInv, NEW e \in Evaluators, eval[e].pc # "idle", eval[e].age < PassTicks,
         NEW closed \in Nat, closed <= sinceOpen + 1, sinceOpen \in Nat
  PROVE  AgedEval(eval[e]) \in EvalRows /\ Sound(e, AgedEval(eval[e]), closed)
<1> DEFINE quotes == [x \in DOMAIN eval[e].quotes |-> Aged(eval[e].quotes[x])]
           s == [eval[e] EXCEPT !.age = @ + 1, !.quotes = quotes]
<1>1. /\ eval[e] \in EvalRows /\ eval[e].pc \in Places /\ eval[e].age \in 0 .. PassTicks
      /\ DOMAIN eval[e].quotes \subseteq Symbols
      /\ eval[e].quotes \in [DOMAIN eval[e].quotes -> Quote \cup {None}]
      /\ Sound(e, eval[e], sinceOpen) /\ PassTicks \in Nat /\ StatusTtl \in Nat /\ MaxAge \in Nat
      /\ eval[e].alerts \subseteq Alerts
  BY Running, Tables, Params
<1>2. AgedEval(eval[e]) = s
  BY DEF AgedEval
<1>3. /\ quotes \in QuoteTables /\ DOMAIN quotes = DOMAIN eval[e].quotes
      /\ \A x \in DOMAIN quotes : quotes[x] = Aged(eval[e].quotes[x])
  BY <1>1, AgedQuote, Tables
<1>4. eval[e].age + 1 \in 0 .. PassTicks
  BY <1>1
<1> HIDE DEF quotes
<1>5. /\ s \in EvalRows /\ s.pc = eval[e].pc /\ s.age = eval[e].age + 1 /\ s.todo = eval[e].todo
      /\ s.alerts = eval[e].alerts /\ s.quotes = quotes
  BY <1>1, <1>3, <1>4 DEF EvalRows, Places
<1> HIDE DEF s
<1>6. eval[e].pc = "trigger" => \A a \in s.alerts :
        /\ SymbolOf[a] \in DOMAIN s.quotes /\ s.quotes[SymbolOf[a]] \in Quote
        /\ s.quotes[SymbolOf[a]].age <= MaxAge + s.age
        /\ s.quotes[SymbolOf[a]].price \in Meets[a]
  <2> SUFFICES ASSUME eval[e].pc = "trigger", NEW a \in s.alerts
               PROVE  /\ SymbolOf[a] \in DOMAIN s.quotes /\ s.quotes[SymbolOf[a]] \in Quote
                      /\ s.quotes[SymbolOf[a]].age <= MaxAge + s.age
                      /\ s.quotes[SymbolOf[a]].price \in Meets[a]
    OBVIOUS
  <2> DEFINE q == eval[e].quotes[SymbolOf[a]]
  <2>1. /\ SymbolOf[a] \in DOMAIN eval[e].quotes /\ q \in Quote
        /\ q.age <= MaxAge + eval[e].age /\ q.price \in Meets[a]
    BY <1>1, <1>5 DEF Sound
  <2>2. Aged(q) \in Quote /\ Aged(q).price = q.price /\ Aged(q).age <= q.age + 1
    BY <2>1, AgedQuote
  <2>3. s.quotes[SymbolOf[a]] = Aged(q) /\ SymbolOf[a] \in DOMAIN s.quotes
    BY <1>3, <1>5, <2>1
  <2> HIDE DEF q
  <2>4. q.age \in Nat /\ Aged(q).age \in Nat
    BY <2>1, <2>2, Params DEF Quote
  <2> QED
    BY <1>1, <1>5, <2>1, <2>2, <2>3, <2>4
<1>7. eval[e].pc # "status" => closed <= StatusTtl + s.age
  <2>1. eval[e].pc # "status" => sinceOpen <= StatusTtl + eval[e].age
    BY <1>1 DEF Sound
  <2> QED
    BY <1>1, <1>5, <2>1
<1>8. Sound(e, s, closed)
  BY <1>1, <1>3, <1>5, <1>6, <1>7 DEF Sound
<1> QED
  BY <1>2, <1>5, <1>8

LEMMA TickKeeps ==
  ASSUME AlertsInv, Tick
  PROVE  EvalInv' /\ MarketInv'
<1>1. /\ StatusTtl \in Nat /\ PassTicks \in Nat /\ QuoteTtl \in Nat /\ sinceOpen \in Nat
      /\ memo \in [Evaluators -> [open : BOOLEAN, left : 0 .. StatusTtl]] /\ open \in BOOLEAN
  BY Params DEF AlertsInv, MarketInv, MarketType
<1>2. sinceOpen' \in Nat /\ sinceOpen' <= sinceOpen + 1 /\ (open => sinceOpen' = 0)
  <2>1. sinceOpen' = IF open THEN 0 ELSE Min({sinceOpen + 1, StatusTtl + PassTicks + 1})
    BY DEF Tick
  <2>2. Min({sinceOpen + 1, StatusTtl + PassTicks + 1})
          = IF sinceOpen + 1 <= StatusTtl + PassTicks + 1 THEN sinceOpen + 1 ELSE StatusTtl + PassTicks + 1
    BY <1>1, MinOfTwo
  <2> QED
    BY <1>1, <2>1, <2>2
<1>3. EvalInv'
  <2>1. ASSUME NEW e \in Evaluators
        PROVE  eval'[e] \in IdleRows \cup EvalRows /\ Sound(e, eval'[e], sinceOpen')
    <3>1. eval'[e] = AgedEval(eval[e]) /\ (eval[e].pc # "idle" => eval[e].age < PassTicks)
      BY DEF Tick
    <3>2. CASE eval[e].pc = "idle"
      BY <3>1, <3>2 DEF AgedEval, IdleRows, Sound
    <3>3. CASE eval[e].pc # "idle"
      BY <1>1, <1>2, <3>1, <3>3, AgedEvalOK DEF AlertsInv
    <3> QED
      BY <3>2, <3>3
  <2>2. eval' = [e \in Evaluators |-> eval'[e]]
    BY DEF Tick
  <2> QED
    BY <2>1, <2>2 DEF EvalInv, EvalType
<1>4. live' \in [Symbols -> Quote]
  <2>1. ASSUME NEW x \in Symbols PROVE Aged(live[x]) \in Quote
    BY AgedQuote DEF AlertsInv, MarketInv, MarketType
  <2> QED
    BY <2>1 DEF Tick
<1>5. cache' \in [Symbols -> CacheRows \cup {None}]
  <2>1. ASSUME NEW x \in Symbols PROVE AgedCache(cache[x]) \in CacheRows \cup {None}
    <3>1. CASE cache[x] = None
      BY <3>1 DEF AgedCache
    <3>2. CASE cache[x] # None
      <4>1. cache[x] \in CacheRows /\ cache[x].age \in 0 .. Oldest /\ cache[x].left \in 0 .. QuoteTtl /\ Oldest \in Nat
        BY <3>2, Params DEF AlertsInv, MarketInv, MarketType, CacheRows
      <4> DEFINE n == Min({cache[x].age + 1, Oldest})
                 m == Max({cache[x].left - 1, 0})
      <4>2. n = (IF cache[x].age + 1 <= Oldest THEN cache[x].age + 1 ELSE Oldest)
            /\ m = IF cache[x].left - 1 >= 0 THEN cache[x].left - 1 ELSE 0
        BY <4>1, MinOfTwo, MaxOfTwo
      <4>3. n \in 0 .. Oldest /\ m \in 0 .. QuoteTtl
        BY <1>1, <4>1, <4>2
      <4>4. AgedCache(cache[x]) = [[cache[x] EXCEPT !.age = n] EXCEPT !.left = m]
        BY <3>2, <4>1 DEF AgedCache, Aged, CacheRows
      <4> HIDE DEF n, m
      <4> QED
        BY <4>1, <4>3, <4>4 DEF CacheRows
    <3> QED
      BY <3>1, <3>2
  <2> QED
    BY <2>1 DEF Tick
<1>6. ASSUME NEW e \in Evaluators
      PROVE  /\ memo'[e] \in [open : BOOLEAN, left : 0 .. StatusTtl] /\ memo'[e].open = memo[e].open
             /\ memo'[e].left = IF memo[e].left > 0 THEN memo[e].left - 1 ELSE 0
  <2>1. memo'[e] = [memo[e] EXCEPT !.left = Max({@ - 1, 0})] /\ memo[e].left \in 0 .. StatusTtl
    BY <1>1 DEF Tick
  <2>2. Max({memo[e].left - 1, 0}) = IF memo[e].left > 0 THEN memo[e].left - 1 ELSE 0
    BY <1>1, <2>1, MaxOfTwo
  <2> DEFINE m == Max({memo[e].left - 1, 0})
  <2>3. m \in 0 .. StatusTtl /\ memo'[e] = [memo[e] EXCEPT !.left = m]
    BY <1>1, <2>1, <2>2
  <2> HIDE DEF m
  <2>4. memo'[e] \in [open : BOOLEAN, left : 0 .. StatusTtl] /\ memo'[e].open = memo[e].open /\ memo'[e].left = m
    BY <1>1, <2>3
  <2> QED
    BY <2>2, <2>4 DEF m
<1>7. memo' \in [Evaluators -> [open : BOOLEAN, left : 0 .. StatusTtl]]
  BY <1>6 DEF Tick
<1>8. \A e \in Evaluators : memo'[e].open /\ memo'[e].left > 0 => sinceOpen' + memo'[e].left <= StatusTtl
  BY <1>1, <1>2, <1>6 DEF AlertsInv, MarketInv
<1> QED
  BY <1>1, <1>2, <1>3, <1>4, <1>5, <1>7, <1>8 DEF MarketInv, MarketType, Tick

--------------------------------------------------------------------------------
LEMMA AlertsInit == Init => AlertsInv
<1> SUFFICES ASSUME Init PROVE AlertsInv
  OBVIOUS
<1>1. CreateInv
  <2>1. RowsType /\ LockHeld
    BY DEF Init, RowsType, RowOK, LockHeld, NoAlert, AlertRows, IdleClient
  <2>2. \A S \in SUBSET Alerts : Active(S) = {}
    BY DEF Init, Active, NoAlert
  <2>3. IsFiniteSet({}) /\ Cardinality({}) = 0
    BY FS_EmptySet
  <2>4. \A u \in Users : AlertsOf(u) \in SUBSET Alerts
    BY DEF AlertsOf
  <2>5. CapKept
    <3>1. \A u \in Users : Cardinality(Active(AlertsOf(u))) <= MaxActive
      <4> TAKE u \in Users
      <4>1. Cardinality(Active(AlertsOf(u))) = 0
        BY <2>2, <2>3, <2>4
      <4> QED
        BY <4>1, Params
    <3>2. \A c \in Clients : client[c].pc = "idle"
      BY DEF Init, IdleClient
    <3> QED
      BY <2>2, <2>3, <3>1, <3>2 DEF CapKept
  <2> QED
    BY <2>1, <2>5 DEF CreateInv
<1>2. MarketInv
  <2>1. live \in [Symbols -> Quote]
    BY Params DEF Init, Quote
  <2>2. sinceOpen \in Nat /\ (open => sinceOpen = 0) /\ open \in BOOLEAN
    BY Params DEF Init
  <2>3. \A e \in Evaluators : memo[e].left = 0
    BY DEF Init
  <2>4. memo \in [Evaluators -> [open : BOOLEAN, left : 0 .. StatusTtl]]
    BY Params DEF Init
  <2>5. cache \in [Symbols -> CacheRows \cup {None}]
    BY DEF Init
  <2> QED
    BY <2>1, <2>2, <2>3, <2>4, <2>5 DEF MarketInv, MarketType
<1>3. EvalInv
  BY DEF Init, EvalInv, EvalType, IdleRows, Sound
<1> QED
  BY <1>1, <1>2, <1>3 DEF AlertsInv

\* What a trigger writes was true when its evaluation read the clock.
LEMMA TriggerWrites ==
  ASSUME AlertsInv, NEW e \in Evaluators, NEW a \in Alerts, Trigger(e, a)
  PROVE  LET quote == eval[e].quotes[SymbolOf[a]] IN
         /\ eval[e].pc = "trigger" /\ a \in eval[e].alerts
         /\ quote \in Quote /\ quote.price \in Prices /\ quote.price \in Meets[a]
         /\ quote.age <= MaxAge + PassTicks
         /\ MarkTriggered(a, quote.price)
         /\ sinceOpen <= StatusTtl + PassTicks
<1> DEFINE quote == eval[e].quotes[SymbolOf[a]]
<1>1. eval[e].pc = "trigger" /\ a \in eval[e].alerts /\ MarkTriggered(a, quote.price)
  BY DEF Trigger
<1>2. eval[e].age \in 0 .. PassTicks /\ Sound(e, eval[e], sinceOpen)
  BY <1>1, Running DEF AlertsInv
<1>3. /\ quote \in Quote /\ quote.age <= MaxAge + eval[e].age /\ quote.price \in Meets[a]
      /\ sinceOpen <= StatusTtl + eval[e].age
  BY <1>1, <1>2 DEF Sound
<1>4. quote.price \in Prices /\ quote.age \in Nat /\ sinceOpen \in Nat
  BY <1>3, Params DEF Quote, AlertsInv, MarketInv, MarketType
<1> QED
  BY <1>1, <1>2, <1>3, <1>4, Params

\* A failure ends an evaluation, or drops what it was about to write.
LEMMA FailKeeps ==
  ASSUME AlertsInv, NEW e \in Evaluators, Fails(e)
  PROVE  AlertsInv'
<1>1. CASE \E batch \in SUBSET Symbols :
             \/ VendorFails(e, batch)
             \/ \E fresh \in SUBSET batch : fresh # Misses(batch) /\ VendorAnswers(e, batch, fresh)
  <2>1. EvalInv' /\ MarketInv' /\ UNCHANGED rowVars
    BY <1>1, QuotesKeep
  <2> QED
    BY <2>1 DEF AlertsInv, CreateInv, RowsType, RowOK, LockHeld, CapKept, Room, Duplicates, Active, rowVars
<1>2. ASSUME EvalInv', UNCHANGED <<rowVars, marketVars, cache>>,
             \/ UNCHANGED memo
             \/ memo' = [memo EXCEPT ![e] = Remembered(e)]
             \/ memo' = [memo EXCEPT ![e].left = 0, ![e].open = FALSE]
      PROVE  AlertsInv'
  <2>1. MarketInv'
    BY <1>2, MarketKeeps DEF AlertsInv, MarketInv, MarketType
  <2> QED
    BY <1>2, <2>1 DEF AlertsInv, CreateInv, RowsType, RowOK, LockHeld, CapKept, Room, Duplicates, Active, rowVars
<1>3. CASE QuotesFail(e)
  BY <1>2, <1>3, QuotesFailKeeps DEF QuotesFail
<1>4. CASE e = Job /\ ListFails
  BY <1>2, <1>4, Stops DEF ListFails, AlertsInv, marketVars
<1>5. CASE \E a \in Alerts : TriggerFails(e, a)
  BY <1>2, <1>5, DropKeeps DEF TriggerFails, marketVars
<1>6. CASE Crash(e)
  BY <1>2, <1>6, Stops DEF Crash, AlertsInv, marketVars
<1> QED
  BY <1>1, <1>3, <1>4, <1>5, <1>6 DEF Fails

LEMMA GoKeeps ==
  ASSUME AlertsInv, NEW e \in Evaluators, StartEvaluation(e) \/ Goes(e)
  PROVE  AlertsInv'
<1>1. CASE \E batch \in SUBSET Symbols : VendorAnswers(e, batch, Misses(batch))
  <2>1. EvalInv' /\ MarketInv' /\ UNCHANGED rowVars
    BY <1>1, QuotesKeep DEF Misses
  <2> QED
    BY <2>1 DEF AlertsInv, CreateInv, RowsType, RowOK, LockHeld, CapKept, Room, Duplicates, Active, rowVars
<1>2. ASSUME EvalInv', UNCHANGED <<rowVars, marketVars, cache>>,
             UNCHANGED memo \/ memo' = [memo EXCEPT ![e] = Remembered(e)]
      PROVE  AlertsInv'
  <2>1. MarketInv'
    BY <1>2, MarketKeeps DEF AlertsInv, MarketInv, MarketType
  <2> QED
    BY <1>2, <2>1 DEF AlertsInv, CreateInv, RowsType, RowOK, LockHeld, CapKept, Room, Duplicates, Active, rowVars
<1>3. CASE StartEvaluation(e)
  BY <1>2, <1>3, StartKeeps DEF StartEvaluation
<1>4. CASE ReadStatus(e)
  BY <1>2, <1>4, ReadStatusKeeps DEF ReadStatus
<1>5. CASE Judge(e)
  BY <1>2, <1>5, JudgeKeeps DEF Judge
<1>6. CASE BatchDone(e)
  BY <1>2, <1>6, BatchDoneKeeps DEF BatchDone
<1>7. CASE EndEvaluation(e)
  BY <1>2, <1>7, Stops DEF EndEvaluation, AlertsInv, marketVars
<1>8. CASE \E a \in Alerts : Trigger(e, a)
  <2>1. PICK a \in Alerts : Trigger(e, a)
    BY <1>8
  <2>2. \E p \in Prices : MarkTriggered(a, p)
    BY <2>1, TriggerWrites
  <2>3. UNCHANGED <<locked, client, marketVars, cache, memo>>
    BY <2>1 DEF Trigger
  <2>4. CreateInv'
    BY <2>2, <2>3, RowKeeps DEF AlertsInv
  <2>5. EvalInv'
    BY <2>1, <2>3, DropKeeps DEF Trigger, marketVars
  <2>6. MarketInv'
    BY <2>3, MarketKeeps DEF AlertsInv, MarketInv, MarketType
  <2> QED
    BY <2>4, <2>5, <2>6 DEF AlertsInv
<1> QED
  BY <1>1, <1>3, <1>4, <1>5, <1>6, <1>7, <1>8 DEF Goes

LEMMA AlertsStep == AlertsInv /\ [Next]_vars => AlertsInv'
<1> SUFFICES ASSUME AlertsInv, [Next]_vars PROVE AlertsInv'
  OBVIOUS
<1>1. ASSUME CreateInv', UNCHANGED <<eval, marketVars, cache, memo>> PROVE AlertsInv'
  BY <1>1 DEF AlertsInv, EvalInv, EvalType, MarketInv, MarketType, marketVars
<1>2. ASSUME EvalInv', MarketInv', UNCHANGED rowVars PROVE AlertsInv'
  BY <1>2 DEF AlertsInv, CreateInv, RowsType, RowOK, LockHeld, CapKept, Room, Duplicates, Active, rowVars
<1>3. CASE \E c \in Clients : Create(c)
  <2>1. PICK c \in Clients : Create(c)
    BY <1>3
  <2>2. CreateInv'
    BY <2>1, CreateKeeps DEF AlertsInv
  <2>3. UNCHANGED <<eval, marketVars, cache, memo>>
    BY <2>1 DEF Create, BeginCreate, CreateReturns, MayInsert, Insert, CreateAborts
  <2> QED
    BY <1>1, <2>2, <2>3
<1>4. CASE \E a \in Alerts : Cancel(a)
  <2>1. PICK a \in Alerts : Cancel(a)
    BY <1>4
  <2>2. CreateInv'
    BY <2>1, RowKeeps DEF Cancel, AlertsInv
  <2> QED
    BY <1>1, <2>1, <2>2 DEF Cancel
<1>5. CASE \E x \in Symbols : Trade(x)
  <2>1. PICK x \in Symbols : Trade(x)
    BY <1>5
  <2>2. PICK p \in Prices : live' = [live EXCEPT ![x] = [price |-> p, age |-> 0]]
    BY <2>1 DEF Trade
  <2>3. [price |-> p, age |-> 0] \in Quote
    BY Params DEF Quote
  <2>4. EvalInv' /\ MarketInv'
    BY <2>1, <2>2, <2>3 DEF Trade, AlertsInv, EvalInv, EvalType, MarketInv, MarketType
  <2> QED
    BY <1>2, <2>1, <2>4 DEF Trade
<1>6. CASE OpenOrClose
  <2>1. EvalInv'
    <3>1. ASSUME NEW e \in Evaluators PROVE Sound(e, eval[e], 0)
      <4>1. CASE eval[e].pc = "idle"
        BY <4>1 DEF Sound
      <4>2. CASE eval[e].pc # "idle"
        BY <4>2, Running, Params DEF Sound, AlertsInv
      <4> QED
        BY <4>1, <4>2
    <3> QED
      BY <1>6, <3>1 DEF OpenOrClose, AlertsInv, EvalInv, EvalType
  <2>2. MarketInv'
    BY <1>6, Params DEF OpenOrClose, AlertsInv, MarketInv, MarketType
  <2> QED
    BY <1>2, <1>6, <2>1, <2>2 DEF OpenOrClose
<1>7. CASE Tick
  BY <1>2, <1>7, TickKeeps DEF Tick
<1>8. CASE UNCHANGED vars
  BY <1>2, <1>8 DEF vars, marketVars, AlertsInv, EvalInv, EvalType, MarketInv, MarketType
<1> QED
  BY <1>3, <1>4, <1>5, <1>6, <1>7, <1>8, GoKeeps, FailKeeps DEF Next

--------------------------------------------------------------------------------
(* The invariant holds whatever races, fails or is served from a cache.        *)
LEMMA AlertsInvariant == Spec => []AlertsInv
BY AlertsInit, AlertsStep, PTL DEF Spec

(* The variables have their types, and a row has its trigger facts if and only *)
(* if it was triggered (price_alerts_triggered_has_facts).                     *)
THEOREM AlertsTyped == Spec => []AlertsTypeOK
<1>1. AlertsInv => AlertsTypeOK
  <2> SUFFICES ASSUME AlertsInv PROVE AlertsTypeOK
    OBVIOUS
  <2>1. row \in [Alerts -> [state : {"NONE", "ACTIVE"}, price : {None}]
                          \union [state : {"TRIGGERED"}, price : Prices]
                          \union [state : {"CANCELED"}, price : Prices \union {None}]]
    <3>1. ASSUME NEW a \in Alerts
          PROVE  row[a] \in [state : {"NONE", "ACTIVE"}, price : {None}]
                            \union [state : {"TRIGGERED"}, price : Prices]
                            \union [state : {"CANCELED"}, price : Prices \union {None}]
      <4>1. row[a] \in AlertRows /\ RowOK(a)
        BY DEF AlertsInv, CreateInv, RowsType
      <4> QED
        BY <4>1 DEF AlertRows, RowOK
    <3> QED
      BY <3>1 DEF AlertsInv, CreateInv, RowsType
  <2>2. \A c \in Clients : client[c].pc \in {"idle", "check", "insert"}
    BY Creating DEF AlertsInv, CreateInv
  <2>3. \A e \in Evaluators : eval[e].pc \in {"idle", "status", "quotes", "list", "trigger"}
    BY DEF AlertsInv, EvalInv, EvalType, IdleRows, EvalRows, Places
  <2>4. \A x \in Symbols : cache[x] # None => Cached(x) \in Quote /\ cache[x].left \in 0..QuoteTtl
    BY DEF AlertsInv, MarketInv, MarketType, CacheRows, Cached, Quote
  <2> QED
    BY <2>1, <2>2, <2>3, <2>4 DEF AlertsTypeOK, AlertsInv, CreateInv, RowsType, MarketInv, MarketType
<1> QED
  BY <1>1, AlertsInvariant, PTL

(* However many POSTs race, the cap of ACTIVE alerts is kept, and an insert    *)
(* under the user's lock never meets a duplicate (service.ts 133).             *)
THEOREM CreationsSerialized == Spec => []CreationIsSerialized
<1>1. AlertsInv => CreationIsSerialized
  BY Creating DEF AlertsInv, CreateInv, CapKept, Room, CreationIsSerialized
<1> QED
  BY <1>1, AlertsInvariant, PTL

\* What a step may do to an alert.
TriggerSound(a) ==
  /\ row[a].price # None => row'[a].price = row[a].price
  /\ row[a].state = "CANCELED" => row'[a] = row[a]
  /\ row[a].state = "TRIGGERED" => row'[a].state \in {"TRIGGERED", "CANCELED"}
  /\ row[a].state = "ACTIVE" /\ row'[a].state = "TRIGGERED" =>
       /\ row'[a].price \in Meets[a]
       /\ \E e \in Evaluators :
              /\ eval[e].pc = "trigger" /\ a \in eval[e].alerts
              /\ eval[e].quotes[SymbolOf[a]].price = row'[a].price
              /\ eval[e].quotes[SymbolOf[a]].age <= MaxAge + PassTicks
       /\ sinceOpen <= StatusTtl + PassTicks

LEMMA StepsTriggerSoundly ==
  ASSUME AlertsInv, [Next]_vars
  PROVE  \A a \in Alerts : TriggerSound(a)
<1>0. row \in [Alerts -> AlertRows] /\ \A a \in Alerts : RowOK(a)
  BY DEF AlertsInv, CreateInv, RowsType
<1>1. ASSUME NEW a \in Alerts, row'[a] = row[a] PROVE TriggerSound(a)
  BY <1>1 DEF TriggerSound
<1>2. ASSUME NEW c \in Clients, Create(c) PROVE \A a \in Alerts : TriggerSound(a)
  <2>1. CASE Insert(c)
    <3> DEFINE b == client[c].alert
    <3>1. b \in Alerts /\ row[b].state = "NONE"
      BY <2>1, Creating DEF Insert, AlertsInv, CreateInv, LockHeld
    <3>2. row' = row \/ row' = [row EXCEPT ![b].state = "ACTIVE"]
      BY <2>1 DEF Insert
    <3> HIDE DEF b
    <3>3. \A a \in Alerts \ {b} : row'[a] = row[a]
      BY <1>0, <3>2
    <3>4. TriggerSound(b)
      BY <1>0, <1>1, <3>1, <3>2 DEF TriggerSound, RowOK
    <3> QED
      BY <1>1, <3>3, <3>4
  <2>2. CASE ~Insert(c)
    <3>1. row' = row
      BY <1>2, <2>2 DEF Create, BeginCreate, CreateReturns, MayInsert, CreateAborts
    <3> QED
      BY <1>1, <3>1
  <2> QED
    BY <2>1, <2>2
<1>3. ASSUME NEW b \in Alerts, Cancel(b) PROVE \A a \in Alerts : TriggerSound(a)
  <2>1. row[b].state \in {"ACTIVE", "TRIGGERED"} /\ row' = [row EXCEPT ![b].state = "CANCELED"]
    BY <1>3 DEF Cancel
  <2>2. \A a \in Alerts \ {b} : row'[a] = row[a]
    BY <1>0, <2>1
  <2>3. row'[b].state = "CANCELED" /\ row'[b].price = row[b].price
    BY <1>0, <2>1 DEF AlertRows
  <2>4. TriggerSound(b)
    BY <2>1, <2>3 DEF TriggerSound
  <2> QED
    BY <1>1, <2>2, <2>4
<1>4. ASSUME NEW e \in Evaluators, NEW b \in Alerts, Trigger(e, b) PROVE \A a \in Alerts : TriggerSound(a)
  <2> DEFINE quote == eval[e].quotes[SymbolOf[b]]
  <2>1. /\ eval[e].pc = "trigger" /\ b \in eval[e].alerts /\ quote.price \in Meets[b]
        /\ quote.age <= MaxAge + PassTicks /\ MarkTriggered(b, quote.price)
        /\ sinceOpen <= StatusTtl + PassTicks
    BY <1>4, TriggerWrites
  <2>2. \A a \in Alerts \ {b} : row'[a] = row[a]
    BY <1>0, <2>1 DEF MarkTriggered
  <2>3. \/ row'[b] = row[b]
        \/ row[b].state = "ACTIVE" /\ row'[b].state = "TRIGGERED" /\ row'[b].price = quote.price
    BY <1>0, <2>1 DEF MarkTriggered, AlertRows
  <2>4. TriggerSound(b)
    BY <1>0, <1>1, <2>1, <2>3 DEF TriggerSound, RowOK
  <2> QED
    BY <1>1, <2>2, <2>4
<1>5. ASSUME UNCHANGED row PROVE \A a \in Alerts : TriggerSound(a)
  BY <1>1, <1>5
<1>6. ASSUME NEW e \in Evaluators, StartEvaluation(e) \/ Goes(e) \/ Fails(e)
      PROVE  \A a \in Alerts : TriggerSound(a)
  <2>1. CASE \E b \in Alerts : Trigger(e, b)
    BY <1>4, <2>1
  <2>2. CASE ~ \E b \in Alerts : Trigger(e, b)
    <3>1. UNCHANGED row
      BY <1>6, <2>2 DEF StartEvaluation, Goes, Fails, ReadStatus, Judge, BatchDone, EndEvaluation,
        VendorAnswers, VendorFails, Received, QuotesFail, ListFails, TriggerFails, Crash, rowVars
    <3> QED
      BY <1>5, <3>1
  <2> QED
    BY <2>1, <2>2
<1>7. ASSUME (\E x \in Symbols : Trade(x)) \/ OpenOrClose \/ Tick \/ UNCHANGED vars
      PROVE  UNCHANGED row
  BY <1>7 DEF Trade, OpenOrClose, Tick, vars, rowVars
<1> QED
  BY <1>2, <1>3, <1>5, <1>6, <1>7 DEF Next

(* Whatever races, fails or is served from a cache, a trigger is written once, *)
(* on a quote that meets the alert's terms and is not older than allowed, of a *)
(* market that was open (ADR-016 3, 7).                                        *)
THEOREM AlertsSound == Spec => TriggersAreSound
<1>1. AlertsInv /\ [Next]_vars =>
        [\A a \in Alerts :
           /\ row[a].price # None => row'[a].price = row[a].price
           /\ row[a].state = "CANCELED" => row'[a] = row[a]
           /\ row[a].state = "TRIGGERED" => row'[a].state \in {"TRIGGERED", "CANCELED"}]_vars
  BY StepsTriggerSoundly DEF TriggerSound
<1>2. AlertsInv /\ [Next]_vars =>
        [\A a \in Alerts : row[a].state = "ACTIVE" /\ row'[a].state = "TRIGGERED" =>
           /\ row'[a].price \in Meets[a]
           /\ \E e \in Evaluators :
                  /\ eval[e].pc = "trigger" /\ a \in eval[e].alerts
                  /\ eval[e].quotes[SymbolOf[a]].price = row'[a].price
                  /\ eval[e].quotes[SymbolOf[a]].age <= MaxAge + PassTicks
           /\ sinceOpen <= StatusTtl + PassTicks]_vars
  BY StepsTriggerSoundly DEF TriggerSound
<1> QED
  BY <1>1, <1>2, AlertsInvariant, PTL DEF Spec, TriggersAreSound, TriggeredOnce, TriggersAreCurrent
================================================================================
