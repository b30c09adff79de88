---------------------------- MODULE ScheduledJobs ----------------------------
(***************************************************************************)
(* Scheduled jobs (src/worker/jobs/registry.ts) and their bookkeeping       *)
(* (infra/db/repositories/job-runs.ts).  A trigger is one call of           *)
(* runDueJobs: the worker's start, POST /jobs/tick, the tail of POST        *)
(* /reconcile, or `pnpm jobs:run`, which may force.  A trigger walks the    *)
(* list of jobs; for each it reads the clock, claims the job in one upsert, *)
(* runs it and records how it went, and every one of these is an await at   *)
(* which other triggers, the clock and crashes get in.                      *)
(*                                                                          *)
(* Instants are kept as distances from the present, so that time can run    *)
(* for ever in finitely many states: the row holds how long ago the last    *)
(* success was and how long its lease still lasts, a trigger how long ago   *)
(* it read the clock.  Distances beyond what any comparison tells apart     *)
(* are clipped.                                                             *)
(***************************************************************************)
EXTENDS Integers, Sequences, FiniteSetsExt

CONSTANTS
    Jobs, JobList,      \* allJobs(), in the order a trigger walks them
    Enabled,            \* the jobs whose enabled() holds
    Interval, Lease,    \* intervalMs and leaseMs of each job
    WorkerTriggers,     \* calls of runDueJobs in the worker process
    ManualTriggers,     \* calls of runDueJobs in another process: jobs:run
    Forced,             \* the triggers run with --force
    CallDelay,          \* how long a statement may be under way
    RunsFitLease,       \* every run ends within its leaseMs
    MaxFaults,          \* bound on crashes and database errors together
    Never, Free         \* last_succeeded_at IS NULL; lease_until IS NULL

Triggers == WorkerTriggers \union ManualTriggers

ASSUME JobsAssumption ==
    /\ JobList \in Seq(Jobs) /\ Enabled \subseteq Jobs
    /\ Interval \in [Jobs -> Nat \ {0}] /\ Lease \in [Jobs -> Nat \ {0}]
    /\ Forced \subseteq Triggers /\ WorkerTriggers \intersect ManualTriggers = {}
    /\ CallDelay \in Nat /\ \A j \in Jobs : CallDelay < Lease[j] /\ CallDelay < Interval[j]
    /\ RunsFitLease \in BOOLEAN /\ MaxFaults \in Nat
    /\ Never \notin Int /\ Free \notin Int

VARIABLES
    since,      \* since[j]: age of last_succeeded_at
    lease,      \* lease[j]: time until lease_until, negative once it has passed
    trigger,    \* trigger[t]: where the call of runDueJobs stands
    faults

jobVars == <<since, lease, trigger, faults>>

Idle == [pc |-> "idle", at |-> 1, age |-> 0, read |-> 0]

JobOf(t) == JobList[trigger[t].at]

Claimed == {"run", "succeed", "fail"}

RunsOf(j) == {t \in Triggers : trigger[t].pc \in Claimed /\ JobOf(t) = j}

SinceCap(j) == Interval[j] + CallDelay

AgeCap(t) == Lease[JobOf(t)] + 1

JobsInit ==
    /\ since = [j \in Jobs |-> Never]
    /\ lease = [j \in Jobs |-> Free]
    /\ trigger = [t \in Triggers |-> Idle]
    /\ faults = 0

To(t, pc) == trigger' = [trigger EXCEPT ![t].pc = pc]

ToNextJob(t) ==
    trigger' = [trigger EXCEPT ![t] = [Idle EXCEPT !.pc = "next", !.at = trigger[t].at + 1]]

(* A database call throws: runDueJobs rejects and the trigger is over. *)
Rejects(t) == trigger' = [trigger EXCEPT ![t] = Idle]

Fault == faults < MaxFaults /\ faults' = faults + 1

----------------------------------------------------------------------------
(* runDueJobs *)

Begin(t) ==
    /\ trigger[t].pc = "idle"
    /\ To(t, "next")
    /\ UNCHANGED <<since, lease, faults>>

SkipDisabled(t) ==
    /\ trigger[t].pc = "next" /\ trigger[t].at <= Len(JobList)
    /\ JobOf(t) \notin Enabled
    /\ ToNextJob(t)
    /\ UNCHANGED <<since, lease, faults>>

(* const start = now(): the claim compares with this instant, whenever it    *)
(* reaches the database.                                                     *)
StartJob(t) ==
    /\ trigger[t].pc = "next" /\ trigger[t].at <= Len(JobList)
    /\ JobOf(t) \in Enabled
    /\ To(t, "claim")
    /\ UNCHANGED <<since, lease, faults>>

Return(t) ==
    /\ trigger[t].pc = "next" /\ trigger[t].at > Len(JobList)
    /\ Rejects(t)
    /\ UNCHANGED <<since, lease, faults>>

\* Mutant: the lease is not looked at.
LeaseAlwaysOver(t) == TRUE

\* Mutant: a lease ends only when its run is recorded.
LeaseOnlyReleased(t) == lease[JobOf(t)] = Free

LeaseOver(t) == lease[JobOf(t)] # Free => lease[JobOf(t)] < -trigger[t].age

\* Mutant: the interval is not looked at.
AlwaysDue(t) == TRUE

(* dueBefore is start for a forced trigger and start - intervalMs otherwise. *)
IsDue(t) ==
    since[JobOf(t)] # Never =>
        since[JobOf(t)] >= trigger[t].age + (IF t \in Forced THEN 0 ELSE Interval[JobOf(t)])

\* Mutant: the lease is counted from after the claim's way to the database.
TakeLeaseLate(t) == lease' = [lease EXCEPT ![JobOf(t)] = Lease[JobOf(t)] + trigger[t].age]

(* set: { lastStartedAt: now, leaseUntil } *)
TakeLease(t) == lease' = [lease EXCEPT ![JobOf(t)] = Lease[JobOf(t)] - trigger[t].age]

Claim(t) ==
    /\ trigger[t].pc = "claim"
    /\ LeaseOver(t) /\ IsDue(t)
    /\ TakeLease(t)
    /\ To(t, "run")
    /\ UNCHANGED <<since, faults>>

NotDue(t) ==
    /\ trigger[t].pc = "claim"
    /\ ~(LeaseOver(t) /\ IsDue(t))
    /\ ToNextJob(t)
    /\ UNCHANGED <<since, lease, faults>>

(* The claim throws; the upsert may have committed, and then the lease is    *)
(* held by nobody until it expires.                                          *)
ClaimThrows(t) ==
    /\ trigger[t].pc = "claim"
    /\ \/ UNCHANGED lease
       \/ LeaseOver(t) /\ IsDue(t) /\ TakeLease(t)
    /\ Rejects(t)
    /\ Fault
    /\ UNCHANGED since

(* job.run() resolves, and now() is read for the record, or it throws. *)
RunEnds(t) ==
    /\ trigger[t].pc = "run"
    /\ \E outcome \in {"succeed", "fail"} : To(t, outcome)
    /\ UNCHANGED <<since, lease, faults>>

(* set: { lastSucceededAt: at, leaseUntil: null } where the name matches:    *)
(* whoever holds the lease.                                                  *)
RecordSuccess(t) ==
    /\ since' = [since EXCEPT ![JobOf(t)] = trigger[t].read]
    /\ lease' = [lease EXCEPT ![JobOf(t)] = Free]

Succeed(t) ==
    /\ trigger[t].pc = "succeed"
    /\ RecordSuccess(t)
    /\ ToNextJob(t)
    /\ UNCHANGED faults

(* Recording the success throws, whether or not it committed, and the catch  *)
(* block records a failure.                                                  *)
SucceedThrows(t) ==
    /\ trigger[t].pc = "succeed"
    /\ RecordSuccess(t) \/ UNCHANGED <<since, lease>>
    /\ To(t, "fail")
    /\ Fault

(* set: { lastError, leaseUntil: null }: the old success time stays. *)
RecordFailure(t) ==
    /\ lease' = [lease EXCEPT ![JobOf(t)] = Free]
    /\ UNCHANGED since

Fail(t) ==
    /\ trigger[t].pc = "fail"
    /\ RecordFailure(t)
    /\ ToNextJob(t)
    /\ UNCHANGED faults

FailThrows(t) ==
    /\ trigger[t].pc = "fail"
    /\ RecordFailure(t) \/ UNCHANGED <<since, lease>>
    /\ Rejects(t)
    /\ Fault

----------------------------------------------------------------------------
(* The worker process dies with every trigger it runs; a manual trigger is   *)
(* a process of its own.                                                     *)
WorkerCrash ==
    /\ \E dead \in {WorkerTriggers} \union {{t} : t \in ManualTriggers} :
           /\ \E t \in dead : trigger[t].pc # "idle"
           /\ trigger' = [t \in Triggers |-> IF t \in dead THEN Idle ELSE trigger[t]]
    /\ Fault
    /\ UNCHANGED <<since, lease>>

(* Time passes.  A statement is under way for at most CallDelay; if runs fit *)
(* their leases, one is recorded by the instant its lease runs out.          *)
MayWait(t) ==
    /\ trigger[t].pc = "claim" => trigger[t].age < CallDelay
    /\ trigger[t].pc \in {"succeed", "fail"} => trigger[t].read < CallDelay
    /\ RunsFitLease /\ trigger[t].pc \in Claimed => trigger[t].age < Lease[JobOf(t)]

Older(t) ==
    [trigger[t] EXCEPT
        !.age = IF trigger[t].pc \in Claimed \union {"claim"} THEN Min({@ + 1, AgeCap(t)}) ELSE @,
        !.read = IF trigger[t].pc \in {"succeed", "fail"} THEN @ + 1 ELSE @]

ClockTick ==
    /\ \A t \in Triggers : MayWait(t)
    /\ since' = [j \in Jobs |-> IF since[j] = Never THEN Never
                                ELSE Min({since[j] + 1, SinceCap(j)})]
    /\ lease' = [j \in Jobs |-> IF lease[j] = Free THEN Free
                                ELSE Max({lease[j] - 1, -(CallDelay + 1)})]
    /\ trigger' = [t \in Triggers |-> Older(t)]
    /\ UNCHANGED faults

----------------------------------------------------------------------------
Step(t) ==
    \/ SkipDisabled(t) \/ StartJob(t) \/ Return(t)
    \/ Claim(t) \/ NotDue(t) \/ RunEnds(t) \/ Succeed(t) \/ Fail(t)

JobsNext ==
    \/ \E t \in Triggers :
           \/ Begin(t) \/ Step(t)
           \/ ClaimThrows(t) \/ SucceedThrows(t) \/ FailThrows(t)
    \/ WorkerCrash \/ ClockTick

JobsSpec == JobsInit /\ [][JobsNext]_jobVars

(* Every call returns, the workflows' schedules keep calling the worker, and *)
(* time passes: strongly, as a call under way too long only delays it.       *)
FairJobsSpec ==
    /\ JobsSpec
    /\ \A t \in Triggers : WF_jobVars(Step(t))
    /\ \A t \in WorkerTriggers : WF_jobVars(Begin(t))
    /\ SF_jobVars(ClockTick)

----------------------------------------------------------------------------
(* The variables have their types. *)
TypeOK ==
    /\ \A j \in Jobs : since[j] \in 0..SinceCap(j) \union {Never}
    /\ \A j \in Jobs : lease[j] \in -(CallDelay + 1)..Lease[j] \union {Free}
    /\ DOMAIN trigger = Triggers
    /\ \A t \in Triggers :
           /\ trigger[t].pc \in {"idle", "next", "claim"} \union Claimed
           /\ trigger[t].at \in 1..(Len(JobList) + 1)
           /\ trigger[t].pc \notin {"idle", "next"} => trigger[t].at <= Len(JobList)
           /\ trigger[t].age \in Nat /\ trigger[t].read \in 0..CallDelay
    /\ faults \in 0..MaxFaults

(* No two triggers run one job at the same time (schema.ts 535-537), through *)
(* crashes and lost answers of the claim and of the records, as long as      *)
(* every run is recorded before its lease is over.  A forced run gives the   *)
(* same as long as no answer to recording a success is lost: the failure     *)
(* recorded after it would free the forced run's lease.                      *)
OneRunAtATime ==
    \A j \in Jobs : Cardinality({t \in RunsOf(j) : trigger[t].pc = "run"}) <= 1

(* However a run is triggered, two recorded successes of a job are at least  *)
(* its interval apart, although the clock that decides on a run is read      *)
(* before the claim reaches the row and the clock of its success before that *)
(* is written.  Only a forced run may come sooner.                           *)
SuccessesAreSpaced ==
    [][\A t \in Triggers \ Forced :
           /\ Succeed(t) \/ (SucceedThrows(t) /\ RecordSuccess(t))
           /\ since[JobOf(t)] # Never
           => since[JobOf(t)] - trigger[t].read >= Interval[JobOf(t)]]_jobVars

(* A job that is enabled is run over and over: neither a crash in a run nor  *)
(* a claim whose answer is lost leaves a lease that stops it for good.       *)
EveryJobRuns == \A j \in Enabled : []<>(RunsOf(j) # {})

(* "two overlapping ticks can't both win" (job-runs.ts 9): two triggers that *)
(* run one job are never both within the lease they were granted, even if a  *)
(* run before them outlived its own.                                         *)
HeldLeaseIsExclusive ==
    \A j \in Jobs : \A t, u \in RunsOf(j) :
        t # u => trigger[t].age > Lease[j] \/ trigger[u].age > Lease[j]
==============================================================================
