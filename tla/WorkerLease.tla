---------------------------- MODULE WorkerLease ----------------------------
(***************************************************************************)
(* The worker lease: one row of worker_leases, and the runs of             *)
(* runWithWorkerLease that compete for it (worker-lease-service.ts).  A    *)
(* run of a pipeline stage also writes the row through                     *)
(* markPipelineStageSuccess (pipeline-freshness-service.ts), as wrapped by *)
(* runSchedulerTask (scheduler-execution-service.ts).                      *)
(*                                                                         *)
(* Every service function reads `new Date()` before it calls the database, *)
(* so a call carries a timestamp (`at`, `renewAt`) that may be old when    *)
(* the database applies it.  A call that fails may or may not have been    *)
(* applied.  A run may crash at any point, and the renewal it had in       *)
(* flight may still reach the database.                                    *)
(***************************************************************************)
EXTENDS Integers

CONSTANTS
    Runs,           \* owner tokens, one for each run that may be alive at a time
    None,           \* owner_token = null
    LeaseDuration,  \* leaseDurationMs
    MaxNow          \* bound on the clock

ASSUME RunsAssumption == None \notin Runs
ASSUME DurationAssumption == LeaseDuration \in Nat \ {0}
ASSUME MaxNowAssumption == MaxNow \in Nat

VARIABLES
    now,       \* wall clock
    row,       \* the row: exists, owner_token, lease_expires_at, last_completed_at
    pc,        \* how far each run is
    at,        \* the `now` captured by the outstanding call of each run
    known,     \* the expiry the run was last told it has
    lost,      \* leaseLost
    renewing,  \* renewInFlight
    renewAt    \* the `now` captured by the renewal in flight

vars == <<now, row, pc, at, known, lost, renewing, renewAt>>

\* lease_expires_at = null compares like the earliest instant: every acquire
\* may claim the row and no renewal finds it still valid.
NoExpiry == 0

\* The phases in which the body of the run executes under the lease.
Working == {"body", "mark", "check"}

\* The phases in which the heartbeat interval of the run exists.
Holding == Working \cup {"release", "abort"}

Finished == {"done", "skipped", "failed", "crashed"}

Phases == {"idle", "claim", "create"} \cup Holding \cup Finished

Rows == [exists : BOOLEAN, owner : Runs \cup {None}, expires : Nat, completed : Nat]

Init ==
    /\ now = 1
    /\ row = [exists |-> FALSE, owner |-> None, expires |-> NoExpiry, completed |-> 0]
    /\ pc = [r \in Runs |-> "idle"]
    /\ at = [r \in Runs |-> 0]
    /\ known = [r \in Runs |-> NoExpiry]
    /\ lost = [r \in Runs |-> FALSE]
    /\ renewing = [r \in Runs |-> FALSE]
    /\ renewAt = [r \in Runs |-> 0]

----------------------------------------------------------------------------
(* The conditional writes of the three lease operations.                   *)

Expiry(t) == t + LeaseDuration

Goto(r, phase) == pc' = [pc EXCEPT ![r] = phase]

Capture(r) == at' = [at EXCEPT ![r] = now]

\* Faulty: a valid lease of another run is claimed.
ClaimableAnytime(r, t) == row.exists

\* Faulty: only a released lease is claimed, not an expired one.
ClaimableWhenReleased(r, t) ==
    /\ row.exists
    /\ row.expires = NoExpiry \/ row.owner = r

\* where: lease_expires_at null or lte now, or owner_token = me.
Claimable(r, t) ==
    /\ row.exists
    /\ row.expires <= t \/ row.owner = r

\* Faulty: the lease of another run is renewed.
RenewableByAnyone(r, t) == row.expires > t

\* where: owner_token = me and lease_expires_at gt now.
Renewable(r, t) ==
    /\ row.owner = r
    /\ row.expires > t

TakeRow(r, t) ==
    row' = [exists |-> TRUE, owner |-> r, expires |-> Expiry(t), completed |-> row.completed]

ExtendRow(t) == row' = [row EXCEPT !.expires = Expiry(t)]

\* The upsert of updateStageHeartbeat: no condition on the owner.
CompleteRow(t) == row' = [row EXCEPT !.completed = t]

\* Faulty: the lease of a successor is released too.
FreeRowOfAnyone(r, completed) ==
    row' = [row EXCEPT !.owner = None, !.expires = NoExpiry, !.completed = completed]

\* Faulty: lease_expires_at is left as it is.
FreeRowOwnerOnly(r, completed) ==
    row' = IF row.owner = r THEN [row EXCEPT !.owner = None, !.completed = completed] ELSE row

\* releaseWorkerLease: where owner_token = me; `completed` is the new
\* last_completed_at.
FreeRow(r, completed) ==
    row' = IF row.owner = r
           THEN [row EXCEPT !.owner = None, !.expires = NoExpiry, !.completed = completed]
           ELSE row

----------------------------------------------------------------------------
(* Acquiring.                                                              *)

Start(r) ==
    /\ pc[r] = "idle"
    /\ Goto(r, "claim")
    /\ Capture(r)
    /\ UNCHANGED <<now, row, known, lost, renewing, renewAt>>

Acquired(r) ==
    /\ TakeRow(r, at[r])
    /\ known' = [known EXCEPT ![r] = Expiry(at[r])]
    /\ Goto(r, "body")

\* The updateMany of acquireWorkerLease.
Claim(r) ==
    /\ pc[r] = "claim"
    /\ \/ Claimable(r, at[r]) /\ Acquired(r)
       \/ ~Claimable(r, at[r]) /\ Goto(r, "create") /\ UNCHANGED <<row, known>>
    /\ UNCHANGED <<now, at, lost, renewing, renewAt>>

\* The findUnique after a create that failed: "held by another", or an error
\* that rejects the run.
NotAcquired(r) == Goto(r, "skipped") \/ Goto(r, "failed")

\* The create of acquireWorkerLease: worker_name is unique.
Create(r) ==
    /\ pc[r] = "create"
    /\ \/ ~row.exists /\ Acquired(r)
       \/ row.exists /\ NotAcquired(r) /\ UNCHANGED <<row, known>>
    /\ UNCHANGED <<now, at, lost, renewing, renewAt>>

\* The call fails, before or after the database applied it.  A failed
\* updateMany rejects the run; a failed create goes on to the findUnique.
AcquireErrors(r) ==
    /\ \/ /\ pc[r] = "claim"
          /\ Goto(r, "failed")
          /\ \/ UNCHANGED row
             \/ Claimable(r, at[r]) /\ TakeRow(r, at[r])
       \/ /\ pc[r] = "create"
          /\ ~row.exists
          /\ NotAcquired(r)
          /\ UNCHANGED row \/ TakeRow(r, at[r])
    /\ UNCHANGED <<now, at, known, lost, renewing, renewAt>>

----------------------------------------------------------------------------
(* The heartbeat.                                                          *)

\* The interval fires: nothing is sent while leaseLost or renewInFlight.
Beat(r) ==
    /\ pc[r] \in Holding
    /\ ~lost[r]
    /\ ~renewing[r]
    /\ renewing' = [renewing EXCEPT ![r] = TRUE]
    /\ renewAt' = [renewAt EXCEPT ![r] = now]
    /\ UNCHANGED <<now, row, pc, at, known, lost>>

\* The updateMany of renewWorkerLease and its answer, which arrives even
\* after the run has released the lease or has crashed.
RenewLands(r) ==
    /\ renewing[r]
    /\ \/ /\ Renewable(r, renewAt[r])
          /\ ExtendRow(renewAt[r])
          /\ known' = [known EXCEPT ![r] = Expiry(renewAt[r])]
          /\ UNCHANGED lost
       \/ /\ ~Renewable(r, renewAt[r])
          /\ lost' = [lost EXCEPT ![r] = TRUE]
          /\ UNCHANGED <<row, known>>
    /\ renewing' = [renewing EXCEPT ![r] = FALSE]
    /\ UNCHANGED <<now, pc, at, renewAt>>

\* The renewal fails, applied or not: the lease counts as lost.
RenewErrors(r) ==
    /\ renewing[r]
    /\ \/ row' = row
       \/ Renewable(r, renewAt[r]) /\ ExtendRow(renewAt[r])
    /\ lost' = [lost EXCEPT ![r] = TRUE]
    /\ renewing' = [renewing EXCEPT ![r] = FALSE]
    /\ UNCHANGED <<now, pc, at, known, renewAt>>

----------------------------------------------------------------------------
(* The run and the release.                                                *)

\* The body returns; a pipeline stage then marks its success ("mark"), a
\* worker of the operational pipeline goes straight to the leaseLost check.
BodyReturns(r) ==
    /\ pc[r] = "body"
    /\ Goto(r, "mark") \/ Goto(r, "check")
    /\ Capture(r)
    /\ UNCHANGED <<now, row, known, lost, renewing, renewAt>>

\* The body throws: markPipelineStageFailure touches no field modelled here.
BodyThrows(r) ==
    /\ pc[r] = "body"
    /\ Goto(r, "abort")
    /\ UNCHANGED <<now, row, at, known, lost, renewing, renewAt>>

\* markPipelineStageSuccess: an upsert that does not look at the owner; when
\* it fails the run rejects.
MarkSuccess(r) ==
    /\ pc[r] = "mark"
    /\ \/ Goto(r, "check") /\ CompleteRow(at[r])
       \/ Goto(r, "abort") /\ (UNCHANGED row \/ CompleteRow(at[r]))
    /\ UNCHANGED <<now, at, known, lost, renewing, renewAt>>

\* `if (leaseLost) throw`.
CheckLost(r) ==
    /\ pc[r] = "check"
    /\ Goto(r, IF lost[r] THEN "abort" ELSE "release")
    /\ Capture(r)
    /\ UNCHANGED <<now, row, known, lost, renewing, renewAt>>

\* releaseWorkerLease with completed: true; an error falls into the catch.
Release(r) ==
    /\ pc[r] = "release"
    /\ \/ Goto(r, "done") /\ FreeRow(r, at[r])
       \/ Goto(r, "abort") /\ (UNCHANGED row \/ FreeRow(r, at[r]))
    /\ UNCHANGED <<now, at, known, lost, renewing, renewAt>>

\* releaseWorkerLease with completed: false; its error is only logged.
Abort(r) ==
    /\ pc[r] = "abort"
    /\ FreeRow(r, row.completed) \/ UNCHANGED row
    /\ Goto(r, "failed")
    /\ UNCHANGED <<now, at, known, lost, renewing, renewAt>>

----------------------------------------------------------------------------
(* The environment.                                                        *)

Crash(r) ==
    /\ pc[r] \in Phases \ (Finished \cup {"idle"})
    /\ Goto(r, "crashed")
    /\ UNCHANGED <<now, row, at, known, lost, renewing, renewAt>>

\* The next run takes the place of a finished one, under a fresh owner token:
\* no trace of the old token is left in the row or in a call under way.
Recycle(r) ==
    /\ pc[r] \in Finished
    /\ ~renewing[r]
    /\ row.owner # r
    /\ Goto(r, "idle")
    /\ at' = [at EXCEPT ![r] = 0]
    /\ known' = [known EXCEPT ![r] = NoExpiry]
    /\ lost' = [lost EXCEPT ![r] = FALSE]
    /\ renewAt' = [renewAt EXCEPT ![r] = 0]
    /\ UNCHANGED <<now, row, renewing>>

Tick ==
    /\ now < MaxNow
    /\ now' = now + 1
    /\ UNCHANGED <<row, pc, at, known, lost, renewing, renewAt>>

RunStep(r) ==
    \/ Start(r) \/ Claim(r) \/ Create(r) \/ AcquireErrors(r)
    \/ Beat(r) \/ RenewLands(r) \/ RenewErrors(r)
    \/ BodyReturns(r) \/ BodyThrows(r) \/ MarkSuccess(r) \/ CheckLost(r)
    \/ Release(r) \/ Abort(r)
    \/ Crash(r) \/ Recycle(r)

Next == Tick \/ \E r \in Runs : RunStep(r)

Spec == Init /\ [][Next]_vars

\* The scheduler and the worker loops keep invoking runs, the database
\* answers or fails but does not fail every claim forever (SF), and the clock
\* moves.  Nothing makes a heartbeat fire in time, a body fail or a run crash.
Fairness ==
    /\ WF_vars(Tick)
    /\ \A r \in Runs :
        /\ WF_vars(Start(r)) /\ SF_vars(Claim(r)) /\ WF_vars(Create(r))
        /\ WF_vars(RenewLands(r))
        /\ WF_vars(BodyReturns(r)) /\ WF_vars(MarkSuccess(r)) /\ WF_vars(CheckLost(r))
        /\ WF_vars(Release(r)) /\ WF_vars(Abort(r))
        /\ WF_vars(Recycle(r))

FairSpec == Spec /\ Fairness

----------------------------------------------------------------------------
(* Properties.                                                             *)

\* Every variable has its type.
TypeOK ==
    /\ now \in Nat
    /\ row \in Rows
    /\ pc \in [Runs -> Phases]
    /\ at \in [Runs -> Nat]
    /\ known \in [Runs -> Nat]
    /\ lost \in [Runs -> BOOLEAN]
    /\ renewing \in [Runs -> BOOLEAN]
    /\ renewAt \in [Runs -> Nat]

\* The run works under a lease that, for all it was told, is still valid.
Believes(r) ==
    /\ pc[r] \in Working
    /\ ~lost[r]
    /\ known[r] > now

\* Two runs never work at the same time under leases both believe valid:
\* what runWithWorkerLease is for.  (Two runs do overlap once one of them has
\* outlived its lease: nothing stops its body.)
LeaseExclusion ==
    \A r, s \in Runs : Believes(r) /\ Believes(s) => r = s

\* The strengthening of LeaseExclusion that the steps preserve: what a run
\* was told is never more than what the row says, in spite of old timestamps
\* and of renewals that land late.
CallsAreFromThePast ==
    \A r \in Runs : at[r] <= now /\ renewAt[r] <= now

RowIsConsistent ==
    /\ row.owner = None <=> row.expires = NoExpiry
    /\ ~row.exists => row.owner = None
    /\ row.expires <= now + LeaseDuration

FreshTokens ==
    \A r \in Runs :
        pc[r] \in {"idle", "claim", "create"} => row.owner # r /\ ~renewing[r]

RenewalIsLatest ==
    \A r \in Runs :
        renewing[r] /\ row.owner = r => row.expires <= Expiry(renewAt[r])

BelievedLeaseIsOwned ==
    \A r \in Runs : Believes(r) => row.owner = r /\ known[r] <= row.expires

LeaseInv ==
    /\ TypeOK
    /\ CallsAreFromThePast
    /\ RowIsConsistent
    /\ FreshTokens
    /\ RenewalIsLatest
    /\ BelievedLeaseIsOwned

\* The lease leaves a run only when it has expired or when that very run
\* gives it back: a run that has outlived its lease never frees the lease of
\* its successor.
LeaseChangesHandsFairly ==
    [][\A r \in Runs :
        row.owner = r /\ row'.owner # r =>
            \/ row'.owner = None /\ pc[r] \in {"release", "abort"}
            \/ row'.owner # None /\ row.expires <= now]_vars

\* The row implements the lease of LeaseService: among others a renewal never
\* shortens a lease, although renewals carry old timestamps.
Service == INSTANCE LeaseService WITH clock <- now, holder <- row.owner, until <- row.expires
ImplementsLeaseService == Service!Spec

\* A crashed run does not keep the lease: once it expires within the modelled
\* time, with no renewal under way, a later run takes it.
CrashedHolderIsReplaced ==
    \A r \in Runs :
        (/\ pc[r] = "crashed" /\ ~renewing[r]
         /\ row.owner = r /\ row.expires <= MaxNow) ~> (row.owner # r)
=============================================================================
