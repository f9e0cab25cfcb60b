------------------------- MODULE WorkerLeaseProofs -------------------------
(***************************************************************************)
(* Proofs about WorkerLease, for any number of runs, any lease duration    *)
(* and any bound on the clock: the inductive invariant LeaseInv, the       *)
(* exclusion it implies, and the refinement of LeaseService.               *)
(***************************************************************************)
EXTENDS WorkerLease, TLAPS

(* The initial state satisfies the inductive invariant. *)
LEMMA InitLeaseInv == Init => LeaseInv
  BY RunsAssumption, DurationAssumption
  DEF Init, LeaseInv, TypeOK, Rows, CallsAreFromThePast, RowIsConsistent, FreshTokens,
      RenewalIsLatest, BelievedLeaseIsOwned, Believes, Working, Phases, Holding,
      Finished, NoExpiry

(* What the four writes leave in the row, field by field. *)
LEMMA TakeRowFields ==
  ASSUME row \in Rows, NEW r \in Runs, NEW t \in Nat, TakeRow(r, t)
  PROVE  /\ row' \in Rows
         /\ row'.exists = TRUE /\ row'.owner = r
         /\ row'.expires = t + LeaseDuration /\ row'.completed = row.completed
  BY DurationAssumption DEF TakeRow, Rows, Expiry

LEMMA ExtendRowFields ==
  ASSUME row \in Rows, NEW t \in Nat, ExtendRow(t)
  PROVE  /\ row' \in Rows
         /\ row'.exists = row.exists /\ row'.owner = row.owner
         /\ row'.expires = t + LeaseDuration /\ row'.completed = row.completed
  BY DurationAssumption DEF ExtendRow, Rows, Expiry

LEMMA CompleteRowFields ==
  ASSUME row \in Rows, NEW t \in Nat, CompleteRow(t)
  PROVE  /\ row' \in Rows
         /\ row'.exists = row.exists /\ row'.owner = row.owner
         /\ row'.expires = row.expires /\ row'.completed = t
  BY DEF CompleteRow, Rows

LEMMA FreeRowFields ==
  ASSUME row \in Rows, NEW r \in Runs, NEW t \in Nat, FreeRow(r, t)
  PROVE  /\ row' \in Rows
         /\ row'.exists = row.exists
         /\ row.owner = r => row'.owner = None /\ row'.expires = 0 /\ row'.completed = t
         /\ row.owner # r => row' = row
  BY DEF FreeRow, Rows, NoExpiry

LEMMA CompletedIsNat ==
  ASSUME row \in Rows
  PROVE  row.completed \in Nat
  BY DEF Rows

(* A run that acquires finds the lease expired or null at the instant it   *)
(* captured, since the row cannot carry its fresh token.                   *)
LEMMA AcquiringFindsExpired ==
  ASSUME LeaseInv, NEW r \in Runs, pc[r] \in {"claim", "create"},
         Claimable(r, at[r]) \/ ~row.exists
  PROVE  row.expires <= at[r]
  BY DEF LeaseInv, TypeOK, Rows, FreshTokens, RowIsConsistent, Claimable, NoExpiry

(* Writing an expired row keeps the invariant: no other run can believe it *)
(* still has the lease.                                                    *)
LEMMA TakingKeepsLeaseInv ==
  ASSUME LeaseInv, NEW r \in Runs, pc[r] \in {"claim", "create"},
         row.expires <= at[r], TakeRow(r, at[r]),
         NEW phase \in {"body", "failed", "skipped"}, Goto(r, phase),
         \/ known' = [known EXCEPT ![r] = Expiry(at[r])]
         \/ phase # "body" /\ UNCHANGED known,
         UNCHANGED <<now, at, lost, renewing, renewAt>>
  PROVE  LeaseInv'
  <1> USE DurationAssumption, RunsAssumption DEF Expiry, NoExpiry, Goto
  <1>1. /\ TypeOK /\ at[r] \in Nat /\ row \in Rows /\ pc[r] \in Phases
        /\ at[r] <= now /\ ~renewing[r]
    BY DEF LeaseInv, TypeOK, CallsAreFromThePast, FreshTokens
  <1>2. /\ row' \in Rows /\ row'.exists /\ row'.owner = r
        /\ row'.expires = at[r] + LeaseDuration
    BY <1>1, TakeRowFields
  <1>3. /\ pc' \in [Runs -> Phases]
        /\ pc'[r] = phase
        /\ \A s \in Runs \ {r} : pc'[s] = pc[s]
    BY <1>1 DEF TypeOK, Phases, Holding, Working, Finished
  <1>4. /\ known' \in [Runs -> Nat]
        /\ \A s \in Runs \ {r} : known'[s] = known[s]
        /\ phase = "body" => known'[r] = row'.expires
    BY <1>1, <1>2 DEF TypeOK
  <1>5. TypeOK' /\ CallsAreFromThePast'
    BY <1>1, <1>2, <1>3, <1>4 DEF LeaseInv, TypeOK, CallsAreFromThePast
  <1>6. RowIsConsistent'
    BY <1>1, <1>2 DEF RowIsConsistent, TypeOK
  <1>7. FreshTokens' /\ RenewalIsLatest'
    BY <1>1, <1>2, <1>3 DEF LeaseInv, FreshTokens, RenewalIsLatest
  <1>8. BelievedLeaseIsOwned'
    <2>1. \A s \in Runs \ {r} : ~Believes(s)
      BY <1>1 DEF LeaseInv, BelievedLeaseIsOwned, Believes, TypeOK, Rows
    <2>2. \A s \in Runs \ {r} : ~Believes(s)'
      BY <2>1, <1>3, <1>4 DEF Believes
    <2>3. Believes(r)' => phase = "body"
      BY <1>3 DEF Believes, Working
    <2>4. QED
      BY <1>2, <1>4, <2>2, <2>3 DEF BelievedLeaseIsOwned, TypeOK, Rows
  <1>9. QED
    BY <1>5, <1>6, <1>7, <1>8 DEF LeaseInv

(* Each step keeps the types. *)
LEMMA NextTypeOK == TypeOK /\ [Next]_vars => TypeOK'
  <1> SUFFICES ASSUME TypeOK, [Next]_vars PROVE TypeOK'
    OBVIOUS
  <1> USE DurationAssumption DEF TypeOK, Phases, Holding, Working, Finished
  <1>1. CASE Tick
    BY <1>1 DEF Tick
  <1>2. CASE UNCHANGED vars
    BY <1>2 DEF vars
  <1>3. ASSUME NEW r \in Runs, RunStep(r) PROVE TypeOK'
    <2> at[r] \in Nat /\ renewAt[r] \in Nat
      OBVIOUS
    <2> USE DEF Goto, NotAcquired, Capture, Expiry, NoExpiry
    <2>1. CASE Start(r)
      BY <2>1 DEF Start
    <2>2. CASE Claim(r)
      <3>1. CASE Acquired(r)
        <4>1. row' \in Rows
          BY <3>1, TakeRowFields DEF Acquired
        <4>2. QED
          BY <2>2, <3>1, <4>1 DEF Claim, Acquired
      <3>2. CASE UNCHANGED <<row, known>> /\ Goto(r, "create")
        BY <2>2, <3>2 DEF Claim
      <3> QED
        BY <2>2, <3>1, <3>2 DEF Claim
    <2>3. CASE Create(r)
      <3>1. CASE Acquired(r)
        <4>1. row' \in Rows
          BY <3>1, TakeRowFields DEF Acquired
        <4>2. QED
          BY <2>3, <3>1, <4>1 DEF Create, Acquired
      <3>2. CASE UNCHANGED <<row, known>> /\ NotAcquired(r)
        BY <2>3, <3>2 DEF Create
      <3> QED
        BY <2>3, <3>1, <3>2 DEF Create
    <2>4. CASE AcquireErrors(r)
      BY <2>4, TakeRowFields DEF AcquireErrors
    <2>5. CASE Beat(r)
      BY <2>5 DEF Beat
    <2>6. CASE RenewLands(r)
      <3>1. CASE Renewable(r, renewAt[r])
        BY <2>6, <3>1, ExtendRowFields DEF RenewLands
      <3>2. CASE ~Renewable(r, renewAt[r])
        BY <2>6, <3>2 DEF RenewLands
      <3> QED
        BY <3>1, <3>2
    <2>7. CASE RenewErrors(r)
      BY <2>7, ExtendRowFields DEF RenewErrors
    <2>8. CASE BodyReturns(r)
      BY <2>8 DEF BodyReturns
    <2>9. CASE BodyThrows(r)
      BY <2>9 DEF BodyThrows
    <2>10. CASE MarkSuccess(r)
      BY <2>10, CompleteRowFields DEF MarkSuccess
    <2>11. CASE CheckLost(r)
      BY <2>11 DEF CheckLost
    <2>12. CASE Release(r)
      BY <2>12, FreeRowFields DEF Release
    <2>13. CASE Abort(r)
      BY <2>13, FreeRowFields, CompletedIsNat DEF Abort
    <2>14. CASE Crash(r)
      BY <2>14 DEF Crash
    <2>15. CASE Recycle(r)
      BY <2>15 DEF Recycle
    <2>16. QED
      BY <1>3, <2>1, <2>2, <2>3, <2>4, <2>5, <2>6, <2>7, <2>8, <2>9, <2>10,
         <2>11, <2>12, <2>13, <2>14, <2>15 DEF RunStep
  <1>4. QED
    BY <1>1, <1>2, <1>3 DEF Next

(* Each step keeps the rest of the invariant.  The steps fall into three   *)
(* kinds: those that touch neither the row nor a renewal, those that write *)
(* the row, and those of the heartbeat.                                    *)
LEMMA NextLeaseInv == LeaseInv /\ [Next]_vars => LeaseInv'
  <1> SUFFICES ASSUME LeaseInv, [Next]_vars PROVE LeaseInv'
    OBVIOUS
  <1>1. TypeOK /\ TypeOK'
    BY NextTypeOK DEF LeaseInv
  <1> USE <1>1, RunsAssumption, DurationAssumption
      DEF LeaseInv, CallsAreFromThePast, RowIsConsistent, FreshTokens,
          RenewalIsLatest, BelievedLeaseIsOwned, Believes, Expiry, NoExpiry
  <1>2. CASE Tick
    BY <1>2 DEF Tick, TypeOK, Rows
  <1>3. CASE UNCHANGED vars
    BY <1>3 DEF vars
  <1>4. ASSUME NEW r \in Runs, RunStep(r) PROVE LeaseInv'
    <2> at[r] \in Nat /\ renewAt[r] \in Nat /\ row \in Rows
      BY DEF TypeOK
    <2> USE DEF TypeOK, Goto, NotAcquired, Capture, Working, Holding, Finished, Phases
    <2>1. CASE Start(r)
      BY <2>1 DEF Start
    <2>2. CASE Claim(r)
      <3>1. CASE Acquired(r)
        <4>1. /\ pc[r] = "claim" /\ TakeRow(r, at[r]) /\ Goto(r, "body")
              /\ known' = [known EXCEPT ![r] = Expiry(at[r])]
              /\ UNCHANGED <<now, at, lost, renewing, renewAt>>
          BY <2>2, <3>1 DEF Claim, Acquired
        <4>2. Claimable(r, at[r])
          BY <2>2, <3>1 DEF Claim, Acquired
        <4>3. row.expires <= at[r]
          BY <4>1, <4>2, AcquiringFindsExpired
        <4>4. QED
          BY <4>1, <4>3, TakingKeepsLeaseInv
      <3>2. CASE UNCHANGED <<row, known>> /\ Goto(r, "create")
        BY <2>2, <3>2 DEF Claim
      <3> QED
        BY <2>2, <3>1, <3>2 DEF Claim
    <2>3. CASE Create(r)
      <3>1. CASE Acquired(r)
        <4>1. /\ pc[r] = "create" /\ TakeRow(r, at[r]) /\ Goto(r, "body")
              /\ known' = [known EXCEPT ![r] = Expiry(at[r])]
              /\ UNCHANGED <<now, at, lost, renewing, renewAt>>
          BY <2>3, <3>1 DEF Create, Acquired
        <4>2. ~row.exists
          BY <2>3, <3>1 DEF Create, Acquired
        <4>3. row.expires <= at[r]
          BY <4>1, <4>2, AcquiringFindsExpired
        <4>4. QED
          BY <4>1, <4>3, TakingKeepsLeaseInv
      <3>2. CASE UNCHANGED <<row, known>> /\ NotAcquired(r)
        BY <2>3, <3>2 DEF Create
      <3> QED
        BY <2>3, <3>1, <3>2 DEF Create
    <2>4. CASE AcquireErrors(r)
      <3>1. CASE TakeRow(r, at[r])
        <4>1. PICK phase \in {"failed", "skipped"} : Goto(r, phase)
          BY <2>4 DEF AcquireErrors
        <4>2. row.expires <= at[r]
          <5>1. row.owner # r /\ row'.owner = r
            BY <2>4, <3>1, TakeRowFields DEF AcquireErrors
          <5>2. Claimable(r, at[r]) \/ ~row.exists
            BY <2>4, <5>1 DEF AcquireErrors
          <5>3. QED
            BY <2>4, <5>2, AcquiringFindsExpired DEF AcquireErrors
        <4>3. pc[r] \in {"claim", "create"} /\ UNCHANGED <<now, at, known, lost, renewing, renewAt>>
          BY <2>4 DEF AcquireErrors
        <4>4. phase \in {"body", "failed", "skipped"} /\ phase # "body"
          BY <4>1
        <4>5. QED
          BY <3>1, <4>1, <4>2, <4>3, <4>4, TakingKeepsLeaseInv
      <3>2. CASE UNCHANGED row
        BY <2>4, <3>2 DEF AcquireErrors
      <3> QED
        BY <2>4, <3>1, <3>2 DEF AcquireErrors
    <2>5. CASE Beat(r)
      BY <2>5 DEF Beat
    <2>6. CASE RenewLands(r)
      BY <2>6, ExtendRowFields DEF RenewLands, Renewable
    <2>7. CASE RenewErrors(r)
      BY <2>7, ExtendRowFields DEF RenewErrors, Renewable
    <2>8. CASE BodyReturns(r)
      BY <2>8 DEF BodyReturns
    <2>9. CASE BodyThrows(r)
      BY <2>9 DEF BodyThrows
    <2>10. CASE MarkSuccess(r)
      BY <2>10, CompleteRowFields DEF MarkSuccess
    <2>11. CASE CheckLost(r)
      BY <2>11 DEF CheckLost
    <2>12. CASE Release(r)
      BY <2>12, FreeRowFields DEF Release
    <2>13. CASE Abort(r)
      BY <2>13, FreeRowFields, CompletedIsNat DEF Abort
    <2>14. CASE Crash(r)
      BY <2>14 DEF Crash
    <2>15. CASE Recycle(r)
      BY <2>15 DEF Recycle
    <2>16. QED
      BY <1>4, <2>1, <2>2, <2>3, <2>4, <2>5, <2>6, <2>7, <2>8, <2>9, <2>10,
         <2>11, <2>12, <2>13, <2>14, <2>15 DEF RunStep
  <1>5. QED
    BY <1>2, <1>3, <1>4 DEF Next

----------------------------------------------------------------------------
(* The theorems.                                                           *)

(* The strengthened invariant holds in every reachable state; the types    *)
(* are its first part.                                                     *)
THEOREM LeaseInvariant == Spec => []LeaseInv
  BY InitLeaseInv, NextLeaseInv, PTL DEF Spec

(* Types of the row of worker_leases and of the state of the runs.         *)
THEOREM TypeCorrect == Spec => []TypeOK
  <1>1. LeaseInv => TypeOK
    BY DEF LeaseInv
  <1>2. QED
    BY <1>1, LeaseInvariant, PTL

(* runWithWorkerLease never lets two runs work under leases that both      *)
(* believe valid: both would own the one row.                              *)
THEOREM Exclusion == Spec => []LeaseExclusion
  <1>1. LeaseInv => LeaseExclusion
    BY DEF LeaseInv, BelievedLeaseIsOwned, LeaseExclusion
  <1>2. QED
    BY <1>1, LeaseInvariant, PTL

(* The effect of any step on the row, as the lease service sees it.        *)
LEMMA StepOnRow ==
  ASSUME LeaseInv, [Next]_vars
  PROVE  \/ now' = now + 1 /\ UNCHANGED <<row.owner, row.expires>>
         \/ UNCHANGED <<now, row.owner, row.expires>>
         \/ \E r \in Runs :
              /\ UNCHANGED now
              /\ \/ /\ row.expires <= now /\ row'.owner = r
                    /\ row.expires < row'.expires /\ row'.expires <= now + LeaseDuration
                 \/ /\ row.owner = r /\ row'.owner = r
                    /\ row.expires <= row'.expires /\ row'.expires <= now + LeaseDuration
                 \/ /\ row.owner = r /\ pc[r] \in {"release", "abort"}
                    /\ row'.owner = None /\ row'.expires = NoExpiry
  <1> USE DurationAssumption
  <1>1. TypeOK /\ row \in Rows /\ row.expires \in Nat /\ now \in Nat
    BY DEF LeaseInv, TypeOK, Rows
  <1>2. CASE Tick
    BY <1>2 DEF Tick
  <1>3. CASE UNCHANGED vars
    BY <1>3 DEF vars
  <1>4. ASSUME NEW r \in Runs, RunStep(r)
        PROVE  \/ UNCHANGED <<now, row.owner, row.expires>>
               \/ /\ UNCHANGED now
                  /\ \/ /\ row.expires <= now /\ row'.owner = r
                        /\ row.expires < row'.expires /\ row'.expires <= now + LeaseDuration
                     \/ /\ row.owner = r /\ row'.owner = r
                        /\ row.expires <= row'.expires /\ row'.expires <= now + LeaseDuration
                     \/ /\ row.owner = r /\ pc[r] \in {"release", "abort"}
                        /\ row'.owner = None /\ row'.expires = NoExpiry
    <2>1. /\ at[r] \in Nat /\ renewAt[r] \in Nat
          /\ at[r] <= now /\ renewAt[r] <= now
      BY <1>1 DEF LeaseInv, TypeOK, CallsAreFromThePast
    <2>2. ASSUME pc[r] \in {"claim", "create"}, TakeRow(r, at[r]),
                 Claimable(r, at[r]) \/ ~row.exists
          PROVE  /\ row.expires <= now /\ row'.owner = r
                 /\ row.expires < row'.expires /\ row'.expires <= now + LeaseDuration
      <3>1. row.expires <= at[r]
        BY <2>2, AcquiringFindsExpired
      <3>2. row'.owner = r /\ row'.expires = at[r] + LeaseDuration
        BY <2>2, <2>1, <1>1, TakeRowFields
      <3>3. QED
        BY <3>1, <3>2, <2>1, <1>1
    <2>3. ASSUME renewing[r], Renewable(r, renewAt[r]), ExtendRow(renewAt[r])
          PROVE  /\ row.owner = r /\ row'.owner = r
                 /\ row.expires <= row'.expires /\ row'.expires <= now + LeaseDuration
      <3>1. row'.owner = row.owner /\ row'.expires = renewAt[r] + LeaseDuration
        BY <2>3, <2>1, <1>1, ExtendRowFields
      <3>2. row.owner = r /\ row.expires <= renewAt[r] + LeaseDuration
        BY <2>3 DEF LeaseInv, RenewalIsLatest, Renewable, Expiry
      <3>3. QED
        BY <3>1, <3>2, <2>1, <1>1
    <2>4. CASE Claim(r) \/ Create(r) \/ AcquireErrors(r)
      BY <2>2, <2>4 DEF Claim, Create, AcquireErrors, Acquired
    <2>5. CASE RenewLands(r) \/ RenewErrors(r)
      BY <2>3, <2>5 DEF RenewLands, RenewErrors
    <2>6. CASE MarkSuccess(r)
      BY <2>6, <2>1, <1>1, CompleteRowFields DEF MarkSuccess
    <2>7. CASE Release(r) \/ Abort(r)
      BY <2>7, <2>1, <1>1, FreeRowFields, CompletedIsNat DEF Release, Abort, NoExpiry
    <2>8. CASE Start(r) \/ Beat(r) \/ BodyReturns(r) \/ BodyThrows(r)
               \/ CheckLost(r) \/ Crash(r) \/ Recycle(r)
      BY <2>8 DEF Start, Beat, BodyReturns, BodyThrows, CheckLost, Crash, Recycle
    <2>9. QED
      BY <1>4, <2>4, <2>5, <2>6, <2>7, <2>8 DEF RunStep
  <1>5. QED
    BY <1>2, <1>3, <1>4 DEF Next

(* releaseWorkerLease and acquireWorkerLease: the row leaves a run only    *)
(* when its lease has expired or the run itself gives it back.             *)
THEOREM ChangesHandsFairly == Spec => LeaseChangesHandsFairly
  <1>1. LeaseInv /\ [Next]_vars =>
          [\A r \in Runs :
            row.owner = r /\ row'.owner # r =>
                \/ row'.owner = None /\ pc[r] \in {"release", "abort"}
                \/ row'.owner # None /\ row.expires <= now]_vars
    <2> SUFFICES ASSUME LeaseInv, [Next]_vars, NEW r \in Runs,
                        row.owner = r, row'.owner # r
                 PROVE  \/ row'.owner = None /\ pc[r] \in {"release", "abort"}
                        \/ row'.owner # None /\ row.expires <= now
      OBVIOUS
    <2>1. QED
      BY StepOnRow, RunsAssumption
  <1>2. QED
    BY <1>1, LeaseInvariant, PTL DEF Spec, LeaseChangesHandsFairly

(* The row of worker_leases implements the abstract lease.                 *)
THEOREM RefinesLeaseService == Spec => ImplementsLeaseService
  <1>1. Init => Service!Init
    BY DEF Init, Service!Init, NoExpiry
  <1>2. LeaseInv /\ [Next]_vars => [Service!Next]_Service!lvars
    <2> SUFFICES ASSUME LeaseInv, [Next]_vars
                 PROVE  Service!Next \/ UNCHANGED <<now, row.owner, row.expires>>
      BY DEF Service!lvars
    <2>1. QED
      BY StepOnRow DEF Service!Next, Service!Pass, Service!Grant, Service!Extend,
                       Service!Free, NoExpiry
  <1>3. QED
    BY <1>1, <1>2, LeaseInvariant, PTL DEF Spec, Service!Spec, ImplementsLeaseService
=============================================================================
