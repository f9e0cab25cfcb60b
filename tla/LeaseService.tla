---------------------------- MODULE LeaseService ----------------------------
(***************************************************************************)
(* What a lease promises, without calls, rows or crashes: at most one      *)
(* holder, which keeps the lease until a time that only moves forward, and *)
(* is replaced by another only after that time or after giving it back.    *)
(***************************************************************************)
EXTENDS Integers

CONSTANTS Runs, None, LeaseDuration

VARIABLES clock, holder, until

lvars == <<clock, holder, until>>

Init == clock = 1 /\ holder = None /\ until = 0

Pass == clock' = clock + 1 /\ UNCHANGED <<holder, until>>

Grant(r) ==
    /\ until <= clock
    /\ holder' = r
    /\ until < until' /\ until' <= clock + LeaseDuration
    /\ UNCHANGED clock

Extend(r) ==
    /\ holder = r
    /\ until <= until' /\ until' <= clock + LeaseDuration
    /\ UNCHANGED <<clock, holder>>

Free(r) ==
    /\ holder = r
    /\ holder' = None
    /\ until' = 0
    /\ UNCHANGED clock

Next == Pass \/ \E r \in Runs : Grant(r) \/ Extend(r) \/ Free(r)

Spec == Init /\ [][Next]_lvars
=============================================================================
