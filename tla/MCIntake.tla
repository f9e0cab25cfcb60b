------------------------------ MODULE MCIntake ------------------------------
(***************************************************************************)
(* Small instances of the ways in.                                         *)
(***************************************************************************)
EXTENDS Intake, TLC

CONSTANTS p1, p2, h1, h2, q1, q2, i1, i2, d1, d2, d3, d4, d5, a1, a2

MCFingerprint == q1 :> "f" @@ q2 :> "f"
\* One report, sent and signed once and transmitted twice.
MCSignature == q1 :> "s" @@ q2 :> "s"

MCHook == i1 :> 1 @@ i2 :> 2
MCScope == i1 :> "r1" @@ i2 :> None
MCFirstSecret == i1 :> 1 @@ i2 :> 2

Payload(e, a, s, c) == [event |-> e, action |-> a, status |-> s, conclusion |-> c]

\* d1: no integration has its hook id.  d2: the hook of i2, signed by i1.
\* d3: the hook of i1, another repository than its own.  d4: as d1, and of an
\* action that is ignored.  d5: of i2, without X-GitHub-Delivery.
MCSent ==
    d1 :> [id |-> TRUE, secret |-> 1, hook |-> 9, repo |-> "r1",
           payload |-> Payload("workflow_run", "completed", "completed", "failure")] @@
    d2 :> [id |-> TRUE, secret |-> 1, hook |-> 2, repo |-> "r1",
           payload |-> Payload("workflow_job", "waiting", "in_progress", None)] @@
    d3 :> [id |-> TRUE, secret |-> 1, hook |-> 1, repo |-> "r2",
           payload |-> Payload("workflow_run", "requested", "queued", None)] @@
    d4 :> [id |-> TRUE, secret |-> 1, hook |-> 9, repo |-> "r1",
           payload |-> Payload("workflow_job", "waiting", "waiting", None)] @@
    d5 :> [id |-> FALSE, secret |-> 2, hook |-> 2, repo |-> "r2",
           payload |-> Payload("workflow_job", "completed", "completed", "cancelled")]

\* The processes, deliveries and attempts of the three parts change places together.
Swapped ==
    p1 :> p2 @@ p2 :> p1 @@ h1 :> h2 @@ h2 :> h1 @@ a1 :> a2 @@ a2 :> a1

Symmetric ==
    {p @@ r : p \in {Swapped, [x \in DOMAIN Swapped |-> x]}, r \in Permutations({q1, q2})}
=============================================================================
