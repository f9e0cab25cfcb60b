------------------------------ MODULE Sources -------------------------------
(***************************************************************************)
(* The sources of one tenant and the plan that limits them: the trial      *)
(* (tenant-trial-service.ts), the capacity (entitlement-guard-service.ts,  *)
(* source-service.ts), and the routes that create, register and deactivate *)
(* sources (routes/control-plane.ts, routes/workflows.ts).                 *)
(*                                                                         *)
(* Requests run concurrently; each read and each write is a step.  The     *)
(* time is taken before the row of the tenant is read: a request holds any *)
(* time up to the one at which it reads.  The keys that sources come with  *)
(* are in ControlPlane.                                                    *)
(***************************************************************************)
EXTENDS Integers

CONSTANTS
    Workflows,  \* slugs of workflows
    Hooks,      \* GitHub integrations
    Requests,
    Trial,      \* TRIAL_DURATION_DAYS
    None,
    MaxNow,     \* bound on the clock
    MaxChanges  \* bound on changes of the plan

\* What the proofs assume of the constants.
Proper ==
    /\ Workflows \cap Hooks = {} /\ None \notin Workflows \cup Hooks
    /\ None \notin {"create", "register", "read"}
    /\ Trial \in Nat /\ MaxNow \in Nat \ {0}

VARIABLES
    now,
    plan,
    trial,    \* the trial columns of the tenant
    active,   \* active workflows and integrations
    gone,     \* deactivated integrations
    versions, \* workflow_versions of each workflow
    guards,   \* missing-heartbeat policies of each workflow
    pc,
    req,      \* what each request is about, its time, and the plan or row it read
    stale,    \* requests whose reads were overtaken
    changes

vars == <<now, plan, trial, active, gone, versions, guards, pc, req, stale, changes>>

tenant == <<plan, trial>>
sources == <<active, gone, versions, guards>>

NoTrial == [status |-> "none", started |-> 0, ends |-> 0, source |-> None]

NoRequest ==
    [op |-> None, source |-> None, at |-> 0, free |-> FALSE, row |-> NoTrial, found |-> FALSE]

Phases == {"idle", "sync", "existing", "count", "create", "version", "guard", "trial", "start"}

Init ==
    /\ now = 1
    /\ plan = "free"
    /\ trial = NoTrial
    /\ active = {} /\ gone = {}
    /\ versions = [w \in Workflows |-> 0]
    /\ guards = [w \in Workflows |-> 0]
    /\ pc = [r \in Requests |-> "idle"]
    /\ req = [r \in Requests |-> NoRequest]
    /\ stale = {}
    /\ changes = 0

Goto(r, phase) == pc' = [pc EXCEPT ![r] = phase]

Finish(r) ==
    /\ Goto(r, "idle")
    /\ req' = [req EXCEPT ![r] = NoRequest]
    /\ stale' = stale \ {r}

\* What the other requests read is no longer so.
Overtaken == {r \in Requests : pc[r] \in {"sync", "existing", "count", "create"}}

\* deriveTrialStatus.
Status(row, at) ==
    IF row.started = 0 THEN "none" ELSE IF row.ends > at THEN "active" ELSE "expired"

\* resolveEffectivePlan.
FreeAt(at) == plan = "free" /\ Status(trial, at) # "active"

Free == FreeAt(now)

----------------------------------------------------------------------------
(* Entitlements and capacity.                                              *)

\* A request that needs the tenant's access: getTenantEntitlements takes the
\* time and then reads the row.
Access(r) ==
    /\ pc[r] = "idle"
    /\ \E op \in {"create", "register", "read"}, s \in Workflows \cup Hooks \cup {None} :
        /\ CASE op = "create" -> s \in (Workflows \cup Hooks) \ (active \cup gone)
             [] op = "register" -> s \in Workflows
             [] OTHER -> s = None
        /\ \E at \in 1 .. now :
            /\ req' = [req EXCEPT ![r] = [NoRequest EXCEPT !.op = op, !.source = s, !.at = at,
                                           !.free = FreeAt(at), !.row = trial]]
            /\ stale' = IF at = now THEN stale ELSE stale \cup {r}
    /\ Goto(r, "sync")
    /\ UNCHANGED <<now, tenant, sources, changes>>

\* The time and the row are not looked at again.
Forget(r) == req' = [req EXCEPT ![r].at = 0, ![r].row = NoTrial] /\ UNCHANGED stale

AfterSync(r) ==
    CASE req[r].op = "create" -> Goto(r, "count") /\ Forget(r)
      [] req[r].op = "register" -> Goto(r, "existing") /\ Forget(r)
      [] OTHER -> Finish(r)

\* Faulty: the status is written even when the row had it.
SyncAlways(r) ==
    /\ pc[r] = "sync"
    /\ trial' = [trial EXCEPT !.status = Status(req[r].row, req[r].at)]
    /\ AfterSync(r)
    /\ UNCHANGED <<now, plan, sources, changes>>

\* syncStoredTrialStatus: the derived status, if the row had another.
Sync(r) ==
    /\ pc[r] = "sync"
    /\ LET status == Status(req[r].row, req[r].at)
       IN trial' = IF req[r].row.status # status THEN [trial EXCEPT !.status = status] ELSE trial
    /\ AfterSync(r)
    /\ UNCHANGED <<now, plan, sources, changes>>

\* POST /workflows/register: a workflow that exists takes no capacity.
Existing(r) ==
    /\ pc[r] = "existing"
    /\ Goto(r, IF req[r].source \in active THEN "create" ELSE "count")
    /\ UNCHANGED <<now, tenant, sources, req, stale, changes>>

\* countCapacitySourcesForTenant, requireSourceCapacity: one on the free plan.
Count(r) ==
    /\ pc[r] = "count"
    /\ IF req[r].free /\ active # {}
       THEN Finish(r)
       ELSE Goto(r, "create") /\ UNCHANGED <<req, stale>>
    /\ UNCHANGED <<now, tenant, sources, changes>>

\* The new workflow source, with its version in one transaction: a name that is
\* taken by now is replaced by another.
CreateWorkflow(r) ==
    /\ pc[r] = "create" /\ req[r].op = "create" /\ req[r].source \in Workflows
    /\ \E w \in Workflows \ active :
        /\ active' = active \cup {w}
        /\ versions' = [versions EXCEPT ![w] = 1]
    /\ stale' = (stale \cup Overtaken) \ {r}
    /\ Goto(r, "trial")
    /\ UNCHANGED <<now, tenant, gone, guards, req, changes>>

\* The new integration, whose webhook id is random.
CreateIntegration(r) ==
    /\ pc[r] = "create" /\ req[r].op = "create" /\ req[r].source \in Hooks
    /\ \E g \in Hooks \ (active \cup gone) : active' = active \cup {g}
    /\ stale' = (stale \cup Overtaken) \ {r}
    /\ Goto(r, "idle")
    /\ req' = [req EXCEPT ![r] = NoRequest]
    /\ UNCHANGED <<now, tenant, gone, versions, guards, changes>>

\* The upsert of a registration.
Upsert(r) ==
    /\ pc[r] = "create" /\ req[r].op = "register"
    /\ active' = active \cup {req[r].source}
    /\ stale' = (IF req[r].source \in active THEN stale ELSE stale \cup Overtaken) \ {r}
    /\ req' = [req EXCEPT ![r].found = (versions[req[r].source] > 0)]
    /\ Goto(r, "version")
    /\ UNCHANGED <<now, tenant, gone, versions, guards, changes>>

\* A version, and a missing-heartbeat policy (ensureMissingHeartbeatPolicy),
\* unless one was found.
Version(r) ==
    /\ pc[r] = "version"
    /\ versions' = [versions EXCEPT ![req[r].source] = IF req[r].found THEN @ ELSE @ + 1]
    /\ req' = [req EXCEPT ![r].found = (guards[req[r].source] > 0)]
    /\ Goto(r, "guard")
    /\ UNCHANGED <<now, tenant, active, gone, guards, stale, changes>>

Guard(r) ==
    /\ pc[r] = "guard"
    /\ guards' = [guards EXCEPT ![req[r].source] = IF req[r].found THEN @ ELSE @ + 1]
    /\ Goto(r, "trial")
    /\ UNCHANGED <<now, tenant, active, gone, versions, req, stale, changes>>

\* Faulty: is_active stays.
DeactivateKeeping(g) ==
    /\ g \in active
    /\ gone' = gone \cup {g}
    /\ UNCHANGED <<now, tenant, active, versions, guards, pc, req, stale, changes>>

\* POST /control-plane/github-integrations/:id/deactivate.
Deactivate(g) ==
    /\ g \in active
    /\ active' = active \ {g}
    /\ gone' = gone \cup {g}
    /\ UNCHANGED <<now, tenant, versions, guards, pc, req, stale, changes>>

----------------------------------------------------------------------------
(* The trial.                                                              *)

\* startTrialIfEligible takes the time and reads the row, for an event that
\* starts trials: a source, an ingested event, a scan, or somebody's choice.
ReadTrial(r) ==
    /\ pc[r] \in {"idle", "trial"}
    /\ \E at \in 1 .. now :
        IF FreeAt(at) /\ trial.started = 0
        THEN Goto(r, "start") /\ req' = [req EXCEPT ![r] = [NoRequest EXCEPT !.at = at]] /\ UNCHANGED stale
        ELSE Finish(r)
    /\ UNCHANGED <<now, tenant, sources, changes>>

Started(at, source) ==
    [status |-> "active", started |-> at, ends |-> at + Trial, source |-> source]

\* The conditional update.
Start(r) ==
    /\ pc[r] = "start"
    /\ \E source \in {"manual", "auto"} :
        trial' = IF trial.started = 0 /\ plan = "free" THEN Started(req[r].at, source) ELSE trial
    /\ Finish(r)
    /\ UNCHANGED <<now, plan, sources, changes>>

----------------------------------------------------------------------------
(* The environment.                                                        *)

Tick ==
    /\ now < MaxNow /\ now' = now + 1
    /\ stale' = stale \cup Overtaken
    /\ UNCHANGED <<tenant, sources, pc, req, changes>>

\* Billing changes the plan.
ChangePlan ==
    /\ changes < MaxChanges /\ changes' = changes + 1
    /\ plan' = IF plan = "free" THEN "pro" ELSE "free"
    /\ stale' = stale \cup Overtaken
    /\ UNCHANGED <<now, trial, sources, pc, req>>

\* The process dies, or a call fails.
Crash(r) ==
    /\ pc[r] # "idle"
    /\ Finish(r)
    /\ UNCHANGED <<now, tenant, sources, changes>>

Next ==
    \/ \E r \in Requests :
        \/ Access(r) \/ Sync(r) \/ Existing(r) \/ Count(r)
        \/ CreateWorkflow(r) \/ CreateIntegration(r) \/ Upsert(r) \/ Version(r) \/ Guard(r)
        \/ ReadTrial(r) \/ Start(r)
        \/ Crash(r)
    \/ \E g \in Hooks : Deactivate(g)
    \/ Tick \/ ChangePlan

Spec == Init /\ [][Next]_vars

----------------------------------------------------------------------------
(* Properties.                                                             *)

TrialRows ==
    [status : {"none", "active", "expired"}, started : 0 .. MaxNow, ends : Nat,
     source : {None, "manual", "auto"}]

RequestRows ==
    [op : {None, "create", "register", "read"}, source : Workflows \cup Hooks \cup {None},
     at : 0 .. MaxNow, free : BOOLEAN, row : TrialRows, found : BOOLEAN]

\* The shape of every variable.
TypeOK ==
    /\ now \in 1 .. MaxNow
    /\ plan \in {"free", "pro"}
    /\ trial \in TrialRows
    /\ active \subseteq Workflows \cup Hooks /\ gone \subseteq Hooks \ active
    /\ versions \in [Workflows -> Nat] /\ guards \in [Workflows -> Nat]
    /\ pc \in [Requests -> Phases]
    /\ req \in [Requests -> RequestRows]

\* A trial that did not start has no status, and one that did has one.
IsTrial(row) == row.started = 0 <=> row.status = "none"

\* What a request in a phase is about, and what the row it read tells of the
\* tenant's.
ProperIn(phase, q) ==
    /\ phase = "idle" => q = NoRequest
    /\ phase = "sync" => IsTrial(q.row) /\ (q.row.started # 0 => trial.started # 0)
    /\ phase = "start" => q.at # 0
    /\ q.op = "register" => q.source \in Workflows
    /\ phase \in {"existing", "version", "guard"} => q.op = "register"
    /\ phase \in {"count", "create"} => q.op \in {"create", "register"}

RequestsAreProper == \A r \in Requests : ProperIn(pc[r], req[r])

\* A request that is not overtaken knows when the tenant is on the free plan,
\* and goes on to create a source only when there is none yet, or the very one
\* that it registers.
DecisionsHold ==
    \A r \in Requests \ stale : Free =>
        /\ pc[r] \in {"sync", "existing", "count", "create"} => req[r].free
        /\ pc[r] = "create" => active = {} \/ (req[r].op = "register" /\ req[r].source \in active)

\* The inductive invariant.
SourcesInv == TypeOK /\ IsTrial(trial) /\ RequestsAreProper /\ DecisionsHold

\* A tenant gets one trial, and only while its plan is free: once started the
\* trial keeps its dates and its cause, and its status never reads "none"
\* again, whatever requests had read before (startTrialIfEligible,
\* syncStoredTrialStatus).
TrialStep ==
    IF trial.started # 0
    THEN trial'.status # "none" /\ trial' = [trial EXCEPT !.status = trial'.status]
    ELSE trial' # trial => plan = "free"

\* On the free plan a source is added only to a tenant that has none, unless
\* the request's reads were overtaken by another source, by the clock or by a
\* change of plan (requireSourceCapacity).
CapacityStep ==
    active' \subseteq active \/ active = {} \/ ~Free
    \/ \E r \in stale : pc[r] = "create" /\ pc'[r] # "create"

FreePlanIsKept == [][TrialStep /\ CapacityStep]_vars
=============================================================================
