-------------------------- MODULE AnomalyDetection --------------------------
(***************************************************************************)
(* The incidents of the alert policies of one workflow:                    *)
(* runAnomalyDetectionJob (anomaly-service.ts) evaluates every policy and  *)
(* opens, refreshes, suppresses or clears its incident, while operators    *)
(* acknowledge and resolve incidents (incidents-service.ts).               *)
(*                                                                         *)
(* What a metric says of a window is a choice here, and so is whether the  *)
(* policy is enabled and within the plan; AnomalyMath has the evaluation,  *)
(* WorkflowDetection the SLA marks at the end of a run.  details_json is   *)
(* read as a whole and written back as a whole; its clear_streak,          *)
(* cooldown_hits and last_alert_at are fields of an incident here.         *)
(***************************************************************************)
EXTENDS Integers

CONSTANTS
    Choices,      \* sets of policies, one of which the workflow has
    Notify,       \* the 30 minutes between two alerts
    Escalation,   \* INCIDENT_ESCALATION_MINUTES
    Cooldown,     \* INCIDENT_COOLDOWN_WINDOWS
    CooldownAge,  \* that many windows, in time
    None,
    MaxIncidents, \* bound on the incidents created
    MaxNow,       \* bound on the clock
    MaxUpsets     \* bound on runs that die and on what operators do

\* What the proofs assume of the constants: config.ts has INCIDENT_COOLDOWN_WINDOWS
\* positive.
Proper ==
    /\ Notify \in Nat /\ Escalation \in Nat /\ Cooldown \in Nat \ {0} /\ CooldownAge \in Nat
    /\ MaxIncidents \in Nat /\ MaxNow \in Nat \ {0} /\ MaxUpsets \in Nat
    /\ None \notin UNION Choices

VARIABLES
    now,
    policies,
    incident,
    job,       \* the run at work: policies left, policy and rows at hand
    operator,  \* the incident an operator resolves, as it was read
    upsets,
    alerted,   \* time of the last ALERT_PENDING of each incident
    quiet,     \* clear evaluations of each incident since it was last refreshed
    triggered, \* policies whose trigger the last run took to its end
    skipped,   \* triggers suppressed for each incident since anything else came of its policy
    touched,   \* incidents an operator wrote
    silenced   \* incidents that a run died over before their alert

vars == <<now, policies, incident, job, operator, upsets,
          alerted, quiet, triggered, skipped, touched, silenced>>

ghosts == <<alerted, quiet, triggered, skipped, touched, silenced>>

Ids == 1 .. MaxIncidents

NoRow == [policy |-> None, bucket |-> 0, status |-> "none", started |-> 0, resolved |-> 0,
          critical |-> FALSE, streak |-> 0, hits |-> 0, lastAlert |-> 0]

Idle == [phase |-> "idle", left |-> {}, policy |-> None, bucket |-> 0, inc |-> 0, row |-> NoRow,
         rows |-> {}, alert |-> FALSE]

NoOperator == [inc |-> 0, row |-> NoRow]

Init ==
    /\ now = 1
    /\ policies \in Choices
    /\ incident = [i \in Ids |-> NoRow]
    /\ job = Idle
    /\ operator = NoOperator
    /\ upsets = 0
    /\ alerted = [i \in Ids |-> 0]
    /\ quiet = [i \in Ids |-> 0]
    /\ triggered = {}
    /\ skipped = [i \in Ids |-> 0]
    /\ touched = {} /\ silenced = {}

Active(i) == incident[i].status \in {"open", "acked"}

IsHeartbeat(p) == p.metric = "missing_heartbeat"

\* Those that a findFirst or find over rows ordered by started_at desc may answer.
Latest(S) == {i \in S : \A j \in S : incident[j].started <= incident[i].started}

\* details_json, and its fields in a row.
Details(row) == [streak |-> row.streak, hits |-> row.hits, lastAlert |-> row.lastAlert]

WithDetails(row, d) == [row EXCEPT !.streak = d.streak, !.hits = d.hits, !.lastAlert = d.lastAlert]

----------------------------------------------------------------------------
(* The job.                                                                *)

\* One policy after another, in no order.
Begin ==
    /\ job = Idle
    /\ job' = [Idle EXCEPT !.phase = "next", !.left = policies]
    /\ triggered' = {}
    /\ UNCHANGED <<now, policies, incident, operator, upsets, alerted, quiet, skipped, touched, silenced>>

\* On to the next policy.
Finish == job' = [Idle EXCEPT !.phase = "next", !.left = job.left]

\* No trigger of these policies was suppressed.
Unsuppressed(P) == skipped' = [i \in Ids |-> IF incident[i].policy \in P THEN 0 ELSE skipped[i]]

\* The metric of the next policy is evaluated, if the policy is at all: the
\* active incidents of a clear one are read.
Evaluate ==
    /\ job.phase = "next"
    /\ \E p \in job.left :
        /\ \/ job' = [job EXCEPT !.phase = "find", !.policy = p, !.left = @ \ {p}]
              /\ UNCHANGED skipped
           \/ job' = [job EXCEPT !.phase = "clear", !.policy = p, !.left = @ \ {p},
                        !.rows = {[inc |-> i, row |-> incident[i]] :
                                    i \in {j \in Ids : Active(j) /\ incident[j].policy = p}}]
              /\ UNCHANGED skipped
           \/ job' = [job EXCEPT !.left = @ \ {p}]
              /\ Unsuppressed({p})
    /\ UNCHANGED <<now, policies, incident, operator, upsets, alerted, quiet, triggered, touched, silenced>>

\* Of a missing heartbeat, any active incident of the policy or the metric; of
\* other metrics the one of the same minute.
Existing(p, bucket) ==
    LET beats == {i \in Ids : Active(i) /\ (incident[i].policy = p \/ IsHeartbeat(incident[i].policy))}
        same == {i \in Ids : /\ Active(i)
                             /\ incident[i].policy.metric = p.metric /\ incident[i].bucket = bucket}
    IN  Latest(IF IsHeartbeat(p) /\ beats # {} THEN beats ELSE same)

\* The minute of the latest data, or of the clock.
Buckets(p) == IF IsHeartbeat(p) THEN {now} ELSE {now, now - 1} \ {0}

\* upsertIncident looks for the incident.
Find ==
    /\ job.phase = "find"
    /\ \E bucket \in Buckets(job.policy) :
        LET found == Existing(job.policy, bucket) IN
        \/ /\ found = {}
           /\ job' = [job EXCEPT !.phase = "cooldown", !.bucket = bucket]
        \/ \E i \in found :
            job' = [job EXCEPT !.phase = "refresh", !.inc = i, !.row = incident[i]]
    /\ UNCHANGED <<now, policies, incident, operator, upsets, ghosts>>

\* Faulty: a refresh keeps clear_streak.
RefreshKeeping ==
    /\ job.phase = "refresh"
    /\ LET due == now - job.row.lastAlert >= Notify
           escalates == now - job.row.started >= Escalation /\ ~job.row.critical
           details == [streak |-> job.row.streak, hits |-> 0,
                       lastAlert |-> IF due THEN now ELSE job.row.lastAlert]
       IN  /\ incident' = [incident EXCEPT ![job.inc] =
                WithDetails([@ EXCEPT !.critical = job.row.critical \/ escalates], details)]
           /\ job' = [job EXCEPT !.phase = "alert", !.alert = due \/ escalates]
    /\ quiet' = [quiet EXCEPT ![job.inc] = 0]
    /\ UNCHANGED <<now, policies, operator, upsets, alerted, triggered, skipped, touched, silenced>>

\* The refresh: it starts the streak again and leaves the status alone.
Refresh ==
    /\ job.phase = "refresh"
    /\ LET due == now - job.row.lastAlert >= Notify
           escalates == now - job.row.started >= Escalation /\ ~job.row.critical
           details == [streak |-> 0, hits |-> 0,
                       lastAlert |-> IF due THEN now ELSE job.row.lastAlert]
       IN  /\ incident' = [incident EXCEPT ![job.inc] =
                WithDetails([@ EXCEPT !.critical = job.row.critical \/ escalates], details)]
           /\ job' = [job EXCEPT !.phase = "alert", !.alert = due \/ escalates]
    /\ quiet' = [quiet EXCEPT ![job.inc] = 0]
    /\ UNCHANGED <<now, policies, operator, upsets, alerted, triggered, skipped, touched, silenced>>

\* The events of a refresh or a creation, with an ALERT_PENDING if one is due.
Alert ==
    /\ job.phase = "alert"
    /\ alerted' = IF job.alert THEN [alerted EXCEPT ![job.inc] = now] ELSE alerted
    /\ triggered' = triggered \cup {job.policy}
    /\ Unsuppressed({job.policy})
    /\ Finish
    /\ UNCHANGED <<now, policies, incident, operator, upsets, quiet, touched, silenced>>

\* Those that a findFirst ordered by resolved_at desc may answer.
LastResolved(p) ==
    LET resolved == {i \in Ids : incident[i].status = "resolved" /\ incident[i].policy = p}
    IN  {i \in resolved : \A j \in resolved : incident[j].resolved <= incident[i].resolved}

\* shouldSuppressReopen reads the policy's last resolved incident,
LookBack ==
    /\ job.phase = "cooldown"
    /\ LET last == LastResolved(job.policy)
       IN  \/ /\ \/ last = {}
                 \/ \E i \in last : now - incident[i].resolved > CooldownAge
              /\ job' = [job EXCEPT !.phase = "create"]
           \/ \E i \in last :
                /\ now - incident[i].resolved <= CooldownAge
                /\ job' = [job EXCEPT !.phase = "suppress", !.inc = i, !.row = incident[i]]
    /\ UNCHANGED <<now, policies, incident, operator, upsets, ghosts>>

\* and counts the trigger on it, until it has enough of them.
Suppress ==
    /\ job.phase = "suppress"
    /\ LET hits == job.row.hits + 1
           enough == hits >= Cooldown
           details == [Details(job.row) EXCEPT !.hits = IF enough THEN 0 ELSE hits]
       IN  /\ incident' = [incident EXCEPT ![job.inc] = WithDetails(@, details)]
           /\ IF enough
              THEN job' = [job EXCEPT !.phase = "create"] /\ Unsuppressed({job.policy})
              ELSE Finish /\ skipped' = [skipped EXCEPT ![job.inc] = @ + 1]
    /\ UNCHANGED <<now, policies, operator, upsets, alerted, quiet, triggered, touched, silenced>>

Create ==
    /\ job.phase = "create"
    /\ \E i \in Ids :
        /\ incident[i] = NoRow /\ \A j \in 1 .. (i - 1) : incident[j] # NoRow
        /\ incident' = [incident EXCEPT ![i] =
             [NoRow EXCEPT !.policy = job.policy, !.bucket = job.bucket,
                           !.status = "open", !.started = now, !.lastAlert = now]]
        /\ job' = [job EXCEPT !.phase = "alert", !.inc = i, !.alert = TRUE]
    /\ UNCHANGED <<now, policies, operator, upsets, ghosts>>

\* clearIncidentIfStable: the third clear window in a row resolves.
Clear ==
    /\ job.phase = "clear"
    /\ \/ /\ job.rows = {}
          /\ Finish
          /\ Unsuppressed({job.policy})
          /\ UNCHANGED <<incident, quiet>>
       \/ \E r \in job.rows :
            LET streak == r.row.streak + 1
                stable == streak >= 3
                details == [Details(r.row) EXCEPT !.streak = streak, !.hits = IF stable THEN 0 ELSE @]
            IN  /\ incident' = [incident EXCEPT ![r.inc] =
                     IF stable
                     THEN WithDetails([@ EXCEPT !.status = "resolved", !.resolved = now], details)
                     ELSE WithDetails(@, details)]
                /\ job' = [job EXCEPT !.rows = @ \ {r}]
                /\ quiet' = [quiet EXCEPT ![r.inc] = IF @ < 3 THEN @ + 1 ELSE @]
                /\ UNCHANGED skipped
    /\ UNCHANGED <<now, policies, operator, upsets, alerted, triggered, touched, silenced>>

End ==
    /\ job.phase = "next" /\ job.left = {}
    /\ job' = Idle
    /\ UNCHANGED <<now, policies, incident, operator, upsets, ghosts>>

\* The run dies, or a call of its fails.
Abort ==
    /\ upsets < MaxUpsets /\ upsets' = upsets + 1
    /\ job # Idle
    /\ job' = Idle
    /\ silenced' = IF job.phase = "alert" /\ job.alert THEN silenced \cup {job.inc} ELSE silenced
    /\ Unsuppressed(job.left \cup {job.policy})
    /\ UNCHANGED <<now, policies, incident, operator, alerted, quiet, triggered, touched>>

----------------------------------------------------------------------------
(* Operators and the clock.                                                *)

\* ackIncident: whatever the status.
Acknowledge(i) ==
    /\ upsets < MaxUpsets /\ upsets' = upsets + 1
    /\ incident[i] # NoRow
    /\ incident' = [incident EXCEPT ![i].status = "acked"]
    /\ touched' = touched \cup {i}
    /\ UNCHANGED <<now, policies, job, operator, alerted, quiet, triggered, skipped, silenced>>

\* resolveIncident reads the incident,
BeginResolve(i) ==
    /\ upsets < MaxUpsets /\ upsets' = upsets + 1
    /\ operator = NoOperator /\ incident[i] # NoRow
    /\ operator' = [inc |-> i, row |-> incident[i]]
    /\ UNCHANGED <<now, policies, incident, job, ghosts>>

\* and writes its status, and its details as they were.
EndResolve ==
    /\ operator # NoOperator
    /\ LET details == [Details(operator.row) EXCEPT !.hits = 0] IN
        incident' = [incident EXCEPT ![operator.inc] =
            WithDetails([@ EXCEPT !.status = "resolved", !.resolved = now], details)]
    /\ touched' = touched \cup {operator.inc}
    /\ operator' = NoOperator
    /\ UNCHANGED <<now, policies, job, upsets, alerted, quiet, triggered, skipped, silenced>>

\* A run is short beside the unit of time.
Tick ==
    /\ job = Idle /\ now < MaxNow /\ now' = now + 1
    /\ UNCHANGED <<policies, incident, job, operator, upsets, ghosts>>

Next ==
    \/ Begin \/ Evaluate \/ Find \/ Refresh \/ Alert \/ LookBack \/ Suppress \/ Create \/ Clear
    \/ End \/ Abort
    \/ \E i \in Ids : Acknowledge(i) \/ BeginResolve(i)
    \/ EndResolve \/ Tick

Spec == Init /\ [][Next]_vars

----------------------------------------------------------------------------
(* Properties.                                                             *)

Policies == UNION Choices

Phases == {"idle", "next", "find", "refresh", "alert", "cooldown", "suppress", "create", "clear"}

IncidentRows ==
    [policy : Policies \cup {None}, bucket : Nat, status : {"none", "open", "acked", "resolved"},
     started : Nat, resolved : Nat, critical : BOOLEAN, streak : Nat, hits : 0 .. (Cooldown - 1),
     lastAlert : Nat]

JobRows ==
    [phase : Phases, left : SUBSET Policies, policy : Policies \cup {None}, bucket : Nat,
     inc : Ids \cup {0}, row : IncidentRows, rows : SUBSET [inc : Ids, row : IncidentRows], alert : BOOLEAN]

\* The shape of every variable.
TypeOK ==
    /\ now \in 1 .. MaxNow
    /\ policies \in Choices
    /\ incident \in [Ids -> IncidentRows]
    /\ job \in JobRows
    /\ operator \in [inc : Ids \cup {0}, row : IncidentRows]
    /\ upsets \in 0 .. MaxUpsets
    /\ alerted \in [Ids -> Nat] /\ quiet \in [Ids -> 0 .. 3] /\ skipped \in [Ids -> Nat]
    /\ triggered \subseteq Policies /\ touched \subseteq Ids /\ silenced \subseteq Ids

\* After a run, a policy that was triggered has an active incident, of its own
\* or of its metric, unless an operator wrote one (upsertIncident,
\* clearIncidentIfStable).
TriggersAreTracked ==
    \A p \in policies :
        job = Idle /\ p \in triggered =>
            \E i \in Ids : i \in touched \/ (Active(i) /\ incident[i].policy.metric = p.metric)

\* The job resolves an incident only after three clear windows with no refresh
\* between them, unless an operator wrote back older details
\* (clearIncidentIfStable, upsertIncident).
ResolutionsAreQuiet ==
    \A i \in Ids \ touched : incident[i].status = "resolved" => quiet[i] = 3

\* Fewer than Cooldown triggers in a row are suppressed for one resolved
\* incident, unless an operator reset its count (shouldSuppressReopen).
SuppressionsEnd == \A i \in Ids \ touched : skipped[i] < Cooldown

\* What an incident says of its last alert is true, unless the run died before
\* it wrote the alert (upsertIncident).
AlertsAreSent ==
    \A i \in Ids \ silenced :
        ~(job.phase = "alert" /\ job.inc = i) => alerted[i] >= incident[i].lastAlert

AnomaliesAreTracked ==
    TriggersAreTracked /\ ResolutionsAreQuiet /\ SuppressionsEnd /\ AlertsAreSent

----------------------------------------------------------------------------
(* Why they hold.                                                          *)

\* What the job has at hand in each phase.
JobIsProper ==
    /\ job.phase \in {"refresh", "alert", "suppress"} => job.inc \in Ids
    /\ job.phase \notin {"idle", "next"} => job.policy \in Policies \ job.left
    /\ job.phase = "idle" => job.left = {}
    /\ job.phase # "clear" => job.rows = {}
    /\ job.phase = "clear" => \A r \in job.rows : incident[r.inc].policy = job.policy
    /\ job.phase = "suppress" => incident[job.inc].policy = job.policy
    /\ operator # NoOperator => operator.inc \in Ids

\* The job knows what an incident is that no operator wrote.
RowsAreCurrent ==
    /\ job.phase = "refresh" /\ job.inc \notin touched =>
        job.row = incident[job.inc] /\ Active(job.inc)
    /\ job.phase = "suppress" /\ job.inc \notin touched =>
        job.row = incident[job.inc] /\ incident[job.inc].status = "resolved"
    /\ \A r \in job.rows : r.inc \notin touched => r.row = incident[r.inc] /\ Active(r.inc)

\* The counts of an incident that no operator wrote.
CountsAgree ==
    \A i \in Ids \ touched :
        /\ skipped[i] <= incident[i].hits
        /\ incident[i].status = "resolved" => quiet[i] = 3
        /\ incident[i].status # "resolved" =>
            skipped[i] = 0 /\ incident[i].streak <= quiet[i] /\ incident[i].streak <= 2

\* i is active for the metric of p, and this run will not resolve it.
Tracks(i, p) ==
    /\ Active(i) /\ incident[i].policy.metric = p.metric
    /\ incident[i].policy \in job.left \/ (\E r \in job.rows : r.inc = i) => incident[i].streak = 0

TriggersTrack ==
    touched = {} =>
        /\ \A p \in triggered : \E i \in Ids : Tracks(i, p)
        /\ job.phase = "refresh" => incident[job.inc].policy.metric = job.policy.metric
        /\ job.phase = "alert" => Tracks(job.inc, job.policy) /\ incident[job.inc].streak = 0

\* i was alerted at t or later, or is to be now, or its run died before.
Told(i, t) ==
    /\ t <= now
    /\ alerted[i] >= t \/ i \in silenced \/ (job.phase = "alert" /\ job.inc = i /\ job.alert)

AlertsAreTold ==
    /\ \A i \in Ids : Told(i, incident[i].lastAlert)
    /\ job.phase \in {"refresh", "suppress"} => Told(job.inc, job.row.lastAlert)
    /\ \A r \in job.rows : Told(r.inc, r.row.lastAlert)
    /\ operator # NoOperator => Told(operator.inc, operator.row.lastAlert)

AnomalyInv ==
    TypeOK /\ JobIsProper /\ RowsAreCurrent /\ CountsAgree /\ TriggersTrack /\ AlertsAreTold
=============================================================================
