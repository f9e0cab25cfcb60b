------------------------- MODULE WorkflowDetection --------------------------
(***************************************************************************)
(* Reports of one workflow and its incidents: POST /ingest/workflow-event  *)
(* (routes/ingest.ts) reads a GoHighLevel report or a plain one            *)
(* (gohighlevel-adapter-service.ts), stores it once                        *)
(* (workflow-event-ingestion-service.ts) and then opens, refreshes or      *)
(* resolves the incidents of the workflow                                  *)
(* (generic-workflow-incident-service.ts, incidents-service.ts); operators *)
(* and the SLA marks of the anomaly job touch the same incidents.          *)
(*                                                                         *)
(* The store is one step here: EventLedger has its inside.  A repeated     *)
(* delivery of a stored report, and a status with no rule, change nothing. *)
(* The incident's events are left out: IncidentBridge has them.            *)
(***************************************************************************)
EXTENDS Integers

CONSTANTS
    Feeds,         \* sets of reports, one of which is delivered
    Handlers,      \* requests at work at a time
    Sla,           \* computeSlaDueAt
    None,
    MaxIncidents,  \* bound on the incidents created
    MaxNow,        \* bound on the clock
    MaxOperations  \* bound on what operators do

\* What the proofs assume of the constants.
Proper ==
    /\ \A f \in Feeds : \A m \in f : m.at \in Nat \cup {None}
    /\ Sla \in Nat /\ MaxIncidents \in Nat /\ MaxNow \in Nat \ {0}
    /\ None \notin Nat /\ None \notin Handlers
    /\ None \notin {"failed", "timed_out", "succeeded"}

VARIABLES
    now,
    feed,       \* the reports of this behaviour, each delivered any number of times
    stored,     \* idempotency keys of the stored events
    seen,       \* reports that were delivered
    incident,
    handler,
    marking,    \* incidents markBreachedSla has read and not yet marked
    operations,
    lastAt,     \* latest time of a stored report
    wanted,     \* what the latest report asks of the incident of each rule
    excused,    \* rules whose incident may differ from that, see IncidentsFollowReports
    raced,      \* rules with two failures handled at once
    overdue,    \* openings that were active and past their due time when read
    carried     \* incidents reopened with their mark

vars == <<now, feed, stored, seen, incident, handler, marking, operations,
          lastAt, wanted, excused, raced, overdue, carried>>

ghosts == <<lastAt, wanted, raced>>

Ids == 1 .. MaxIncidents

NoIncident == 0

\* In the order in which a success goes through them.
Rules == {"failed", "timed_out"}

----------------------------------------------------------------------------
(* Reports.                                                                *)

\* normalizeGoHighLevelStatus: a word it does not know is a start.
GoHighLevelStatus(s) ==
    CASE s \in {"success", "succeeded", "completed", "complete"} -> "succeeded"
      [] s \in {"failed", "failure", "error"} -> "failed"
      [] s \in {"timeout", "timed_out"} -> "timed_out"
      [] OTHER -> "started"

\* normalizeWorkflowEventStatus.
Normalized(s) ==
    CASE s = "success" -> "succeeded"
      [] s = "timeout" -> "timed_out"
      [] s = "canceled" -> "cancelled"
      [] OTHER -> s

Status(m) ==
    Normalized(IF m.provider = "gohighlevel" THEN GoHighLevelStatus(m.status) ELSE m.status)

\* The time a report gives, or that of its receipt.
At(m) == IF m.at = None THEN now ELSE m.at

\* deterministicId: what the contents of a report determine, behind a prefix.
\* Identifiers are pairs of a prefix and a name.
Derived(m) == <<"ghl_", "contents", Status(m), m.at>>

\* A GoHighLevel report may come with the identifier of its run or of its
\* delivery only, or with neither.
Execution(m) ==
    IF m.execution # None THEN m.execution
    ELSE IF m.delivery # None THEN m.delivery
    ELSE Derived(m)

\* isGoHighLevelStableExecution.
Stable(m) == m.provider = "gohighlevel" /\ (Execution(m)[1] = "ghl_" \/ m.delivery # None)

\* The key: the time is no part of that of a stable execution.
Key(m) ==
    IF Stable(m)
    THEN <<Execution(m), Status(m)>>
    ELSE <<Execution(m), Status(m), At(m)>>

\* The rules a report is about.
About(m) == IF Status(m) = "succeeded" THEN Rules ELSE {Status(m)} \cap Rules

----------------------------------------------------------------------------
(* State.                                                                  *)

NoRow == [rule |-> None, status |-> "none", started |-> 0, due |-> 0, breached |-> FALSE]

Idle == [phase |-> "idle", report |-> None, rule |-> None, inc |-> NoIncident,
         began |-> 0, clean |-> FALSE]

Init ==
    /\ now = 1
    /\ feed \in Feeds
    /\ stored = {}
    /\ seen = {}
    /\ incident = [i \in Ids |-> NoRow]
    /\ handler = [d \in Handlers |-> Idle]
    /\ marking = {}
    /\ operations = 0
    /\ lastAt = 0
    /\ wanted = [r \in Rules |-> "nothing"]
    /\ excused = {}
    /\ raced = {}
    /\ overdue = {}
    /\ carried = {}

Active(i) == incident[i].status \in {"open", "acked"}

OfRule(r) == {i \in Ids : incident[i].rule = r}

\* Those of a set that a findFirst ordered by started_at desc may answer.
Latest(S) == {i \in S : \A j \in S : incident[j].started <= incident[i].started}

\* The handlers at work, other than d, no longer have the incidents to themselves.
Disturb(d, me) ==
    handler' = [x \in Handlers |->
                  IF x = d THEN me
                  ELSE IF handler[x].phase = "idle" THEN Idle
                  ELSE [handler[x] EXCEPT !.clean = FALSE]]

AtMostOne(S) == \A i, j \in S : i = j

Others(d) == {x \in Handlers \ {d} : handler[x].phase # "idle"}

Continue(d, me) == handler' = [handler EXCEPT ![d] = me]

\* The detection of a report ends: alone and in order, it has settled its rules.
Done(d) ==
    /\ Continue(d, Idle)
    /\ LET m == handler[d].report
           settled == {r \in About(m) : Status(m) \in Rules \/ AtMostOne(OfRule(r))}
       IN  excused' = IF handler[d].clean
                      THEN (excused \ settled) \cup (About(m) \ settled)
                      ELSE excused \cup About(m)

----------------------------------------------------------------------------
(* The handler of a report.                                                *)

\* What the latest report asks for; one that is older than another does not count.
Report(m) ==
    IF At(m) >= lastAt
    THEN /\ lastAt' = At(m)
         /\ wanted' = [r \in Rules |->
              IF r \notin About(m) THEN wanted[r]
              ELSE IF Status(m) = "succeeded" THEN "resolved" ELSE "active"]
    ELSE UNCHANGED <<lastAt, wanted>>

\* ingestWorkflowExecutionEvent stores a report whose key is new, and the
\* detection begins.
Receive(d) ==
    /\ handler[d].phase = "idle"
    /\ \E m \in feed :
        /\ About(m) # {} /\ Key(m) \notin stored
        /\ stored' = stored \cup {Key(m)}
        /\ seen' = seen \cup {m}
        /\ Report(m)
        /\ Disturb(d, [Idle EXCEPT
                !.phase = IF Status(m) = "succeeded" THEN "active" ELSE "find",
                !.report = m,
                !.rule = IF Status(m) = "succeeded" THEN "failed" ELSE Status(m),
                !.began = now,
                !.clean = At(m) >= lastAt /\ Others(d) = {}])
        /\ raced' = raced \cup ({handler[x].rule : x \in Others(d)} \cap {Status(m)} \cap Rules)
    /\ UNCHANGED <<now, feed, incident, marking, operations, excused, overdue, carried>>

\* A report that was not delivered before is taken for one that is stored.
Mistake(d) ==
    /\ handler[d].phase = "idle"
    /\ \E m \in feed \ seen :
        /\ About(m) # {} /\ Key(m) \in stored
        /\ seen' = seen \cup {m}
        /\ Report(m)
        /\ Disturb(d, Idle)
        /\ excused' = excused \cup About(m)
    /\ UNCHANGED <<now, feed, stored, incident, marking, operations, raced, overdue, carried>>

\* openOrRefreshBridgeIncident takes the time, some time since the report came,
\* and then looks for the incident, whatever its status: one that is resolved
\* begins anew at that time.
Find(d) ==
    /\ handler[d].phase = "find"
    /\ \E at \in handler[d].began .. now :
        \/ /\ OfRule(handler[d].rule) = {}
           /\ Continue(d, [handler[d] EXCEPT !.phase = "create", !.began = at])
        \/ \E i \in Latest(OfRule(handler[d].rule)) :
            Continue(d, [handler[d] EXCEPT !.phase = "update", !.inc = i,
                            !.began = IF incident[i].status = "resolved" THEN at ELSE incident[i].started])
    /\ UNCHANGED <<now, feed, stored, seen, incident, marking, operations, ghosts, excused, overdue, carried>>

\* Faulty: a refresh puts off the due time.
DueFromNow(started) == now + Sla

\* computeSlaDueAt
Due(started) == started + Sla

Create(d) ==
    /\ handler[d].phase = "create"
    /\ \E i \in Ids :
        /\ incident[i] = NoRow /\ \A j \in 1 .. (i - 1) : incident[j] # NoRow
        /\ incident' = [incident EXCEPT ![i] =
             [rule |-> handler[d].rule, status |-> "open", started |-> handler[d].began,
              due |-> Due(handler[d].began), breached |-> FALSE]]
    /\ Done(d)
    /\ UNCHANGED <<now, feed, stored, seen, marking, operations, ghosts, overdue, carried>>

\* The refresh: an incident that begins anew keeps its mark.
Update(d) ==
    /\ handler[d].phase = "update"
    /\ LET me == handler[d]
       IN  /\ incident' = [incident EXCEPT ![me.inc] =
                [@ EXCEPT !.status = "open", !.started = me.began, !.due = Due(me.began)]]
           /\ carried' = IF me.began # incident[me.inc].started /\
                            (incident[me.inc].breached \/ me.inc \in marking)
                         THEN carried \cup {me.inc} ELSE carried
    /\ Done(d)
    /\ UNCHANGED <<now, feed, stored, seen, marking, operations, ghosts, overdue>>

\* A success: on to the next rule.
NextRule(d) ==
    IF handler[d].rule = "failed"
    THEN Continue(d, [handler[d] EXCEPT !.phase = "active", !.rule = "timed_out"]) /\ UNCHANGED excused
    ELSE Done(d)

\* Faulty: a rule with no active incident ends the loop.
FindActiveOnce(d) ==
    /\ handler[d].phase = "active"
    /\ LET active == {i \in OfRule(handler[d].rule) : Active(i)} IN
        \/ active = {} /\ Done(d)
        \/ \E i \in Latest(active) :
            Continue(d, [handler[d] EXCEPT !.phase = "check", !.inc = i]) /\ UNCHANGED excused
    /\ UNCHANGED <<now, feed, stored, seen, incident, marking, operations, ghosts, overdue, carried>>

\* findActiveGenericWorkflowIncident.
FindActive(d) ==
    /\ handler[d].phase = "active"
    /\ LET active == {i \in OfRule(handler[d].rule) : Active(i)} IN
        \/ active = {} /\ NextRule(d)
        \/ \E i \in Latest(active) :
            Continue(d, [handler[d] EXCEPT !.phase = "check", !.inc = i]) /\ UNCHANGED excused
    /\ UNCHANGED <<now, feed, stored, seen, incident, marking, operations, ghosts, overdue, carried>>

\* resolveBridgeIncident reads it again,
Check(d) ==
    /\ handler[d].phase = "check"
    /\ IF Active(handler[d].inc)
       THEN Continue(d, [handler[d] EXCEPT !.phase = "resolve"]) /\ UNCHANGED excused
       ELSE NextRule(d)
    /\ UNCHANGED <<now, feed, stored, seen, incident, marking, operations, ghosts, overdue, carried>>

\* and resolves it by its id.
Resolve(d) ==
    /\ handler[d].phase = "resolve"
    /\ incident' = [incident EXCEPT ![handler[d].inc].status = "resolved"]
    /\ NextRule(d)
    /\ UNCHANGED <<now, feed, stored, seen, marking, operations, ghosts, overdue, carried>>

\* The process dies: the report is stored and its retry will be a duplicate.
Crash(d) ==
    /\ handler[d].phase # "idle"
    /\ Continue(d, Idle)
    /\ excused' = excused \cup About(handler[d].report)
    /\ UNCHANGED <<now, feed, stored, seen, incident, marking, operations, ghosts, overdue, carried>>

----------------------------------------------------------------------------
(* Others who touch incidents.                                             *)

\* ackIncident and resolveIncident look at no status.
Operate(i) ==
    /\ operations < MaxOperations /\ operations' = operations + 1
    /\ incident[i] # NoRow
    /\ \E s \in {"acked", "resolved"} : incident' = [incident EXCEPT ![i].status = s]
    /\ Disturb(None, Idle)
    /\ excused' = excused \cup {incident[i].rule}
    /\ UNCHANGED <<now, feed, stored, seen, marking, ghosts, overdue, carried>>

\* markBreachedSla reads the active incidents past their due time,
ReadOverdue ==
    /\ marking = {}
    /\ marking' = {i \in Ids : Active(i) /\ incident[i].due <= now /\ ~incident[i].breached}
    /\ marking' # {}
    /\ overdue' = overdue \cup {<<i, incident[i].started>> : i \in marking'}
    /\ UNCHANGED <<now, feed, stored, seen, incident, handler, operations, ghosts, excused, carried>>

\* and marks them by their ids.
MarkBreached ==
    /\ marking # {}
    /\ incident' = [i \in Ids |->
                      IF i \in marking THEN [incident[i] EXCEPT !.breached = TRUE] ELSE incident[i]]
    /\ marking' = {}
    /\ UNCHANGED <<now, feed, stored, seen, handler, operations, ghosts, excused, overdue, carried>>

Tick ==
    /\ now < MaxNow /\ now' = now + 1
    /\ UNCHANGED <<feed, stored, seen, incident, handler, marking, operations, ghosts, excused, overdue, carried>>

Next ==
    \/ \E d \in Handlers :
        \/ Receive(d) \/ Mistake(d) \/ Find(d) \/ Create(d) \/ Update(d)
        \/ FindActive(d) \/ Check(d) \/ Resolve(d) \/ Crash(d)
    \/ \E i \in Ids : Operate(i)
    \/ ReadOverdue \/ MarkBreached \/ Tick

Spec == Init /\ [][Next]_vars

----------------------------------------------------------------------------
(* Properties.                                                             *)

Phases == {"idle", "find", "create", "update", "active", "check", "resolve"}

Statuses == {"none", "open", "acked", "resolved"}

IncidentRows ==
    [rule : Rules \cup {None}, status : Statuses, started : Nat, due : Nat, breached : BOOLEAN]

HandlerRows ==
    [phase : Phases, report : (UNION Feeds) \cup {None}, rule : Rules \cup {None},
     inc : Ids \cup {NoIncident}, began : Nat, clean : BOOLEAN]

\* The shape of every variable.
TypeOK ==
    /\ now \in 1 .. MaxNow /\ lastAt \in Nat
    /\ feed \in Feeds /\ seen \subseteq feed
    /\ incident \in [Ids -> IncidentRows]
    /\ handler \in [Handlers -> HandlerRows]
    /\ wanted \in [Rules -> {"nothing", "active", "resolved"}]
    /\ marking \subseteq Ids
    /\ excused \cup raced \subseteq Rules
    /\ carried \subseteq Ids

\* A row that is there is whole, and due by the time it started.
RowsAreWhole ==
    \A i \in Ids : incident[i] # NoRow =>
        /\ incident[i].rule \in Rules /\ incident[i].status # "none"
        /\ incident[i].due = incident[i].started + Sla

Failing == {"find", "create", "update"}

Succeeding == {"active", "check", "resolve"}

\* What a handler has at hand in its phase.
IsProper(h) ==
    /\ (h.phase = "idle") <=> (h = Idle)
    /\ h.phase # "idle" => h.report \in feed /\ h.rule \in About(h.report)
    /\ h.phase \in Failing => Status(h.report) = h.rule
    /\ h.phase \in Succeeding => Status(h.report) = "succeeded"
    /\ h.phase \in {"update", "check", "resolve"} => h.inc \in Ids /\ incident[h.inc].rule = h.rule

HandlersAreProper == \A d \in Handlers : IsProper(handler[d])

AnyActive(r) == \E i \in OfRule(r) : Active(i)

\* A clean handler is alone, its report is the latest, and of a success the
\* rules it is through with have no active incident.
IsClean(d, h) ==
    h.clean =>
        /\ \A x \in Handlers \ {d} : handler[x].phase = "idle"
        /\ \A r \in About(h.report) :
            wanted[r] = IF Status(h.report) = "succeeded" THEN "resolved" ELSE "active"
        /\ h.phase \in Succeeding /\ h.rule = "timed_out" /\ AtMostOne(OfRule("failed")) =>
               ~AnyActive("failed")

CleanIsInOrder == \A d \in Handlers : IsClean(d, handler[d])

\* The incident of a rule is what its latest report asks for...
Follows(r) == (wanted[r] = "active") <=> AnyActive(r)

\* ... when no report about it is at work.
QuietRulesFollow ==
    \A r \in Rules \ excused :
        (\A d \in Handlers : handler[d].phase = "idle" \/ r \notin About(handler[d].report)) => Follows(r)

FailuresAt(r) == {d \in Handlers : handler[d].phase \in Failing /\ handler[d].rule = r}

\* Of one rule, one failure is handled at a time, and creates its first incident.
FailuresAreAlone ==
    /\ \A r \in Rules \ raced : AtMostOne(FailuresAt(r))
    /\ \A d \in Handlers :
          handler[d].phase = "create" /\ handler[d].rule \notin raced => OfRule(handler[d].rule) = {}

Deserved(i) == <<i, incident[i].started>> \in overdue \/ i \in carried

MarksAreDeserved == \A i \in marking : incident[i] # NoRow /\ Deserved(i)

\* With no report at work, the incident of a rule is active exactly if the
\* latest report that is about the rule is its failure, unless the last report
\* about it was out of order, handled along with another, cut off by a crash
\* or taken for an earlier one, an operator acted since, or a success met two
\* incidents of the rule, of which it resolves one
\* (handleGenericWorkflowEventDetection).
IncidentsFollowReports ==
    (\A d \in Handlers : handler[d].phase = "idle") =>
        \A r \in Rules \ excused : Follows(r)

\* A rule has two incidents only after two of its failures were handled at
\* once (openOrRefreshBridgeIncident, which has no unique fingerprint).
OneIncidentPerRule == \A r \in Rules \ raced : AtMostOne(OfRule(r))

\* A breach mark belongs to an opening that was active and past its due time
\* when it was read, or the incident was reopened with it (markBreachedSla).
BreachesAreDeserved ==
    \A i \in Ids : incident[i].breached => Deserved(i)

IncidentsFollowWorkflow == IncidentsFollowReports /\ OneIncidentPerRule /\ BreachesAreDeserved

\* The inductive invariant.
WorkflowInv ==
    /\ TypeOK /\ RowsAreWhole
    /\ HandlersAreProper
    /\ CleanIsInOrder
    /\ QuietRulesFollow
    /\ FailuresAreAlone
    /\ OneIncidentPerRule
    /\ MarksAreDeserved
    /\ BreachesAreDeserved
=============================================================================
