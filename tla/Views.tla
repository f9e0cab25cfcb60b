------------------------------- MODULE Views -------------------------------
(***************************************************************************)
(* What the dashboard says: getOperationalDashboard, whose reads are made  *)
(* side by side while incidents open and close and events arrive           *)
(* (operational-dashboard-service.ts), the reliability windows             *)
(* (reliability-windows-service.ts) and the attention groups               *)
(* (incident-attention-service.ts).                                        *)
(*                                                                         *)
(* One workflow, one GitHub integration (without last_seen_at) and one     *)
(* pipeline stage, and fewer events than LATEST_EVENT_LIMIT.  Of an event  *)
(* there are its ties to the workflow and the integration, its type as a   *)
(* subject and an ending, the word of metadata.status or .conclusion, or   *)
(* None, whether it has blanks around it, and that of .outcome or .state.  *)
(* Names, labels, identifiers and rates are left out.                      *)
(***************************************************************************)
EXTENDS Integers, FiniteSets

CONSTANTS
    Kinds,     \* the incidents that may open: [severity, fingerprint, workflow, system, rule,
               \* policy, breached, failures, recent, signals]
    Pasts,     \* sets of events there may be before: [ties, type, status, blank, outcome, at, id]
    Reports,   \* the events that may arrive: [ties, type, status, blank, outcome]
    Now,       \* the time; a request is short beside its unit
    Fresh,     \* the 30 minutes of a source or workflow
    Hour,      \* the hour of the counts and of the shortest window
    Delay,     \* the maximum delay of the stage
    FailingPercent, FailingCount, \* of the reliability windows
    None,
    Ids,       \* of incidents
    MaxChanges \* bound on what changes while a request is handled

\* What the proofs assume of the constants: 30 minutes are less than an hour, and
\* nothing was before it happened.
Proper ==
    /\ Now \in Nat \ {0} /\ MaxChanges \in Nat
    /\ Fresh \in Nat /\ Hour \in Nat /\ Fresh <= Hour
    /\ \A E \in Pasts : IsFiniteSet(E) /\ \A e \in E : e.at \in 1 .. Now
    /\ None \notin Kinds
    /\ None \notin {"failing", "failed", "failure", "timed_out", "timeout"}

VARIABLES
    incident,  \* id -> kind, or None
    event,     \* the operational events
    completed, \* when the stage last succeeded
    request,   \* the request: whether it is under way, what it has read and what that was
    changes,   \* what has changed meanwhile
    steady,    \* incidents that were active all through it
    alarmed,   \* something was failing at some time of it
    begun,     \* events that there were when it began
    answer

vars == <<incident, event, completed, request, changes, steady, alarmed, begun, answer>>

Classes == {"total", "succeeded", "failed", "timedOut"}

Reads == {"incidents", "events", "stage"} \cup Classes

Idle == [begun |-> FALSE, done |-> {}, incidents |-> {}, events |-> {}, completed |-> None,
         count |-> [c \in Classes |-> 0]]

NoAnswer == [given |-> FALSE, global |-> None, steady |-> {}, alarmed |-> FALSE,
             begun |-> 0, ended |-> 0, sum |-> 0]

Init ==
    /\ incident \in [Ids -> Kinds \cup {None}]
    /\ event \in Pasts
    /\ completed \in (1 .. Now) \cup {None}
    /\ request = Idle /\ changes = 0
    /\ steady = {} /\ alarmed = FALSE /\ begun = 0
    /\ answer = NoAnswer

Active == {i \in Ids : incident[i] # None}

----------------------------------------------------------------------------
(* Events.                                                                 *)

TimedOut == {"timed_out", "timeout"}

\* eventStatus of the dashboard, which knows no word with blanks around it; a
\* type with "timed_out" or "timeout" anywhere in it is taken to end with it.
EventStatus(e) ==
    LET Says(words) == ~e.blank /\ e.status \in words
        ending == e.type[2]
    IN  IF Says(TimedOut) \/ ending \in TimedOut THEN "timedOut"
        ELSE IF Says({"failed", "failure"}) \/ ending = "failed" THEN "failed"
        ELSE IF Says({"succeeded", "success", "completed"}) \/ ending \in {"succeeded", "completed"}
             THEN "succeeded"
        ELSE "unknown"

\* normalizeStatus of the windows, which trims the word, goes on to the outcome
\* where there is no status, and knows more words and types.
NormalizedStatus(e) ==
    LET word == IF e.status = None THEN e.outcome ELSE e.status
        ending == e.type[2]
        errors == {"failed", "failure", "error"}
        successes == {"success", "succeeded", "completed"}
    IN  IF word \in TimedOut \/ ending \in TimedOut THEN "timedOut"
        ELSE IF word \in errors \/ ending \in errors THEN "failed"
        ELSE IF word \in successes \/ ending \in successes THEN "succeeded"
        ELSE "unknown"

\* countRecentEvents goes by lists of types alone.
CountedAs(e, class) ==
    \/ class = "total"
    \/ class = "succeeded" /\
          e.type \in {<<"workflow", "succeeded">>, <<"workflow", "completed">>, <<"job", "completed">>}
    \/ class = "failed" /\ e.type \in {<<"workflow", "failed">>, <<"job", "failed">>}
    \/ class = "timedOut" /\
          e.type \in {<<"workflow", "timed_out">>, <<"job", "timed_out">>, <<"", "timeout">>}

Recent(E) == {e \in E : e.at >= Now - Hour}

\* eventMatchesWorkflow: by an identifier of the source or workflow, by the slug,
\* or by the system; eventMatchesGitHubIntegration.
Ties(source) ==
    IF source = "workflow" THEN {"source_id", "workflow_id", "source_key", "system"} ELSE {"repository"}

From(E, source) == {e \in E : e.ties \cap Ties(source) # {}}

\* The first of them by event_ts and id, both descending; none in an empty set.
LatestOf(E) == {e \in E : \A f \in E : f.at < e.at \/ (f.at = e.at /\ f.id <= e.id)}

\* freshnessState
Freshness(E) ==
    IF E = {} THEN "unknown" ELSE IF \E e \in E : e.at >= Now - Fresh THEN "fresh" ELSE "stale"

----------------------------------------------------------------------------
(* The verdicts.                                                           *)

Severity(k) ==
    IF k.severity \in {"critical", "high", "medium"} THEN k.severity
    ELSE IF k.severity \in {"low", "warn"} THEN "low" ELSE "unknown"

Severities(K) == {Severity(k) : k \in K}

Alarming == {"critical", "high"}

\* workflowState; K are the active incidents and E the events that were read.
WorkflowState(K, E) ==
    LET own == {k \in K : k.workflow # None}
        signal == Freshness(From(E, "workflow"))
        Latest(S) == \E e \in LatestOf(From(E, "workflow")) : EventStatus(e) \in S
    IN  IF Severities(own) \cap Alarming # {} \/ (signal = "fresh" /\ Latest({"failed", "timedOut"}))
        THEN "failing"
        ELSE IF own # {} \/ signal = "stale" THEN "degraded"
        ELSE IF signal = "fresh" /\ Latest({"succeeded"}) THEN "healthy"
        ELSE "unknown"

\* evaluatePipelineStageFreshness and derivePipeline, of one stage.
StageState(last) ==
    IF last = None THEN "unknown" ELSE IF Now - last > Delay THEN "stale" ELSE "fresh"

Failing(K, E) == Severities(K) \cap Alarming # {} \/ WorkflowState(K, E) = "failing"

\* Faulty: the incidents of a lower severity that name no workflow do not count.
GlobalStateOfWorkflows(r) ==
    LET K == r.incidents
        E == r.events
        stale == \E source \in {"workflow", "github"} : Freshness(From(E, source)) = "stale"
    IN  IF Failing(K, E) THEN "failing"
        ELSE IF \/ stale \/ WorkflowState(K, E) = "degraded"
                \/ StageState(r.completed) = "stale"
             THEN "degraded"
        ELSE IF \/ \E c \in Classes : r.count[c] > 0
                \/ \E source \in {"workflow", "github"} : From(E, source) # {}
             THEN "healthy"
        ELSE "unknown"

\* deriveGlobalState
GlobalState(r) ==
    LET K == r.incidents
        E == r.events
        stale == \E source \in {"workflow", "github"} : Freshness(From(E, source)) = "stale"
    IN  IF Failing(K, E) THEN "failing"
        ELSE IF \/ K # {} \/ stale \/ WorkflowState(K, E) = "degraded"
                \/ StageState(r.completed) = "stale"
             THEN "degraded"
        ELSE IF \/ \E c \in Classes : r.count[c] > 0
                \/ \E source \in {"workflow", "github"} : From(E, source) # {}
             THEN "healthy"
        ELSE "unknown"

Most(a, b) == IF a > b THEN a ELSE b

\* The events of the dashboard, unknown ones included.
CountSum(r) ==
    LET named == r.count["succeeded"] + r.count["failed"] + r.count["timedOut"]
    IN  named + Most(0, r.count["total"] - named)

\* What the windows may be asked for.
Filters == {"workflowId", "sourceId", "sourceKey"}

\* matchesScope: every filter that is asked for, each by keys of its own.
InScope(e, asked) ==
    /\ "workflowId" \in asked => e.ties \cap {"workflow_id", "source_id"} # {}
    /\ "sourceId" \in asked => "source_id" \in e.ties
    /\ "sourceKey" \in asked => "source_key" \in e.ties

\* countWindow and reliabilityState, over the last hour.
WindowState(asked) ==
    LET E == {e \in Recent(event) : e.at <= Now /\ InScope(e, asked)}
        errors == Cardinality({e \in E : NormalizedStatus(e) \in {"failed", "timedOut"}})
    IN  IF E = {} THEN "unknown"
        ELSE IF errors = 0 THEN "healthy"
        ELSE IF 100 * errors >= FailingPercent * Cardinality(E) \/ errors >= FailingCount THEN "failing"
        ELSE "degraded"

----------------------------------------------------------------------------
(* The attention groups.                                                   *)

\* seedForIncident: the key of the group of an active incident.
Seed(i) ==
    LET k == incident[i] IN
    IF k.fingerprint # None /\ \E j \in Active \ {i} : incident[j].fingerprint = k.fingerprint
    THEN <<"fingerprint", k.fingerprint>>
    ELSE IF k.workflow # None THEN <<"workflow", k.workflow>>
    ELSE IF k.system # None /\ k.rule # None THEN <<"source_rule", k.system, k.rule>>
    ELSE IF k.policy # None THEN <<"policy", k.policy>>
    ELSE <<"incident", i>>

Group(i) == {j \in Active : Seed(j) = Seed(i)}

KindsOf(S) == {incident[i] : i \in S}

\* Whether the number of something in a group is at least n, for n in {1, 2}.
AtLeast(S, Number(_), n) ==
    \/ \E i \in S : Number(incident[i]) >= n
    \/ n = 2 /\ \E i, j \in S : i # j /\ Number(incident[i]) > 0 /\ Number(incident[j]) > 0

\* deriveAttention
Attention(S) ==
    LET severities == Severities(KindsOf(S)) IN
    IF severities = {"unknown"} THEN "unknown"
    ELSE IF \/ "critical" \in severities
            \/ \E k \in KindsOf(S) : k.breached
            \/ "high" \in severities /\ AtLeast(S, LAMBDA k : k.recent, 1)
         THEN "urgent"
    ELSE IF \/ {"high", "medium"} \cap severities # {}
            \/ Cardinality(S) > 1
            \/ AtLeast(S, LAMBDA k : k.failures, 1)
            \/ AtLeast(S, LAMBDA k : k.signals, 2)
         THEN "elevated"
    ELSE "normal"

AttentionRank(level) ==
    CASE level = "urgent" -> 0 [] level = "elevated" -> 1 [] level = "normal" -> 2 [] level = "unknown" -> 3

----------------------------------------------------------------------------
(* What happens while a request is handled.                                *)

Meanwhile ==
    /\ request.begun /\ changes < MaxChanges /\ changes' = changes + 1
    /\ UNCHANGED <<request, begun, answer>>

\* What the properties say of the request is kept up.
Watch ==
    /\ steady' = {i \in steady : incident'[i] = incident[i]}
    /\ alarmed' = (alarmed \/ Failing({incident'[i] : i \in Ids} \ {None}, event'))

Open ==
    /\ Meanwhile
    /\ \E i \in Ids \ Active, k \in Kinds : incident' = [incident EXCEPT ![i] = k]
    /\ UNCHANGED <<event, completed>>
    /\ Watch

Close ==
    /\ Meanwhile
    /\ \E i \in Active : incident' = [incident EXCEPT ![i] = None]
    /\ UNCHANGED <<event, completed>>
    /\ Watch

Arrive ==
    /\ Meanwhile
    /\ \E r \in Reports :
        event' = event \cup {[ties |-> r.ties, type |-> r.type, status |-> r.status, blank |-> r.blank,
                              outcome |-> r.outcome, at |-> Now, id |-> Cardinality(event) + 1]}
    /\ UNCHANGED <<incident, completed>>
    /\ Watch

Complete ==
    /\ Meanwhile
    /\ completed # Now /\ completed' = Now
    /\ UNCHANGED <<incident, event, steady, alarmed>>

----------------------------------------------------------------------------
(* The request.                                                            *)

Begin ==
    /\ ~request.begun /\ ~answer.given
    /\ request' = [Idle EXCEPT !.begun = TRUE]
    /\ steady' = Active
    /\ alarmed' = Failing(KindsOf(Active), event)
    /\ begun' = Cardinality(Recent(event))
    /\ UNCHANGED <<incident, event, completed, changes, answer>>

\* The reads of Promise.all, one at a time and in any order.
Read ==
    /\ request.begun
    /\ \E r \in Reads \ request.done :
        request' = [request EXCEPT
            !.done = @ \cup {r},
            !.incidents = IF r = "incidents" THEN KindsOf(Active) ELSE @,
            !.events = IF r = "events" THEN event ELSE @,
            !.completed = IF r = "stage" THEN completed ELSE @,
            !.count = [c \in Classes |->
                IF c = r THEN Cardinality({e \in Recent(event) : CountedAs(e, c)}) ELSE @[c]]]
    /\ UNCHANGED <<incident, event, completed, changes, steady, alarmed, begun, answer>>

Answer ==
    /\ request.begun /\ request.done = Reads
    /\ answer' = [given |-> TRUE, global |-> GlobalState(request), steady |-> steady,
                  alarmed |-> alarmed, begun |-> begun,
                  ended |-> Cardinality(Recent(event)), sum |-> CountSum(request)]
    /\ request' = Idle
    /\ steady' = {} /\ alarmed' = FALSE /\ begun' = 0
    /\ UNCHANGED <<incident, event, completed, changes>>

Next == Open \/ Close \/ Arrive \/ Complete \/ Begin \/ Read \/ Answer

Spec == Init /\ [][Next]_vars

----------------------------------------------------------------------------
(* Properties.                                                             *)

\* The shape of every variable.
TypeOK ==
    /\ incident \in [Ids -> Kinds \cup {None}]
    /\ IsFiniteSet(event) /\ \A e \in event : e.at \in 1 .. Now
    /\ completed \in (1 .. Now) \cup {None}
    /\ request.done \subseteq Reads /\ request.count \in [Classes -> Nat]
    /\ steady \subseteq Active
    /\ changes \in 0 .. MaxChanges

\* An incident that is active all through a request keeps its answer from being
\* healthy, whatever it is and however the reads fall (getOperationalDashboard).
HealthyIsQuiet == answer.global \in {"healthy", "unknown"} => answer.steady = {}

\* Failing is said only if at some time in the request something was
\* (deriveGlobalState, workflowState).
FailingIsTrue == answer.global = "failing" => answer.alarmed

\* The counts of an answer add up to the events there were at some time in it
\* (countRecentEvents makes four reads).
CountsAddUp == answer.given => answer.sum \in answer.begun .. answer.ended

\* The windows miss no error that the dashboard sees: where the last event of the
\* workflow makes it failing, the last hour is failing or degraded in every scope
\* that the event is in, whatever else happened in it.  The converse is not so:
\* the windows know words and types that the dashboard does not (eventStatus,
\* eventMatchesWorkflow; normalizeStatus, matchesScope).
WindowsKnowErrors ==
    \A asked \in SUBSET Filters, e \in LatestOf(From(event, "workflow")) :
        EventStatus(e) \in {"failed", "timedOut"} /\ e.at >= Now - Fresh /\ InScope(e, asked) =>
            WindowState(asked) \in {"failing", "degraded"}

\* No incident gets less attention for the group it is in (deriveAttention,
\* seedForIncident).
GroupsKeepAttention ==
    \A i \in Active : AttentionRank(Attention(Group(i))) <= AttentionRank(Attention({i}))

ViewsAreTrue ==
    HealthyIsQuiet /\ FailingIsTrue /\ CountsAddUp /\ WindowsKnowErrors /\ GroupsKeepAttention

----------------------------------------------------------------------------
(* Why they hold.                                                          *)

\* What the incidents, or the events, that were read say of failing was so.
IncidentsAlarm(K) == Severities(K) \cap Alarming # {}

EventsAlarm(E) == WorkflowState({}, E) = "failing"

Counted(c) == Cardinality({e \in Recent(event) : CountedAs(e, c)})

\* What a request has read, beside what there is now.
ReadsAreTrue ==
    request.begun =>
        /\ "incidents" \in request.done /\ request.incidents = {} => steady = {}
        /\ IncidentsAlarm(KindsOf(Active)) \/ EventsAlarm(event) => alarmed
        /\ "incidents" \in request.done /\ IncidentsAlarm(request.incidents) => alarmed
        /\ "events" \in request.done /\ EventsAlarm(request.events) => alarmed
        /\ begun \in Nat /\ begun <= Cardinality(Recent(event))
        /\ \A c \in Classes \cap request.done : request.count[c] <= Counted(c)
        /\ "total" \in request.done => begun <= request.count["total"]

ViewsInv == TypeOK /\ ReadsAreTrue /\ HealthyIsQuiet /\ FailingIsTrue /\ CountsAddUp
=============================================================================
