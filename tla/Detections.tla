----------------------------- MODULE Detections -----------------------------
(***************************************************************************)
(* What the stored events and reports come to: the incidents of workflows, *)
(* the findings of the operational analysis, the anomalies of alert        *)
(* policies, the metrics they are judged by, and the dashboard.  A         *)
(* behaviour is one of one of them, which `part` names; the variables that *)
(* only the others have are Unused.                                        *)
(***************************************************************************)
EXTENDS Integers

CONSTANTS
    None, MaxUpsets,
    \* WorkflowDetection, with its Feeds, MaxIncidents and MaxNow
    ReportFeeds, Handlers, Sla, MaxOperations, WorkflowIncidents, WorkflowNow,
    \* OperationalAnalysis, with its Feeds, Lookback and MaxNow
    EventFeeds, BatchSize, FailedThreshold, FailedWindow, RetryThreshold, RetryPercent, RetryWindow,
    MinSamples, DriftRatio, DriftDelta, DriftLookback, StuckAge, AnalysisNow,
    \* AnomalyDetection, with its MaxIncidents and MaxNow
    Choices, Notify, Escalation, Cooldown, CooldownAge, AnomalyIncidents, AnomalyNow,
    \* MetricsRollup, with its MaxNow
    Histories, Bursts, Scenarios, Watches, Lookback, Start, MetricsNow, MaxBursts,
    \* Views
    Kinds, Pasts, Reports, Now, Fresh, Hour, Delay, FailingPercent, FailingCount, IncidentIds, MaxChanges

VARIABLES
    part, now, feed, row, incident, upsets,
    stored, seen, handler, marking, operations, lastAt, wanted, excused, raced, overdue, carried,
    visible, cursor, finding, run, entitled, evaluated, judged, analysed, late, denied,
    policies, job, operator, alerted, quiet, triggered, skipped, touched, silenced,
    history, minute, enabled, simulated, sent, unseen, peak, cut,
    event, completed, request, changes, steady, alarmed, begun, answer

workflowVars ==
    <<stored, seen, handler, marking, operations, lastAt, wanted, excused, raced, overdue, carried>>
analysisVars ==
    <<visible, cursor, finding, run, entitled, evaluated, judged, analysed, late, denied>>
anomalyVars ==
    <<policies, job, operator, alerted, quiet, triggered, skipped, touched, silenced>>
metricsVars == <<history, minute, enabled, simulated, sent, unseen, peak, cut>>
viewsVars == <<event, completed, request, changes, steady, alarmed, begun, answer>>
vars == <<part, now, feed, row, incident, upsets, workflowVars, analysisVars, anomalyVars,
          metricsVars, viewsVars>>

Unused == "unused"

W == INSTANCE WorkflowDetection WITH
        Feeds <- ReportFeeds, MaxIncidents <- WorkflowIncidents, MaxNow <- WorkflowNow

A == INSTANCE OperationalAnalysis WITH
        Feeds <- EventFeeds, Lookback <- DriftLookback, MaxNow <- AnalysisNow

N == INSTANCE AnomalyDetection WITH MaxIncidents <- AnomalyIncidents, MaxNow <- AnomalyNow

M == INSTANCE MetricsRollup WITH MaxNow <- MetricsNow

V == INSTANCE Views WITH Ids <- IncidentIds

ASSUME WorkflowIsProper == W!Proper
ASSUME AnalysisIsProper == A!Proper
ASSUME MetricsAreProper == M!Proper
ASSUME AnomalyIsProper == N!Proper
ASSUME ViewsAreProper == V!Proper

WorkflowUnused ==
    /\ stored = Unused /\ seen = Unused /\ handler = Unused /\ marking = Unused
    /\ operations = Unused /\ lastAt = Unused /\ wanted = Unused /\ excused = Unused
    /\ raced = Unused /\ overdue = Unused /\ carried = Unused

AnalysisUnused ==
    /\ visible = Unused /\ cursor = Unused /\ finding = Unused /\ run = Unused
    /\ entitled = Unused /\ evaluated = Unused /\ judged = Unused /\ analysed = Unused
    /\ late = Unused /\ denied = Unused

AnomalyUnused ==
    /\ policies = Unused /\ job = Unused /\ operator = Unused /\ alerted = Unused
    /\ quiet = Unused /\ triggered = Unused /\ skipped = Unused /\ touched = Unused
    /\ silenced = Unused

MetricsUnused ==
    /\ history = Unused /\ minute = Unused /\ enabled = Unused /\ simulated = Unused
    /\ sent = Unused /\ unseen = Unused /\ peak = Unused /\ cut = Unused

ViewsUnused ==
    /\ event = Unused /\ completed = Unused /\ request = Unused /\ changes = Unused
    /\ steady = Unused /\ alarmed = Unused /\ begun = Unused /\ answer = Unused

Init ==
    \/ /\ part = "workflow" /\ W!Init
       /\ AnalysisUnused /\ AnomalyUnused /\ MetricsUnused /\ ViewsUnused
       /\ row = Unused /\ upsets = Unused
    \/ /\ part = "analysis" /\ A!Init
       /\ WorkflowUnused /\ AnomalyUnused /\ MetricsUnused /\ ViewsUnused
       /\ incident = Unused
    \/ /\ part = "anomaly" /\ N!Init
       /\ WorkflowUnused /\ AnalysisUnused /\ MetricsUnused /\ ViewsUnused
       /\ feed = Unused /\ row = Unused
    \/ /\ part = "metrics" /\ M!Init
       /\ WorkflowUnused /\ AnalysisUnused /\ AnomalyUnused /\ ViewsUnused
       /\ feed = Unused /\ incident = Unused /\ upsets = Unused
    \/ /\ part = "views" /\ V!Init
       /\ WorkflowUnused /\ AnalysisUnused /\ AnomalyUnused /\ MetricsUnused
       /\ now = Unused /\ feed = Unused /\ row = Unused /\ upsets = Unused

Next ==
    /\ UNCHANGED part
    /\ \/ /\ part = "workflow" /\ W!Next
          /\ UNCHANGED <<row, upsets, analysisVars, anomalyVars, metricsVars, viewsVars>>
       \/ /\ part = "analysis" /\ A!Next
          /\ UNCHANGED <<incident, workflowVars, anomalyVars, metricsVars, viewsVars>>
       \/ /\ part = "anomaly" /\ N!Next
          /\ UNCHANGED <<feed, row, workflowVars, analysisVars, metricsVars, viewsVars>>
       \/ /\ part = "metrics" /\ M!Next
          /\ UNCHANGED <<feed, incident, upsets, workflowVars, analysisVars, anomalyVars, viewsVars>>
       \/ /\ part = "views" /\ V!Next
          /\ UNCHANGED <<now, feed, row, upsets, workflowVars, analysisVars, anomalyVars, metricsVars>>

Spec == Init /\ [][Next]_vars

\* The inductive invariants of the five modules.
TypeOK ==
    /\ part = "workflow" => W!WorkflowInv
    /\ part = "analysis" => A!AnalysisInv
    /\ part = "anomaly" => N!AnomalyInv
    /\ part = "metrics" => M!MetricsInv
    /\ part = "views" => V!ViewsInv

\* WorkflowDetection: a workflow has the one incident of each rule that its
\* latest report asks for, marked breached when it was overdue, except for the
\* causes named there (generic-workflow-incident-service.ts, markBreachedSla).
IncidentsFollowWorkflow == part = "workflow" => W!IncidentsFollowWorkflow

\* OperationalAnalysis: no event of an entitled tenant is passed over, and every
\* finding is what its rule made of the events; MetricsRollup: the minutes count
\* each execution once, except for the causes named there
\* (runOperationalEventsAnalysisBatch, runAggregateMetricsRollup).
AnalysesFollowEvents ==
    /\ part = "analysis" => A!FindingsFollowEvents
    /\ part = "metrics" => M!MinutesCountExecutions

\* MetricsRollup: a policy is triggered by what really ran in its window, however
\* often it was sent and rolled up, once the rollups have seen all of it
\* (evaluateMetric, queryWindowSummary, runAggregateMetricsRollup).
TriggersAreEarned == part = "metrics" => M!TriggersAreEarned

\* AnomalyDetection: a trigger leaves an active, alerted incident or a
\* suppression that ends, and only quiet resolves it, except for the causes named
\* there (upsertIncident, clearIncidentIfStable, shouldSuppressReopen).
AnomaliesAreTracked == part = "anomaly" => N!AnomaliesAreTracked

\* Views: the dashboard tells of nothing that was not so at some time of its
\* reads, and hides no incident that was active all through them, except as
\* said there (getOperationalDashboard).
ViewsAreTrue == part = "views" => V!ViewsAreTrue
=============================================================================
