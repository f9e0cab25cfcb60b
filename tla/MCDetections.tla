---------------------------- MODULE MCDetections ----------------------------
(***************************************************************************)
(* Small instances of the detections.                                      *)
(***************************************************************************)
EXTENDS Detections, Sequences, TLC

CONSTANTS d1, d2, h1, h2, f1, i1, i2

Plain(n, status, execution, at) ==
    [run |-> n, provider |-> "plain", status |-> status, execution |-> <<"", execution>>,
     delivery |-> None, at |-> at]

HighLevel(n, status, execution, delivery, at) ==
    [run |-> n, provider |-> "gohighlevel", status |-> status, execution |-> execution,
     delivery |-> delivery, at |-> at]

\* A run that fails, succeeds and fails again; runs side by side, with and
\* without a time; GoHighLevel, whose reports may have no time, no run or no
\* delivery; and a run of its that is tried again, with and without the time
\* in the key.
MCReportFeeds ==
    {{Plain(1, "failed", "x1", 1), Plain(1, "success", "x1", 2), Plain(1, "failed", "x1", 3)},
     {Plain(1, "timeout", "x1", None), Plain(2, "success", "x2", 2), Plain(3, "failed", "x3", 2)},
     {HighLevel(1, "error", None, None, None), HighLevel(2, "complete", None, <<"", "d2">>, None),
      HighLevel(3, "failure", None, None, None)},
     {HighLevel(1, "error", <<"", "x1">>, None, 1), HighLevel(2, "complete", <<"ghl_", "x1">>, None, 1),
      HighLevel(3, "failure", <<"", "x1">>, None, 2)},
     {HighLevel(1, "error", <<"", "x1">>, <<"", "d1">>, 1), HighLevel(2, "complete", <<"", "x1">>, None, 1),
      HighLevel(3, "failure", <<"", "x1">>, <<"", "d3">>, 2)}}

Ev(n, family, type, correlation, attempt, delay) ==
    [id |-> n, family |-> family, type |-> type, correlation |-> correlation, attempt |-> attempt,
     delay |-> delay]

\* Failures with retries; a run and a job that start and end, or do not; a run that
\* is started, completed and failed.
MCEventFeeds ==
    {{Ev(1, "workflow", "failed", "c1", 2, 0), Ev(3, "workflow", "failed", None, 2, 1)},
     {Ev(5, "workflow", "requested", "c1", 1, 0), Ev(6, "workflow", "completed", "c1", 1, 0),
      Ev(7, "job", "queued", "j1", 1, 1)},
     {Ev(8, "workflow", "started", "c1", 1, 0), Ev(9, "workflow", "completed", "c1", 1, 0),
      Ev(11, "workflow", "failed", "c1", 2, 0)}}

\* Two policies of one metric, or one whose metric needs no heartbeat.
MCChoices ==
    {{[id |-> h1, metric |-> "missing_heartbeat"], [id |-> h2, metric |-> "missing_heartbeat"]},
     {[id |-> f1, metric |-> "failure_rate"]}}

Minute(total, failed, retried, duplicates, p95) ==
    [total |-> total, failed |-> failed, retried |-> retried, duplicates |-> duplicates, p95 |-> p95]

\* A workflow with no history, one that never varies and one that does.
MCHistories ==
    {<<>>, <<Minute(20, 0, 0, 0, 5), Minute(20, 0, 0, 0, 5), Minute(20, 0, 0, 0, 5)>>,
     <<Minute(20, 1, 0, 1, 4), Minute(20, 0, 1, 0, 5), Minute(25, 0, 2, 0, 9)>>}

Sent(execution, age, status) ==
    [execution |-> execution, age |-> age, status |-> status, retries |-> 0, duration |-> 4]

\* Many runs at once; a run that fails, reported twice, and one that was under way
\* long before.
MCBursts ==
    {[i \in 1 .. 14 |-> Sent(<<"run", i>>, 0, "success")],
     <<Sent(<<"y", 0>>, 0, "failed"), Sent(<<"y", 0>>, 0, "failed"), Sent(<<"y", 1>>, 3, "running")>>}

Watch(metric, threshold, minEvents, comparator, window) ==
    [metric |-> metric, threshold |-> threshold, minEvents |-> minEvents, comparator |-> comparator,
     window |-> window]

\* No policy, or ones with windows, thresholds and minima of their own.
MCWatches ==
    {{}, {Watch("failure_rate", 500, 2, "gte", 4), Watch("duplicate_rate", 200, 1, "gt", 10),
          Watch("latency_p95", 60, 15, "gt", 2)}}

Kind(severity, fingerprint, workflow, system, policy, breached, failures) ==
    [severity |-> severity, fingerprint |-> fingerprint, workflow |-> workflow, system |-> system,
     rule |-> system, policy |-> policy, breached |-> breached,
     failures |-> failures, recent |-> failures, signals |-> failures]

\* Incidents of a source, of a workflow, and of a source and a policy.
MCKinds ==
    {Kind("high", "f1", None, "s1", None, FALSE, 1), Kind("warn", "f1", "w1", None, None, FALSE, 1),
     Kind("odd", None, None, "s1", "p1", TRUE, 0)}

Told(ties, type, status, blank, outcome) ==
    [ties |-> ties, type |-> type, status |-> status, blank |-> blank, outcome |-> outcome]

Past(ties, type, status, outcome, at, id) ==
    [ties |-> ties, type |-> type, status |-> status, blank |-> FALSE, outcome |-> outcome,
     at |-> at, id |-> id]

\* Words, types and ties that both services know, and ones that only one does.
MCPasts ==
    {{},
     {Past({"workflow_id"}, <<"workflow", "completed">>, "success", None, 2, 1),
      Past({"system"}, <<"workflow", "completed">>, "error", None, 3, 2)},
     {Past({"source_id"}, <<"job", "failed">>, None, None, 1, 1),
      Past({"repository"}, <<"job", "timed_out">>, None, None, 3, 2)},
     {Past({"workflow_id", "source_key"}, <<"other", "queued">>, None, "failure", 3, 1),
      Past({"source_key"}, <<"other", "failed">>, None, "success", 3, 2)}}

MCReports ==
    {Told({"workflow_id"}, <<"other", "queued">>, "failure", FALSE, None),
     Told({"source_id", "repository"}, <<"job", "completed">>, "timeout", TRUE, None)}

Symmetric == Permutations({d1, d2}) \cup Permutations({h1, h2})
=============================================================================
