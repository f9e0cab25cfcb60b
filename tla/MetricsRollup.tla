--------------------------- MODULE MetricsRollup ---------------------------
(***************************************************************************)
(* The metrics of one workflow, minute by minute: the rows of              *)
(* execution_events, the MERGE of runAggregateMetricsRollup                *)
(* (aggregate-metrics-service.ts), the windows that the policies are       *)
(* evaluated over (anomaly-service.ts), and the simulations of             *)
(* simulation-service.ts, which make a policy where there is none.         *)
(*                                                                         *)
(* The unit of time is half a minute.  Rows are stored here when they are  *)
(* sent; IngestQueue has what comes between.  `order` in the sequence of   *)
(* rows is that of ingest_ts.                                              *)
(***************************************************************************)
EXTENDS Integers, FiniteSets, Sequences

Math == INSTANCE AnomalyMath

CONSTANTS
    Histories,  \* sequences of the metrics of the day before, newest first
    Bursts,     \* sequences of rows that the workflow may send: [execution, age, status, retries, duration]
    Scenarios,  \* the simulations that may run, each once
    Watches,    \* sets of enabled policies of the workflow: [metric, threshold, minEvents,
                \* comparator, window]
    Lookback,   \* BIGQUERY_AGG_LOOKBACK_MINUTES
    Start, MaxNow, \* bounds on the clock
    MaxBursts   \* bound on the bursts and simulations

VARIABLES
    now,
    history,
    row,       \* execution_events
    minute,    \* workflow_metrics_minute
    enabled,   \* the enabled policies
    simulated, \* the scenarios that ran
    sent,      \* bursts and simulations
    unseen,    \* minutes with rows that no rollup has seen, all of the minute in its reach
    peak,      \* the executions in each minute when a rollup last reached it
    cut        \* minutes that a rollup saw a part of

vars == <<now, history, row, minute, enabled, simulated, sent, unseen, peak, cut>>

Minutes == 0 .. (MaxNow \div 2)

\* executionStatusSchema
Statuses == {"success", "failed", "timeout", "running", "cancelled"}

\* Executions have these names.
Names == (UNION {{b[i].execution : i \in DOMAIN b} : b \in Bursts}) \cup (Scenarios \X Nat)

\* Bounds are numbers, and no row is older than the clock; a simulation begins 36
\* seconds back.
Proper ==
    /\ {Lookback, Start, MaxNow, MaxBursts} \subseteq Nat /\ 2 <= Start /\ Start <= MaxNow
    /\ Scenarios \subseteq {"webhook-failure", "retry-storm", "latency-spike", "duplicate-webhook"}
    /\ \A b \in Bursts :
        b \in Seq([execution : Names, age : 0 .. Start, status : Statuses, retries : Nat, duration : Nat])

NoMetrics == [total |-> 0, failed |-> 0, retried |-> 0, duplicates |-> 0, p95 |-> 0]

Init ==
    /\ now = Start
    /\ history \in Histories
    /\ row = <<>>
    /\ minute = [m \in Minutes |-> NoMetrics]
    /\ enabled \in Watches
    /\ simulated = {}
    /\ sent = 0
    /\ unseen = {}
    /\ peak = [m \in Minutes |-> 0]
    /\ cut = {}

----------------------------------------------------------------------------
(* What is sent.                                                           *)

MinuteOf(r) == r.at \div 2

Stored(new) ==
    /\ sent < MaxBursts /\ sent' = sent + 1
    /\ row' = row \o new
    /\ unseen' = unseen \cup {MinuteOf(new[i]) : i \in DOMAIN new}

Send ==
    /\ \E b \in Bursts :
        Stored([i \in DOMAIN b |->
            [execution |-> b[i].execution, at |-> now - b[i].age, status |-> b[i].status,
             retries |-> b[i].retries, duration |-> b[i].duration]])
    /\ UNCHANGED <<now, history, minute, enabled, simulated, peak, cut>>

\* scenarioPolicyMap, without the severities, and the 300 seconds.
PolicyOf(scenario) ==
    [metric |-> CASE scenario = "webhook-failure" -> "failure_rate"
                  [] scenario = "retry-storm" -> "retry_rate"
                  [] scenario = "latency-spike" -> "latency_p95"
                  [] scenario = "duplicate-webhook" -> "duplicate_rate",
     threshold |-> CASE scenario = "webhook-failure" -> 200
                     [] scenario = "retry-storm" -> 120
                     [] scenario = "latency-spike" -> 40
                     [] scenario = "duplicate-webhook" -> 20,
     minEvents |-> 20, comparator |-> "gte", window |-> 10]

\* buildBaseEvent and buildScenarioEvent: the event is 36 - i seconds old.
Simulation(scenario, i) ==
    [execution |-> IF scenario = "duplicate-webhook" THEN <<scenario, i \div 6>> ELSE <<scenario, i>>,
     at |-> (30 * now - 36 + i) \div 30,
     status |-> CASE scenario = "webhook-failure" -> IF i % 5 = 0 THEN "timeout" ELSE "failed"
                  [] scenario = "retry-storm" ->
                        IF i % 6 = 0 THEN "success" ELSE IF i % 2 = 0 THEN "failed" ELSE "timeout"
                  [] scenario = "latency-spike" -> IF i % 10 = 0 THEN "failed" ELSE "success"
                  [] scenario = "duplicate-webhook" -> "success",
     retries |-> CASE scenario = "webhook-failure" -> i % 3
                   [] scenario = "retry-storm" -> 3 + (i % 4)
                   [] scenario = "latency-spike" -> i % 2
                   [] scenario = "duplicate-webhook" -> 0,
     duration |-> CASE scenario = "webhook-failure" -> (800 + 25 * i) \div 100
                    [] scenario = "retry-storm" -> (1200 + 40 * i) \div 100
                    [] scenario = "latency-spike" -> (7000 + 120 * i) \div 100
                    [] scenario = "duplicate-webhook" -> (450 + 10 * i) \div 100]

\* ensureScenarioPolicy and runSimulationScenario: any enabled policy of the
\* metric will do.
Simulate ==
    /\ \E s \in Scenarios \ simulated :
        /\ simulated' = simulated \cup {s}
        /\ enabled' = IF \E p \in enabled : p.metric = PolicyOf(s).metric THEN enabled
                      ELSE enabled \cup {PolicyOf(s)}
        /\ Stored([n \in 1 .. 36 |-> Simulation(s, n - 1)])
    /\ UNCHANGED <<now, history, minute, peak, cut>>

----------------------------------------------------------------------------
(* The rollup.                                                             *)

\* The rows that the rollup looks at.
Base == {i \in DOMAIN row : row[i].at >= now - Lookback}

InMinute(m) == {i \in Base : MinuteOf(row[i]) = m}

\* Faulty: every row counts, repeated ones too.
KeptRepeated(rows) == rows

\* Of the rows of one execution, of those of one minute, the last one ingested.
Kept(rows) == {i \in rows : \A j \in rows : row[j].execution = row[i].execution => j <= i}

\* The 95th of 100 quantiles of their durations.
Quantile(S) ==
    LET Below(d) == Cardinality({i \in S : row[i].duration <= d})
        Least(d) == 100 * Below(d) >= 95 * Cardinality(S)
    IN  CHOOSE d \in {row[i].duration : i \in S} :
            Least(d) /\ \A i \in S : Least(row[i].duration) => d <= row[i].duration

Metrics(m) ==
    LET rows == InMinute(m)
        kept == Kept(rows)
    IN  [total |-> Cardinality(kept),
         failed |-> Cardinality({i \in kept : row[i].status = "failed"}),
         retried |-> Cardinality({i \in kept : row[i].retries > 0}),
         duplicates |-> Cardinality(rows) - Cardinality(kept),
         p95 |-> Quantile(kept)]

\* The executions that have rows in a minute, however old.
Executions(m) == {row[i].execution : i \in {j \in DOMAIN row : MinuteOf(row[j]) = m}}

\* The MERGE: each minute that has rows within reach is written anew.
Rollup ==
    /\ minute' = [m \in Minutes |-> IF InMinute(m) # {} THEN Metrics(m) ELSE minute[m]]
    /\ unseen' = {m \in unseen : 2 * m < now - Lookback}
    /\ peak' = [m \in Minutes |->
         IF InMinute(m) # {} THEN Cardinality(Executions(m)) ELSE peak[m]]
    /\ cut' = cut \cup {m \in Minutes : 2 * m < now - Lookback /\ InMinute(m) # {}}
    /\ UNCHANGED <<now, history, row, enabled, simulated, sent>>

----------------------------------------------------------------------------
(* The evaluation of a policy.                                             *)

NewestFirst == [i \in 1 .. Cardinality(Minutes) |-> Cardinality(Minutes) - i]

\* The metrics of minutes, newest first.
Points(S) ==
    LET ms == SelectSeq(NewestFirst, LAMBDA m : m \in S /\ minute[m] # NoMetrics)
    IN  [i \in DOMAIN ms |-> minute[ms[i]]]

InWindow(window) == {m \in Minutes : 2 * m >= now - window}

\* queryWindowSummary: the durations are averaged over the minutes.
Summary(window) ==
    LET points == Points(InWindow(window)) IN
    [total |-> Math!Sum(points, LAMBDA r : r.total),
     failed |-> Math!Sum(points, LAMBDA r : r.failed),
     retried |-> Math!Sum(points, LAMBDA r : r.retried),
     duplicates |-> Math!Sum(points, LAMBDA r : r.duplicates),
     p95 |-> Math!Average([i \in DOMAIN points |-> points[i].p95])]

\* queryRollingHistory: the day before the window.
Rolling(window) == Points(Minutes \ InWindow(window)) \o history

\* querySeasonalHistory: this hour of the last days, the window with it.
Seasonal == Points(Minutes) \o history

\* What runAnomalyDetectionJob would find now.
Triggers(p) == Math!Triggered(p, Summary(p.window), Rolling(p.window), Seasonal)

Tick ==
    /\ now < MaxNow /\ now' = now + 1
    /\ UNCHANGED <<history, row, minute, enabled, simulated, sent, unseen, peak, cut>>

Next == Send \/ Simulate \/ Rollup \/ Tick

Spec == Init /\ [][Next]_vars

----------------------------------------------------------------------------
(* Properties.                                                             *)

Rows == [execution : Names, at : Nat, status : Statuses, retries : Nat, duration : Nat]

\* The shape of every variable.
TypeOK ==
    /\ now \in Start .. MaxNow /\ history \in Histories /\ sent \in 0 .. MaxBursts
    /\ row \in Seq(Rows) /\ \A i \in DOMAIN row : row[i].at <= now
    /\ DOMAIN minute = Minutes /\ DOMAIN peak = Minutes
    /\ \A m \in Minutes :
        /\ {minute[m].total, minute[m].failed, minute[m].retried, minute[m].duplicates} \subseteq Nat
        /\ minute[m].failed <= minute[m].total /\ minute[m].retried <= minute[m].total
    /\ enabled \subseteq (UNION Watches) \cup {PolicyOf(s) : s \in Scenarios}
    /\ simulated \subseteq Scenarios /\ cut \subseteq Minutes /\ unseen \subseteq Nat

\* A minute counts every execution that a rollup could see in it, each once,
\* unless a later rollup saw only the end of that minute and wrote that
\* (buildAggregationQuery compares event_ts, and not the minute, with the
\* lookback).
MinutesCountExecutions == \A m \in Minutes \ cut : minute[m].total = peak[m]

\* What a policy is triggered by has happened: where the rollups have seen every
\* row of its window, and whole minutes, at least min_events executions ran in
\* it, and those that failed or were retried, or the rows beside them, are the
\* share that the policy asks for, or one took as long, however often each was
\* sent and whatever the rollups wrote before (evaluateMetric,
\* queryWindowSummary, buildAggregationQuery).
Earned(p) ==
    LET rows == {i \in DOMAIN row : MinuteOf(row[i]) \in InWindow(p.window)}
        Same(i, j) == row[i].execution = row[j].execution /\ MinuteOf(row[i]) = MinuteOf(row[j])
        last == {i \in rows : \A j \in rows : j > i => ~Same(i, j)}
        IsShare(n) == Math!Mille * n >= p.threshold * Cardinality(last)
    IN  /\ Cardinality(last) >= p.minEvents
        /\ p.metric = "failure_rate" => IsShare(Cardinality({i \in last : row[i].status = "failed"}))
        /\ p.metric = "retry_rate" => IsShare(Cardinality({i \in last : row[i].retries > 0}))
        /\ p.metric = "duplicate_rate" => IsShare(Cardinality(rows) - Cardinality(last))
        /\ p.metric = "latency_p95" => \E i \in last : row[i].duration >= p.threshold

TriggersAreEarned ==
    \A p \in enabled :
        /\ p.comparator \in {"gt", "gte"}
        /\ InWindow(p.window) \cap (unseen \cup cut) = {}
        /\ Triggers(p)
        => Earned(p)

MetricsInv == TypeOK /\ MinutesCountExecutions
=============================================================================
