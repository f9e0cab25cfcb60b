---------------------------- MODULE AnomalyMath ----------------------------
(***************************************************************************)
(* The evaluation of an alert policy over a window of metrics:             *)
(* anomaly-math.ts, evaluateMetric and weightedBaseline of                 *)
(* anomaly-service.ts.                                                     *)
(*                                                                         *)
(* Rates are per mille and rounded down; a duration is in tenths of a      *)
(* second and 0 where there is none.  A z-score is compared with its bound *)
(* without the square root: both sides are squared.  Costs and cost_spike  *)
(* are left out, as latency_drift_ewma has the same moving average.        *)
(***************************************************************************)
LOCAL INSTANCE Integers
LOCAL INSTANCE Sequences
LOCAL INSTANCE SequencesExt
LOCAL INSTANCE TLC

Mille == 1000

Basic == {"failure_rate", "retry_rate", "duplicate_rate", "latency_p95", "missing_heartbeat"}

\* isMetricSupportedAtDetectionLevel
IsSupported(metric, level) == level = "full" \/ metric \in Basic

Compare(value, threshold, comparator) ==
    CASE comparator = "gt" -> value > threshold
      [] comparator = "gte" -> value >= threshold
      [] comparator = "lt" -> value < threshold
      [] comparator = "lte" -> value <= threshold
      [] comparator = "eq" -> value = threshold

\* rollingAverage
Average(s) == IF s = <<>> THEN 0 ELSE FoldLeft(+, 0, s) \div Len(s)

\* smoothedBaseline, the seasonal part with its weight of 0.3.
Smoothed(rolling, seasonal) == (7 * rolling + 3 * seasonal) \div 10

\* ewma, alpha in tenths.
MovingAverage(s, alpha) ==
    IF s = <<>> THEN 0
    ELSE FoldLeft(LAMBDA acc, v : (alpha * v + (10 - alpha) * acc) \div 10, Head(s), Tail(s))

\* Twice the median, which is a whole number.
TwiceMedian(s) ==
    LET sorted == SortSeq(s, <)
        mid == Len(s) \div 2
    IN  CASE s = <<>> -> 0
          [] s # <<>> /\ Len(s) % 2 = 0 -> sorted[mid] + sorted[mid + 1]
          [] OTHER -> 2 * sorted[mid + 1]

\* Four times the median absolute deviation.
FourMad(s) ==
    LET med == TwiceMedian(s)
        Distance(v) == IF 2 * v > med THEN 2 * v - med ELSE med - 2 * v
    IN  TwiceMedian([i \in DOMAIN s |-> Distance(s[i])])

\* proportionZScore >= 3
ProportionIsHigh(total, hits, baseline) ==
    LET excess == (Mille * hits - baseline * total) \div 10 IN
    /\ total > 0 /\ baseline < Mille /\ excess > 0
    /\ excess * excess >= (9 * total * baseline * (Mille - baseline)) \div 100

\* robustZScore >= bound, in tenths: a series that does not vary has no z-score.
RobustIsHigh(current, s, bound) ==
    /\ FourMad(s) > 0
    /\ 20000 * (2 * current - TwiceMedian(s)) >= bound * 1483 * FourMad(s)

\* poissonZScore >= 3; lambda is in thousandths.
PoissonIsHigh(observed, lambda) ==
    LET excess == (Mille * observed - lambda) \div 10 IN
    IF lambda <= 0 THEN observed > 0
    ELSE excess > 0 /\ excess * excess >= 90 * lambda

\* A point of the history, and the window's summary, are rows of metrics:
\* [total, failed, retried, duplicates, p95].

Share(part, row) == IF row.total > 0 THEN (Mille * part) \div row.total ELSE 0

\* weightedBaseline
Baseline(rolling, seasonal, Selector(_)) ==
    Smoothed(Average([i \in DOMAIN rolling |-> Selector(rolling[i])]),
             Average([i \in DOMAIN seasonal |-> Selector(seasonal[i])]))

Sum(s, Selector(_)) == FoldLeft(LAMBDA acc, row : acc + Selector(row), 0, s)

BaselineFailure(rolling, seasonal) ==
    LET total == Sum(rolling, LAMBDA row : row.total)
        failed == Sum(rolling, LAMBDA row : row.failed)
    IN  Smoothed(IF total > 0 THEN (Mille * failed) \div total ELSE 10,
                 Baseline(rolling, seasonal, LAMBDA row : Share(row.failed, row)))

Latencies(rolling) ==
    LET s == [i \in DOMAIN rolling |-> rolling[i].p95] IN SelectSeq(s, LAMBDA v : v > 0)

\* evaluateMetric: whether the policy is triggered.
Triggered(policy, summary, rolling, seasonal) ==
    LET Passes(value) == Compare(value, policy.threshold, policy.comparator)
        drift == MovingAverage(Latencies(rolling), 2)
    IN  /\ summary.total >= policy.minEvents
        /\ CASE policy.metric = "failure_rate" ->
                  /\ ProportionIsHigh(summary.total, summary.failed, BaselineFailure(rolling, seasonal))
                  /\ Passes(Share(summary.failed, summary))
             [] policy.metric = "latency_p95" ->
                  /\ RobustIsHigh(summary.p95, Latencies(rolling), 30)
                  /\ Passes(summary.p95)
             [] policy.metric = "retry_rate" ->
                  /\ ProportionIsHigh(summary.total, summary.retried,
                        Baseline(rolling, seasonal, LAMBDA row : Share(row.retried, row)))
                  /\ Passes(Share(summary.retried, summary))
             [] policy.metric = "duplicate_rate" ->
                  /\ PoissonIsHigh(summary.duplicates,
                        Baseline(rolling, seasonal, LAMBDA row : Mille * row.duplicates))
                  /\ Passes(Share(summary.duplicates, summary))
             [] policy.metric = "latency_drift_ewma" ->
                  Passes(IF drift > 0 THEN (Mille * (summary.p95 - drift)) \div drift ELSE 0)
             [] OTHER -> FALSE
=============================================================================
