------------------------ MODULE OperationalAnalysis -------------------------
(***************************************************************************)
(* The analysis of the GitHub events of one system, with its findings:     *)
(* runOperationalEventsAnalysisBatch                                       *)
(* (operational-events-analysis-service.ts) with the rules of              *)
(* operational-events-rules.ts.  A run reads the events after its cursor,  *)
(* evaluates every rule they concern over all stored events, writes the    *)
(* findings one by one and moves the cursor; it may die between any two.   *)
(* A rule is read and its finding written in one step: only the run that   *)
(* holds the lease writes findings, and it reads none of another rule's.   *)
(*                                                                         *)
(* An event becomes visible when its transaction commits, after created_at *)
(* was taken.  Other systems and tenants are left out: they share nothing  *)
(* but the cursor.  So are evidence, severities and the caps on how many   *)
(* rows a rule reads, which are above the bounds here.                     *)
(***************************************************************************)
EXTENDS Integers, FiniteSets

CONSTANTS
    Feeds,           \* sets of events, one of which happens
    BatchSize,
    FailedThreshold, FailedWindow,             \* workflowFailedBurst..., jobFailedBurst...
    RetryThreshold, RetryPercent, RetryWindow, \* retrySpike...
    MinSamples, DriftRatio, DriftDelta, Lookback, \* durationDrift...
    StuckAge,        \* workflowStuckMinutes, jobStuckMinutes
    None,
    MaxNow,          \* bound on the clock
    MaxUpsets        \* bound on runs that die and changes of the plan

VARIABLES
    now,
    feed,
    row,       \* event_ts and created_at of each event
    visible,   \* committed events
    cursor,    \* operational_event_analysis_cursor
    finding,   \* status of the finding of each fingerprint
    run,       \* the run at work: its `now`, the events it goes by, fingerprints left
    entitled,  \* whether the tenant has premium_intelligence
    upsets,    \* deaths of runs and changes of the plan so far
    evaluated, \* the time of the last evaluation of each fingerprint
    judged,    \* the terminal event that an open drift is judged by, and the events seen
    analysed,  \* events of finished runs
    late,      \* events that committed behind what a run had read
    denied     \* events passed over for want of premium_intelligence

vars == <<now, feed, row, visible, cursor, finding, run, entitled, upsets,
          evaluated, judged, analysed, late, denied>>

Families == {"workflow", "job"}

\* githubWorkflowStartTypes, githubJobStartTypes; the terminal types.
Starts == {"requested", "queued", "started"}

Terminals == {"completed", "failed"}

Events == UNION Feeds

Correlations == {e.correlation : e \in Events} \ {None}

\* Bounds and thresholds are numbers, the events of a feed are told apart by
\* their ids, and types are those of SupportedGitHubEventType.
Proper ==
    /\ {BatchSize, FailedThreshold, MinSamples, MaxNow} \subseteq Nat \ {0}
    /\ {FailedWindow, RetryThreshold, RetryPercent, RetryWindow, DriftRatio, DriftDelta,
        Lookback, StuckAge, MaxUpsets} \subseteq Nat
    /\ None \notin Events
    /\ \A F \in Feeds :
        /\ IsFiniteSet(F)
        /\ \A d, e \in F : d.id = e.id => d = e
        /\ \A e \in F : /\ e.id \in Nat /\ e.delay \in Nat
                       /\ e.family \in Families /\ e.type \in Starts \cup Terminals

\* One for each rule and system, with a family or a correlation.
Fingerprints ==
    ({"failed_burst", "duration_drift"} \X Families)
        \cup {<<"retry_spike", "both">>} \cup ({"stuck"} \X Correlations)

\* The order of a run: three rules of the system, then the drifts, then what may
\* be stuck, these in the order of their events.
Turn(f) ==
    CASE f = <<"failed_burst", "workflow">> -> 1
      [] f = <<"failed_burst", "job">> -> 2
      [] f[1] = "retry_spike" -> 3
      [] f[1] = "duration_drift" -> 4
      [] f[1] = "stuck" -> 5

NoRow == [ts |-> 0, created |-> 0]

NotJudged == [event |-> None, saw |-> {}]

Idle == [at |-> 0, batch |-> {}, access |-> FALSE, left |-> {}]

Init ==
    /\ now = 1
    /\ feed \in Feeds
    /\ row = [e \in Events |-> NoRow]
    /\ visible = {}
    /\ cursor = [created |-> 0, id |-> 0]
    /\ finding = [f \in Fingerprints |-> "absent"]
    /\ run = Idle
    /\ entitled = TRUE
    /\ upsets = 0
    /\ evaluated = [f \in Fingerprints |-> 0]
    /\ judged = [family \in Families |-> NotJudged]
    /\ analysed = {} /\ late = {} /\ denied = {}

ghosts == <<evaluated, judged, analysed, late, denied>>

\* The order of (created_at, id), and eventComesAfter.
Place(e) == [created |-> row[e].created, id |-> e.id]

Behind(e, c) == row[e].created < c.created \/ (row[e].created = c.created /\ e.id <= c.id)

ComesAfter(d, e) == row[d].ts > row[e].ts \/ (row[d].ts = row[e].ts /\ d.id > e.id)

Newest(S) == CHOOSE e \in S : \A d \in S \ {e} : ComesAfter(e, d)

\* Where a run that read the events S leaves the cursor.
End(S) ==
    LET final == CHOOSE e \in S : \A d \in S : Behind(d, Place(e)) IN Place(final)

----------------------------------------------------------------------------
(* Events.                                                                 *)

\* An event, which happened some time ago, is inserted,
Insert(e) ==
    /\ row[e] = NoRow /\ now > e.delay
    /\ row' = [row EXCEPT ![e] = [ts |-> now - e.delay, created |-> now]]
    /\ UNCHANGED <<now, feed, visible, cursor, finding, run, entitled, upsets, ghosts>>

\* and its transaction commits: too late, if a run has read past it.
Commit(e) ==
    /\ row[e] # NoRow /\ e \notin visible
    /\ visible' = visible \cup {e}
    /\ late' = IF Behind(e, cursor) \/ (run.batch # {} /\ Behind(e, End(run.batch)))
               THEN late \cup {e} ELSE late
    /\ UNCHANGED <<now, feed, row, cursor, finding, run, entitled, upsets,
                   evaluated, judged, analysed, denied>>

Tick ==
    /\ now < MaxNow /\ now' = now + 1
    /\ UNCHANGED <<feed, row, visible, cursor, finding, run, entitled, upsets, ghosts>>

\* A trial starts or ends.
ChangePlan ==
    /\ upsets < MaxUpsets /\ upsets' = upsets + 1
    /\ entitled' = ~entitled
    /\ UNCHANGED <<now, feed, row, visible, cursor, finding, run, ghosts>>

----------------------------------------------------------------------------
(* The rules, over the visible events, at the time t.                      *)

TerminalsOf(family) == {e \in visible : e.family = family /\ e.type \in Terminals}

FailedBurst(family, t) ==
    Cardinality({e \in TerminalsOf(family) : e.type = "failed" /\ row[e].ts >= t - FailedWindow})
        >= FailedThreshold

\* runAttemptForEvent is the attempt of an event.
RetrySpike(t) ==
    LET candidates == {e \in TerminalsOf("workflow") \cup TerminalsOf("job") :
                         row[e].ts >= t - RetryWindow}
        retried == {e \in candidates : e.attempt > 1}
    IN  /\ Cardinality(retried) >= RetryThreshold
        /\ 100 * Cardinality(retried) >= RetryPercent * Cardinality(candidates)

\* durationMsForTerminalEvent: since the last start; 0 when there is none.
Duration(e) ==
    LET starts == {s \in visible : /\ s.correlation = e.correlation /\ s.family = e.family
                                   /\ s.type \in Starts /\ row[s].ts <= row[e].ts}
    IN  IF e.correlation = None \/ starts = {} THEN 0 ELSE row[e].ts - row[Newest(starts)].ts

\* The durations that the one of e is compared with.
Baseline(e) ==
    {d \in TerminalsOf(e.family) :
        row[d].ts < row[e].ts /\ row[d].ts >= row[e].ts - Lookback /\ Duration(d) > 0}

\* median, twice.
TwiceMedian(S) ==
    LET n == Cardinality(S)
        before(d, e) == Duration(d) < Duration(e) \/ (Duration(d) = Duration(e) /\ d.id < e.id)
        nth(k) == Duration(CHOOSE e \in S : Cardinality({d \in S : before(d, e)}) = k - 1)
    IN  nth((n + 1) \div 2) + nth(n \div 2 + 1)

Drifts(e) ==
    /\ 2 * Duration(e) >= DriftRatio * TwiceMedian(Baseline(e))
    /\ 2 * Duration(e) - TwiceMedian(Baseline(e)) >= 2 * DriftDelta

Verdict(holds) == IF holds THEN "open" ELSE "resolve"

\* The drift of a family is judged by the newest terminal event of the batch.
Candidates(family) ==
    {e \in run.batch : e.family = family /\ e.type \in Terminals /\ e.correlation # None}

DriftVerdict(e) ==
    IF Duration(e) = 0 \/ Cardinality(Baseline(e)) < MinSamples THEN "keep" ELSE Verdict(Drifts(e))

StuckVerdict(c, t) ==
    LET latest == Newest({e \in visible : e.correlation = c}) IN
        CASE latest.type \in Terminals -> "resolve"
          [] latest.type \in Starts -> Verdict(t - row[latest].ts >= StuckAge)
          [] OTHER -> "keep"

VerdictOf(f) ==
    CASE f[1] = "failed_burst" -> Verdict(FailedBurst(f[2], run.at))
      [] f[1] = "retry_spike" -> Verdict(RetrySpike(run.at))
      [] f[1] = "duration_drift" -> DriftVerdict(Newest(Candidates(f[2])))
      [] OTHER -> StuckVerdict(f[2], run.at)

----------------------------------------------------------------------------
(* A run.                                                                  *)

\* The first BatchSize visible events after the cursor.
Fetched ==
    LET ahead == {e \in visible : ~Behind(e, cursor)}
        position(e) == Cardinality({d \in ahead : Behind(d, Place(e))})
    IN  {e \in ahead : position(e) <= BatchSize}

\* What the events of a batch concern.
Affected(batch) ==
    {f \in Fingerprints :
        CASE f[1] \in {"failed_burst", "retry_spike"} -> TRUE
          [] f[1] = "duration_drift" ->
                \E e \in batch : e.family = f[2] /\ e.type \in Terminals /\ e.correlation # None
          [] OTHER -> \E e \in batch : e.correlation = f[2]}

\* A run takes its `now`,
Begin ==
    /\ run = Idle
    /\ run' = [Idle EXCEPT !.at = now]
    /\ UNCHANGED <<now, feed, row, visible, cursor, finding, entitled, upsets, ghosts>>

\* and reads the cursor, the events and the plan: the first is written by itself
\* alone, and the last is read nowhere else.
Fetch ==
    /\ run.at > 0 /\ run.batch = {}
    /\ run' = IF Fetched = {} THEN Idle
              ELSE [at |-> run.at, batch |-> Fetched, access |-> entitled,
                    left |-> IF entitled THEN Affected(Fetched) ELSE {}]
    /\ UNCHANGED <<now, feed, row, visible, cursor, finding, entitled, upsets, ghosts>>

\* The fingerprints whose turn it may be.
InHand == {f \in run.left : \A g \in run.left : Turn(f) <= Turn(g)}

\* Faulty: a rule that does not hold leaves its finding as it is.
OnlyOpen(status, verdict) == IF verdict = "open" THEN "open" ELSE status

\* openOrRefreshFinding, resolveFinding.
Written(status, verdict) ==
    CASE verdict = "open" -> "open"
      [] verdict = "resolve" /\ status = "open" -> "resolved"
      [] OTHER -> status

\* A rule is evaluated and its finding written.  A drift makes several reads; what
\* commits between them is held against `saw`, like what commits after them.
Evaluate ==
    /\ \E f \in InHand :
        /\ finding' = [finding EXCEPT ![f] = Written(@, VerdictOf(f))]
        /\ run' = [run EXCEPT !.left = @ \ {f}]
        /\ evaluated' = [evaluated EXCEPT ![f] = run.at]
        /\ judged' = [family \in Families |->
                IF f # <<"duration_drift", family>> \/ VerdictOf(f) = "keep" THEN judged[family]
                ELSE IF VerdictOf(f) = "open" THEN [event |-> Newest(Candidates(family)), saw |-> visible]
                ELSE NotJudged]
    /\ UNCHANGED <<now, feed, row, visible, cursor, entitled, upsets, analysed, late, denied>>

\* The upsert of the cursor.
Advance ==
    /\ run.batch # {} /\ run.left = {}
    /\ cursor' = End(run.batch)
    /\ run' = Idle
    /\ analysed' = IF run.access THEN analysed \cup run.batch ELSE analysed
    /\ denied' = IF run.access THEN denied ELSE denied \cup run.batch
    /\ UNCHANGED <<now, feed, row, visible, finding, entitled, upsets, evaluated, judged, late>>

\* A run dies, or a call of its fails.
Abort ==
    /\ upsets < MaxUpsets /\ upsets' = upsets + 1
    /\ run # Idle
    /\ run' = Idle
    /\ late' = {e \in late : Behind(e, cursor)}
    /\ UNCHANGED <<now, feed, row, visible, cursor, finding, entitled,
                   evaluated, judged, analysed, denied>>

Next ==
    \/ \E e \in feed : Insert(e) \/ Commit(e)
    \/ Tick \/ ChangePlan
    \/ Begin \/ Fetch \/ Evaluate \/ Advance \/ Abort

Spec == Init /\ [][Next]_vars

----------------------------------------------------------------------------
(* Properties.                                                             *)

EventRows == [ts : Nat, created : Nat]

CursorRows == [created : Nat, id : Nat]

Runs == [at : Nat, batch : SUBSET Events, access : BOOLEAN, left : SUBSET Fingerprints]

\* The shape of every variable.
TypeOK ==
    /\ now \in 1 .. MaxNow /\ feed \in Feeds
    /\ row \in [Events -> EventRows]
    /\ visible \subseteq feed
    /\ \A e \in Events : row[e].ts <= row[e].created /\ row[e].created <= now
    /\ \A e \in visible : row[e] # NoRow
    /\ cursor \in CursorRows
    /\ finding \in [Fingerprints -> {"absent", "open", "resolved"}]
    /\ run \in Runs /\ run.at <= now
    /\ run.batch \subseteq visible /\ run.left \subseteq Affected(run.batch)
    /\ run.at = 0 => run = Idle
    /\ run.batch = {} => run.left = {} /\ ~run.access
    /\ entitled \in BOOLEAN /\ upsets \in 0 .. MaxUpsets
    /\ evaluated \in [Fingerprints -> 0 .. now]
    /\ \A family \in Families :
        judged[family].event \in visible \cup {None} /\ judged[family].saw \subseteq visible
    /\ analysed \cup late \cup denied \subseteq visible

\* Whatever the cursor has passed was analysed, passed over for want of
\* premium_intelligence, or committed after a later event had been read
\* (runOperationalEventsAnalysisBatch).
NothingIsSkipped ==
    \A e \in visible : Behind(e, cursor) => e \in analysed \cup late \cup denied

\* What a rule says of the visible events, without its counting.
Justified(f, t) ==
    CASE f[1] = "failed_burst" ->
            \E S \in SUBSET visible :
                /\ Cardinality(S) = FailedThreshold
                /\ \A e \in S : e.family = f[2] /\ e.type = "failed" /\ row[e].ts + FailedWindow >= t
      [] f[1] = "retry_spike" -> RetrySpike(t)
      [] f[1] = "stuck" ->
            \E e \in visible :
                /\ e.correlation = f[2] /\ e.type \in Starts /\ row[e].ts + StuckAge <= t
                /\ \A d \in visible \ {e} : d.correlation = f[2] => ComesAfter(e, d)

\* Once every visible event is analysed, the finding of each burst, spike and
\* stuck run is open exactly if its rule held when it was last evaluated: an
\* evaluation that did not see an event is repeated with it, but not when only
\* time passes (openOrRefreshFinding, resolveFinding).
FindingsAreCurrent ==
    run = Idle /\ visible \subseteq analysed =>
        \A f \in Fingerprints :
            f[1] # "duration_drift" /\ evaluated[f] > 0 =>
                (finding[f] = "open" <=> Justified(f, evaluated[f]))

\* A drift is open only if the run it was judged by took DriftRatio times as
\* long as half of the runs before it, unless events committed since.
DriftsAreSlow ==
    \A family \in Families :
        LET e == judged[family].event
            quick == {d \in Baseline(e) : Duration(e) >= DriftRatio * Duration(d)}
        IN  /\ (finding[<<"duration_drift", family>>] = "open") <=> (e # None)
            /\ e # None /\ judged[family].saw = visible =>
                Cardinality(Baseline(e)) >= MinSamples /\ 2 * Cardinality(quick) >= Cardinality(Baseline(e))

FindingsFollowEvents == NothingIsSkipped /\ FindingsAreCurrent /\ DriftsAreSlow

\* What a run has read leaves nothing out either.
BatchIsCovered ==
    \A e \in visible : \A d \in run.batch :
        Behind(e, Place(d)) => Behind(e, cursor) \/ e \in run.batch \cup late

\* The finding of a rule is what the rule said when it was last evaluated,
Agrees(f) == finding[f] = "open" <=> Justified(f, evaluated[f])

\* or an event it is about is yet to be analysed, and the run at work has not
\* been through with the rule.
Awaits(f) ==
    \E e \in visible \ analysed :
        /\ f[1] = "stuck" => e.correlation = f[2]
        /\ ~(run.access /\ e \in run.batch /\ f \notin run.left)

FindingsAgree ==
    \A f \in Fingerprints : f[1] # "duration_drift" /\ evaluated[f] > 0 => Agrees(f) \/ Awaits(f)

AnalysisInv ==
    TypeOK /\ NothingIsSkipped /\ BatchIsCovered /\ FindingsAgree /\ DriftsAreSlow
=============================================================================
