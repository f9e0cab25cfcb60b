--------------------------- MODULE IncidentBridge ---------------------------
(***************************************************************************)
(* From findings to incidents: runIncidentBridgeBatch                      *)
(* (incident-bridge-service.ts) reads the findings that changed since its  *)
(* cursor and opens, refreshes or resolves the incident of each through    *)
(* openOrRefreshBridgeIncident and resolveBridgeIncident                   *)
(* (incidents-service.ts), while the analysis updates the findings and     *)
(* operators acknowledge and resolve the incidents.                        *)
(*                                                                         *)
(* Nothing here is a transaction: a run dies between any two calls and is  *)
(* repeated from the cursor, which moves only at the end of a batch.  One  *)
(* run is at work at a time, under the lease of the worker.  The           *)
(* updated_at of a finding is read before the write reaches the database.  *)
(***************************************************************************)
EXTENDS Integers, FiniteSets

CONSTANTS
    NumFindings,
    BatchSize,     \* incidentBridgeRules.batchSize
    MaxIncidents,  \* bound on the incidents created
    MaxNow,        \* bound on the clock
    MaxUpdates,    \* bound on the updates of findings
    MaxOperations, \* bound on what operators do
    MaxAborts      \* bound on the runs that die

ASSUME BoundsAssumption ==
    /\ BatchSize \in Nat \ {0}
    /\ {NumFindings, MaxIncidents, MaxNow, MaxUpdates, MaxOperations, MaxAborts} \subseteq Nat

\* The order of ids is the second key of the cursor.
Findings == 1..NumFindings

Ids == 1..MaxIncidents

NoIncident == 0

VARIABLES
    now,       \* wall clock
    finding,   \* status and updated_at of each finding
    writing,   \* the update of each finding that has not reached the database
    incident,  \* the incidents: fingerprint (as the finding), status, started_at, alerted
    link,      \* finding_incident_links: the incident of each finding
    cursor,    \* incident_bridge_cursor: updated_at and id of the last finding bridged
    run,       \* the run: phase, the findings left as they were fetched, which of them
               \* have not changed since, the last of the batch, incident at hand and its
               \* status as read, clock reading of the call, access of the tenant
    entitled,  \* whether the tenant has premium_intelligence
    used,      \* how many updates, operations and deaths there have been
    bridged,   \* findings a run went through with in their latest state
    late,      \* findings updated at or behind what a run had read already
    denied,    \* findings passed over for want of premium_intelligence
    touched,   \* incidents an operator acted on since the bridge last wrote them
    silenced   \* incidents whose last opening lost its alert

vars == <<now, finding, writing, incident, link, cursor, run, entitled, used,
          bridged, late, denied, touched, silenced>>

Absent == [status |-> "absent", updated |-> 0]

FindingRows == [status : {"absent", "open", "resolved"}, updated : Nat]

NoWrite == Absent

Phases == {"idle", "look", "find", "create", "update", "events", "link", "check", "resolve"}

Cursors == [at : Nat, id : Findings \cup {0}]

IncidentRows ==
    [of : Findings \cup {0}, status : {"none", "open", "acked", "resolved"}, started : Nat,
     alerted : BOOLEAN]

Runs ==
    [phase : Phases, rows : [Findings -> FindingRows], fresh : SUBSET Findings, last : Cursors,
     inc : Ids \cup {NoIncident}, was : {"none", "open", "acked", "resolved"}, at : Nat,
     access : {"unread", "granted", "denied"}]

NoRun == [phase |-> "idle", rows |-> [f \in Findings |-> Absent], fresh |-> {},
          last |-> [at |-> 0, id |-> 0], inc |-> NoIncident, was |-> "none", at |-> 0,
          access |-> "unread"]

Init ==
    /\ now = 1
    /\ finding = [f \in Findings |-> Absent]
    /\ writing = [f \in Findings |-> NoWrite]
    /\ incident = [i \in Ids |-> [of |-> 0, status |-> "none", started |-> 0, alerted |-> FALSE]]
    /\ link = [f \in Findings |-> NoIncident]
    /\ cursor = [at |-> 0, id |-> 0]
    /\ run = NoRun
    /\ entitled = TRUE
    /\ used = [updates |-> 0, operations |-> 0, aborts |-> 0]
    /\ bridged = {}
    /\ late = {}
    /\ denied = {}
    /\ touched = {}
    /\ silenced = {}

\* The order of (updated_at, id).
Behind(at, id, c) == at < c.at \/ (at = c.at /\ id <= c.id)

----------------------------------------------------------------------------
(* The analysis and the clock.                                             *)

\* openOrRefreshFinding or resolveFinding sets the status and updated_at.
UpdateBegins(f) ==
    /\ used.updates < MaxUpdates
    /\ writing[f] = NoWrite
    /\ \E s \in {"open", "resolved"} :
        /\ s = "resolved" => finding[f].status = "open"
        /\ writing' = [writing EXCEPT ![f] = [status |-> s, updated |-> now]]
    /\ used' = [used EXCEPT !.updates = @ + 1]
    /\ UNCHANGED <<now, finding, incident, link, cursor, run, entitled,
                   bridged, late, denied, touched, silenced>>

\* The update reaches the database: too late if a run has already read past it.
UpdateLands(f) ==
    /\ writing[f] # NoWrite
    /\ finding' = [finding EXCEPT ![f] = writing[f]]
    /\ writing' = [writing EXCEPT ![f] = NoWrite]
    /\ run' = [run EXCEPT !.fresh = @ \ {f}]
    /\ bridged' = bridged \ {f}
    /\ late' = IF \E c \in {cursor, run.last} : Behind(writing[f].updated, f, c)
               THEN late \cup {f} ELSE late \ {f}
    /\ denied' = denied \ {f}
    /\ UNCHANGED <<now, incident, link, cursor, entitled, used, touched, silenced>>

Tick ==
    /\ now < MaxNow
    /\ now' = now + 1
    /\ UNCHANGED <<finding, writing, incident, link, cursor, run, entitled, used,
                   bridged, late, denied, touched, silenced>>

\* The plan of the tenant changes (a trial starts or ends).
ChangePlan ==
    /\ used.operations < MaxOperations
    /\ used' = [used EXCEPT !.operations = @ + 1]
    /\ entitled' = ~entitled
    /\ UNCHANGED <<now, finding, writing, incident, link, cursor, run,
                   bridged, late, denied, touched, silenced>>

----------------------------------------------------------------------------
(* Operators: neither call looks at the status it replaces.                *)

Operate(i, status) ==
    /\ used.operations < MaxOperations
    /\ used' = [used EXCEPT !.operations = @ + 1]
    /\ incident[i].status # "none"
    /\ incident' = [incident EXCEPT ![i].status = status]
    /\ touched' = touched \cup {i}
    /\ UNCHANGED <<now, finding, writing, link, cursor, run, entitled,
                   bridged, late, denied, silenced>>

AckIncident(i) == Operate(i, "acked")

ResolveIncident(i) == Operate(i, "resolved")

----------------------------------------------------------------------------
(* A run of the bridge.                                                    *)

\* The first BatchSize findings after the cursor, by updated_at and id.
Eligible ==
    {f \in Findings :
        finding[f] # Absent /\ ~Behind(finding[f].updated, f, cursor)}

\* The order by updated_at and id.
Before(rows, f, g) == Behind(rows[f].updated, f, [at |-> rows[g].updated, id |-> g])

First(rows, S) == CHOOSE f \in S : \A g \in S : Before(rows, f, g)

Last(rows, S) == CHOOSE f \in S : \A g \in S : Before(rows, g, f)

Fetched ==
    {f \in Eligible : Cardinality({g \in Eligible : Before(finding, g, f)}) <= BatchSize}

\* The reads of the cursor and of the findings.
Begin ==
    /\ run.phase = "idle"
    /\ Eligible # {}
    /\ LET final == Last(finding, Fetched)
       IN  run' = [NoRun EXCEPT !.phase = "look",
                                !.rows = [f \in Findings |->
                                            IF f \in Fetched THEN finding[f] ELSE Absent],
                                !.fresh = Fetched,
                                !.last = [at |-> finding[final].updated, id |-> final]]
    /\ UNCHANGED <<now, finding, writing, incident, link, cursor, entitled, used,
                   bridged, late, denied, touched, silenced>>

Left == {f \in Findings : run.rows[f] # Absent}

Current == First(run.rows, Left)

Row == run.rows[Current]

Goto(phase) == run' = [run EXCEPT !.phase = phase]

\* hasPremiumIntelligence: the access of the tenant is read once in a run.
Access ==
    IF run.access # "unread" THEN run.access
    ELSE IF entitled THEN "granted" ELSE "denied"

\* On to the next finding of the batch.
NextFinding ==
    run' = [run EXCEPT !.phase = "look", !.rows[Current] = Absent, !.fresh = @ \ {Current},
                       !.inc = NoIncident, !.was = "none", !.at = 0, !.access = Access]

\* The run has done with the current finding, as it read it.
GoneThrough == bridged' = IF Current \in run.fresh THEN bridged \cup {Current} ELSE bridged

\* The link and the clock are read for the calls that follow.
Visit(phase) ==
    run' = [run EXCEPT !.phase = phase, !.inc = link[Current], !.at = now, !.access = "granted"]

\* What is next for the current finding: the plan, then the status as it was
\* fetched, then the link decide.
Look ==
    /\ run.phase = "look"
    /\ Left # {}
    /\ \/ /\ Access = "denied"
          /\ denied' = denied \cup {Current}
          /\ NextFinding
          /\ UNCHANGED bridged
       \/ /\ Access = "granted"
          /\ Row.status = "open"
          /\ Visit("find")
          /\ UNCHANGED <<denied, bridged>>
       \/ /\ Access = "granted"
          /\ Row.status = "resolved"
          /\ link[Current] # NoIncident
          /\ Visit("check")
          /\ UNCHANGED <<denied, bridged>>
       \/ /\ Access = "granted"
          /\ Row.status = "resolved"
          /\ link[Current] = NoIncident
          /\ NextFinding
          /\ GoneThrough
          /\ UNCHANGED denied
    /\ UNCHANGED <<now, finding, writing, incident, link, cursor, entitled, used,
                   late, touched, silenced>>

\* Faulty: an incident is only found through its link.
ExistingByLink == {run.inc} \ {NoIncident}

\* Faulty: the latest incident, of whatever finding.
ExistingOfAny ==
    IF run.inc # NoIncident THEN {run.inc}
    ELSE LET all == {i \in Ids : incident[i].status # "none"}
         IN  {i \in all : \A j \in all : incident[j].started <= incident[i].started}

\* The incidents openOrRefreshBridgeIncident can find: the linked one, or the
\* latest with the fingerprint.
Existing ==
    IF run.inc # NoIncident THEN {run.inc}
    ELSE LET same == {i \in Ids : incident[i].status # "none" /\ incident[i].of = Current}
         IN  {i \in same : \A j \in same : incident[j].started <= incident[i].started}

Find ==
    /\ run.phase = "find"
    /\ \/ /\ Existing = {}
          /\ Goto("create")
       \/ \E i \in Existing :
            run' = [run EXCEPT !.phase = "update", !.inc = i, !.was = incident[i].status]
    /\ UNCHANGED <<now, finding, writing, incident, link, cursor, entitled, used,
                   bridged, late, denied, touched, silenced>>

Free == {i \in Ids : incident[i].status = "none"}

Create ==
    /\ run.phase = "create"
    /\ Free # {}
    /\ LET i == CHOOSE i \in Free : \A j \in Free : i <= j
       IN  /\ incident' = [incident EXCEPT ![i] =
                            [of |-> Current, status |-> "open", started |-> run.at,
                             alerted |-> FALSE]]
           /\ run' = [run EXCEPT !.phase = "events", !.inc = i, !.was = "resolved"]
    /\ UNCHANGED <<now, finding, writing, link, cursor, entitled, used,
                   bridged, late, denied, touched, silenced>>

\* Faulty: the refresh keeps the status.
UpdateKeepsStatus ==
    /\ run.phase = "update"
    /\ touched' = touched \ {run.inc}
    /\ Goto("events")
    /\ UNCHANGED <<now, finding, writing, incident, link, cursor, entitled, used,
                   bridged, late, denied, silenced>>

\* The refresh reopens whatever the row says by now; started_at follows the
\* status that was read.
Update ==
    /\ run.phase = "update"
    /\ LET i == run.inc
           opens == incident[i].status = "resolved"
       IN  /\ incident' = [incident EXCEPT
                            ![i].status = "open",
                            ![i].started = IF run.was = "resolved" THEN run.at ELSE @,
                            ![i].alerted = @ /\ ~opens]
           /\ touched' = touched \ {i}
           /\ silenced' = IF opens /\ run.was # "resolved" THEN silenced \cup {i} ELSE silenced
    /\ Goto("events")
    /\ UNCHANGED <<now, finding, writing, link, cursor, entitled, used, bridged, late, denied>>

\* Faulty: only a new incident gets its alert, not one that is reopened.
EventsOfNew ==
    /\ run.phase = "events"
    /\ LET i == run.inc
       IN  IF run.was = "resolved" /\ link[Current] = NoIncident
           THEN /\ incident' = [incident EXCEPT ![i].alerted = TRUE]
                /\ silenced' = silenced \ {i}
           ELSE UNCHANGED <<incident, silenced>>
    /\ Goto("link")
    /\ UNCHANGED <<now, finding, writing, link, cursor, entitled, used,
                   bridged, late, denied, touched>>

\* An incident read as resolved, or created, gets its ALERT_PENDING event;
\* one read as active only a BRIDGE_REFRESHED.
Events ==
    /\ run.phase = "events"
    /\ LET i == run.inc
       IN  IF run.was = "resolved"
           THEN /\ incident' = [incident EXCEPT ![i].alerted = TRUE]
                /\ silenced' = silenced \ {i}
           ELSE UNCHANGED <<incident, silenced>>
    /\ Goto("link")
    /\ UNCHANGED <<now, finding, writing, link, cursor, entitled, used,
                   bridged, late, denied, touched>>

\* The upsert of the link.
Link ==
    /\ run.phase = "link"
    /\ link' = [link EXCEPT ![Current] = run.inc]
    /\ NextFinding
    /\ GoneThrough
    /\ UNCHANGED <<now, finding, writing, incident, cursor, entitled, used,
                   late, denied, touched, silenced>>

\* resolveBridgeIncident: nothing to do for an incident already resolved.
Check ==
    /\ run.phase = "check"
    /\ \/ /\ incident[run.inc].status = "resolved"
          /\ NextFinding
          /\ GoneThrough
       \/ /\ incident[run.inc].status # "resolved"
          /\ Goto("resolve")
          /\ UNCHANGED bridged
    /\ UNCHANGED <<now, finding, writing, incident, link, cursor, entitled, used,
                   late, denied, touched, silenced>>

\* The update, and the writes after it that touch nothing modelled here.
Resolve ==
    /\ run.phase = "resolve"
    /\ incident' = [incident EXCEPT ![run.inc].status = "resolved"]
    /\ touched' = touched \ {run.inc}
    /\ NextFinding
    /\ GoneThrough
    /\ UNCHANGED <<now, finding, writing, link, cursor, entitled, used, late, denied, silenced>>

\* Faulty: the cursor moves to the time of the run, or stays where it is.
CursorAtNow == [at |-> now, id |-> NumFindings]
CursorInPlace == cursor

\* The new cursor: the last finding of the batch.
CursorAfter == run.last

\* The upsert of the cursor.
Finish ==
    /\ run.phase = "look"
    /\ Left = {}
    /\ cursor' = CursorAfter
    /\ run' = NoRun
    /\ UNCHANGED <<now, finding, writing, incident, link, entitled, used,
                   bridged, late, denied, touched, silenced>>

\* The process crashes, or a database call throws and ends the run.
Abort ==
    /\ used.aborts < MaxAborts
    /\ run.phase # "idle"
    /\ used' = [used EXCEPT !.aborts = @ + 1]
    /\ run' = NoRun
    /\ silenced' = IF run.phase = "events" /\ run.was = "resolved"
                   THEN silenced \cup {run.inc} ELSE silenced
    /\ UNCHANGED <<now, finding, writing, incident, link, cursor, entitled,
                   bridged, late, denied, touched>>

Bridge ==
    \/ Begin \/ Look \/ Find \/ Create \/ Update \/ Events \/ Link
    \/ Check \/ Resolve \/ Finish

Next ==
    \/ Tick
    \/ ChangePlan
    \/ \E f \in Findings : UpdateBegins(f) \/ UpdateLands(f)
    \/ \E i \in Ids : AckIncident(i) \/ ResolveIncident(i)
    \/ Bridge
    \/ Abort

Spec == Init /\ [][Next]_vars

\* The scheduler keeps starting the worker, and a run that lives goes on.
FairSpec == Spec /\ WF_vars(Bridge)

----------------------------------------------------------------------------
(* Properties.                                                             *)

\* Every variable has its type.
TypeOK ==
    /\ now \in Nat
    /\ finding \in [Findings -> FindingRows]
    /\ writing \in [Findings -> FindingRows]
    /\ incident \in [Ids -> IncidentRows]
    /\ link \in [Findings -> Ids \cup {NoIncident}]
    /\ cursor \in Cursors
    /\ run \in Runs
    /\ entitled \in BOOLEAN
    /\ used \in [updates : 0..MaxUpdates, operations : 0..MaxOperations, aborts : 0..MaxAborts]
    /\ bridged \subseteq Findings
    /\ late \subseteq Findings
    /\ denied \subseteq Findings
    /\ touched \subseteq Ids
    /\ silenced \subseteq Ids

Exists(i) == incident[i].status # "none"

Active(i) == incident[i].status \in {"open", "acked"}

\* One run at a time never gives a finding two incidents, although incidents
\* have no unique key and a run may die between the incident and its link.
OneIncidentPerFinding ==
    \A i, j \in Ids :
        Exists(i) /\ Exists(j) /\ incident[i].of = incident[j].of => i = j

\* Once a run went through with the latest state of a finding, its incident
\* says the same, unless an operator has acted on it since.
IncidentMirrorsFinding ==
    \A f \in bridged : link[f] \notin touched =>
        /\ finding[f].status = "open" => link[f] # NoIncident /\ Active(link[f])
        /\ finding[f].status = "resolved" /\ link[f] # NoIncident => ~Active(link[f])

\* The findings at or before c are accounted for: bridged in their latest
\* state, passed over for want of entitlement, or updated behind what had
\* been read already.
Accounted(f) == f \in bridged \cup late \cup denied

\* The cursor never passes a finding by.
NothingIsOverlooked ==
    \A f \in Findings :
        finding[f] # Absent /\ Behind(finding[f].updated, f, cursor) => Accounted(f)

\* An incident has an alert for the last time the bridge opened it.  It may
\* miss one only if the run died between the incident and the event, or if an
\* operator resolved it between the read and the write of a refresh.
OpeningsAreAlerted ==
    \A i \in Ids :
        Exists(i) =>
            \/ incident[i].alerted
            \/ i \in silenced
            \/ run.phase = "events" /\ run.was = "resolved" /\ run.inc = i

\* A run beyond the look has a finding in hand; between its incident and its
\* link it has the one incident of that finding.
InHand ==
    /\ run.phase \notin {"idle", "look"} => Left # {}
    /\ run.phase = "find" => run.inc = link[Current]
    /\ run.phase = "create" =>
          link[Current] = NoIncident /\ \A i \in Ids : Exists(i) => incident[i].of # Current
    /\ run.phase \in {"update", "events", "link", "check", "resolve"} =>
          run.inc # NoIncident /\ Exists(run.inc) /\ incident[run.inc].of = Current
    /\ run.phase \in {"find", "create", "update", "events", "link"} => Row.status = "open"
    /\ run.phase \in {"events", "link"} => Active(run.inc) \/ run.inc \in touched
    /\ run.phase \in {"check", "resolve"} => Row.status = "resolved" /\ link[Current] = run.inc

\* A link leads to the incident of its finding.
LinksAreRight ==
    \A f \in Findings : link[f] # NoIncident => Exists(link[f]) /\ incident[link[f]].of = f

\* What was fetched and did not change since is as it was fetched; what did
\* change is not bridged before it is fetched again.
FreshIsCurrent ==
    \A f \in Left :
        /\ f \in run.fresh => run.rows[f] = finding[f]
        /\ f \notin run.fresh => f \notin bridged

\* The last finding of the batch is never passed by either, but for what is
\* left to do.
BatchIsCovered ==
    run.phase # "idle" =>
        \A f \in Findings :
            finding[f] # Absent /\ Behind(finding[f].updated, f, run.last) =>
                Accounted(f) \/ f \in Left \cap run.fresh

\* No update is of the future.
ClockIsAhead ==
    \A f \in Findings : finding[f].updated <= now /\ writing[f].updated <= now

\* The inductive invariant, from which the four properties follow.
BridgeInv ==
    /\ TypeOK
    /\ ClockIsAhead
    /\ InHand
    /\ LinksAreRight
    /\ OneIncidentPerFinding
    /\ OpeningsAreAlerted
    /\ FreshIsCurrent
    /\ BatchIsCovered
    /\ NothingIsOverlooked
    /\ IncidentMirrorsFinding

\* A finding that stays open gets an active incident.
OpenFindingIsBridged ==
    \A f \in Findings :
        finding[f].status = "open" ~>
            \/ link[f] # NoIncident /\ (Active(link[f]) \/ link[f] \in touched)
            \/ finding[f].status = "resolved"
            \/ f \in late \cup denied

\* The incidents of each finding, with their status, and the findings that have
\* one without an alert.
CareOf ==
    [f \in Findings |->
        {<<i, incident[i].status>> : i \in {j \in Ids : Exists(j) /\ incident[j].of = f}}]

Owed == {f \in Findings : \E i \in Ids : Exists(i) /\ incident[i].of = f /\ ~incident[i].alerted}

\* The status of each finding, and as the run has read it.
StatusOf == [f \in Findings |-> finding[f].status]
ReadOf == [f \in Findings |-> run.rows[f].status]

\* The finding whose incident the run has opened, and those with a link.
JustOpened == IF run.phase \in {"events", "link"} THEN {Current} ELSE {}
Linked == {f \in Findings : link[f] # NoIncident}

\* The bridge implements the watch of FindingWatch: among others no step, in
\* whatever order runs die and operators and the analysis write, opens a second
\* incident of a finding, or resolves one whose finding was read as open
\* (openOrRefreshBridgeIncident, resolveBridgeIncident).
Watch == INSTANCE FindingWatch WITH
    finding <- StatusOf, read <- ReadOf, care <- CareOf, opened <- JustOpened,
    owed <- Owed, linked <- Linked, settled <- bridged
ImplementsFindingWatch == Watch!Spec
=============================================================================
