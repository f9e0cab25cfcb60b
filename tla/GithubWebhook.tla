--------------------------- MODULE GithubWebhook ---------------------------
(***************************************************************************)
(* POST /integrations/github/webhook (routes/github-webhook.ts) with the   *)
(* mapping of its payloads (github-actions-adapter-service.ts).            *)
(*                                                                         *)
(* GitHub sends a delivery once; it comes again when somebody asks for it, *)
(* with the same delivery id.  Several attempts may be handled at a time.  *)
(* The handler finds the integration whose secret signed the body, marks   *)
(* the delivery as seen, and only then checks its scope, maps the payload  *)
(* and stores the events.  What ingestOperationalEvents promises is taken  *)
(* from EventLedger; how often an event is stored is its subject, and not  *)
(* of this module.                                                         *)
(***************************************************************************)
EXTENDS Integers, FiniteSets

CONSTANTS
    Integrations,  \* rows of github_integrations
    HookOf,        \* webhook_id of each, or None
    ScopeOf,       \* repository_full_name of each, or None
    Deliveries,    \* delivery ids, or bodies sent without one
    Sent,          \* what each delivery carries: id (X-GitHub-Delivery is there), secret,
                   \* hook, repo and payload
    Attempts,      \* attempts handled, each of one delivery
    FirstSecret,   \* the webhook_secret each integration was created with, a number
    LastSecret,    \* the greatest of these numbers
    None,
    MaxChanges,    \* bound on changes of the integrations
    MaxFaults      \* bound on failed calls, dead processes and forgotten keys

\* What the proofs assume of the constants: secrets are random, so that the
\* integrations, numbered, have different ones.
Proper ==
    /\ None \notin Integrations /\ None \notin Deliveries /\ None # "duplicate"
    /\ LastSecret \in Nat /\ FirstSecret \in [Integrations -> 1 .. LastSecret]
    /\ \A i, j \in Integrations : FirstSecret[i] = FirstSecret[j] => i = j

VARIABLES
    secret,   \* webhook_secret of each integration
    active,   \* is_active
    seen,     \* the delivery keys in Redis
    stored,   \* the events stored, once or more: integration, delivery, event type, severity
    pc,       \* how far each attempt is
    what,     \* the delivery of each attempt
    owner,    \* the integration the attempt was resolved to
    answer,
    changes,
    faults,
    dropped   \* deliveries marked as seen whose events were not stored

vars == <<secret, active, seen, stored, pc, what, owner, answer, changes, faults, dropped>>

integrations == <<secret, active, changes>>

Phases == {"idle", "resolve", "dedupe", "scope", "ingest", "over"}

Answers == {None, "refused", "duplicate", "out_of_scope", "ignored", "failed", "ok", "lost"}

Init ==
    /\ secret = FirstSecret
    /\ active = [i \in Integrations |-> TRUE]
    /\ seen = {}
    /\ stored = {}
    /\ pc = [a \in Attempts |-> "idle"]
    /\ what = [a \in Attempts |-> None]
    /\ owner = [a \in Attempts |-> None]
    /\ answer = [a \in Attempts |-> None]
    /\ changes = 0
    /\ faults = 0
    /\ dropped = {}

----------------------------------------------------------------------------
(* The mapping of payloads.                                                *)

FailedRun == {"failure", "cancelled", "timed_out", "startup_failure", "action_required", "stale"}
FailedJob == {"failure", "cancelled", "timed_out"}

\* workflowRunEventType and workflowJobEventType: the action decides; for an
\* action they do not know, the status; otherwise the payload is ignored.
Progress(p, first) ==
    IF p.action \in {first, "in_progress", "completed"} THEN p.action
    ELSE IF p.status \in {"in_progress", "completed"} THEN p.status ELSE None

RunEventType(p) ==
    CASE Progress(p, "requested") = "requested" -> "workflow_requested"
      [] Progress(p, "requested") = "in_progress" -> "workflow_started"
      [] Progress(p, "requested") = "completed" ->
            IF p.conclusion \in FailedRun THEN "workflow_failed" ELSE "workflow_completed"
      [] OTHER -> None

JobEventType(p) ==
    CASE Progress(p, "queued") = "queued" -> "job_queued"
      [] Progress(p, "queued") = "in_progress" -> "job_started"
      [] Progress(p, "queued") = "completed" ->
            IF p.conclusion \in FailedJob THEN "job_failed" ELSE "job_completed"
      [] OTHER -> None

EventType(p) ==
    CASE p.event = "workflow_run" -> RunEventType(p)
      [] p.event = "workflow_job" -> JobEventType(p)
      [] OTHER -> None

\* severity of mapWorkflowRun and mapWorkflowJob.
Severity(p) ==
    CASE EventType(p) \in {"workflow_failed", "job_failed"} ->
            IF p.conclusion = "cancelled" THEN "medium" ELSE "high"
      [] EventType(p) \in {"workflow_completed", "job_completed"} -> "low"
      [] OTHER -> None

\* mapGitHubWebhookToOperationalEvents: at most one event.  (A payload that
\* does not fit its schema ends like a batch that is rejected: see Ingest.)
Event(i, d) ==
    [owner |-> i, delivery |-> d, type |-> EventType(Sent[d].payload),
     severity |-> Severity(Sent[d].payload)]

----------------------------------------------------------------------------
(* The handler.                                                            *)

Goto(a, phase) == pc' = [pc EXCEPT ![a] = phase]

Reply(a, text) == Goto(a, "over") /\ answer' = [answer EXCEPT ![a] = text]

\* The headers are there and the rate limit lets the delivery pass.
Receive(a) ==
    /\ pc[a] = "idle"
    /\ \E d \in Deliveries : what' = [what EXCEPT ![a] = d]
    /\ Goto(a, "resolve")
    /\ UNCHANGED <<integrations, seen, stored, owner, answer, faults, dropped>>

\* 401 and 413 before anything is read, or 429.
Refuse(a) ==
    /\ pc[a] = "resolve"
    /\ Reply(a, "refused")
    /\ UNCHANGED <<integrations, seen, stored, what, owner, faults, dropped>>

Signs(i, d) == Sent[d].secret = secret[i]

\* repositoryMatchesScope: a side that is not known matches.
MatchesScope(i, d) == ScopeOf[i] = None \/ Sent[d].repo = None \/ ScopeOf[i] = Sent[d].repo

Direct(d) == {i \in Integrations : active[i] /\ HookOf[i] = Sent[d].hook}

\* Faulty: the hook id alone identifies the integration.
ResolvedUnsigned(d) ==
    IF Direct(d) # {}
    THEN Direct(d)
    ELSE LET matches == {i \in Integrations : active[i] /\ Signs(i, d) /\ MatchesScope(i, d)}
         IN  IF Cardinality(matches) = 1 THEN matches ELSE {}

\* resolveGitHubIntegrationForWebhook: the integrations with the hook id come
\* first, and then any whose secret and scope match, if there is exactly one.
Resolved(d) ==
    IF Direct(d) # {}
    THEN {i \in Direct(d) : Signs(i, d)}
    ELSE LET matches == {i \in Integrations : active[i] /\ Signs(i, d) /\ MatchesScope(i, d)}
         IN  IF Cardinality(matches) = 1 THEN matches ELSE {}

Resolve(a) ==
    /\ pc[a] = "resolve"
    /\ \/ /\ \E i \in Resolved(what[a]) : owner' = [owner EXCEPT ![a] = i]
          /\ Goto(a, "dedupe")
          /\ UNCHANGED answer
       \/ Resolved(what[a]) = {} /\ Reply(a, "refused") /\ UNCHANGED owner
    /\ UNCHANGED <<integrations, seen, stored, what, faults, dropped>>

\* Faulty: the hook instead of the delivery.
DeliveryKeyByHook(a) == <<owner[a], Sent[what[a]].hook>>

DeliveryKey(a) == <<owner[a], what[a]>>

\* redisSetNx of the delivery key; a request without X-GitHub-Delivery has none.
Dedupe(a) ==
    /\ pc[a] = "dedupe"
    /\ \/ ~Sent[what[a]].id /\ Goto(a, "scope") /\ UNCHANGED <<seen, answer>>
       \/ /\ Sent[what[a]].id /\ DeliveryKey(a) \notin seen
          /\ seen' = seen \cup {DeliveryKey(a)}
          /\ Goto(a, "scope")
          /\ UNCHANGED answer
       \/ Sent[what[a]].id /\ DeliveryKey(a) \in seen /\ Reply(a, "duplicate") /\ UNCHANGED seen
    /\ UNCHANGED <<integrations, stored, what, owner, faults, dropped>>

Drop(a) == dropped' = dropped \cup {<<owner[a], what[a]>>}

\* Faulty: the check passes when the payload names another repository.
InAnyScope(i, d) == ScopeOf[i] = None \/ Sent[d].repo # None

InScope(i, d) == ScopeOf[i] = None \/ ScopeOf[i] = Sent[d].repo

\* The scope (400, 403) and the mapping (202 for what is not supported).  The
\* delivery key stays whatever the outcome.
Map(a) ==
    /\ pc[a] = "scope"
    /\ \/ /\ ~InScope(owner[a], what[a])
          /\ Reply(a, "out_of_scope") /\ Drop(a)
       \/ /\ InScope(owner[a], what[a]) /\ EventType(Sent[what[a]].payload) = None
          /\ Reply(a, "ignored") /\ Drop(a)
       \/ /\ InScope(owner[a], what[a]) /\ EventType(Sent[what[a]].payload) # None
          /\ Goto(a, "ingest")
          /\ UNCHANGED <<answer, dropped>>
    /\ UNCHANGED <<integrations, seen, stored, what, owner, faults>>

\* ingestOperationalEvents and the answer: 200 with `failed` > 0 when the
\* event could not be stored, 500 when the batch was rejected.
Ingest(a) ==
    /\ pc[a] = "ingest"
    /\ \/ /\ stored' = stored \cup {Event(owner[a], what[a])}
          /\ Reply(a, "ok")
          /\ UNCHANGED <<faults, dropped>>
       \/ /\ faults < MaxFaults /\ faults' = faults + 1
          /\ Reply(a, "ok") \/ Reply(a, "failed")
          /\ Drop(a)
          /\ UNCHANGED stored
    /\ UNCHANGED <<integrations, seen, what, owner>>

\* The process dies; the events may already be stored.
Crash(a) ==
    /\ pc[a] \in {"resolve", "dedupe", "scope", "ingest"}
    /\ faults < MaxFaults /\ faults' = faults + 1
    /\ Reply(a, "lost")
    /\ \/ pc[a] = "ingest" /\ stored' = stored \cup {Event(owner[a], what[a])} /\ UNCHANGED dropped
       \/ pc[a] \in {"scope", "ingest"} /\ Drop(a) /\ UNCHANGED stored
       \/ pc[a] \in {"resolve", "dedupe"} /\ UNCHANGED <<stored, dropped>>
    /\ UNCHANGED <<integrations, seen, what, owner>>

----------------------------------------------------------------------------
(* The world.                                                              *)

\* Secrets are random: the one an integration is given is nobody else's.
Fresh == LastSecret + changes + 1

\* The secret of an integration is rotated, or it is deactivated for good
\* (routes/control-plane.ts).
Reconfigure(i) ==
    /\ changes < MaxChanges
    /\ changes' = changes + 1
    /\ \/ secret' = [secret EXCEPT ![i] = Fresh] /\ UNCHANGED active
       \/ active[i] /\ active' = [active EXCEPT ![i] = FALSE] /\ UNCHANGED secret
    /\ UNCHANGED <<seen, stored, pc, what, owner, answer, faults, dropped>>

\* A delivery key runs out, a day later, or Redis loses it.
Forget ==
    /\ faults < MaxFaults /\ faults' = faults + 1
    /\ \E k \in seen : seen' = seen \ {k}
    /\ UNCHANGED <<integrations, stored, pc, what, owner, answer, dropped>>

Step(a) == Receive(a) \/ Refuse(a) \/ Resolve(a) \/ Dedupe(a) \/ Map(a) \/ Ingest(a) \/ Crash(a)

Next == (\E a \in Attempts : Step(a)) \/ (\E i \in Integrations : Reconfigure(i)) \/ Forget

Spec == Init /\ [][Next]_vars

----------------------------------------------------------------------------
(* Properties.                                                             *)

\* The secrets integrations have had so far, by number.
Issued == 1 .. LastSecret + changes

\* The shape of every variable.
TypeOK ==
    /\ secret \in [Integrations -> Issued]
    /\ active \in [Integrations -> BOOLEAN]
    /\ seen \subseteq Integrations \X Deliveries
    /\ \A e \in stored : e.owner \in Integrations /\ e.delivery \in Deliveries
    /\ pc \in [Attempts -> Phases]
    /\ what \in [Attempts -> Deliveries \cup {None}]
    /\ owner \in [Attempts -> Integrations \cup {None}]
    /\ answer \in [Attempts -> Answers]
    /\ changes \in Nat
    /\ dropped \subseteq Integrations \X Deliveries

\* What an attempt has by the time it gets somewhere.
AttemptsAreProper ==
    \A a \in Attempts :
        /\ pc[a] # "idle" => what[a] \in Deliveries
        /\ pc[a] \in {"idle", "resolve"} => owner[a] = None
        /\ pc[a] \in {"dedupe", "scope", "ingest"} \/ answer[a] = "duplicate" => owner[a] \in Integrations
        /\ pc[a] = "ingest" => InScope(owner[a], what[a])
        /\ answer[a] # None => pc[a] = "over"

Has(i, d) == \E e \in stored : e.owner = i /\ e.delivery = d

\* A delivery is stored for an integration, or an attempt is storing it, or an
\* attempt at this very delivery was out of scope, ignored, failed or died.
Handled(i, d) ==
    \/ Has(i, d)
    \/ \E b \in Attempts : what[b] = d /\ owner[b] = i /\ pc[b] \in {"scope", "ingest"}
    \/ <<i, d>> \in dropped

\* A delivery answered as a duplicate (github-webhook.ts:211) was handled: the
\* key of another delivery never swallows it.  That it was handled may mean
\* that it was dropped: the key stays after a failure.
DuplicatesWereSeen ==
    \A a \in Attempts : answer[a] = "duplicate" => Handled(owner[a], what[a])

\* Why: so was every delivery whose key was set.
SeenIsHandled == \A k \in seen : Handled(k[1], k[2])

\* The events of a delivery are stored for one integration, however often it
\* is sent and whatever is rotated in between (github-webhook.ts:86), and only
\* when they are about the repository it is scoped to (github-webhook.ts:225).
EventsStayWithTheirOwner ==
    \A e \in stored :
        /\ ScopeOf[e.owner] \in {None, Sent[e.delivery].repo}
        /\ \A f \in stored : f.delivery = e.delivery => f.owner = e.owner

\* Why: no two integrations ever have the same secret ...
SecretsDiffer == \A i, j \in Integrations : secret[i] = secret[j] => i = j

\* ... so that nobody else has, or will get, the one that signed a delivery ...
OwnersSigned ==
    \A a \in Attempts : owner[a] # None =>
        /\ Sent[what[a]].secret \in Issued
        /\ \A i \in Integrations : secret[i] = Sent[what[a]].secret => i = owner[a]

\* ... its attempts are resolved to one integration, though its secret may be
\* another by then ...
AttemptsShareOwner ==
    \A a, b \in Attempts : owner[a] # None /\ owner[b] # None /\ what[a] = what[b] => owner[a] = owner[b]

\* ... and what is stored comes from them.
EventsComeFromAttempts ==
    \A e \in stored :
        /\ \E a \in Attempts : owner[a] = e.owner /\ what[a] = e.delivery
        /\ InScope(e.owner, e.delivery)

\* The inductive invariant.
WebhookInv ==
    /\ TypeOK
    /\ AttemptsAreProper
    /\ DuplicatesWereSeen
    /\ SeenIsHandled
    /\ SecretsDiffer
    /\ OwnersSigned
    /\ AttemptsShareOwner
    /\ EventsComeFromAttempts
=============================================================================
