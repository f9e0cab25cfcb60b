------------------------------- MODULE Intake -------------------------------
(***************************************************************************)
(* The ways in: Redis and the rate limit, the ingestion queue, the GitHub  *)
(* webhook.  They share no variable, so a behaviour is one of one of them, *)
(* which `part` names; the variables of the others are Unused.             *)
(***************************************************************************)
EXTENDS Integers

CONSTANTS
    Procs, Modes, Quota, Window, PerSecond, Backoff, MaxCalls,
    RedisFaults,    \* MaxFaults of RedisAccess
    Requests, Fingerprint, Signature, Handlers, NoRequest, KeyTTL, MaxNow,
    QueueFaults,    \* MaxFaults of IngestQueue
    Integrations, HookOf, ScopeOf, Deliveries, Sent, Attempts, FirstSecret, LastSecret, None, MaxChanges,
    WebhookFaults   \* MaxFaults of GithubWebhook

VARIABLES
    part,
    mode, up, shared, local, open, wait, answer, calls, mine,
    transport, hmac, redisRequired, redisUp, active, now, req, used, queue, keys, ownKeys,
    cur, rows, excused,
    secret, enabled, seen, stored, what, owner, reply, changes, dropped,
    pc, faults

redisVars == <<mode, up, shared, local, open, wait, answer, calls, mine>>
queueVars == <<transport, hmac, redisRequired, redisUp, active, now, req, used, queue, keys,
               ownKeys, cur, rows, excused>>
githubVars == <<secret, enabled, seen, stored, what, owner, reply, changes, dropped>>
vars == <<part, redisVars, queueVars, githubVars, pc, faults>>

Unused == "unused"

R == INSTANCE RedisAccess WITH MaxFaults <- RedisFaults

Q == INSTANCE IngestQueue WITH MaxFaults <- QueueFaults, shared <- keys, local <- ownKeys

G == INSTANCE GithubWebhook WITH MaxFaults <- WebhookFaults, active <- enabled, answer <- reply

ASSUME RedisIsProper == R!Proper
ASSUME QueueIsProper == Q!Proper
ASSUME WebhookIsProper == G!Proper

RedisUnused ==
    /\ mode = Unused /\ up = Unused /\ shared = Unused /\ local = Unused /\ open = Unused
    /\ wait = Unused /\ answer = Unused /\ calls = Unused /\ mine = Unused

QueueUnused ==
    /\ transport = Unused /\ hmac = Unused /\ redisRequired = Unused /\ redisUp = Unused
    /\ active = Unused /\ now = Unused /\ req = Unused /\ used = Unused /\ queue = Unused
    /\ keys = Unused /\ ownKeys = Unused /\ cur = Unused /\ rows = Unused /\ excused = Unused

GithubUnused ==
    /\ secret = Unused /\ enabled = Unused /\ seen = Unused /\ stored = Unused /\ what = Unused
    /\ owner = Unused /\ reply = Unused /\ changes = Unused /\ dropped = Unused

Init ==
    \/ part = "redis" /\ R!Init /\ QueueUnused /\ GithubUnused
    \/ part = "queue" /\ Q!Init /\ RedisUnused /\ GithubUnused
    \/ part = "github" /\ G!Init /\ RedisUnused /\ QueueUnused

Next ==
    /\ UNCHANGED part
    /\ \/ part = "redis" /\ R!Next /\ UNCHANGED <<queueVars, githubVars>>
       \/ part = "queue" /\ Q!Next /\ UNCHANGED <<redisVars, githubVars>>
       \/ part = "github" /\ G!Next /\ UNCHANGED <<redisVars, queueVars>>

Spec == Init /\ [][Next]_vars

\* The inductive invariants that are proved of the three modules.
TypeOK ==
    /\ part = "redis" => R!RedisInv
    /\ part = "queue" => Q!QueueInv
    /\ part = "github" => G!WebhookInv

\* RedisAccess: a call is refused only when the client used up its limit in
\* the window that ends with it, or the counter was given more time than its
\* window (redisIncrWithTtl, fallbackIncrWithTtl).
RefusalsAreDeserved == part = "redis" => R!RefusalsAreDeserved

\* RedisAccess: a call that Redis answered is counted by a counter that will
\* run out (redisIncrWithTtl).
AnsweredCallsExpire == part = "redis" => R!AnsweredCallsExpire

\* IngestQueue: a report whose request was answered 200 is in BigQuery or on
\* its way, and reports with one fingerprint make one row there, except for the
\* causes named there (processQueueMessage).
AcceptedIsKeptOnce == part = "queue" => Q!AcceptedIsKeptOnce

\* GithubWebhook: a delivery answered as a duplicate is stored, being stored,
\* or was seen and dropped (the delivery key of github-webhook.ts).
DuplicatesWereSeen == part = "github" => G!DuplicatesWereSeen

\* GithubWebhook: the events of a delivery go to one integration, and are
\* about its repository (resolveGitHubIntegrationForWebhook).
EventsStayWithTheirOwner == part = "github" => G!EventsStayWithTheirOwner
=============================================================================
