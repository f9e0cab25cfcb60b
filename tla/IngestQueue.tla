---------------------------- MODULE IngestQueue ----------------------------
(***************************************************************************)
(* Execution and heartbeat reports: from the request (routes/ingest.ts,    *)
(* plugins/auth.ts) through Pub/Sub (ingest-queue-service.ts) and the push *)
(* handler (routes/internal.ts, pubsub-ingest-worker-service.ts) to a row  *)
(* in BigQuery (ingestion-service.ts).                                     *)
(*                                                                         *)
(* Pub/Sub delivers a message until it is acknowledged, and may deliver it *)
(* again while a delivery is under way.  The worker claims a key in Redis  *)
(* for the fingerprint of the report before it writes, and deletes the key *)
(* when the write fails.  While Redis cannot be reached the keys of a      *)
(* process live in its own memory, or its calls fail (RedisAccess).        *)
(***************************************************************************)
EXTENDS Integers

CONSTANTS
    Requests,     \* requests of clients; a retry is another request
    Fingerprint,  \* the fingerprint of the report of each request
    Signature,    \* the signed content of each request
    Handlers,     \* push deliveries handled at a time, each in its own process
    NoRequest,
    KeyTTL,       \* INGEST_DEDUPE_TTL_SEC
    MaxNow,       \* bound on the clock
    MaxFaults     \* bound on the faults

\* What the proofs assume of the constants.
Proper == NoRequest \notin Requests /\ KeyTTL \in Nat /\ MaxNow \in Nat \ {0}

VARIABLES
    transport,     \* "topic", "direct" (no topic), or "enforced" (ENFORCE_PUBSUB_ONLY without one)
    hmac,          \* INGEST_HMAC_REQUIRED
    redisRequired, \* REDIS_REQUIRED
    redisUp,
    active,        \* the workflow is registered and active
    now,
    req,           \* how far each request is, or what it was answered
    used,          \* signatures whose replay key is found, in Redis or in memory
    queue,         \* messages Pub/Sub has not seen acknowledged
    shared,        \* dedupe keys in Redis
    local,         \* dedupe keys in the memory of each process
    pc,            \* how far each delivery is
    cur,           \* the message of each delivery
    rows,          \* how often the report of each request was inserted
    faults,
    excused        \* why a report may be missing or stored twice (for the properties)

vars == <<transport, hmac, redisRequired, redisUp, active, now, req, used, queue, shared,
          local, pc, cur, rows, faults, excused>>

config == <<transport, hmac, redisRequired>>
world == <<redisUp, active, now>>

Keys == {Fingerprint[r] : r \in Requests}

NoKey == 0

Answered == {"accepted", "refused", "rejected", "failed", "gone"}

RequestPhases == {"new", "verified", "admitted", "owned", "stored"} \cup Answered

Busy == {"claim", "own", "write", "clean"}

Init ==
    /\ transport \in {"topic", "direct", "enforced"}
    /\ hmac \in BOOLEAN
    /\ redisRequired \in BOOLEAN
    /\ redisUp = TRUE
    /\ active = TRUE
    /\ now = 1
    /\ req = [r \in Requests |-> "new"]
    /\ used = {}
    /\ queue = {}
    /\ shared = [f \in Keys |-> NoKey]
    /\ local = [h \in Handlers |-> [f \in Keys |-> NoKey]]
    /\ pc = [h \in Handlers |-> "idle"]
    /\ cur = [h \in Handlers |-> NoRequest]
    /\ rows = [r \in Requests |-> 0]
    /\ faults = 0
    /\ excused = [lost |-> {}, twice |-> {}]

Fault == faults < MaxFaults /\ faults' = faults + 1

\* A report with fingerprint f may from now on be missing, or stored twice.
MayBeLost(f) == excused' = [excused EXCEPT !.lost = @ \cup {f}]
MayBeTwice(f) == excused' = [excused EXCEPT !.twice = @ \cup {f}]

----------------------------------------------------------------------------
(* The request.                                                            *)

Reach(r, phase) == req' = [req EXCEPT ![r] = phase]

\* requireIngestionKey and requireIngestionSignature: an unknown key, a bad
\* signature or an old timestamp is refused; with HMAC the replay key is
\* taken, and a second transmission of the signed content refused (409) as
\* long as the key is found.
Verify(r) ==
    /\ req[r] = "new"
    /\ \/ Reach(r, "refused") /\ UNCHANGED <<used, faults>>
       \/ ~hmac /\ Reach(r, "verified") /\ UNCHANGED <<used, faults>>
       \/ /\ hmac /\ (redisUp \/ ~redisRequired)
          /\ Signature[r] \notin used
          /\ used' = used \cup {Signature[r]}
          /\ Reach(r, "verified")
          /\ UNCHANGED faults
       \/ hmac /\ ~redisUp /\ redisRequired /\ Reach(r, "failed") /\ UNCHANGED <<used, faults>>
    /\ UNCHANGED <<config, world, queue, shared, local, pc, cur, rows, excused>>

\* A replay key is not found any more: it lives for the greatest skew only,
\* and a timestamp ahead of the clock is valid for longer; Redis loses it; or
\* it is in the memory of another process.
ReplayKeyGone ==
    /\ \E s \in used : used' = used \ {s}
    /\ UNCHANGED <<config, world, req, queue, shared, local, pc, cur, rows, faults, excused>>

\* The rate limit (429), the size (413), the schema (400), the tenant (403).
Admit(r) ==
    /\ req[r] = "verified"
    /\ Reach(r, "refused") \/ Reach(r, "admitted")
    /\ UNCHANGED <<config, world, used, queue, shared, local, pc, cur, rows, faults, excused>>

\* assertWorkflowSourceOwnership before the report is accepted.
Own(r) ==
    /\ req[r] = "admitted"
    /\ \/ active /\ Reach(r, "owned") /\ UNCHANGED faults
       \/ ~active /\ Reach(r, "rejected") /\ UNCHANGED faults
       \/ Fault /\ Reach(r, "failed")
    /\ UNCHANGED <<config, world, used, queue, shared, local, pc, cur, rows, excused>>

Insert(r) == rows' = [rows EXCEPT ![r] = @ + 1]

\* Faulty: a call that failed counts as made.
EnqueueAnyhow(r) ==
    /\ req[r] = "owned"
    /\ Reach(r, "stored")
    /\ queue' = queue \cup {r} \/ queue' = queue
    /\ UNCHANGED <<config, world, used, shared, local, pc, cur, rows, faults, excused>>

\* enqueueExecutionEvent and enqueueHeartbeatEvent.  A call that fails may
\* have been applied.
Enqueue(r) ==
    /\ req[r] = "owned"
    /\ \/ transport = "enforced" /\ Reach(r, "failed") /\ UNCHANGED <<queue, rows, faults>>
       \/ transport = "topic" /\ queue' = queue \cup {r} /\ Reach(r, "stored") /\ UNCHANGED <<rows, faults>>
       \/ transport = "direct" /\ Insert(r) /\ Reach(r, "stored") /\ UNCHANGED <<queue, faults>>
       \/ /\ transport # "enforced" /\ Fault /\ Reach(r, "failed")
          /\ \/ UNCHANGED <<queue, rows>>
             \/ transport = "topic" /\ queue' = queue \cup {r} /\ UNCHANGED rows
             \/ transport = "direct" /\ Insert(r) /\ UNCHANGED queue
    /\ UNCHANGED <<config, world, used, shared, local, pc, cur, excused>>

\* 200, after the attempt to start a trial, whose errors are swallowed.
Accept(r) ==
    /\ req[r] = "stored"
    /\ Reach(r, "accepted")
    /\ UNCHANGED <<config, world, used, queue, shared, local, pc, cur, rows, faults, excused>>

\* The process of the request dies, and the client gets no answer.
RequestDies(r) ==
    /\ req[r] \notin Answered \cup {"new"}
    /\ Fault
    /\ Reach(r, "gone")
    /\ UNCHANGED <<config, world, used, queue, shared, local, pc, cur, rows, excused>>

----------------------------------------------------------------------------
(* The delivery.                                                           *)

\* The push endpoint is called with a message.  A call it answers with 401,
\* 429 or 503 changes nothing, and the message is delivered again.
Deliver(h) ==
    /\ pc[h] = "idle"
    /\ \E m \in queue : cur' = [cur EXCEPT ![h] = m]
    /\ pc' = [pc EXCEPT ![h] = "claim"]
    /\ UNCHANGED <<config, world, req, used, queue, shared, local, rows, faults, excused>>

Fp(h) == Fingerprint[cur[h]]

Goto(h, phase) == pc' = [pc EXCEPT ![h] = phase]

\* The delivery is over; `cur` is not read until the next one.
Finish(h) ==
    /\ Goto(h, "idle")
    /\ cur' = [cur EXCEPT ![h] = NoRequest]

\* A 200 acknowledges the message, a 500 does not.
Ack(h) == Finish(h) /\ queue' = queue \ {cur[h]}
Nack(h) == Finish(h) /\ UNCHANGED queue

\* The key of a fingerprint where process h finds it: in Redis, or in its
\* own memory while Redis is away.
Key(h, f) == IF redisUp THEN shared[f] ELSE local[h][f]

SetKey(h, f, until) ==
    IF redisUp
    THEN shared' = [shared EXCEPT ![f] = until] /\ UNCHANGED local
    ELSE local' = [local EXCEPT ![h][f] = until] /\ UNCHANGED shared

RedisThrows == ~redisUp /\ redisRequired

Working(h, f) == pc[h] \in {"own", "write", "clean"} /\ Fp(h) = f

Stored(f) == \E r \in Requests : Fingerprint[r] = f /\ rows[r] > 0

\* redisSetNx: whoever finds the key acknowledges the message as a duplicate,
\* be its holder done, at work or gone.  A key in the memory of one process
\* keeps no other process away.
Claim(h) ==
    /\ pc[h] = "claim"
    /\ \/ RedisThrows /\ Nack(h) /\ UNCHANGED <<shared, local, excused>>
       \/ /\ ~RedisThrows /\ Key(h, Fp(h)) = NoKey
          /\ SetKey(h, Fp(h), now + KeyTTL)
          /\ Goto(h, "own")
          /\ IF redisUp THEN UNCHANGED excused ELSE MayBeTwice(Fp(h))
          /\ UNCHANGED <<queue, cur>>
       \/ /\ ~RedisThrows /\ Key(h, Fp(h)) # NoKey
          /\ Ack(h)
          /\ IF \E g \in Handlers : Working(g, Fp(h))
             THEN MayBeLost(Fp(h)) ELSE UNCHANGED excused
          /\ UNCHANGED <<shared, local>>
    /\ UNCHANGED <<config, world, req, used, rows, faults>>

\* assertWorkflowSourceOwnership once more: a workflow that is not active any
\* more ends the message; any other error leaves the key behind.
OwnAgain(h) ==
    /\ pc[h] = "own"
    /\ \/ active /\ Goto(h, "write") /\ UNCHANGED <<queue, cur, faults, excused>>
       \/ ~active /\ Ack(h) /\ MayBeLost(Fp(h)) /\ UNCHANGED faults
       \/ Fault /\ Nack(h) /\ MayBeLost(Fp(h))
    /\ UNCHANGED <<config, world, req, used, shared, local, rows>>

\* The insert.  One that fails may have been applied, and the answer to a
\* delivery may be lost, so that the message comes again.
Write(h) ==
    /\ pc[h] = "write"
    /\ \/ Insert(cur[h]) /\ Ack(h) /\ UNCHANGED <<faults, excused>>
       \/ Fault /\ Insert(cur[h]) /\ Nack(h) /\ UNCHANGED excused
       \/ Fault /\ Goto(h, "clean") /\ UNCHANGED <<rows, queue, cur, excused>>
       \/ Fault /\ Goto(h, "clean") /\ Insert(cur[h]) /\ MayBeTwice(Fp(h)) /\ UNCHANGED <<queue, cur>>
    /\ UNCHANGED <<config, world, req, used, shared, local>>

\* Faulty: the key stays.
CleanNothing(h) ==
    /\ pc[h] = "clean"
    /\ Nack(h)
    /\ UNCHANGED <<config, world, req, used, shared, local, rows, faults, excused>>

\* redisDelete, by name: the key may by then be another holder's, and Redis is
\* cleaned or the memory of the process, whichever is in use by now.
Clean(h) ==
    /\ pc[h] = "clean"
    /\ Nack(h)
    /\ IF RedisThrows THEN UNCHANGED <<shared, local>> ELSE SetKey(h, Fp(h), NoKey)
    /\ IF shared'[Fp(h)] = NoKey /\ local'[h][Fp(h)] = NoKey
       THEN UNCHANGED excused ELSE MayBeLost(Fp(h))
    /\ UNCHANGED <<config, world, req, used, rows, faults>>

\* The process dies: no answer, and its memory is gone.
HandlerDies(h) ==
    /\ pc[h] \in Busy
    /\ Fault
    /\ Nack(h)
    /\ local' = [local EXCEPT ![h] = [f \in Keys |-> NoKey]]
    /\ IF pc[h] = "claim" THEN UNCHANGED excused ELSE MayBeLost(Fp(h))
    /\ UNCHANGED <<config, world, req, used, shared, rows>>

----------------------------------------------------------------------------
(* The world.                                                              *)

Overdue(f) == shared[f] # NoKey /\ shared[f] <= now + 1

Tick ==
    /\ now < MaxNow
    /\ now' = now + 1
    /\ shared' = [f \in Keys |-> IF Overdue(f) THEN NoKey ELSE shared[f]]
    /\ local' = [h \in Handlers |-> [f \in Keys |->
                    IF local[h][f] <= now + 1 THEN NoKey ELSE local[h][f]]]
    /\ excused' = [excused EXCEPT !.twice = @ \cup {f \in Keys : Overdue(f)}]
    /\ UNCHANGED <<config, redisUp, active, req, used, queue, pc, cur, rows, faults>>

\* Redis goes away, and its keys may be gone when it is back; the workflow is
\* switched off or on.
Change ==
    /\ \/ redisUp /\ Fault /\ redisUp' = FALSE /\ UNCHANGED <<active, shared, excused>>
       \/ /\ redisUp /\ Fault /\ redisUp' = FALSE
          /\ shared' = [f \in Keys |-> NoKey]
          /\ excused' = [excused EXCEPT !.twice = @ \cup {f \in Keys : shared[f] # NoKey}]
          /\ UNCHANGED active
       \/ ~redisUp /\ redisUp' = TRUE /\ UNCHANGED <<active, faults, shared, excused>>
       \/ active /\ Fault /\ active' = FALSE /\ UNCHANGED <<redisUp, shared, excused>>
       \/ ~active /\ active' = TRUE /\ UNCHANGED <<redisUp, faults, shared, excused>>
    /\ UNCHANGED <<config, now, req, used, queue, local, pc, cur, rows>>

RequestStep(r) == Verify(r) \/ Admit(r) \/ Own(r) \/ Enqueue(r) \/ Accept(r) \/ RequestDies(r)

DeliveryStep(h) == Deliver(h) \/ Claim(h) \/ OwnAgain(h) \/ Write(h) \/ Clean(h) \/ HandlerDies(h)

Next == (\E r \in Requests : RequestStep(r)) \/ (\E h \in Handlers : DeliveryStep(h)) \/ Tick \/ Change
        \/ ReplayKeyGone

Spec == Init /\ [][Next]_vars

----------------------------------------------------------------------------
(* Properties.                                                             *)

\* The shape of every variable.
TypeOK ==
    /\ transport \in {"topic", "direct", "enforced"}
    /\ hmac \in BOOLEAN /\ redisRequired \in BOOLEAN /\ redisUp \in BOOLEAN /\ active \in BOOLEAN
    /\ now \in 1 .. MaxNow
    /\ req \in [Requests -> RequestPhases]
    /\ queue \subseteq Requests
    /\ shared \in [Keys -> Nat]
    /\ local \in [Handlers -> [Keys -> Nat]]
    /\ pc \in [Handlers -> Busy \cup {"idle"}]
    /\ cur \in [Handlers -> Requests \cup {NoRequest}]
    /\ \A h \in Handlers : cur[h] \in Requests <=> pc[h] # "idle"
    /\ rows \in [Requests -> Nat]
    /\ excused \in [lost : SUBSET Keys, twice : SUBSET Keys]

\* A report whose request was answered 200 is in BigQuery or with Pub/Sub
\* (enqueueExecutionEvent, processQueueMessage), unless the workflow was
\* switched off, the holder of the dedupe key died or failed and left the key
\* behind, or a second delivery acknowledged the message while the first was
\* still at work.  A failed insert alone loses nothing.
AcceptedIsKept ==
    \A r \in Requests : req[r] \in {"stored", "accepted"} =>
        \/ Stored(Fingerprint[r])
        \/ r \in queue
        \/ Fingerprint[r] \in excused.lost

\* There is a row for f, or one of hs is at work on it, or it may be missing.
Held(f, hs) == Stored(f) \/ (\E h \in hs : Working(h, f)) \/ f \in excused.lost

\* Why: no dedupe key is left behind for nothing, neither in Redis nor in the
\* memory of a process, where only this process can have put it.
KeysAreHeld ==
    \A f \in Keys :
        /\ shared[f] # NoKey => Held(f, Handlers)
        /\ \A h \in Handlers : local[h][f] # NoKey => Held(f, {h})

\* Reports with one fingerprint make one row when they go through Pub/Sub,
\* however often they are sent, published and delivered, unless a failed
\* insert was applied, the dedupe key expired, Redis lost it, or a process
\* kept its keys in its own memory.
OneRowPerFingerprint ==
    transport = "topic" =>
        \A q, r \in Requests :
            /\ Fingerprint[q] = Fingerprint[r]
            /\ rows[r] > (IF q = r THEN 1 ELSE 0) /\ rows[q] > 0
            => Fingerprint[r] \in excused.twice

\* Why: one delivery at a time works on a report, before there is a row, and
\* from then on the key in Redis keeps the others away.
OneHolder ==
    transport = "topic" =>
        \A f \in Keys \ excused.twice :
            /\ \A g, h \in Handlers : Working(g, f) /\ Working(h, f) => g = h
            /\ \A h \in Handlers : Working(h, f) => shared[f] # NoKey /\ ~Stored(f)
            /\ Stored(f) => shared[f] # NoKey

\* No report is lost, and none is stored twice.
AcceptedIsKeptOnce == AcceptedIsKept /\ OneRowPerFingerprint

\* The inductive invariant.
QueueInv ==
    /\ TypeOK
    /\ AcceptedIsKept
    /\ KeysAreHeld
    /\ OneRowPerFingerprint
    /\ OneHolder
=============================================================================
