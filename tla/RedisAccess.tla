---------------------------- MODULE RedisAccess ----------------------------
(***************************************************************************)
(* Redis as the API uses it (lib/redis.ts), and the fixed-window rate      *)
(* limit built on it (rate-limit-service.ts).  Each API process keeps one  *)
(* client, backs off after a failed connection, and, unless REDIS_REQUIRED *)
(* is set, falls back to a counter in its own memory.  The counter in      *)
(* Redis is increased and given its time to live by two commands, between  *)
(* which other processes act, the server goes away, or the process dies.   *)
(*                                                                         *)
(* Time is counted in ticks, PerSecond of them in a second; a counter      *)
(* carries the ticks it has left.                                          *)
(***************************************************************************)
EXTENDS Integers

CONSTANTS
    Procs,      \* API processes; each has one call under way at a time
    Modes,      \* deployments to consider, of "required", "optional", "unset"
    Quota,      \* `max` of the rate limit
    Window,     \* `windowSec`
    PerSecond,  \* ticks of the clock in a second
    Backoff,    \* nextConnectAttemptAt - now after a failed connection, in ticks
    MaxCalls,   \* bound on the calls remembered
    MaxFaults   \* bound on lost answers and dead processes

\* What the proofs assume of the constants.
Proper ==
    /\ Quota \in Nat /\ Backoff \in Nat /\ MaxFaults \in Nat
    /\ Window \in Nat \ {0} /\ PerSecond \in Nat \ {0}

VARIABLES
    mode,    \* REDIS_URL with REDIS_REQUIRED, without it, or no REDIS_URL
    up,      \* the server can be reached
    shared,  \* the counter in Redis
    local,   \* the counter in fallbackStore of each process
    open,    \* client.isOpen
    wait,    \* ticks until nextConnectAttemptAt
    pc,      \* how far the call of each process is
    answer,  \* the last answer of each process
    calls,   \* the calls counted since a ticks ago, for each a of a window
    mine,    \* the processes whose last call was counted by the counter now in Redis
    faults

vars == <<mode, up, shared, local, open, wait, pc, answer, calls, mine, faults>>

Span == Window * PerSecond

\* `left` of a counter that has no time to live: TTL returns -1.
Untimed == -1

\* `late`: the counter was given its time to live, or given more of it, after
\* the tick in which it was created.
Counters == [n : 0 .. Quota + 1, left : Untimed .. Span, late : BOOLEAN]

Absent == [n |-> 0, left |-> 0, late |-> FALSE]

Phases == {"idle", "connect", "incr", "first", "later", "expire", "ttl",
           "fallback", "read", "failed"}

NoAnswer == [n |-> 0, calls |-> 0, late |-> FALSE, store |-> "none"]

Init ==
    /\ mode \in Modes
    /\ up \in (IF mode = "unset" THEN {FALSE} ELSE {TRUE})
    /\ shared = Absent
    /\ local = [p \in Procs |-> Absent]
    /\ open = [p \in Procs |-> FALSE]
    /\ wait = [p \in Procs |-> 0]
    /\ pc = [p \in Procs |-> "idle"]
    /\ answer = [p \in Procs |-> NoAnswer]
    /\ calls = [a \in 0 .. Span - 1 |-> 0]
    /\ mine = {}
    /\ faults = 0

Goto(p, phase) == pc' = [pc EXCEPT ![p] = phase]

\* The calls counted in the window that ends now.
Recent == calls[Span - 1]

OneMore == [a \in DOMAIN calls |-> calls[a] + 1]

\* Of `procs`, those whose call is still counted: none when the counter is gone.
Counted(procs) == IF shared'.n = 0 THEN {} ELSE procs

----------------------------------------------------------------------------
(* The connection.                                                         *)

\* consumeRateLimit is called.
Call(p) ==
    /\ pc[p] \in {"idle", "read", "failed"}
    /\ Recent < MaxCalls
    /\ answer' = [answer EXCEPT ![p] = NoAnswer]
    /\ mine' = mine \ {p}
    /\ Goto(p, "connect")
    /\ UNCHANGED <<mode, up, shared, local, open, wait, calls, faults>>

\* The client is null: the fallback, or an error when Redis is required.
WithoutRedis(p) == Goto(p, IF mode = "required" THEN "failed" ELSE "fallback")

\* connectRedis: no URL, an open client, a pause after a failure, or an attempt.
Connect(p) ==
    /\ pc[p] = "connect"
    /\ \/ mode = "unset" /\ WithoutRedis(p) /\ UNCHANGED <<open, wait>>
       \/ mode # "unset" /\ open[p] /\ Goto(p, "incr") /\ UNCHANGED <<open, wait>>
       \/ /\ mode # "unset" /\ ~open[p] /\ wait[p] > 0
          /\ WithoutRedis(p)
          /\ UNCHANGED <<open, wait>>
       \/ /\ mode # "unset" /\ ~open[p] /\ wait[p] = 0 /\ up
          /\ open' = [open EXCEPT ![p] = TRUE]
          /\ Goto(p, "incr")
          /\ UNCHANGED wait
       \/ /\ mode # "unset" /\ ~open[p] /\ wait[p] = 0 /\ ~up
          /\ wait' = [wait EXCEPT ![p] = Backoff]
          /\ WithoutRedis(p)
          /\ UNCHANGED open
    /\ UNCHANGED <<mode, up, shared, local, answer, calls, mine, faults>>

\* Faulty: the limit itself is refused.
AllowedBelow(p) == answer[p].n < Quota

\* `allowed` of consumeRateLimit.
Allowed(p) == answer[p].n <= Quota

----------------------------------------------------------------------------
(* redisIncrWithTtl on the server: one command in a step.                  *)

\* The call is counted as the n-th of its window.
Count(p, n, late, store) ==
    /\ calls' = OneMore
    /\ answer' = [answer EXCEPT ![p] =
                    [n |-> n, calls |-> Recent + 1, late |-> late, store |-> store]]

\* Counting stops at Quota + 1: nothing tells larger counts apart.
Bump(n) == IF n > Quota THEN n ELSE n + 1

Increased == IF shared.n = 0 THEN [n |-> 1, left |-> Untimed, late |-> FALSE]
             ELSE [shared EXCEPT !.n = Bump(@)]

\* INCR keeps the time to live of a counter that exists.
Incr(p) ==
    /\ pc[p] = "incr" /\ up
    /\ shared' = Increased
    /\ Count(p, Increased.n, Increased.late, "redis")
    /\ mine' = mine \cup {p}
    /\ Goto(p, IF shared'.n = 1 THEN "first" ELSE "later")
    /\ UNCHANGED <<mode, up, local, open, wait, faults>>

\* EXPIRE: nothing happens to a key that is gone.
Timed ==
    IF shared.n = 0 THEN shared
    ELSE [shared EXCEPT !.left = Span, !.late = @ \/ shared.left \in 1 .. Span - 1]

\* Faulty: only the call that created the counter times it.
LaterTrusts(p) == Goto(p, "ttl")

\* The TTL that a later call reads first: -2 without a key, -1 without a time.
LaterReads(p) == Goto(p, IF shared.n = 0 \/ shared.left = Untimed THEN "expire" ELSE "ttl")

Later(p) ==
    /\ pc[p] = "later" /\ up
    /\ LaterReads(p)
    /\ UNCHANGED <<mode, up, shared, local, open, wait, answer, calls, mine, faults>>

Expire(p) ==
    /\ pc[p] \in {"first", "expire"} /\ up
    /\ shared' = Timed
    /\ Goto(p, "ttl")
    /\ UNCHANGED <<mode, up, local, open, wait, answer, calls, mine, faults>>

\* The TTL that every call reads last, and the answer: the counter may by now
\* be gone, or be another one.
Ttl(p) ==
    /\ pc[p] = "ttl" /\ up
    /\ Goto(p, "read")
    /\ UNCHANGED <<mode, up, shared, local, open, wait, answer, calls, mine, faults>>

\* withRedis catches an error of any of the commands, of which INCR or EXPIRE
\* may have been applied, and starts the operation again on the fallback.
CommandErrors(p) ==
    /\ pc[p] \in {"incr", "first", "later", "expire", "ttl"}
    /\ ~up \/ faults < MaxFaults
    /\ faults' = IF up THEN faults + 1 ELSE faults
    /\ WithoutRedis(p)
    /\ \/ UNCHANGED <<shared, calls>>
       \/ pc[p] = "incr" /\ up /\ shared' = Increased /\ calls' = OneMore
       \/ pc[p] \in {"first", "expire"} /\ up /\ shared' = Timed /\ UNCHANGED calls
    /\ answer' = [answer EXCEPT ![p] = NoAnswer]
    /\ mine' = mine \ {p}
    /\ UNCHANGED <<mode, up, local, open, wait>>

----------------------------------------------------------------------------
(* The fallback, all in one turn of the event loop.                        *)

\* The seconds that `ticks` make, rounded up.
Seconds(ticks) == (ticks + PerSecond - 1) \div PerSecond

\* The entry is written anew with `left` ticks.
Rewritten(entry, left) ==
    [n |-> Bump(entry.n), left |-> left, late |-> entry.late \/ left > entry.left]

\* Faulty: one second more than the remaining time.
IncrLocallyOneMore(entry) ==
    IF entry.n = 0 THEN [n |-> 1, left |-> Span, late |-> FALSE]
    ELSE Rewritten(entry, PerSecond * (Seconds(entry.left) + 1))

\* fallbackIncrWithTtl: the remaining time to live is rounded up to whole
\* seconds, one at least, so that a call may lengthen it.
IncrLocally(entry) ==
    IF entry.n = 0 THEN [n |-> 1, left |-> Span, late |-> FALSE]
    ELSE LET s == Seconds(entry.left)
         IN  Rewritten(entry, PerSecond * (IF s > 1 THEN s ELSE 1))

Fallback(p) ==
    /\ pc[p] = "fallback"
    /\ local' = [local EXCEPT ![p] = IncrLocally(@)]
    /\ Count(p, local'[p].n, local'[p].late, "local")
    /\ Goto(p, "read")
    /\ UNCHANGED <<mode, up, shared, open, wait, mine, faults>>

----------------------------------------------------------------------------
(* The world.                                                              *)

\* One tick later: 0 left removes the counter.
Aged(c) ==
    IF c.n = 0 THEN Absent
    ELSE IF c.left = Untimed THEN [c EXCEPT !.late = TRUE]
    ELSE IF c.left = 1 THEN Absent
    ELSE [c EXCEPT !.left = @ - 1]

Tick ==
    /\ shared' = Aged(shared)
    /\ local' = [p \in Procs |-> Aged(local[p])]
    /\ wait' = [p \in Procs |-> IF wait[p] > 0 THEN wait[p] - 1 ELSE 0]
    /\ calls' = [a \in DOMAIN calls |-> IF a = 0 THEN 0 ELSE calls[a - 1]]
    /\ mine' = Counted(mine)
    /\ UNCHANGED <<mode, up, open, pc, answer, faults>>

\* The server goes away, with the counter or without it, or comes back.
Outage ==
    /\ mode # "unset"
    /\ \/ up /\ faults < MaxFaults /\ faults' = faults + 1 /\ shared' \in {shared, Absent}
       \/ ~up /\ UNCHANGED <<faults, shared>>
    /\ up' = ~up
    /\ open' \in {open, [p \in Procs |-> FALSE]}
    /\ mine' = Counted(mine)
    /\ UNCHANGED <<mode, local, wait, pc, answer, calls>>

\* A process dies and another takes its place, with an empty memory.
Restart(p) ==
    /\ faults < MaxFaults
    /\ faults' = faults + 1
    /\ local' = [local EXCEPT ![p] = Absent]
    /\ open' = [open EXCEPT ![p] = FALSE]
    /\ wait' = [wait EXCEPT ![p] = 0]
    /\ answer' = [answer EXCEPT ![p] = NoAnswer]
    /\ mine' = mine \ {p}
    /\ Goto(p, "idle")
    /\ UNCHANGED <<mode, up, shared, calls>>

Step(p) ==
    \/ Call(p) \/ Connect(p) \/ Incr(p) \/ Later(p) \/ Expire(p) \/ Ttl(p)
    \/ CommandErrors(p) \/ Fallback(p) \/ Restart(p)

Next == (\E p \in Procs : Step(p)) \/ Tick \/ Outage

Spec == Init /\ [][Next]_vars

----------------------------------------------------------------------------
(* Properties.                                                             *)

Answers == [n : Nat, calls : Nat, late : BOOLEAN, store : {"none", "redis", "local"}]

\* The shape of every variable.
TypeOK ==
    /\ mode \in Modes
    /\ up \in BOOLEAN
    /\ shared \in Counters
    /\ local \in [Procs -> Counters]
    /\ open \in [Procs -> BOOLEAN]
    /\ wait \in [Procs -> 0 .. Backoff]
    /\ pc \in [Procs -> Phases]
    /\ answer \in [Procs -> Answers]
    /\ calls \in [0 .. Span - 1 -> Nat]
    /\ mine \subseteq Procs
    /\ faults \in 0 .. MaxFaults

\* A counter that is there has time left, or none given to it yet.
IsWhole(c) == (c.n = 0) <=> (c.left = 0)

\* A counter that was given its time in time counts the calls of its window.
CountsCalls(c) ==
    c.n > 0 /\ ~c.late => c.n <= calls[IF c.left = Untimed THEN 0 ELSE Span - c.left]

Stored == {shared} \cup {local[p] : p \in Procs}

CountersAreTrue == \A c \in Stored : IsWhole(c) /\ CountsCalls(c)

CallsAddUp == \A a, b \in DOMAIN calls : a <= b => calls[a] <= calls[b]

AnswersAreTrue == \A p \in Procs : answer[p].n <= answer[p].calls \/ answer[p].late

Refused(p) == pc[p] = "read" /\ ~Allowed(p)

\* A call is refused only when more than Quota calls were counted in the
\* window that ends with it (consumeRateLimit), unless the counter was given
\* more time than its window: in Redis when the first call died or failed
\* between INCR and EXPIRE, or a second call that found no time to live set it
\* once more; in memory whenever a call comes within the same second.
RefusalsAreDeserved ==
    \A p \in Procs : Refused(p) => answer[p].calls > Quota \/ answer[p].late

\* A call that Redis answered is not counted for ever: the counter it was
\* counted by has a time to live, although the call that created it may have
\* died or failed between INCR and EXPIRE (redisIncrWithTtl reads TTL after
\* INCR), and whatever outages and other calls came between the commands.  A
\* client is refused for ever by Redis only while nobody gets an answer.
AnsweredCallsExpire == \A p \in mine : pc[p] = "read" => shared.left # Untimed

\* Why: so it is from the last EXPIRE or TTL on, for as long as it is there.
MineAreTimed ==
    /\ shared.n = 0 => mine = {}
    /\ \A p \in mine :
          /\ pc[p] \in {"first", "later", "expire", "ttl", "read"}
          /\ pc[p] \in {"ttl", "read"} => shared.left # Untimed

\* The inductive invariant.
RedisInv == TypeOK /\ CallsAddUp /\ CountersAreTrue /\ AnswersAreTrue /\ MineAreTimed
=============================================================================
