---------------------------- MODULE IntakeProofs ----------------------------
(***************************************************************************)
(* Proofs about the ways in: for the rate limit on Redis (R), the          *)
(* ingestion queue (Q) and the GitHub webhook (G) that each step keeps the *)
(* inductive invariant of its module; then the properties of the whole.    *)
(***************************************************************************)
EXTENDS Intake, LeastElements, FiniteSetTheorems, TLAPS

----------------------------------------------------------------------------
(* Redis and the rate limit.                                               *)

LEMMA ASpanIsPositive ==
  ASSUME R!Proper
  PROVE  R!Span \in Nat \ {0} /\ R!Span >= PerSecond
  <1>1. Window \in Nat \ {0} /\ PerSecond \in Nat \ {0}
    BY DEF R!Proper
  <1>2. Window * PerSecond \in Nat /\ Window * PerSecond >= PerSecond
    BY <1>1
  <1>3. QED
    BY <1>1, <1>2 DEF R!Span

(* What time rounded up to whole seconds, one at least, comes to. *)
LEMMA SecondsCover ==
  ASSUME R!Proper, NEW l \in R!Untimed .. R!Span,
         NEW s, s = (IF R!Seconds(l) > 1 THEN R!Seconds(l) ELSE 1)
  PROVE  PerSecond * s \in l .. R!Span /\ PerSecond * s \in R!Untimed .. R!Span
  <1>1. Window \in Nat \ {0} /\ PerSecond \in Nat \ {0}
    BY DEF R!Proper
  <1>2. R!Span \in Nat \ {0} /\ R!Span >= PerSecond
    BY ASpanIsPositive
  <1>3. l \in Int /\ l >= -1 /\ l <= R!Span
    BY <1>2 DEF R!Untimed
  <1> DEFINE q == R!Seconds(l)
  <1>4. q \in Int
    BY <1>1, <1>3 DEF R!Seconds
  <1>5. /\ PerSecond * q <= l + PerSecond - 1
        /\ l + PerSecond - 1 < PerSecond * q + PerSecond
    BY <1>1, <1>3 DEF R!Seconds
  <1>6. PerSecond * q \in Int
    BY <1>1, <1>4
  <1>7. q <= Window
    <2>1. PerSecond * q <= Window * PerSecond + PerSecond - 1
      BY <1>1, <1>3, <1>5, <1>6 DEF R!Span
    <2>2. SUFFICES ASSUME q >= Window + 1 PROVE FALSE
      BY <1>1, <1>4
    <2>3. PerSecond * q >= PerSecond * (Window + 1)
      BY <1>1, <1>4, <2>2
    <2>4. PerSecond * (Window + 1) = Window * PerSecond + PerSecond
      BY <1>1
    <2>5. QED
      BY <1>1, <1>6, <2>1, <2>3, <2>4
  <1>8. PerSecond * q <= R!Span
    <2>1. PerSecond * q <= PerSecond * Window
      BY <1>1, <1>4, <1>7
    <2>2. QED
      BY <1>1, <2>1 DEF R!Span
  <1>9. PerSecond * q >= l
    BY <1>1, <1>3, <1>5, <1>6
  <1>10. CASE q > 1
    <2>1. s = q
      BY <1>10
    <2>2. PerSecond * q >= 0
      BY <1>1, <1>4, <1>10
    <2>3. QED
      BY <1>2, <1>3, <1>6, <1>8, <1>9, <2>1, <2>2 DEF R!Untimed
  <1>11. CASE ~(q > 1)
    <2>1. s = 1 /\ PerSecond * s = PerSecond
      BY <1>1, <1>11
    <2>2. PerSecond * q <= PerSecond
      BY <1>1, <1>4, <1>11
    <2>3. l <= PerSecond
      BY <1>1, <1>3, <1>6, <1>9, <2>2
    <2>4. QED
      BY <1>1, <1>2, <1>3, <2>1, <2>3 DEF R!Untimed
  <1>12. QED
    BY <1>10, <1>11

(* A counter that agrees with the calls that were counted. *)
Agrees(c) == c \in R!Counters /\ R!IsWhole(c) /\ R!CountsCalls(c)

LEMMA AbsentAgrees ==
  ASSUME R!Proper
  PROVE  Agrees(R!Absent)
  <1>1. Quota \in Nat /\ R!Span \in Nat
    BY ASpanIsPositive DEF R!Proper
  <1>2. R!Absent \in R!Counters
    BY <1>1 DEF R!Absent, R!Counters, R!Untimed
  <1>3. QED
    BY <1>2 DEF Agrees, R!Absent, R!IsWhole, R!CountsCalls

(* The fields of a counter that agrees. *)
LEMMA CounterFields ==
  ASSUME R!Proper, NEW c, Agrees(c)
  PROVE  /\ c = [n |-> c.n, left |-> c.left, late |-> c.late]
         /\ c.n \in 0 .. Quota + 1 /\ c.left \in R!Untimed .. R!Span /\ c.late \in BOOLEAN
         /\ c.n = 0 <=> c.left = 0
         /\ c.n > 0 /\ ~c.late /\ c.left = R!Untimed => c.n <= calls[0]
         /\ c.n > 0 /\ ~c.late /\ c.left # R!Untimed => c.n <= calls[R!Span - c.left]
  BY DEF Agrees, R!Counters, R!IsWhole, R!CountsCalls

(* And of the counters of the next state, from their fields. *)
AgreesNext(c) == c \in R!Counters /\ R!IsWhole(c) /\ R!CountsCalls(c)'

LEMMA NextCounterFields ==
  ASSUME NEW c, NEW n \in 0 .. Quota + 1, NEW left \in R!Untimed .. R!Span, NEW late_ \in BOOLEAN,
         c = [n |-> n, left |-> left, late |-> late_],
         n = 0 <=> left = 0,
         n > 0 /\ ~late_ /\ left = R!Untimed => n <= calls'[0],
         n > 0 /\ ~late_ /\ left # R!Untimed => n <= calls'[R!Span - left]
  PROVE  AgreesNext(c)
  <1>1. c.n = n /\ c.left = left /\ c.late = late_
    OBVIOUS
  <1>2. c \in R!Counters
    BY DEF R!Counters
  <1>3. QED
    BY <1>1, <1>2 DEF AgreesNext, R!IsWhole, R!CountsCalls

LEMMA StoredAgree ==
  ASSUME R!Proper, R!RedisInv
  PROVE  Agrees(shared) /\ \A p \in Procs : Agrees(local[p])
  <1>1. shared \in R!Counters /\ \A p \in Procs : local[p] \in R!Counters
    BY DEF R!RedisInv, R!TypeOK
  <1>2. \A c \in R!Stored : R!IsWhole(c) /\ R!CountsCalls(c)
    BY DEF R!RedisInv, R!CountersAreTrue
  <1>3. QED
    BY <1>1, <1>2 DEF R!Stored, Agrees

(* What counting a call, or none, does to all the counters. *)
LEMMA CallsMove ==
  ASSUME R!Proper, R!RedisInv, calls' = calls \/ calls' = R!OneMore
  PROVE  /\ calls' \in [0 .. R!Span - 1 -> Nat] /\ R!CallsAddUp'
         /\ \A c : Agrees(c) => AgreesNext(c)
  <1>1. calls \in [0 .. R!Span - 1 -> Nat] /\ R!Span \in Nat \ {0}
    BY ASpanIsPositive DEF R!RedisInv, R!TypeOK
  <1>2. calls' \in [0 .. R!Span - 1 -> Nat] /\ \A a \in 0 .. R!Span - 1 : calls'[a] >= calls[a]
    BY <1>1 DEF R!OneMore
  <1>3. R!CallsAddUp'
    BY <1>1, <1>2 DEF R!RedisInv, R!CallsAddUp, R!OneMore
  <1>4. ASSUME NEW c, Agrees(c) PROVE AgreesNext(c)
    <2>1. /\ c = [n |-> c.n, left |-> c.left, late |-> c.late]
          /\ c.n \in 0 .. Quota + 1 /\ c.left \in R!Untimed .. R!Span /\ c.late \in BOOLEAN
          /\ c.n = 0 <=> c.left = 0
          /\ c.n > 0 /\ ~c.late /\ c.left = R!Untimed => c.n <= calls[0]
          /\ c.n > 0 /\ ~c.late /\ c.left # R!Untimed => c.n <= calls[R!Span - c.left]
      BY <1>4, CounterFields
    <2>2. Quota \in Nat
      BY DEF R!Proper
    <2>3. c.n > 0 /\ ~c.late /\ c.left = R!Untimed => c.n <= calls'[0]
      BY <1>1, <1>2, <2>1, <2>2
    <2>4. c.n > 0 /\ ~c.late /\ c.left # R!Untimed => c.n <= calls'[R!Span - c.left]
      BY <1>1, <1>2, <2>1, <2>2 DEF R!Untimed
    <2>5. QED
      BY <2>1, <2>3, <2>4, NextCounterFields
  <1>5. QED
    BY <1>2, <1>3, <1>4

(* The answers of the next state. *)
AnswersNext ==
    /\ answer' \in [Procs -> R!Answers]
    /\ \A p \in Procs : answer'[p].n <= answer'[p].calls \/ answer'[p].late

LEMMA ForgottenAnswer ==
  ASSUME R!RedisInv, NEW p \in Procs, answer' = [answer EXCEPT ![p] = R!NoAnswer]
  PROVE  AnswersNext
  <1>1. R!NoAnswer \in R!Answers /\ R!NoAnswer.n <= R!NoAnswer.calls
    BY DEF R!NoAnswer, R!Answers
  <1>2. QED
    BY <1>1 DEF R!RedisInv, R!TypeOK, R!AnswersAreTrue, AnswersNext

LEMMA KeptAnswers ==
  ASSUME R!RedisInv, answer' = answer
  PROVE  AnswersNext
  BY DEF R!RedisInv, R!TypeOK, R!AnswersAreTrue, AnswersNext

LEMMA CountedAnswer ==
  ASSUME R!Proper, R!RedisInv, NEW p \in Procs, NEW n \in Nat, NEW late_ \in BOOLEAN,
         NEW store \in {"redis", "local"}, n <= R!Recent + 1 \/ late_,
         answer' = [answer EXCEPT ![p] =
                      [n |-> n, calls |-> R!Recent + 1, late |-> late_, store |-> store]]
  PROVE  AnswersNext
  <1>1. PICK row : row = [n |-> n, calls |-> R!Recent + 1, late |-> late_, store |-> store]
    OBVIOUS
  <1>2. R!Recent \in Nat
    BY ASpanIsPositive DEF R!RedisInv, R!TypeOK, R!Recent
  <1>3. row \in R!Answers /\ (row.n <= row.calls \/ row.late)
    BY <1>1, <1>2 DEF R!Answers
  <1>4. answer' = [answer EXCEPT ![p] = row]
    BY <1>1
  <1>5. QED
    BY <1>3, <1>4 DEF R!RedisInv, R!TypeOK, R!AnswersAreTrue, AnswersNext

(* The calls of the next state that are counted by the counter in Redis. *)
MineNext == mine' \subseteq Procs /\ R!MineAreTimed'

LEMMA MineMoves ==
  ASSUME R!RedisInv, NEW p \in Procs, NEW phase, pc' = [pc EXCEPT ![p] = phase],
         mine' \subseteq mine \cup {p}, shared'.n = 0 => mine' = {},
         mine # {} /\ shared.left # R!Untimed => shared'.left # R!Untimed,
         p \in mine' => phase \in {"first", "later", "expire", "ttl", "read"},
         p \in mine' /\ phase \in {"ttl", "read"} => shared'.left # R!Untimed
  PROVE  MineNext
  <1>1. pc \in [Procs -> R!Phases] /\ mine \subseteq Procs
    BY DEF R!RedisInv, R!TypeOK
  <1>2. ASSUME NEW q \in mine'
        PROVE  /\ pc'[q] \in {"first", "later", "expire", "ttl", "read"}
               /\ pc'[q] \in {"ttl", "read"} => shared'.left # R!Untimed
    <2>1. CASE q = p
      <3>1. pc'[q] = phase /\ p \in mine'
        BY <1>1, <1>2, <2>1
      <3>2. QED
        BY <3>1
    <2>2. CASE q # p
      <3>1. q \in mine /\ pc'[q] = pc[q]
        BY <1>1, <1>2, <2>2
      <3>2. QED
        BY <3>1 DEF R!RedisInv, R!MineAreTimed
    <2>3. QED
      BY <2>1, <2>2
  <1>3. QED
    BY <1>1, <1>2 DEF MineNext, R!MineAreTimed

(* Steps of p that leave Redis alone. *)
LEMMA MineStay ==
  ASSUME R!RedisInv, NEW p \in Procs, NEW phase, pc' = [pc EXCEPT ![p] = phase], shared' = shared,
         mine' \subseteq mine \ {p}
  PROVE  MineNext
  <1>1. shared'.n = 0 => mine' = {}
    BY DEF R!RedisInv, R!MineAreTimed
  <1>2. QED
    BY <1>1, MineMoves

(* A step keeps the invariant when it keeps every part of it. *)
LEMMA RedisMoves ==
  ASSUME R!Proper, R!RedisInv,
         NEW sh, shared' = sh, AgreesNext(sh),
         NEW lo, local' = lo, lo \in [Procs -> R!Counters], \A p \in Procs : AgreesNext(lo[p]),
         calls' \in [0 .. R!Span - 1 -> Nat], R!CallsAddUp', AnswersNext,
         mode' = mode, up' \in BOOLEAN, open' \in [Procs -> BOOLEAN],
         wait' \in [Procs -> 0 .. Backoff], pc' \in [Procs -> R!Phases],
         faults' \in 0 .. RedisFaults, MineNext
  PROVE  R!RedisInv'
  <1>1. R!TypeOK'
    <2>1. shared' \in R!Counters
      BY DEF AgreesNext
    <2>2. mode' \in Modes
      BY DEF R!RedisInv, R!TypeOK
    <2>3. QED
      BY <2>1, <2>2 DEF R!TypeOK, AnswersNext, MineNext
  <1>2. R!CountersAreTrue'
    BY DEF R!CountersAreTrue, R!Stored, AgreesNext
  <1>3. R!AnswersAreTrue'
    BY DEF R!AnswersAreTrue, AnswersNext
  <1>4. QED
    BY <1>1, <1>2, <1>3 DEF R!RedisInv, MineNext

LEMMA InitRedisInv ==
  ASSUME R!Proper
  PROVE  R!Init => R!RedisInv
  <1> SUFFICES ASSUME R!Init PROVE R!RedisInv
    OBVIOUS
  <1>1. Agrees(R!Absent) /\ R!Span \in Nat \ {0}
    BY AbsentAgrees, ASpanIsPositive
  <1>2. R!NoAnswer \in R!Answers /\ R!NoAnswer.n <= R!NoAnswer.calls
    BY DEF R!NoAnswer, R!Answers
  <1>3. R!TypeOK
    <2>1. shared \in R!Counters /\ local \in [Procs -> R!Counters]
      BY <1>1 DEF R!Init, Agrees
    <2>2. answer \in [Procs -> R!Answers]
      BY <1>2 DEF R!Init
    <2>3. /\ mode \in Modes /\ up \in BOOLEAN /\ open \in [Procs -> BOOLEAN]
          /\ pc \in [Procs -> R!Phases] /\ calls \in [0 .. R!Span - 1 -> Nat] /\ mine \subseteq Procs
      BY DEF R!Init, R!Phases
    <2>4. wait \in [Procs -> 0 .. Backoff] /\ faults \in 0 .. RedisFaults
      BY DEF R!Init, R!Proper
    <2>5. QED
      BY <2>1, <2>2, <2>3, <2>4 DEF R!TypeOK
  <1>4. R!CallsAddUp
    BY <1>1 DEF R!Init, R!CallsAddUp
  <1>5. R!CountersAreTrue
    <2>1. \A c \in R!Stored : c = R!Absent
      BY DEF R!Init, R!Stored
    <2>2. QED
      BY <1>1, <2>1 DEF R!CountersAreTrue, Agrees
  <1>6. R!AnswersAreTrue
    BY <1>2 DEF R!Init, R!AnswersAreTrue
  <1>7. R!MineAreTimed
    BY DEF R!Init, R!MineAreTimed
  <1>8. QED
    BY <1>3, <1>4, <1>5, <1>6, <1>7 DEF R!RedisInv

(* The types of what has nothing to do with the counters. *)
LEMMA RedisTypes ==
  ASSUME R!RedisInv
  PROVE  /\ up \in BOOLEAN /\ open \in [Procs -> BOOLEAN] /\ wait \in [Procs -> 0 .. Backoff]
         /\ pc \in [Procs -> R!Phases] /\ faults \in 0 .. RedisFaults
         /\ local \in [Procs -> R!Counters]
  BY DEF R!RedisInv, R!TypeOK

(* Steps that leave the counters and the calls alone. *)
LEMMA QuietRedisStep ==
  ASSUME R!Proper, R!RedisInv, shared' = shared, local' = local, calls' = calls, mode' = mode,
         AnswersNext, up' \in BOOLEAN, open' \in [Procs -> BOOLEAN],
         wait' \in [Procs -> 0 .. Backoff], pc' \in [Procs -> R!Phases],
         faults' \in 0 .. RedisFaults, MineNext
  PROVE  R!RedisInv'
  <1>1. PICK sh : sh = shared
    OBVIOUS
  <1>2. PICK lo : lo = local
    OBVIOUS
  <1>3. Agrees(sh) /\ \A p \in Procs : Agrees(lo[p])
    BY <1>1, <1>2, StoredAgree
  <1>4. /\ calls' \in [0 .. R!Span - 1 -> Nat] /\ R!CallsAddUp'
        /\ \A c : Agrees(c) => AgreesNext(c)
    BY CallsMove
  <1>5. AgreesNext(sh) /\ \A p \in Procs : AgreesNext(lo[p])
    BY <1>3, <1>4
  <1>6. shared' = sh /\ local' = lo /\ lo \in [Procs -> R!Counters]
    BY <1>1, <1>2, RedisTypes
  <1>7. QED
    BY <1>4, <1>5, <1>6, RedisMoves

LEMMA CallStep ==
  ASSUME R!Proper, R!RedisInv, NEW p \in Procs, R!Call(p)
  PROVE  R!RedisInv'
  <1>1. AnswersNext
    BY ForgottenAnswer DEF R!Call
  <1>2. pc' \in [Procs -> R!Phases]
    BY RedisTypes DEF R!Call, R!Goto, R!Phases
  <1>3. MineNext
    BY MineStay DEF R!Call, R!Goto
  <1>4. QED
    BY <1>1, <1>2, <1>3, RedisTypes, QuietRedisStep DEF R!Call

LEMMA ConnectStep ==
  ASSUME R!Proper, R!RedisInv, NEW p \in Procs, R!Connect(p)
  PROVE  R!RedisInv'
  <1>1. pc' \in [Procs -> R!Phases]
    BY RedisTypes DEF R!Connect, R!WithoutRedis, R!Goto, R!Phases
  <1>2. open' = open \/ open' = [open EXCEPT ![p] = TRUE]
    BY DEF R!Connect
  <1>3. wait' = wait \/ wait' = [wait EXCEPT ![p] = Backoff]
    BY DEF R!Connect
  <1>4. open' \in [Procs -> BOOLEAN]
    BY <1>2, RedisTypes
  <1>5. Backoff \in 0 .. Backoff
    BY DEF R!Proper
  <1>6. wait' \in [Procs -> 0 .. Backoff]
    BY <1>3, <1>5, RedisTypes
  <1>7. AnswersNext
    BY KeptAnswers DEF R!Connect
  <1>8. p \notin mine
    BY DEF R!Connect, R!RedisInv, R!MineAreTimed
  <1>9. MineNext
    <2>1. PICK phase : pc' = [pc EXCEPT ![p] = phase]
      BY DEF R!Connect, R!WithoutRedis, R!Goto
    <2>2. QED
      BY <1>8, <2>1, MineStay DEF R!Connect
  <1>10. QED
    BY <1>1, <1>4, <1>6, <1>7, <1>9, RedisTypes, QuietRedisStep DEF R!Connect

LEMMA LaterStep ==
  ASSUME R!Proper, R!RedisInv, NEW p \in Procs, R!Later(p)
  PROVE  R!RedisInv'
  <1>1. pc' \in [Procs -> R!Phases]
    BY RedisTypes DEF R!Later, R!LaterReads, R!Goto, R!Phases
  <1>2. AnswersNext
    BY KeptAnswers DEF R!Later
  <1>3. MineNext
    <2>1. PICK phase : phase = (IF shared.n = 0 \/ shared.left = R!Untimed THEN "expire" ELSE "ttl")
      OBVIOUS
    <2>2. pc' = [pc EXCEPT ![p] = phase]
      BY <2>1 DEF R!Later, R!LaterReads, R!Goto
    <2>3. phase \in {"expire", "ttl"} /\ (phase = "ttl" => shared.left # R!Untimed)
      BY <2>1
    <2>4. shared.n = 0 => mine = {}
      BY DEF R!RedisInv, R!MineAreTimed
    <2>5. QED
      BY <2>2, <2>3, <2>4, MineMoves DEF R!Later
  <1>4. QED
    BY <1>1, <1>2, <1>3, RedisTypes, QuietRedisStep DEF R!Later

LEMMA TtlStep ==
  ASSUME R!Proper, R!RedisInv, NEW p \in Procs, R!Ttl(p)
  PROVE  R!RedisInv'
  <1>1. pc' \in [Procs -> R!Phases]
    BY RedisTypes DEF R!Ttl, R!Goto, R!Phases
  <1>2. AnswersNext
    BY KeptAnswers DEF R!Ttl
  <1>3. MineNext
    <2>1. p \in mine => shared.left # R!Untimed
      BY DEF R!Ttl, R!RedisInv, R!MineAreTimed
    <2>2. shared.n = 0 => mine = {}
      BY DEF R!RedisInv, R!MineAreTimed
    <2>3. QED
      BY <2>1, <2>2, MineMoves DEF R!Ttl, R!Goto
  <1>4. QED
    BY <1>1, <1>2, <1>3, RedisTypes, QuietRedisStep DEF R!Ttl

(* What INCR makes of the counter, once the call is counted. *)
LEMMA IncreasedAgrees ==
  ASSUME R!Proper, R!RedisInv, NEW c, c = R!Increased, calls' = R!OneMore
  PROVE  /\ AgreesNext(c)
         /\ c.n \in Nat /\ c.late \in BOOLEAN /\ (c.n <= R!Recent + 1 \/ c.late)
  <1>1. PICK s : s = shared
    OBVIOUS
  <1>2. /\ s = [n |-> s.n, left |-> s.left, late |-> s.late]
        /\ s.n \in 0 .. Quota + 1 /\ s.left \in R!Untimed .. R!Span /\ s.late \in BOOLEAN
        /\ s.n = 0 <=> s.left = 0
        /\ s.n > 0 /\ ~s.late /\ s.left = R!Untimed => s.n <= calls[0]
        /\ s.n > 0 /\ ~s.late /\ s.left # R!Untimed => s.n <= calls[R!Span - s.left]
    BY <1>1, StoredAgree, CounterFields
  <1>3. Quota \in Nat /\ R!Span \in Nat \ {0} /\ calls \in [0 .. R!Span - 1 -> Nat]
    BY ASpanIsPositive DEF R!Proper, R!RedisInv, R!TypeOK
  <1>4. calls' = [a \in 0 .. R!Span - 1 |-> calls[a] + 1]
    BY <1>3 DEF R!OneMore
  <1>5. \A a \in 0 .. R!Span - 1 : calls[a] <= R!Recent
    BY <1>3 DEF R!RedisInv, R!CallsAddUp, R!Recent
  <1>6. R!Recent \in Nat
    BY <1>3 DEF R!Recent
  <1>7. CASE s.n = 0
    <2>1. c = [n |-> 1, left |-> R!Untimed, late |-> FALSE]
      BY <1>1, <1>7 DEF R!Increased
    <2>2. 1 <= calls'[0]
      BY <1>3, <1>4
    <2>3. 1 \in 0 .. Quota + 1 /\ R!Untimed \in R!Untimed .. R!Span /\ R!Untimed # 0
      BY <1>3 DEF R!Untimed
    <2>4. c.n = 1 /\ c.left = R!Untimed /\ c.late = FALSE
      BY <2>1
    <2>5. c \in R!Counters
      BY <2>1, <2>3 DEF R!Counters
    <2>6. AgreesNext(c)
      BY <2>2, <2>3, <2>4, <2>5 DEF AgreesNext, R!IsWhole, R!CountsCalls
    <2>7. c.n \in Nat /\ c.n <= R!Recent + 1
      BY <1>6, <2>4
    <2>8. c.late \in BOOLEAN
      BY <2>4
    <2>9. QED
      BY <2>6, <2>7, <2>8
  <1>8. CASE s.n # 0
    <2>1. PICK n : n = R!Bump(s.n)
      OBVIOUS
    <2>2. n \in 1 .. Quota + 1 /\ n <= s.n + 1
      BY <1>2, <1>3, <1>8, <2>1 DEF R!Bump
    <2>3. c = [n |-> n, left |-> s.left, late |-> s.late]
      <3>1. c = [s EXCEPT !.n = n]
        BY <1>1, <1>8, <2>1 DEF R!Increased
      <3>2. QED
        BY <1>2, <3>1
    <2>4. ~s.late /\ s.left = R!Untimed => n <= calls'[0]
      BY <1>2, <1>3, <1>4, <1>8, <2>2
    <2>5. ~s.late /\ s.left # R!Untimed => R!Span - s.left \in 0 .. R!Span - 1
      BY <1>2, <1>3, <1>8 DEF R!Untimed
    <2>6. ~s.late /\ s.left # R!Untimed => n <= calls'[R!Span - s.left]
      BY <1>2, <1>3, <1>4, <1>8, <2>2, <2>5
    <2>7. AgreesNext(c)
      BY <1>2, <1>3, <1>8, <2>2, <2>3, <2>4, <2>6, NextCounterFields
    <2>8. n <= R!Recent + 1 \/ s.late
      BY <1>2, <1>3, <1>5, <1>6, <1>8, <2>2, <2>5
    <2>9. QED
      BY <1>2, <1>3, <2>2, <2>3, <2>7, <2>8
  <1>9. QED
    BY <1>7, <1>8

LEMMA IncrStep ==
  ASSUME R!Proper, R!RedisInv, NEW p \in Procs, R!Incr(p)
  PROVE  R!RedisInv'
  <1>1. PICK sh : sh = R!Increased
    OBVIOUS
  <1>2. calls' = R!OneMore /\ shared' = sh
    BY <1>1 DEF R!Incr, R!Count
  <1>3. AgreesNext(sh) /\ sh.n \in Nat /\ sh.late \in BOOLEAN /\ (sh.n <= R!Recent + 1 \/ sh.late)
    BY <1>1, <1>2, IncreasedAgrees
  <1>4. answer' = [answer EXCEPT ![p] =
                     [n |-> sh.n, calls |-> R!Recent + 1, late |-> sh.late, store |-> "redis"]]
    BY <1>1 DEF R!Incr, R!Count
  <1>5. AnswersNext
    BY <1>3, <1>4, CountedAnswer
  <1>6. PICK lo : lo = local
    OBVIOUS
  <1>7. /\ calls' \in [0 .. R!Span - 1 -> Nat] /\ R!CallsAddUp'
        /\ \A c : Agrees(c) => AgreesNext(c)
    BY <1>2, CallsMove
  <1>8. \A q \in Procs : AgreesNext(lo[q])
    BY <1>6, <1>7, StoredAgree
  <1>9. local' = lo /\ lo \in [Procs -> R!Counters]
    BY <1>6, RedisTypes DEF R!Incr
  <1>10. pc' \in [Procs -> R!Phases]
    BY RedisTypes DEF R!Incr, R!Goto, R!Phases
  <1>11. MineNext
    <2>1. /\ shared'.n # 0
          /\ shared.n # 0 /\ shared.left # R!Untimed => shared'.left # R!Untimed
      <3>1. shared \in R!Counters /\ Quota \in Nat
        BY DEF R!RedisInv, R!TypeOK, R!Proper
      <3>2. QED
        BY <1>1, <1>2, <3>1 DEF R!Increased, R!Bump, R!Counters
    <2>2. shared.n = 0 => mine = {}
      BY DEF R!RedisInv, R!MineAreTimed
    <2>3. PICK phase \in {"first", "later"} : pc' = [pc EXCEPT ![p] = phase]
      BY DEF R!Incr, R!Goto
    <2>4. mine' \subseteq mine \cup {p}
      BY DEF R!Incr
    <2>5. QED
      BY <2>1, <2>2, <2>3, <2>4, MineMoves
  <1>12. QED
    BY <1>2, <1>3, <1>5, <1>7, <1>8, <1>9, <1>10, <1>11, RedisTypes, RedisMoves DEF R!Incr

(* EXPIRE gives a counter its whole window, and marks one that had some of   *)
(* its own already.                                                          *)
LEMMA TimedAgrees ==
  ASSUME R!Proper, R!RedisInv, NEW c, c = R!Timed
  PROVE  Agrees(c)
  <1>1. PICK s : s = shared
    OBVIOUS
  <1>2. /\ s = [n |-> s.n, left |-> s.left, late |-> s.late]
        /\ s.n \in 0 .. Quota + 1 /\ s.left \in R!Untimed .. R!Span /\ s.late \in BOOLEAN
        /\ s.n = 0 <=> s.left = 0
        /\ s.n > 0 /\ ~s.late /\ s.left = R!Untimed => s.n <= calls[0]
        /\ s.n > 0 /\ ~s.late /\ s.left # R!Untimed => s.n <= calls[R!Span - s.left]
    BY <1>1, StoredAgree, CounterFields
  <1>3. Quota \in Nat /\ R!Span \in Nat \ {0}
    BY ASpanIsPositive DEF R!Proper
  <1>4. CASE s.n = 0
    BY <1>1, <1>4, StoredAgree DEF R!Timed
  <1>5. CASE s.n # 0
    <2>1. (s.late \/ s.left \in 1 .. R!Span - 1) \in BOOLEAN
      OBVIOUS
    <2>2. PICK l \in BOOLEAN : l <=> (s.late \/ s.left \in 1 .. R!Span - 1)
      BY <2>1, Zenon
    <2>3. (s.late \/ s.left \in 1 .. R!Span - 1) = l
      BY <2>1, <2>2
    <2>4. c = [s EXCEPT !.left = R!Span, !.late = l]
      BY <1>1, <1>5, <2>3 DEF R!Timed
    <2>5. c = [n |-> s.n, left |-> R!Span, late |-> l]
      BY <1>2, <2>4
    <2>6. c \in R!Counters
      BY <1>2, <1>3, <2>5 DEF R!Counters, R!Untimed
    <2>7. ~l => s.n <= calls[0]
      BY <1>2, <1>3, <1>5, <2>2 DEF R!Untimed
    <2>8. QED
      BY <1>2, <1>3, <1>5, <2>5, <2>6, <2>7 DEF Agrees, R!IsWhole, R!CountsCalls, R!Untimed
  <1>6. QED
    BY <1>4, <1>5

LEMMA TimedHasTime ==
  ASSUME R!Proper, R!RedisInv
  PROVE  /\ R!Timed.n = 0 => shared.n = 0
         /\ shared.n # 0 => R!Timed.left # R!Untimed
  <1>1. shared \in R!Counters /\ R!Span \in Nat
    BY ASpanIsPositive DEF R!RedisInv, R!TypeOK
  <1>2. CASE shared.n = 0
    BY <1>2
  <1>3. CASE shared.n # 0
    <2>1. R!Timed.n = shared.n /\ R!Timed.left = R!Span
      BY <1>1, <1>3 DEF R!Timed, R!Counters
    <2>2. QED
      BY <1>1, <1>3, <2>1 DEF R!Untimed
  <1>4. QED
    BY <1>2, <1>3

LEMMA ExpireStep ==
  ASSUME R!Proper, R!RedisInv, NEW p \in Procs, R!Expire(p)
  PROVE  R!RedisInv'
  <1>1. PICK sh : sh = R!Timed
    OBVIOUS
  <1>2. PICK lo : lo = local
    OBVIOUS
  <1>3. /\ calls' \in [0 .. R!Span - 1 -> Nat] /\ R!CallsAddUp'
        /\ \A c : Agrees(c) => AgreesNext(c)
    BY CallsMove DEF R!Expire
  <1>4. AgreesNext(sh) /\ \A q \in Procs : AgreesNext(lo[q])
    BY <1>1, <1>2, <1>3, TimedAgrees, StoredAgree
  <1>5. shared' = sh /\ local' = lo /\ lo \in [Procs -> R!Counters]
    BY <1>1, <1>2, RedisTypes DEF R!Expire
  <1>6. AnswersNext
    BY KeptAnswers DEF R!Expire
  <1>7. pc' \in [Procs -> R!Phases]
    BY RedisTypes DEF R!Expire, R!Goto, R!Phases
  <1>8. MineNext
    <2>1. shared.n = 0 => mine = {}
      BY DEF R!RedisInv, R!MineAreTimed
    <2>2. shared' = R!Timed /\ mine' = mine /\ pc' = [pc EXCEPT ![p] = "ttl"]
      BY DEF R!Expire, R!Goto
    <2>3. (shared'.n = 0 => shared.n = 0) /\ (shared.n # 0 => shared'.left # R!Untimed)
      BY <2>2, TimedHasTime
    <2>4. QED
      BY <2>1, <2>2, <2>3, MineMoves
  <1>9. QED
    BY <1>3, <1>4, <1>5, <1>6, <1>7, <1>8, RedisTypes, RedisMoves DEF R!Expire

LEMMA CommandErrorsStep ==
  ASSUME R!Proper, R!RedisInv, NEW p \in Procs, R!CommandErrors(p)
  PROVE  R!RedisInv'
  <1>1. AnswersNext
    BY ForgottenAnswer DEF R!CommandErrors
  <1>2. pc' \in [Procs -> R!Phases] /\ faults' \in 0 .. RedisFaults
    BY RedisTypes DEF R!CommandErrors, R!WithoutRedis, R!Goto, R!Phases, R!Proper
  <1>3. PICK phase : pc' = [pc EXCEPT ![p] = phase]
    BY DEF R!CommandErrors, R!WithoutRedis, R!Goto
  <1>4. mine' = mine \ {p} /\ (shared.n = 0 => mine = {})
    BY DEF R!CommandErrors, R!RedisInv, R!MineAreTimed
  <1>5. PICK sh : shared' = sh
    OBVIOUS
  <1>6. PICK lo : lo = local
    OBVIOUS
  <1>7. local' = lo /\ lo \in [Procs -> R!Counters]
    BY <1>6, RedisTypes DEF R!CommandErrors
  <1>8. calls' = calls \/ calls' = R!OneMore
    BY DEF R!CommandErrors
  <1>9. /\ calls' \in [0 .. R!Span - 1 -> Nat] /\ R!CallsAddUp'
        /\ \A c : Agrees(c) => AgreesNext(c)
    BY <1>8, CallsMove
  <1>10. \A q \in Procs : AgreesNext(lo[q])
    BY <1>6, <1>9, StoredAgree
  <1>11. AgreesNext(sh) /\ MineNext
    <2>1. CASE sh = shared
      <3>1. AgreesNext(sh)
        BY <1>9, <2>1, StoredAgree
      <3>2. MineNext
        BY <1>3, <1>4, <1>5, <2>1, MineStay
      <3>3. QED
        BY <3>1, <3>2
    <2>2. CASE sh = R!Increased /\ calls' = R!OneMore
      <3>1. shared \in R!Counters /\ Quota \in Nat
        BY DEF R!RedisInv, R!TypeOK, R!Proper
      <3>2. sh.n # 0 /\ (shared.n # 0 /\ shared.left # R!Untimed => sh.left # R!Untimed)
        BY <2>2, <3>1 DEF R!Increased, R!Bump, R!Counters
      <3>3. MineNext
        BY <1>3, <1>4, <1>5, <3>2, MineMoves
      <3>4. AgreesNext(sh)
        BY <1>5, <2>2, IncreasedAgrees
      <3>5. QED
        BY <3>3, <3>4
    <2>3. CASE sh = R!Timed
      <3>1. MineNext
        BY <1>3, <1>4, <1>5, <2>3, TimedHasTime, MineMoves
      <3>2. AgreesNext(sh)
        BY <1>9, <2>3, TimedAgrees
      <3>3. QED
        BY <3>1, <3>2
    <2>4. QED
      BY <1>5, <2>1, <2>2, <2>3 DEF R!CommandErrors
  <1>12. mode' = mode /\ up' = up /\ open' = open /\ wait' = wait
    BY DEF R!CommandErrors
  <1>13. QED
    BY <1>1, <1>2, <1>5, <1>7, <1>9, <1>10, <1>11, <1>12, RedisTypes, RedisMoves

(* A call in memory: a counter that was given no more time has all it had.   *)
LEMMA CountedLocally ==
  ASSUME R!Proper, R!RedisInv, NEW e, Agrees(e), NEW c, c = R!IncrLocally(e), calls' = R!OneMore
  PROVE  /\ AgreesNext(c)
         /\ c.n \in Nat /\ c.late \in BOOLEAN /\ (c.n <= R!Recent + 1 \/ c.late)
  <1>1. /\ e = [n |-> e.n, left |-> e.left, late |-> e.late]
        /\ e.n \in 0 .. Quota + 1 /\ e.left \in R!Untimed .. R!Span /\ e.late \in BOOLEAN
        /\ e.n = 0 <=> e.left = 0
        /\ e.n > 0 /\ ~e.late /\ e.left = R!Untimed => e.n <= calls[0]
        /\ e.n > 0 /\ ~e.late /\ e.left # R!Untimed => e.n <= calls[R!Span - e.left]
    BY CounterFields
  <1>2. Quota \in Nat /\ R!Span \in Nat \ {0} /\ calls \in [0 .. R!Span - 1 -> Nat]
    BY ASpanIsPositive DEF R!Proper, R!RedisInv, R!TypeOK
  <1>3. calls' = [a \in 0 .. R!Span - 1 |-> calls[a] + 1]
    BY <1>2 DEF R!OneMore
  <1>4. \A a \in 0 .. R!Span - 1 : calls[a] <= R!Recent
    BY <1>2 DEF R!RedisInv, R!CallsAddUp, R!Recent
  <1>5. R!Recent \in Nat
    BY <1>2 DEF R!Recent
  <1>6. CASE e.n = 0
    <2>1. c = [n |-> 1, left |-> R!Span, late |-> FALSE]
      BY <1>6 DEF R!IncrLocally
    <2>2. c.n = 1 /\ c.left = R!Span /\ c.late = FALSE
      BY <2>1
    <2>3. 1 <= calls'[0] /\ R!Span - R!Span = 0
      BY <1>2, <1>3
    <2>4. c \in R!Counters
      BY <1>2, <2>1 DEF R!Counters, R!Untimed
    <2>5. AgreesNext(c)
      BY <1>2, <2>2, <2>3, <2>4 DEF AgreesNext, R!IsWhole, R!CountsCalls, R!Untimed
    <2>6. c.n \in Nat /\ c.n <= R!Recent + 1
      BY <1>5, <2>2
    <2>7. c.late \in BOOLEAN
      BY <2>2
    <2>8. QED
      BY <2>5, <2>6, <2>7
  <1>7. CASE e.n # 0
    <2>1. PICK n : n = R!Bump(e.n)
      OBVIOUS
    <2>2. n \in 1 .. Quota + 1 /\ n <= e.n + 1
      BY <1>1, <1>2, <1>7, <2>1 DEF R!Bump
    <2>3. PICK s : s = (IF R!Seconds(e.left) > 1 THEN R!Seconds(e.left) ELSE 1)
      OBVIOUS
    <2>4. PICK left : left = PerSecond * s
      OBVIOUS
    <2>5. left \in e.left .. R!Span /\ left \in R!Untimed .. R!Span
      BY <1>1, <2>3, <2>4, SecondsCover
    <2>6. left >= 1
      <3>1. PerSecond \in Nat \ {0}
        BY DEF R!Proper
      <3>2. R!Seconds(e.left) \in Int
        BY <1>1, <1>2, <3>1 DEF R!Seconds, R!Untimed
      <3>3. s \in Nat \ {0}
        BY <2>3, <3>2
      <3>4. QED
        BY <2>4, <3>1, <3>3
    <2>7. (e.late \/ left > e.left) \in BOOLEAN
      OBVIOUS
    <2>8. PICK l \in BOOLEAN : l <=> (e.late \/ left > e.left)
      BY <2>7, Zenon
    <2>9. (e.late \/ left > e.left) = l
      BY <2>7, <2>8
    <2>10. c = [n |-> n, left |-> left, late |-> l]
      BY <1>7, <2>1, <2>3, <2>4, <2>9 DEF R!IncrLocally, R!Rewritten
    <2>11. ~l => ~e.late /\ left = e.left
      BY <1>1, <1>2, <2>5, <2>8 DEF R!Untimed
    <2>12. left # R!Untimed /\ R!Span - left \in 0 .. R!Span - 1
      BY <1>2, <2>5, <2>6 DEF R!Untimed
    <2>13. ~l => n <= calls'[R!Span - left] /\ n <= R!Recent + 1
      <3>1. SUFFICES ASSUME ~l PROVE n <= calls'[R!Span - left] /\ n <= R!Recent + 1
        OBVIOUS
      <3>2. e.n <= calls[R!Span - left] /\ calls'[R!Span - left] = calls[R!Span - left] + 1
        BY <1>1, <1>2, <1>3, <1>7, <2>11, <2>12, <3>1
      <3>3. calls[R!Span - left] \in Nat /\ calls[R!Span - left] <= R!Recent
        BY <1>2, <1>4, <2>12
      <3>4. QED
        BY <1>1, <1>2, <1>5, <2>2, <3>2, <3>3
    <2>14. n = 0 <=> left = 0
      BY <2>2, <2>5, <2>6
    <2>15. AgreesNext(c)
      BY <1>2, <2>2, <2>5, <2>10, <2>12, <2>13, <2>14, NextCounterFields
    <2>16. c.n = n /\ c.late = l
      BY <2>10
    <2>17. QED
      BY <2>2, <2>13, <2>15, <2>16
  <1>8. QED
    BY <1>6, <1>7

LEMMA FallbackStep ==
  ASSUME R!Proper, R!RedisInv, NEW p \in Procs, R!Fallback(p)
  PROVE  R!RedisInv'
  <1>1. PICK old : old = local[p]
    OBVIOUS
  <1>2. PICK row : row = R!IncrLocally(old)
    OBVIOUS
  <1>3. calls' = R!OneMore /\ local' = [local EXCEPT ![p] = row]
    BY <1>1, <1>2, RedisTypes DEF R!Fallback, R!Count
  <1>4. AgreesNext(row) /\ row.n \in Nat /\ row.late \in BOOLEAN /\ (row.n <= R!Recent + 1 \/ row.late)
    BY <1>1, <1>2, <1>3, CountedLocally, StoredAgree
  <1>5. local'[p] = row
    BY <1>3, RedisTypes
  <1>6. answer' = [answer EXCEPT ![p] =
                     [n |-> row.n, calls |-> R!Recent + 1, late |-> row.late, store |-> "local"]]
    BY <1>5 DEF R!Fallback, R!Count
  <1>7. AnswersNext
    BY <1>4, <1>6, CountedAnswer
  <1>8. PICK sh : sh = shared
    OBVIOUS
  <1>9. PICK lo : lo = [local EXCEPT ![p] = row]
    OBVIOUS
  <1>10. /\ calls' \in [0 .. R!Span - 1 -> Nat] /\ R!CallsAddUp'
         /\ \A c : Agrees(c) => AgreesNext(c)
    BY <1>3, CallsMove
  <1>11. shared' = sh /\ AgreesNext(sh)
    BY <1>8, <1>10, StoredAgree DEF R!Fallback
  <1>12. lo \in [Procs -> R!Counters]
    BY <1>4, <1>9, RedisTypes DEF AgreesNext
  <1>13. \A q \in Procs : AgreesNext(lo[q])
    <2>1. ASSUME NEW q \in Procs PROVE AgreesNext(lo[q])
      <3>1. PICK c : c = lo[q]
        OBVIOUS
      <3>2. c = row \/ c = local[q]
        BY <1>9, <3>1, RedisTypes
      <3>3. AgreesNext(c)
        BY <1>4, <1>10, <3>2, StoredAgree
      <3>4. QED
        BY <3>1, <3>3
    <2>2. QED
      BY <2>1
  <1>14. pc' \in [Procs -> R!Phases]
    BY RedisTypes DEF R!Fallback, R!Goto, R!Phases
  <1>15. MineNext
    <2>1. p \notin mine
      BY DEF R!Fallback, R!RedisInv, R!MineAreTimed
    <2>2. QED
      BY <2>1, MineStay DEF R!Fallback, R!Goto
  <1>16. QED
    BY <1>3, <1>7, <1>9, <1>10, <1>11, <1>12, <1>13, <1>14, <1>15, RedisTypes, RedisMoves
       DEF R!Fallback

(* A tick later. *)
LEMMA AgedAgrees ==
  ASSUME R!Proper, R!RedisInv, NEW e, Agrees(e), NEW c, c = R!Aged(e),
         calls' = [a \in 0 .. R!Span - 1 |-> IF a = 0 THEN 0 ELSE calls[a - 1]]
  PROVE  AgreesNext(c)
  <1>1. /\ e = [n |-> e.n, left |-> e.left, late |-> e.late]
        /\ e.n \in 0 .. Quota + 1 /\ e.left \in R!Untimed .. R!Span /\ e.late \in BOOLEAN
        /\ e.n = 0 <=> e.left = 0
        /\ e.n > 0 /\ ~e.late /\ e.left = R!Untimed => e.n <= calls[0]
        /\ e.n > 0 /\ ~e.late /\ e.left # R!Untimed => e.n <= calls[R!Span - e.left]
    BY CounterFields
  <1>2. Quota \in Nat /\ R!Span \in Nat \ {0} /\ calls \in [0 .. R!Span - 1 -> Nat]
    BY ASpanIsPositive DEF R!Proper, R!RedisInv, R!TypeOK
  <1>3. CASE e.n = 0 \/ e.left = 1
    <2>1. c = R!Absent
      BY <1>3 DEF R!Aged, R!Untimed
    <2>2. QED
      BY <2>1, AbsentAgrees DEF Agrees, AgreesNext, R!Absent, R!CountsCalls
  <1>4. CASE e.n # 0 /\ e.left = R!Untimed
    <2>1. c = [n |-> e.n, left |-> R!Untimed, late |-> TRUE]
      BY <1>1, <1>4 DEF R!Aged
    <2>2. c.n = e.n /\ c.left = R!Untimed /\ c.late = TRUE
      BY <2>1
    <2>3. c \in R!Counters
      BY <1>1, <1>4, <2>1 DEF R!Counters
    <2>4. QED
      BY <1>1, <1>4, <2>2, <2>3 DEF AgreesNext, R!IsWhole, R!CountsCalls
  <1>5. CASE e.n # 0 /\ e.left # R!Untimed /\ e.left # 1
    <2>1. e.left \in 2 .. R!Span
      BY <1>1, <1>2, <1>5 DEF R!Untimed
    <2>2. PICK left : left = e.left - 1
      OBVIOUS
    <2>3. left \in 1 .. R!Span - 1 /\ left \in R!Untimed .. R!Span
      BY <1>2, <2>1, <2>2 DEF R!Untimed
    <2>4. c = [n |-> e.n, left |-> left, late |-> e.late]
      BY <1>1, <1>5, <2>2 DEF R!Aged
    <2>5. PICK a : a = R!Span - left
      OBVIOUS
    <2>6. calls'[R!Span - left] = calls[R!Span - e.left]
      <3>1. a \in 1 .. R!Span - 1
        BY <1>2, <2>3, <2>5
      <3>2. a - 1 = R!Span - e.left
        BY <1>2, <2>1, <2>2, <2>5
      <3>3. calls'[a] = calls[a - 1]
        BY <1>2, <3>1
      <3>4. QED
        BY <2>5, <3>2, <3>3
    <2>7. ~e.late => e.n <= calls'[R!Span - left]
      BY <1>1, <1>2, <1>5, <2>6
    <2>8. left # R!Untimed /\ (e.n = 0 <=> left = 0)
      BY <1>1, <1>5, <2>3 DEF R!Untimed
    <2>9. QED
      BY <1>1, <2>3, <2>4, <2>7, <2>8, NextCounterFields
  <1>6. QED
    BY <1>3, <1>4, <1>5

LEMMA RedisTick ==
  ASSUME R!Proper, R!RedisInv, R!Tick
  PROVE  R!RedisInv'
  <1>1. R!Span \in Nat \ {0} /\ calls \in [0 .. R!Span - 1 -> Nat]
    BY ASpanIsPositive DEF R!RedisInv, R!TypeOK
  <1>2. calls' = [a \in 0 .. R!Span - 1 |-> IF a = 0 THEN 0 ELSE calls[a - 1]]
    BY <1>1 DEF R!Tick
  <1>3. calls' \in [0 .. R!Span - 1 -> Nat]
    BY <1>1, <1>2
  <1>4. R!CallsAddUp'
    <2>1. \A a, b \in 0 .. R!Span - 1 : a <= b => calls[a] <= calls[b]
      BY <1>1 DEF R!RedisInv, R!CallsAddUp
    <2>2. \A a, b \in 0 .. R!Span - 1 : a <= b => calls'[a] <= calls'[b]
      BY <1>1, <1>2, <2>1
    <2>3. QED
      BY <1>3, <2>2 DEF R!CallsAddUp
  <1>5. PICK sh : sh = R!Aged(shared)
    OBVIOUS
  <1>6. PICK lo : lo = [p \in Procs |-> R!Aged(local[p])]
    OBVIOUS
  <1>7. shared' = sh /\ local' = lo
    BY <1>5, <1>6 DEF R!Tick
  <1>8. \A e, c : Agrees(e) /\ c = R!Aged(e) => AgreesNext(c)
    BY <1>2, AgedAgrees
  <1>9. AgreesNext(sh)
    BY <1>5, <1>8, StoredAgree
  <1>10. \A p \in Procs : AgreesNext(lo[p])
    <2>1. ASSUME NEW p \in Procs PROVE AgreesNext(lo[p])
      <3>1. PICK c : c = lo[p]
        OBVIOUS
      <3>2. PICK e : e = local[p]
        OBVIOUS
      <3>3. Agrees(e) /\ c = R!Aged(e)
        BY <1>6, <3>1, <3>2, StoredAgree
      <3>4. AgreesNext(c)
        BY <1>8, <3>3
      <3>5. QED
        BY <3>1, <3>4
    <2>2. QED
      BY <2>1
  <1>11. lo \in [Procs -> R!Counters]
    BY <1>6, <1>10 DEF AgreesNext
  <1>12. AnswersNext
    BY KeptAnswers DEF R!Tick
  <1>13. wait' \in [Procs -> 0 .. Backoff]
    BY RedisTypes DEF R!Tick, R!Proper
  <1>14. MineNext
    <2>1. shared \in R!Counters /\ (shared.n = 0 <=> shared.left = 0)
      BY StoredAgree, CounterFields DEF Agrees
    <2>2. shared'.n # 0 /\ shared.left # R!Untimed => shared'.left # R!Untimed
      BY <1>1, <2>1 DEF R!Tick, R!Aged, R!Absent, R!Counters, R!Untimed
    <2>3. mine' = {} \/ (mine' = mine /\ shared'.n # 0)
      BY DEF R!Tick, R!Counted
    <2>4. pc' = pc /\ mine \subseteq Procs
      BY DEF R!Tick, R!RedisInv, R!TypeOK
    <2>5. QED
      BY <2>2, <2>3, <2>4 DEF MineNext, R!MineAreTimed, R!RedisInv
  <1>15. QED
    BY <1>3, <1>4, <1>7, <1>9, <1>10, <1>11, <1>12, <1>13, <1>14, RedisTypes, RedisMoves DEF R!Tick

LEMMA OutageStep ==
  ASSUME R!Proper, R!RedisInv, R!Outage
  PROVE  R!RedisInv'
  <1>1. PICK sh \in {shared, R!Absent} : shared' = sh
    BY DEF R!Outage
  <1>2. PICK lo : lo = local
    OBVIOUS
  <1>3. /\ calls' \in [0 .. R!Span - 1 -> Nat] /\ R!CallsAddUp'
        /\ \A c : Agrees(c) => AgreesNext(c)
    BY CallsMove DEF R!Outage
  <1>4. Agrees(sh) /\ \A p \in Procs : Agrees(lo[p])
    BY <1>1, <1>2, StoredAgree, AbsentAgrees
  <1>5. AgreesNext(sh) /\ \A p \in Procs : AgreesNext(lo[p])
    BY <1>3, <1>4
  <1>6. local' = lo /\ lo \in [Procs -> R!Counters]
    BY <1>2, RedisTypes DEF R!Outage
  <1>7. AnswersNext
    BY KeptAnswers DEF R!Outage
  <1>8. up' \in BOOLEAN /\ open' \in [Procs -> BOOLEAN]
    BY RedisTypes DEF R!Outage
  <1>9. faults' \in 0 .. RedisFaults
    <2>1. faults' = faults \/ (faults < RedisFaults /\ faults' = faults + 1)
      BY DEF R!Outage
    <2>2. QED
      BY <2>1, RedisTypes DEF R!Proper
  <1>10. MineNext
    <2>1. shared' = shared \/ shared' = R!Absent
      BY DEF R!Outage
    <2>2. mine' = {} \/ (mine' = mine /\ shared'.n # 0)
      BY DEF R!Outage, R!Counted
    <2>3. pc' = pc /\ mine \subseteq Procs
      BY DEF R!Outage, R!RedisInv, R!TypeOK
    <2>4. QED
      BY <2>1, <2>2, <2>3 DEF MineNext, R!MineAreTimed, R!RedisInv, R!Absent
  <1>11. QED
    BY <1>1, <1>3, <1>5, <1>6, <1>7, <1>8, <1>9, <1>10, RedisTypes, RedisMoves DEF R!Outage

LEMMA RestartStep ==
  ASSUME R!Proper, R!RedisInv, NEW p \in Procs, R!Restart(p)
  PROVE  R!RedisInv'
  <1>1. PICK sh : sh = shared
    OBVIOUS
  <1>2. PICK lo : lo = [local EXCEPT ![p] = R!Absent]
    OBVIOUS
  <1>3. /\ calls' \in [0 .. R!Span - 1 -> Nat] /\ R!CallsAddUp'
        /\ \A c : Agrees(c) => AgreesNext(c)
    BY CallsMove DEF R!Restart
  <1>4. Agrees(sh) /\ Agrees(R!Absent)
    BY <1>1, StoredAgree, AbsentAgrees
  <1>5. \A q \in Procs : Agrees(lo[q])
    <2>1. \A q \in Procs : lo[q] = R!Absent \/ lo[q] = local[q]
      BY <1>2, RedisTypes
    <2>2. QED
      BY <1>4, <2>1, StoredAgree
  <1>6. AgreesNext(sh) /\ \A q \in Procs : AgreesNext(lo[q])
    BY <1>3, <1>4, <1>5
  <1>7. shared' = sh /\ local' = lo
    BY <1>1, <1>2 DEF R!Restart
  <1>8. lo \in [Procs -> R!Counters]
    BY <1>2, <1>4, RedisTypes DEF Agrees
  <1>9. AnswersNext
    BY ForgottenAnswer DEF R!Restart
  <1>10. /\ open' \in [Procs -> BOOLEAN] /\ wait' \in [Procs -> 0 .. Backoff]
         /\ faults' \in 0 .. RedisFaults
    BY RedisTypes DEF R!Restart, R!Proper
  <1>11. pc' \in [Procs -> R!Phases]
    BY RedisTypes DEF R!Restart, R!Goto, R!Phases
  <1>12. MineNext
    BY MineStay DEF R!Restart, R!Goto
  <1>13. QED
    BY <1>3, <1>6, <1>7, <1>8, <1>9, <1>10, <1>11, <1>12, RedisTypes, RedisMoves DEF R!Restart

(* Each step keeps the inductive invariant: a counter that was given its      *)
(* time in time counts no more than the calls since (consumeRateLimit).       *)
LEMMA RedisSteps ==
  ASSUME R!Proper
  PROVE  R!RedisInv /\ [R!Next]_R!vars => R!RedisInv'
  <1>1. SUFFICES ASSUME R!RedisInv, [R!Next]_R!vars PROVE R!RedisInv'
    OBVIOUS
  <1>2. ASSUME NEW p \in Procs, R!Step(p) PROVE R!RedisInv'
    BY <1>1, <1>2, CallStep, ConnectStep, IncrStep, LaterStep, ExpireStep, TtlStep,
      CommandErrorsStep, FallbackStep, RestartStep DEF R!Step
  <1>3. CASE UNCHANGED R!vars
    <2>1. AnswersNext
      BY <1>1, <1>3, KeptAnswers DEF R!vars
    <2>2. MineNext
      BY <1>1, <1>3 DEF R!vars, MineNext, R!RedisInv, R!TypeOK, R!MineAreTimed
    <2>3. QED
      BY <1>1, <1>3, <2>1, <2>2, RedisTypes, QuietRedisStep DEF R!vars
  <1>4. QED
    BY <1>1, <1>2, <1>3, RedisTick, OutageStep DEF R!Next

----------------------------------------------------------------------------
(* The ingestion queue.                                                    *)

LEMMA InitQueueInv ==
  ASSUME Q!Proper
  PROVE  Q!Init => Q!QueueInv
  <1> SUFFICES ASSUME Q!Init PROVE Q!QueueInv
    OBVIOUS
  <1>1. Q!TypeOK
    BY DEF Q!Proper, Q!Init, Q!TypeOK, Q!RequestPhases, Q!NoKey
  <1>2. Q!AcceptedIsKept /\ Q!KeysAreHeld
    BY DEF Q!Init, Q!AcceptedIsKept, Q!KeysAreHeld
  <1>3. Q!OneRowPerFingerprint
    BY DEF Q!Init, Q!OneRowPerFingerprint
  <1>4. Q!OneHolder
    BY DEF Q!Init, Q!OneHolder, Q!Working, Q!Stored
  <1>5. QED
    BY <1>1, <1>2, <1>3, <1>4 DEF Q!QueueInv

(* A report that has a row has one when another row is inserted. *)
LEMMA RowsStay ==
  ASSUME rows \in [Requests -> Nat], NEW r \in Requests, Q!Insert(r)
  PROVE  /\ rows' \in [Requests -> Nat] /\ rows'[r] = rows[r] + 1 /\ Q!Stored(Fingerprint[r])'
         /\ \A q \in Requests : q # r => rows'[q] = rows[q]
         /\ \A f : Q!Stored(f) => Q!Stored(f)'
         /\ \A f : f # Fingerprint[r] => (Q!Stored(f)' <=> Q!Stored(f))
  <1>1. /\ rows' \in [Requests -> Nat] /\ rows'[r] = rows[r] + 1
        /\ \A q \in Requests : q # r => rows'[q] = rows[q]
    BY DEF Q!Insert
  <1>2. QED
    BY <1>1 DEF Q!Stored

(* What the other deliveries work on is left alone by a step of one. *)
LEMMA OthersWork ==
  ASSUME pc \in [Handlers -> Q!Busy \cup {"idle"}], NEW h \in Handlers, NEW phase,
         pc' = [pc EXCEPT ![h] = phase],
         \A g \in Handlers : g # h => cur'[g] = cur[g]
  PROVE  /\ \A f : \A g \in Handlers : g # h => (Q!Working(g, f)' <=> Q!Working(g, f))
         /\ \A f : Q!Working(h, f)' <=> phase \in {"own", "write", "clean"} /\ Fingerprint[cur'[h]] = f
  BY DEF Q!Working, Q!Fp

(* A step of a request that inserts nothing: when it answers that the report *)
(* is stored, the message is with Pub/Sub.                                   *)
LEMMA ReportMoves ==
  ASSUME Q!QueueInv, NEW r \in Requests, NEW phase \in Q!RequestPhases,
         req' = [req EXCEPT ![r] = phase],
         phase \in {"stored", "accepted"} => req[r] = "stored" \/ r \in queue',
         queue' = queue \/ queue' = queue \cup {r},
         UNCHANGED <<transport, hmac, redisRequired, redisUp, active, now, keys, ownKeys, pc, cur, rows,
                     excused>>
  PROVE  Q!QueueInv'
  <1>1. Q!TypeOK'
    BY DEF Q!QueueInv, Q!TypeOK
  <1>2. Q!AcceptedIsKept'
    <2>1. req \in [Requests -> Q!RequestPhases] /\ (Q!Stored(Fingerprint[r])' <=> Q!Stored(Fingerprint[r]))
      BY DEF Q!QueueInv, Q!TypeOK, Q!Stored
    <2>2. SUFFICES ASSUME NEW q \in Requests, req'[q] \in {"stored", "accepted"}
                   PROVE  Q!Stored(Fingerprint[q])' \/ q \in queue' \/ Fingerprint[q] \in excused'.lost
      BY DEF Q!AcceptedIsKept
    <2>3. req[q] \in {"stored", "accepted"} \/ q \in queue'
      BY <2>1, <2>2
    <2>4. CASE req[q] \in {"stored", "accepted"}
      BY <2>4 DEF Q!QueueInv, Q!AcceptedIsKept, Q!Stored
    <2>5. QED
      BY <2>3, <2>4
  <1>3. Q!KeysAreHeld'
    BY DEF Q!QueueInv, Q!KeysAreHeld, Q!Held, Q!Stored, Q!Working, Q!Fp
  <1>4. Q!OneRowPerFingerprint' /\ Q!OneHolder'
    BY DEF Q!QueueInv, Q!OneRowPerFingerprint, Q!OneHolder, Q!Stored, Q!Working, Q!Fp
  <1>5. QED
    BY <1>1, <1>2, <1>3, <1>4 DEF Q!QueueInv

(* A step of a delivery that claims no key and inserts nothing.  When the     *)
(* delivery stops work on a report, its keys are gone or the report is       *)
(* excused; when it acknowledges a message, the report is stored or excused. *)
LEMMA DeliveryMoves ==
  ASSUME Q!QueueInv, Q!TypeOK', NEW h \in Handlers,
         UNCHANGED <<transport, req, rows>>,
         \A f : \A g \in Handlers : Q!Working(g, f)' => Q!Working(g, f),
         \A f : \A g \in Handlers : Q!Working(g, f) => Q!Working(g, f)' \/ g = h,
         \A f \in Q!Keys : Q!Working(h, f) /\ ~Q!Working(h, f)' =>
            f \in excused'.lost \/ (keys'[f] = Q!NoKey /\ ownKeys'[h][f] = Q!NoKey),
         \A r \in queue : r \in queue' \/ Fingerprint[r] \in excused'.lost \/ Q!Stored(Fingerprint[r]),
         excused.lost \subseteq excused'.lost, excused'.twice = excused.twice,
         \A f \in Q!Keys : keys'[f] = keys[f] \/
            (keys'[f] = Q!NoKey /\ Q!Working(h, f) /\ ~Q!Working(h, f)'),
         \A f \in Q!Keys : \A g \in Handlers : ownKeys'[g][f] \in {ownKeys[g][f], Q!NoKey}
  PROVE  Q!QueueInv'
  <1>1. \A f : Q!Stored(f)' <=> Q!Stored(f)
    BY DEF Q!Stored
  <1>2. Q!AcceptedIsKept'
    BY <1>1 DEF Q!QueueInv, Q!AcceptedIsKept
  <1>3. Q!KeysAreHeld'
    <2> SUFFICES ASSUME NEW f \in Q!Keys
                 PROVE  /\ keys'[f] # Q!NoKey => Q!Held(f, Handlers)'
                        /\ \A g \in Handlers : ownKeys'[g][f] # Q!NoKey => Q!Held(f, {g})'
      BY DEF Q!KeysAreHeld
    <2>1. ASSUME keys'[f] # Q!NoKey PROVE Q!Held(f, Handlers)'
      <3>1. Q!Held(f, Handlers)
        BY <2>1 DEF Q!QueueInv, Q!KeysAreHeld
      <3>2. QED
        BY <1>1, <2>1, <3>1 DEF Q!Held
    <2>2. ASSUME NEW g \in Handlers, ownKeys'[g][f] # Q!NoKey PROVE Q!Held(f, {g})'
      <3>1. Q!Held(f, {g})
        BY <2>2 DEF Q!QueueInv, Q!KeysAreHeld
      <3>2. Q!Stored(f) \/ Q!Working(g, f) \/ f \in excused.lost
        BY <3>1 DEF Q!Held
      <3>3. Q!Stored(f)' \/ Q!Working(g, f)' \/ f \in excused'.lost
        BY <1>1, <2>2, <3>2
      <3>4. QED
        BY <3>3 DEF Q!Held
    <2>3. QED
      BY <2>1, <2>2
  <1>4. Q!OneRowPerFingerprint'
    BY DEF Q!QueueInv, Q!OneRowPerFingerprint
  <1>5. Q!OneHolder'
    BY <1>1 DEF Q!QueueInv, Q!OneHolder
  <1>6. QED
    BY <1>2, <1>3, <1>4, <1>5 DEF Q!QueueInv

(* A row is inserted without Pub/Sub. *)
LEMMA DirectInsert ==
  ASSUME Q!QueueInv, NEW r \in Requests, NEW phase \in Q!RequestPhases,
         req' = [req EXCEPT ![r] = phase],
         transport = "direct", Q!Insert(r),
         UNCHANGED <<transport, hmac, redisRequired, redisUp, active, now, queue, keys, ownKeys, pc, cur,
                     excused>>
  PROVE  Q!QueueInv'
  <1>1. /\ rows' \in [Requests -> Nat] /\ Q!Stored(Fingerprint[r])'
        /\ \A f : Q!Stored(f) => Q!Stored(f)'
    BY RowsStay DEF Q!QueueInv, Q!TypeOK
  <1>2. Q!TypeOK'
    BY <1>1 DEF Q!QueueInv, Q!TypeOK
  <1>3. Q!AcceptedIsKept'
    <2>1. \A q \in Requests : q # r => req'[q] = req[q]
      BY DEF Q!QueueInv, Q!TypeOK
    <2>2. QED
      BY <1>1, <2>1 DEF Q!QueueInv, Q!AcceptedIsKept
  <1>4. Q!KeysAreHeld'
    <2>1. \A h \in Handlers : \A f : Q!Working(h, f)' <=> Q!Working(h, f)
      BY DEF Q!Working, Q!Fp
    <2>2. QED
      BY <1>1, <2>1 DEF Q!QueueInv, Q!KeysAreHeld, Q!Held
  <1>5. Q!OneRowPerFingerprint' /\ Q!OneHolder'
    BY DEF Q!OneRowPerFingerprint, Q!OneHolder
  <1>6. QED
    BY <1>2, <1>3, <1>4, <1>5 DEF Q!QueueInv

(* The request: requireIngestionKey up to the answer. *)
LEMMA RequestQueueStep ==
  ASSUME Q!QueueInv, NEW r \in Requests,
         Q!Verify(r) \/ Q!Admit(r) \/ Q!Own(r) \/ Q!Enqueue(r) \/ Q!Accept(r) \/ Q!RequestDies(r)
  PROVE  Q!QueueInv'
  <1>1. UNCHANGED <<transport, hmac, redisRequired, redisUp, active, now, keys, ownKeys, pc, cur, excused>>
    BY DEF Q!Verify, Q!Admit, Q!Own, Q!Enqueue, Q!Accept, Q!RequestDies, Q!config, Q!world
  <1>2. CASE Q!Verify(r) \/ Q!Admit(r) \/ Q!Own(r) \/ Q!RequestDies(r)
    <2>1. UNCHANGED <<queue, rows>>
      BY <1>2 DEF Q!Verify, Q!Admit, Q!Own, Q!RequestDies
    <2>2. \E phase \in {"refused", "verified", "failed", "admitted", "owned", "rejected", "gone"} :
            req' = [req EXCEPT ![r] = phase]
      BY <1>2 DEF Q!Verify, Q!Admit, Q!Own, Q!RequestDies, Q!Reach
    <2>3. PICK phase \in {"refused", "verified", "failed", "admitted", "owned", "rejected", "gone"} :
            req' = [req EXCEPT ![r] = phase]
      BY <2>2
    <2>4. phase \in Q!RequestPhases /\ phase \notin {"stored", "accepted"}
      BY DEF Q!RequestPhases, Q!Answered
    <2>5. QED
      BY <1>1, <2>1, <2>3, <2>4, ReportMoves
  <1>3. CASE Q!Accept(r)
    <2>1. req[r] = "stored" /\ req' = [req EXCEPT ![r] = "accepted"] /\ UNCHANGED <<queue, rows>>
      BY <1>3 DEF Q!Accept, Q!Reach
    <2>2. "accepted" \in Q!RequestPhases
      BY DEF Q!RequestPhases, Q!Answered
    <2>3. QED
      BY <1>1, <2>1, <2>2, ReportMoves
  <1>4. CASE Q!Enqueue(r)
    <2>1. PICK phase \in {"stored", "failed"} : req' = [req EXCEPT ![r] = phase]
      BY <1>4 DEF Q!Enqueue, Q!Reach
    <2>2. phase \in Q!RequestPhases
      BY DEF Q!RequestPhases, Q!Answered
    <2>3. CASE queue' = queue \cup {r} /\ rows' = rows
      BY <1>1, <2>1, <2>2, <2>3, ReportMoves
    <2>4. CASE queue' = queue /\ rows' = rows /\ Q!Reach(r, "failed")
      <3>1. req' = [req EXCEPT ![r] = "failed"] /\ "failed" \in Q!RequestPhases
        BY <2>4 DEF Q!Reach, Q!RequestPhases, Q!Answered
      <3>2. QED
        BY <1>1, <2>4, <3>1, ReportMoves
    <2>5. CASE transport = "direct" /\ Q!Insert(r) /\ queue' = queue
      BY <1>1, <2>1, <2>2, <2>5, DirectInsert
    <2>6. QED
      BY <1>4, <2>3, <2>4, <2>5 DEF Q!Enqueue
  <1>5. QED
    BY <1>2, <1>3, <1>4

(* What a process is at work on, and the keys, have the shapes they should. *)
LEMMA DeliveryShapes ==
  ASSUME Q!TypeOK, NEW h \in Handlers, pc[h] # "idle"
  PROVE  /\ cur[h] \in Requests /\ Q!Fp(h) \in Q!Keys /\ Q!Fp(h) = Fingerprint[cur[h]]
         /\ \A f : Q!Working(h, f) <=> pc[h] \in {"own", "write", "clean"} /\ Q!Fp(h) = f
  BY DEF Q!TypeOK, Q!Fp, Q!Keys, Q!Working

(* A delivery ends. *)
LEMMA DeliveryEnds ==
  ASSUME Q!TypeOK, Q!Proper, NEW h \in Handlers, Q!Finish(h)
  PROVE  /\ pc' \in [Handlers -> Q!Busy \cup {"idle"}]
         /\ cur' \in [Handlers -> Requests \cup {NoRequest}]
         /\ \A g \in Handlers : cur'[g] \in Requests <=> pc'[g] # "idle"
         /\ \A f : ~Q!Working(h, f)'
         /\ \A f : \A g \in Handlers : g # h => (Q!Working(g, f)' <=> Q!Working(g, f))
  <1>1. pc' = [pc EXCEPT ![h] = "idle"] /\ cur' = [cur EXCEPT ![h] = NoRequest]
    BY DEF Q!Finish, Q!Goto
  <1>2. QED
    BY <1>1 DEF Q!TypeOK, Q!Proper, Q!Working, Q!Fp

(* The push endpoint is called with a message. *)
LEMMA DeliverStep ==
  ASSUME Q!Proper, Q!QueueInv, NEW h \in Handlers, Q!Deliver(h)
  PROVE  Q!QueueInv'
  <1>1. PICK m \in queue : cur' = [cur EXCEPT ![h] = m]
    BY DEF Q!Deliver
  <1>2. /\ pc[h] = "idle" /\ pc' = [pc EXCEPT ![h] = "claim"] /\ m \in Requests
        /\ UNCHANGED <<transport, hmac, redisRequired, redisUp, active, now, req, queue, keys, ownKeys,
                       rows, excused>>
    BY DEF Q!Deliver, Q!config, Q!world, Q!QueueInv, Q!TypeOK
  <1>3. Q!TypeOK'
    BY <1>1, <1>2 DEF Q!QueueInv, Q!TypeOK, Q!Busy
  <1>4. \A f : \A g \in Handlers : Q!Working(g, f)' <=> Q!Working(g, f)
    BY <1>1, <1>2 DEF Q!QueueInv, Q!TypeOK, Q!Working, Q!Fp
  <1>5. QED
    BY <1>2, <1>3, <1>4, DeliveryMoves

(* A delivery ends and has inserted nothing, whether the message is           *)
(* acknowledged or stays with Pub/Sub.                                       *)
LEMMA DeliveryGivesUp ==
  ASSUME Q!Proper, Q!QueueInv, NEW h \in Handlers, pc[h] \in Q!Busy, Q!Finish(h),
         NEW lost \in SUBSET Q!Keys,
         excused' = [excused EXCEPT !.lost = lost], excused.lost \subseteq lost,
         queue' = queue
           \/ (queue' = queue \ {cur[h]} /\ (Q!Fp(h) \in lost \/ Q!Stored(Q!Fp(h)))),
         keys' \in [Q!Keys -> Nat], ownKeys' \in [Handlers -> [Q!Keys -> Nat]],
         \/ pc[h] = "claim"
         \/ Q!Fp(h) \in lost
         \/ keys'[Q!Fp(h)] = Q!NoKey /\ ownKeys'[h][Q!Fp(h)] = Q!NoKey,
         \A f \in Q!Keys : keys'[f] = keys[f]
            \/ (pc[h] # "claim" /\ f = Q!Fp(h) /\ keys'[f] = Q!NoKey),
         \A f \in Q!Keys : \A g \in Handlers : ownKeys'[g][f] \in {ownKeys[g][f], Q!NoKey},
         UNCHANGED <<transport, hmac, redisRequired, redisUp, active, now, req, rows>>
  PROVE  Q!QueueInv'
  <1>1. /\ cur[h] \in Requests /\ Q!Fp(h) \in Q!Keys /\ Q!Fp(h) = Fingerprint[cur[h]]
        /\ \A f : Q!Working(h, f) <=> pc[h] \in {"own", "write", "clean"} /\ Q!Fp(h) = f
    BY DeliveryShapes DEF Q!QueueInv, Q!Busy
  <1>2. /\ \A f : ~Q!Working(h, f)'
        /\ \A f : \A g \in Handlers : g # h => (Q!Working(g, f)' <=> Q!Working(g, f))
        /\ pc' \in [Handlers -> Q!Busy \cup {"idle"}]
        /\ cur' \in [Handlers -> Requests \cup {NoRequest}]
        /\ \A g \in Handlers : cur'[g] \in Requests <=> pc'[g] # "idle"
    BY DeliveryEnds DEF Q!QueueInv
  <1>3. /\ excused' \in [lost : SUBSET Q!Keys, twice : SUBSET Q!Keys]
        /\ excused'.lost = lost /\ excused'.twice = excused.twice
    BY DEF Q!QueueInv, Q!TypeOK
  <1>4. Q!TypeOK'
    BY <1>2, <1>3 DEF Q!QueueInv, Q!TypeOK
  <1>5. \A f : \A g \in Handlers : Q!Working(g, f)' => Q!Working(g, f)
    BY <1>2
  <1>6. \A f : \A g \in Handlers : Q!Working(g, f) => Q!Working(g, f)' \/ g = h
    BY <1>2
  <1>7. \A f \in Q!Keys : Q!Working(h, f) /\ ~Q!Working(h, f)' =>
            f \in excused'.lost \/ (keys'[f] = Q!NoKey /\ ownKeys'[h][f] = Q!NoKey)
    BY <1>1, <1>3
  <1>8. \A r \in queue : r \in queue' \/ Fingerprint[r] \in excused'.lost \/ Q!Stored(Fingerprint[r])
    BY <1>1, <1>3
  <1>9. \A f \in Q!Keys : keys'[f] = keys[f] \/
            (keys'[f] = Q!NoKey /\ Q!Working(h, f) /\ ~Q!Working(h, f)')
    BY <1>1, <1>2 DEF Q!Busy
  <1>10. QED
    BY <1>3, <1>4, <1>5, <1>6, <1>7, <1>8, <1>9, DeliveryMoves

(* redisSetNx finds no key: from now on the delivery holds it. *)
LEMMA TakeKey ==
  ASSUME Q!Proper, Q!QueueInv, NEW h \in Handlers, pc[h] = "claim",
         Q!Key(h, Q!Fp(h)) = Q!NoKey, Q!SetKey(h, Q!Fp(h), now + KeyTTL), Q!Goto(h, "own"),
         IF redisUp THEN UNCHANGED excused ELSE Q!MayBeTwice(Q!Fp(h)),
         UNCHANGED <<transport, hmac, redisRequired, redisUp, active, now, req, queue, cur, rows>>
  PROVE  Q!QueueInv'
  <1>1. PICK k : k = Q!Fp(h)
    OBVIOUS
  <1>2. /\ cur[h] \in Requests /\ k \in Q!Keys /\ k = Fingerprint[cur[h]]
        /\ \A f : ~Q!Working(h, f)
    BY <1>1, DeliveryShapes DEF Q!QueueInv
  <1>3. pc' = [pc EXCEPT ![h] = "own"] /\ pc \in [Handlers -> Q!Busy \cup {"idle"}]
    BY DEF Q!Goto, Q!QueueInv, Q!TypeOK
  <1>4. /\ \A f : \A g \in Handlers : g # h => (Q!Working(g, f)' <=> Q!Working(g, f))
        /\ \A f : Q!Working(h, f)' <=> f = k
    BY <1>1, <1>2, <1>3, OthersWork DEF Q!QueueInv
  <1>5. now + KeyTTL \in Nat /\ now + KeyTTL # Q!NoKey
    BY DEF Q!Proper, Q!QueueInv, Q!TypeOK, Q!NoKey
  <1>6. /\ keys' \in [Q!Keys -> Nat] /\ ownKeys' \in [Handlers -> [Q!Keys -> Nat]]
        /\ \A f \in Q!Keys : f # k => keys'[f] = keys[f]
        /\ \A f \in Q!Keys : \A g \in Handlers : f # k \/ g # h => ownKeys'[g][f] = ownKeys[g][f]
    <2>1. keys \in [Q!Keys -> Nat] /\ ownKeys \in [Handlers -> [Q!Keys -> Nat]]
      BY DEF Q!QueueInv, Q!TypeOK
    <2>2. CASE redisUp
      BY <1>1, <1>2, <1>5, <2>1, <2>2 DEF Q!SetKey
    <2>3. CASE ~redisUp
      BY <1>1, <1>2, <1>5, <2>1, <2>3 DEF Q!SetKey
    <2>4. QED
      BY <2>2, <2>3
  <1>7. /\ excused' \in [lost : SUBSET Q!Keys, twice : SUBSET Q!Keys]
        /\ excused'.lost = excused.lost /\ excused.twice \subseteq excused'.twice
        /\ ~redisUp => k \in excused'.twice
    <2>1. excused \in [lost : SUBSET Q!Keys, twice : SUBSET Q!Keys]
      BY DEF Q!QueueInv, Q!TypeOK
    <2>2. CASE redisUp
      BY <2>1, <2>2
    <2>3. CASE ~redisUp
      BY <1>1, <1>2, <2>1, <2>3 DEF Q!MayBeTwice
    <2>4. QED
      BY <2>2, <2>3
  <1>8. Q!TypeOK'
    BY <1>3, <1>6, <1>7 DEF Q!QueueInv, Q!TypeOK, Q!Busy
  <1>9. \A f : Q!Stored(f)' <=> Q!Stored(f)
    BY DEF Q!Stored
  <1>10. Q!AcceptedIsKept'
    BY <1>7, <1>9 DEF Q!QueueInv, Q!AcceptedIsKept
  <1>11. Q!KeysAreHeld'
    <2> SUFFICES ASSUME NEW f \in Q!Keys
                 PROVE  /\ keys'[f] # Q!NoKey => Q!Held(f, Handlers)'
                        /\ \A g \in Handlers : ownKeys'[g][f] # Q!NoKey => Q!Held(f, {g})'
      BY DEF Q!KeysAreHeld
    <2>1. \A g \in Handlers : Q!Working(g, f) => Q!Working(g, f)'
      BY <1>2, <1>4
    <2>2. ASSUME keys'[f] # Q!NoKey PROVE Q!Held(f, Handlers)'
      <3>1. CASE f = k
        BY <1>4, <3>1 DEF Q!Held
      <3>2. CASE f # k
        BY <1>6, <1>7, <1>9, <2>1, <2>2, <3>2 DEF Q!QueueInv, Q!KeysAreHeld, Q!Held
      <3>3. QED
        BY <3>1, <3>2
    <2>3. ASSUME NEW g \in Handlers, ownKeys'[g][f] # Q!NoKey PROVE Q!Held(f, {g})'
      <3>1. CASE f = k /\ g = h
        BY <1>4, <3>1 DEF Q!Held
      <3>2. CASE f # k \/ g # h
        BY <1>6, <1>7, <1>9, <2>1, <2>3, <3>2 DEF Q!QueueInv, Q!KeysAreHeld, Q!Held
      <3>3. QED
        BY <3>1, <3>2
    <2>4. QED
      BY <2>2, <2>3
  <1>12. Q!OneRowPerFingerprint'
    BY <1>7 DEF Q!QueueInv, Q!OneRowPerFingerprint
  <1>13. Q!OneHolder'
    <2> SUFFICES ASSUME transport = "topic", NEW f \in Q!Keys, f \notin excused'.twice
                 PROVE  /\ \A g, i \in Handlers : Q!Working(g, f)' /\ Q!Working(i, f)' => g = i
                        /\ \A g \in Handlers : Q!Working(g, f)' => keys'[f] # Q!NoKey /\ ~Q!Stored(f)'
                        /\ Q!Stored(f)' => keys'[f] # Q!NoKey
      BY DEF Q!OneHolder
    <2>1. /\ \A g, i \in Handlers : Q!Working(g, f) /\ Q!Working(i, f) => g = i
          /\ \A g \in Handlers : Q!Working(g, f) => keys[f] # Q!NoKey /\ ~Q!Stored(f)
          /\ Q!Stored(f) => keys[f] # Q!NoKey
      BY <1>7 DEF Q!QueueInv, Q!OneHolder
    <2>2. CASE f = k
      <3>1. redisUp
        BY <1>7, <2>2
      <3>2. keys[f] = Q!NoKey
        BY <1>1, <2>2, <3>1 DEF Q!Key
      <3>3. keys'[f] # Q!NoKey
        BY <1>1, <1>2, <1>5, <2>2, <3>1 DEF Q!SetKey, Q!QueueInv, Q!TypeOK
      <3>4. \A g \in Handlers : Q!Working(g, f)' => g = h
        BY <1>4, <2>1, <3>2
      <3>5. QED
        BY <1>9, <2>1, <3>2, <3>3, <3>4
    <2>3. CASE f # k
      BY <1>2, <1>4, <1>6, <1>9, <2>1, <2>3
    <2>4. QED
      BY <2>2, <2>3
  <1>14. QED
    BY <1>8, <1>10, <1>11, <1>12, <1>13 DEF Q!QueueInv

(* redisSetNx of the dedupe key. *)
LEMMA ClaimStep ==
  ASSUME Q!Proper, Q!QueueInv, NEW h \in Handlers, Q!Claim(h)
  PROVE  Q!QueueInv'
  <1>1. /\ pc[h] = "claim" /\ pc[h] \in Q!Busy
        /\ UNCHANGED <<transport, hmac, redisRequired, redisUp, active, now, req, rows>>
    BY DEF Q!Claim, Q!config, Q!world, Q!Busy
  <1>2. /\ keys \in [Q!Keys -> Nat] /\ ownKeys \in [Handlers -> [Q!Keys -> Nat]]
        /\ excused \in [lost : SUBSET Q!Keys, twice : SUBSET Q!Keys]
        /\ excused.lost \in SUBSET Q!Keys
        /\ Q!Fp(h) \in Q!Keys
    BY <1>1, DeliveryShapes DEF Q!QueueInv, Q!TypeOK
  <1>3. CASE Q!Nack(h) /\ UNCHANGED <<keys, ownKeys, excused>>
    <2>1. Q!Finish(h) /\ queue' = queue /\ excused' = [excused EXCEPT !.lost = excused.lost]
      BY <1>2, <1>3 DEF Q!Nack
    <2>2. QED
      BY <1>1, <1>2, <1>3, <2>1, DeliveryGivesUp
  <1>4. CASE /\ Q!Key(h, Q!Fp(h)) = Q!NoKey /\ Q!SetKey(h, Q!Fp(h), now + KeyTTL) /\ Q!Goto(h, "own")
             /\ IF redisUp THEN UNCHANGED excused ELSE Q!MayBeTwice(Q!Fp(h))
             /\ UNCHANGED <<queue, cur>>
    BY <1>1, <1>4, TakeKey
  <1>5. CASE /\ Q!Key(h, Q!Fp(h)) # Q!NoKey /\ Q!Ack(h)
             /\ IF \E g \in Handlers : Q!Working(g, Q!Fp(h))
                THEN Q!MayBeLost(Q!Fp(h)) ELSE UNCHANGED excused
             /\ UNCHANGED <<keys, ownKeys>>
    <2>1. Q!Finish(h) /\ queue' = queue \ {cur[h]}
      BY <1>5 DEF Q!Ack
    <2>2. CASE \E g \in Handlers : Q!Working(g, Q!Fp(h))
      <3>1. PICK lost \in SUBSET Q!Keys : lost = excused.lost \cup {Q!Fp(h)}
        BY <1>2
      <3>2. excused' = [excused EXCEPT !.lost = lost] /\ excused.lost \subseteq lost /\ Q!Fp(h) \in lost
        BY <1>5, <2>2, <3>1 DEF Q!MayBeLost
      <3>3. QED
        BY <1>1, <1>2, <1>5, <2>1, <3>2, DeliveryGivesUp
    <2>3. CASE ~\E g \in Handlers : Q!Working(g, Q!Fp(h))
      <3>1. excused' = [excused EXCEPT !.lost = excused.lost]
        BY <1>2, <1>5, <2>3
      <3>2. Q!Held(Q!Fp(h), Handlers) \/ Q!Held(Q!Fp(h), {h})
        BY <1>2, <1>5 DEF Q!Key, Q!QueueInv, Q!KeysAreHeld
      <3>3. Q!Fp(h) \in excused.lost \/ Q!Stored(Q!Fp(h))
        BY <2>3, <3>2 DEF Q!Held
      <3>4. QED
        BY <1>1, <1>2, <1>5, <2>1, <3>1, <3>3, DeliveryGivesUp
    <2>4. QED
      BY <2>2, <2>3
  <1>6. QED
    BY <1>3, <1>4, <1>5 DEF Q!Claim

(* A step of a delivery that goes on working on the same report. *)
LEMMA DeliveryGoesOn ==
  ASSUME Q!Proper, Q!QueueInv, NEW h \in Handlers, NEW phase \in {"write", "clean"},
         pc[h] \in {"own", "write"}, Q!Goto(h, phase),
         UNCHANGED <<transport, hmac, redisRequired, redisUp, active, now, req, queue, keys, ownKeys, cur,
                     rows, excused>>
  PROVE  Q!QueueInv'
  <1>1. /\ pc' = [pc EXCEPT ![h] = phase] /\ pc \in [Handlers -> Q!Busy \cup {"idle"}]
        /\ pc' \in [Handlers -> Q!Busy \cup {"idle"}]
    BY DEF Q!Goto, Q!QueueInv, Q!TypeOK, Q!Busy
  <1>2. Q!TypeOK'
    BY <1>1 DEF Q!QueueInv, Q!TypeOK
  <1>3. \A f : \A g \in Handlers : Q!Working(g, f)' <=> Q!Working(g, f)
    BY <1>1 DEF Q!Working, Q!Fp
  <1>4. QED
    BY <1>2, <1>3, DeliveryMoves

(* assertWorkflowSourceOwnership once more. *)
LEMMA OwnAgainStep ==
  ASSUME Q!Proper, Q!QueueInv, NEW h \in Handlers, Q!OwnAgain(h)
  PROVE  Q!QueueInv'
  <1>1. /\ pc[h] = "own" /\ pc[h] \in Q!Busy
        /\ UNCHANGED <<transport, hmac, redisRequired, redisUp, active, now, req, keys, ownKeys, rows>>
    BY DEF Q!OwnAgain, Q!config, Q!world, Q!Busy
  <1>2. CASE Q!Goto(h, "write") /\ UNCHANGED <<queue, cur, excused>>
    BY <1>1, <1>2, DeliveryGoesOn
  <1>3. CASE (Q!Ack(h) \/ Q!Nack(h)) /\ Q!MayBeLost(Q!Fp(h))
    <2>1. /\ keys \in [Q!Keys -> Nat] /\ ownKeys \in [Handlers -> [Q!Keys -> Nat]]
          /\ excused.lost \in SUBSET Q!Keys /\ Q!Fp(h) \in Q!Keys
      BY <1>1, DeliveryShapes DEF Q!QueueInv, Q!TypeOK
    <2>2. PICK lost \in SUBSET Q!Keys : lost = excused.lost \cup {Q!Fp(h)}
      BY <2>1
    <2>3. excused' = [excused EXCEPT !.lost = lost] /\ excused.lost \subseteq lost /\ Q!Fp(h) \in lost
      BY <1>3, <2>2 DEF Q!MayBeLost
    <2>4. Q!Finish(h) /\ (queue' = queue \/ queue' = queue \ {cur[h]})
      BY <1>3 DEF Q!Ack, Q!Nack
    <2>5. QED
      BY <1>1, <2>1, <2>3, <2>4, DeliveryGivesUp
  <1>4. QED
    BY <1>2, <1>3 DEF Q!OwnAgain

(* redisDelete of the dedupe key. *)
LEMMA CleanStep ==
  ASSUME Q!Proper, Q!QueueInv, NEW h \in Handlers, Q!Clean(h)
  PROVE  Q!QueueInv'
  <1>1. /\ pc[h] = "clean" /\ pc[h] \in Q!Busy /\ Q!Finish(h) /\ queue' = queue
        /\ UNCHANGED <<transport, hmac, redisRequired, redisUp, active, now, req, rows>>
    BY DEF Q!Clean, Q!Nack, Q!config, Q!world, Q!Busy
  <1>2. /\ keys \in [Q!Keys -> Nat] /\ ownKeys \in [Handlers -> [Q!Keys -> Nat]]
        /\ excused \in [lost : SUBSET Q!Keys, twice : SUBSET Q!Keys]
        /\ excused.lost \in SUBSET Q!Keys /\ Q!Fp(h) \in Q!Keys
    BY <1>1, DeliveryShapes DEF Q!QueueInv, Q!TypeOK
  <1>3. PICK k : k = Q!Fp(h)
    OBVIOUS
  <1>4. \/ UNCHANGED <<keys, ownKeys>>
        \/ keys' = [keys EXCEPT ![k] = Q!NoKey] /\ ownKeys' = ownKeys
        \/ ownKeys' = [ownKeys EXCEPT ![h][k] = Q!NoKey] /\ keys' = keys
    BY <1>3 DEF Q!Clean, Q!SetKey
  <1>5. /\ keys' \in [Q!Keys -> Nat] /\ ownKeys' \in [Handlers -> [Q!Keys -> Nat]]
        /\ \A f \in Q!Keys : keys'[f] = keys[f] \/ (f = k /\ keys'[f] = Q!NoKey)
        /\ \A f \in Q!Keys : \A g \in Handlers : ownKeys'[g][f] \in {ownKeys[g][f], Q!NoKey}
    <2>1. k \in Q!Keys /\ Q!NoKey \in Nat
      BY <1>2, <1>3 DEF Q!NoKey
    <2>2. CASE UNCHANGED <<keys, ownKeys>>
      BY <1>2, <2>2
    <2>3. CASE keys' = [keys EXCEPT ![k] = Q!NoKey] /\ ownKeys' = ownKeys
      BY <1>2, <2>1, <2>3
    <2>4. CASE ownKeys' = [ownKeys EXCEPT ![h][k] = Q!NoKey] /\ keys' = keys
      BY <1>2, <2>1, <2>4
    <2>5. QED
      BY <1>4, <2>2, <2>3, <2>4
  <1>6. PICK lost \in SUBSET Q!Keys :
          /\ excused' = [excused EXCEPT !.lost = lost] /\ excused.lost \subseteq lost
          /\ k \in lost \/ (keys'[k] = Q!NoKey /\ ownKeys'[h][k] = Q!NoKey)
    <2>1. CASE keys'[k] = Q!NoKey /\ ownKeys'[h][k] = Q!NoKey
      BY <1>2, <1>3, <2>1 DEF Q!Clean, Q!MayBeLost
    <2>2. CASE ~(keys'[k] = Q!NoKey /\ ownKeys'[h][k] = Q!NoKey)
      <3>1. excused' = [excused EXCEPT !.lost = excused.lost \cup {k}]
        BY <1>3, <2>2 DEF Q!Clean, Q!MayBeLost
      <3>2. excused.lost \cup {k} \in SUBSET Q!Keys
        BY <1>2, <1>3
      <3>3. QED
        BY <3>1, <3>2
    <2>3. QED
      BY <2>1, <2>2
  <1>7. QED
    BY <1>1, <1>3, <1>5, <1>6, DeliveryGivesUp

(* The process of a delivery dies. *)
LEMMA HandlerDiesStep ==
  ASSUME Q!Proper, Q!QueueInv, NEW h \in Handlers, Q!HandlerDies(h)
  PROVE  Q!QueueInv'
  <1>1. /\ pc[h] \in Q!Busy /\ Q!Finish(h) /\ queue' = queue /\ keys' = keys
        /\ ownKeys' = [ownKeys EXCEPT ![h] = [f \in Q!Keys |-> Q!NoKey]]
        /\ UNCHANGED <<transport, hmac, redisRequired, redisUp, active, now, req, rows>>
    BY DEF Q!HandlerDies, Q!Nack, Q!config, Q!world
  <1>2. /\ keys \in [Q!Keys -> Nat] /\ ownKeys \in [Handlers -> [Q!Keys -> Nat]]
        /\ excused \in [lost : SUBSET Q!Keys, twice : SUBSET Q!Keys]
        /\ excused.lost \in SUBSET Q!Keys /\ Q!Fp(h) \in Q!Keys
    BY <1>1, DeliveryShapes DEF Q!QueueInv, Q!TypeOK, Q!Busy
  <1>3. /\ ownKeys' \in [Handlers -> [Q!Keys -> Nat]]
        /\ \A f \in Q!Keys : \A g \in Handlers : ownKeys'[g][f] \in {ownKeys[g][f], Q!NoKey}
    BY <1>1, <1>2 DEF Q!NoKey
  <1>4. PICK lost \in SUBSET Q!Keys :
          /\ excused' = [excused EXCEPT !.lost = lost] /\ excused.lost \subseteq lost
          /\ pc[h] = "claim" \/ Q!Fp(h) \in lost
    <2>1. CASE pc[h] = "claim"
      BY <1>2, <2>1 DEF Q!HandlerDies
    <2>2. CASE pc[h] # "claim"
      <3>1. excused' = [excused EXCEPT !.lost = excused.lost \cup {Q!Fp(h)}]
        BY <2>2 DEF Q!HandlerDies, Q!MayBeLost
      <3>2. excused.lost \cup {Q!Fp(h)} \in SUBSET Q!Keys
        BY <1>2
      <3>3. QED
        BY <3>1, <3>2
    <2>3. QED
      BY <2>1, <2>2
  <1>5. QED
    BY <1>1, <1>2, <1>3, <1>4, DeliveryGivesUp

(* The insert: it may be applied though the worker is told that it failed. *)
LEMMA WriteStep ==
  ASSUME Q!Proper, Q!QueueInv, NEW h \in Handlers, Q!Write(h)
  PROVE  Q!QueueInv'
  <1>1. PICK r, k : r = cur[h] /\ k = Q!Fp(h)
    OBVIOUS
  <1>2. /\ pc[h] = "write" /\ pc \in [Handlers -> Q!Busy \cup {"idle"}] /\ rows \in [Requests -> Nat]
        /\ UNCHANGED <<transport, hmac, redisRequired, redisUp, active, now, req, keys, ownKeys>>
    BY DEF Q!Write, Q!config, Q!world, Q!QueueInv, Q!TypeOK
  <1>3. /\ r \in Requests /\ k \in Q!Keys /\ k = Fingerprint[r]
        /\ \A f : Q!Working(h, f) <=> k = f
    BY <1>1, <1>2, DeliveryShapes DEF Q!QueueInv
  <1>4. CASE Q!Goto(h, "clean") /\ UNCHANGED <<rows, queue, cur, excused>>
    BY <1>2, <1>4, DeliveryGoesOn
  <1>5. CASE /\ Q!Insert(r)
             /\ \/ Q!Finish(h) /\ queue' \in {queue, queue \ {r}} /\ UNCHANGED excused
                \/ Q!Goto(h, "clean") /\ Q!MayBeTwice(k) /\ UNCHANGED <<queue, cur>>
    <2>1. /\ rows' \in [Requests -> Nat] /\ rows'[r] = rows[r] + 1 /\ Q!Stored(k)'
          /\ \A q \in Requests : q # r => rows'[q] = rows[q]
          /\ \A f : Q!Stored(f) => Q!Stored(f)'
          /\ \A f : f # k => (Q!Stored(f)' <=> Q!Stored(f))
      BY <1>2, <1>3, <1>5, RowsStay
    <2>2. /\ excused \in [lost : SUBSET Q!Keys, twice : SUBSET Q!Keys]
          /\ excused' \in [lost : SUBSET Q!Keys, twice : SUBSET Q!Keys]
          /\ excused'.lost = excused.lost /\ excused.twice \subseteq excused'.twice
      BY <1>3, <1>5 DEF Q!MayBeTwice, Q!QueueInv, Q!TypeOK
    <2>3. k \notin excused'.twice => Q!Finish(h)
      BY <1>3, <1>5, <2>2 DEF Q!MayBeTwice
    <2>4. /\ pc' \in [Handlers -> Q!Busy \cup {"idle"}]
          /\ cur' \in [Handlers -> Requests \cup {NoRequest}]
          /\ \A g \in Handlers : cur'[g] \in Requests <=> pc'[g] # "idle"
          /\ \A f : \A g \in Handlers : Q!Working(g, f)' => Q!Working(g, f)
          /\ \A f : \A g \in Handlers : f # k /\ Q!Working(g, f) => Q!Working(g, f)'
          /\ Q!Finish(h) => ~Q!Working(h, k)'
      <3>1. CASE Q!Finish(h)
        BY <1>3, <3>1, DeliveryEnds DEF Q!QueueInv
      <3>2. CASE Q!Goto(h, "clean") /\ UNCHANGED cur
        <4>1. pc' = [pc EXCEPT ![h] = "clean"] /\ cur' = cur
          BY <3>2 DEF Q!Goto
        <4>2. \A f : \A g \in Handlers : Q!Working(g, f)' <=> Q!Working(g, f)
          BY <1>2, <4>1 DEF Q!Working, Q!Fp
        <4>3. ~Q!Finish(h)
          BY <1>2, <4>1 DEF Q!Finish, Q!Goto
        <4>4. QED
          BY <1>2, <4>1, <4>2, <4>3 DEF Q!QueueInv, Q!TypeOK, Q!Busy
      <3>3. QED
        BY <1>5, <3>1, <3>2
    <2>5. queue' \subseteq queue /\ queue \ {r} \subseteq queue'
      BY <1>5
    <2>6. Q!TypeOK'
      BY <1>2, <2>1, <2>2, <2>4, <2>5 DEF Q!QueueInv, Q!TypeOK
    <2>7. Q!AcceptedIsKept'
      BY <1>2, <1>3, <2>1, <2>2, <2>5 DEF Q!QueueInv, Q!AcceptedIsKept
    <2>8. Q!KeysAreHeld'
      <3> SUFFICES ASSUME NEW f \in Q!Keys
                   PROVE  /\ keys[f] # Q!NoKey => Q!Held(f, Handlers)'
                          /\ \A g \in Handlers : ownKeys[g][f] # Q!NoKey => Q!Held(f, {g})'
        BY <1>2 DEF Q!KeysAreHeld
      <3>1. CASE f = k
        BY <2>1, <3>1 DEF Q!Held
      <3>2. CASE f # k
        BY <2>1, <2>2, <2>4, <3>2 DEF Q!QueueInv, Q!KeysAreHeld, Q!Held
      <3>3. QED
        BY <3>1, <3>2
    <2>9. transport = "topic" /\ k \notin excused'.twice =>
            /\ ~Q!Stored(k) /\ keys[k] # Q!NoKey
            /\ \A g \in Handlers : Q!Working(g, k) => g = h
      BY <1>3, <2>2 DEF Q!QueueInv, Q!OneHolder
    <2>10. Q!OneRowPerFingerprint'
      <3> SUFFICES ASSUME transport = "topic", NEW q \in Requests, NEW p \in Requests,
                          Fingerprint[q] = Fingerprint[p],
                          rows'[p] > (IF q = p THEN 1 ELSE 0), rows'[q] > 0,
                          Fingerprint[p] \notin excused'.twice
                   PROVE  FALSE
        BY <1>2 DEF Q!OneRowPerFingerprint
      <3>1. CASE Fingerprint[p] = k
        <4>1. rows[p] = 0 /\ rows[q] = 0 /\ rows[r] = 0
          BY <1>2, <1>3, <2>9, <3>1 DEF Q!Stored
        <4>2. p = r /\ q = r /\ rows'[r] = 1
          BY <2>1, <4>1
        <4>3. QED
          BY <4>2
      <3>2. CASE Fingerprint[p] # k
        BY <1>3, <2>1, <2>2, <3>2 DEF Q!QueueInv, Q!OneRowPerFingerprint
      <3>3. QED
        BY <3>1, <3>2
    <2>11. Q!OneHolder'
      <3> SUFFICES ASSUME transport = "topic", NEW f \in Q!Keys, f \notin excused'.twice
                   PROVE  /\ \A g, i \in Handlers : Q!Working(g, f)' /\ Q!Working(i, f)' => g = i
                          /\ \A g \in Handlers : Q!Working(g, f)' => keys[f] # Q!NoKey /\ ~Q!Stored(f)'
                          /\ Q!Stored(f)' => keys[f] # Q!NoKey
        BY <1>2 DEF Q!OneHolder
      <3>1. CASE f = k
        BY <2>3, <2>4, <2>9, <3>1
      <3>2. CASE f # k
        BY <2>1, <2>2, <2>4, <3>2 DEF Q!QueueInv, Q!OneHolder
      <3>3. QED
        BY <3>1, <3>2
    <2>12. QED
      BY <2>6, <2>7, <2>8, <2>10, <2>11 DEF Q!QueueInv
  <1>6. QED
    BY <1>1, <1>4, <1>5 DEF Q!Write, Q!Ack, Q!Nack

(* Time passes, and dedupe keys run out. *)
LEMMA TickStep ==
  ASSUME Q!Proper, Q!QueueInv, Q!Tick
  PROVE  Q!QueueInv'
  <1>1. /\ now < MaxNow /\ now' = now + 1 /\ now \in 1 .. MaxNow /\ MaxNow \in Nat
        /\ keys \in [Q!Keys -> Nat] /\ ownKeys \in [Handlers -> [Q!Keys -> Nat]]
        /\ excused \in [lost : SUBSET Q!Keys, twice : SUBSET Q!Keys]
        /\ UNCHANGED <<transport, hmac, redisRequired, redisUp, active, req, queue, pc, cur, rows>>
    BY DEF Q!Tick, Q!config, Q!Proper, Q!QueueInv, Q!TypeOK
  <1>2. /\ keys' \in [Q!Keys -> Nat]
        /\ \A f \in Q!Keys : keys'[f] = keys[f] \/ (keys'[f] = Q!NoKey /\ Q!Overdue(f))
    BY <1>1 DEF Q!Tick, Q!NoKey
  <1>3. /\ ownKeys' \in [Handlers -> [Q!Keys -> Nat]]
        /\ \A f \in Q!Keys : \A g \in Handlers : ownKeys'[g][f] \in {ownKeys[g][f], Q!NoKey}
    BY <1>1 DEF Q!Tick, Q!NoKey
  <1>4. /\ excused' \in [lost : SUBSET Q!Keys, twice : SUBSET Q!Keys]
        /\ excused'.lost = excused.lost /\ excused.twice \subseteq excused'.twice
        /\ \A f \in Q!Keys : Q!Overdue(f) => f \in excused'.twice
    <2>1. PICK s : s = {f \in Q!Keys : Q!Overdue(f)}
      OBVIOUS
    <2>2. excused' = [excused EXCEPT !.twice = @ \cup s]
      BY <2>1 DEF Q!Tick
    <2>3. s \subseteq Q!Keys /\ \A f \in Q!Keys : Q!Overdue(f) => f \in s
      BY <2>1
    <2>4. QED
      BY <1>1, <2>2, <2>3
  <1>5. Q!TypeOK'
    BY <1>1, <1>2, <1>3, <1>4 DEF Q!QueueInv, Q!TypeOK
  <1>6. \A f : (Q!Stored(f)' <=> Q!Stored(f)) /\ \A g \in Handlers : Q!Working(g, f)' <=> Q!Working(g, f)
    BY <1>1 DEF Q!Stored, Q!Working, Q!Fp
  <1>7. Q!AcceptedIsKept'
    BY <1>1, <1>4, <1>6 DEF Q!QueueInv, Q!AcceptedIsKept
  <1>8. Q!KeysAreHeld'
    <2> SUFFICES ASSUME NEW f \in Q!Keys
                 PROVE  /\ keys'[f] # Q!NoKey => Q!Held(f, Handlers)'
                        /\ \A g \in Handlers : ownKeys'[g][f] # Q!NoKey => Q!Held(f, {g})'
      BY DEF Q!KeysAreHeld
    <2>1. \A hs \in SUBSET Handlers : Q!Held(f, hs) => Q!Held(f, hs)'
      BY <1>4, <1>6 DEF Q!Held
    <2>2. QED
      BY <1>2, <1>3, <2>1 DEF Q!QueueInv, Q!KeysAreHeld
  <1>9. Q!OneRowPerFingerprint'
    BY <1>1, <1>4 DEF Q!QueueInv, Q!OneRowPerFingerprint
  <1>10. Q!OneHolder'
    BY <1>1, <1>2, <1>4, <1>6 DEF Q!QueueInv, Q!OneHolder
  <1>11. QED
    BY <1>5, <1>7, <1>8, <1>9, <1>10 DEF Q!QueueInv

(* Redis goes away, with its keys or not, or comes back; the workflow is     *)
(* switched, a replay key is not found any more, or nothing happens.         *)
LEMMA ChangeStep ==
  ASSUME Q!Proper, Q!QueueInv, Q!Change \/ Q!ReplayKeyGone \/ UNCHANGED Q!vars
  PROVE  Q!QueueInv'
  <1>1. /\ UNCHANGED <<transport, hmac, redisRequired, now, req, queue, ownKeys, pc, cur, rows>>
        /\ keys \in [Q!Keys -> Nat] /\ excused \in [lost : SUBSET Q!Keys, twice : SUBSET Q!Keys]
    BY DEF Q!Change, Q!ReplayKeyGone, Q!vars, Q!config, Q!world, Q!QueueInv, Q!TypeOK
  <1>2. redisUp' \in BOOLEAN /\ active' \in BOOLEAN
    BY DEF Q!Change, Q!ReplayKeyGone, Q!vars, Q!world, Q!QueueInv, Q!TypeOK
  <1>3. /\ keys' \in [Q!Keys -> Nat]
        /\ \A f \in Q!Keys : keys'[f] = keys[f] \/ (keys'[f] = Q!NoKey /\ f \in excused'.twice)
        /\ excused' \in [lost : SUBSET Q!Keys, twice : SUBSET Q!Keys]
        /\ excused'.lost = excused.lost /\ excused.twice \subseteq excused'.twice
    <2>1. CASE keys' = keys /\ excused' = excused
      BY <1>1, <2>1
    <2>2. CASE /\ keys' = [f \in Q!Keys |-> Q!NoKey]
               /\ excused' = [excused EXCEPT !.twice = @ \cup {f \in Q!Keys : keys[f] # Q!NoKey}]
      <3>1. PICK fs : fs = {f \in Q!Keys : keys[f] # Q!NoKey}
        OBVIOUS
      <3>2. excused' = [excused EXCEPT !.twice = @ \cup fs]
        BY <2>2, <3>1
      <3>3. fs \subseteq Q!Keys /\ \A f \in Q!Keys : keys[f] = Q!NoKey \/ f \in fs
        BY <3>1
      <3>4. keys' \in [Q!Keys -> Nat] /\ \A f \in Q!Keys : keys'[f] = Q!NoKey
        BY <2>2 DEF Q!NoKey
      <3>5. QED
        BY <1>1, <3>2, <3>3, <3>4
    <2>3. QED
      BY <2>1, <2>2 DEF Q!Change, Q!ReplayKeyGone, Q!vars
  <1>4. Q!TypeOK'
    BY <1>1, <1>2, <1>3 DEF Q!QueueInv, Q!TypeOK
  <1>5. \A f : (Q!Stored(f)' <=> Q!Stored(f)) /\ \A g \in Handlers : Q!Working(g, f)' <=> Q!Working(g, f)
    BY <1>1 DEF Q!Stored, Q!Working, Q!Fp
  <1>6. Q!AcceptedIsKept'
    BY <1>1, <1>3, <1>5 DEF Q!QueueInv, Q!AcceptedIsKept
  <1>7. Q!KeysAreHeld'
    <2> SUFFICES ASSUME NEW f \in Q!Keys
                 PROVE  /\ keys'[f] # Q!NoKey => Q!Held(f, Handlers)'
                        /\ \A g \in Handlers : ownKeys'[g][f] # Q!NoKey => Q!Held(f, {g})'
      BY DEF Q!KeysAreHeld
    <2>1. \A hs \in SUBSET Handlers : Q!Held(f, hs) => Q!Held(f, hs)'
      BY <1>3, <1>5 DEF Q!Held
    <2>2. QED
      BY <1>1, <1>3, <2>1 DEF Q!QueueInv, Q!KeysAreHeld
  <1>8. Q!OneRowPerFingerprint'
    BY <1>1, <1>3 DEF Q!QueueInv, Q!OneRowPerFingerprint
  <1>9. Q!OneHolder'
    BY <1>1, <1>3, <1>5 DEF Q!QueueInv, Q!OneHolder
  <1>10. QED
    BY <1>4, <1>6, <1>7, <1>8, <1>9 DEF Q!QueueInv

(* Each step keeps the inductive invariant: what stands behind a dedupe key,  *)
(* and who may work on a report (pubsub-ingest-worker-service.ts).            *)
LEMMA QueueSteps ==
  ASSUME Q!Proper
  PROVE  Q!QueueInv /\ [Q!Next]_Q!vars => Q!QueueInv'
  <1> SUFFICES ASSUME Q!QueueInv, [Q!Next]_Q!vars PROVE Q!QueueInv'
    OBVIOUS
  <1>1. ASSUME NEW r \in Requests, Q!RequestStep(r) PROVE Q!QueueInv'
    BY <1>1, RequestQueueStep DEF Q!RequestStep
  <1>2. ASSUME NEW h \in Handlers, Q!DeliveryStep(h) PROVE Q!QueueInv'
    BY <1>2, DeliverStep, ClaimStep, OwnAgainStep, WriteStep, CleanStep, HandlerDiesStep DEF Q!DeliveryStep
  <1>3. QED
    BY <1>1, <1>2, TickStep, ChangeStep DEF Q!Next

----------------------------------------------------------------------------
(* The GitHub webhook.                                                     *)

LEMMA InitWebhookInv ==
  ASSUME G!Proper
  PROVE  G!Init => G!WebhookInv
  <1> SUFFICES ASSUME G!Init PROVE G!WebhookInv
    OBVIOUS
  <1>1. LastSecret \in Nat /\ secret \in [Integrations -> 1 .. LastSecret] /\ changes = 0
    BY DEF G!Proper, G!Init
  <1>2. G!Issued = 1 .. LastSecret
    BY <1>1 DEF G!Issued
  <1>3. G!TypeOK
    BY <1>1, <1>2 DEF G!Init, G!TypeOK, G!Phases, G!Answers
  <1>4. G!AttemptsAreProper /\ G!DuplicatesWereSeen /\ G!SeenIsHandled
    BY DEF G!Init, G!Proper, G!AttemptsAreProper, G!DuplicatesWereSeen, G!SeenIsHandled
  <1>5. G!SecretsDiffer
    BY DEF G!Init, G!Proper, G!SecretsDiffer
  <1>6. G!OwnersSigned /\ G!AttemptsShareOwner /\ G!EventsComeFromAttempts
    BY DEF G!Init, G!OwnersSigned, G!AttemptsShareOwner, G!EventsComeFromAttempts
  <1>7. QED
    BY <1>3, <1>4, <1>5, <1>6 DEF G!WebhookInv

(* What was handled stays handled when every attempt that leaves the scope   *)
(* and the ingestion has stored the delivery or is recorded as dropping it.  *)
LEMMA HandledStays ==
  ASSUME NEW i, NEW d, G!Handled(i, d), stored \subseteq stored', dropped \subseteq dropped',
         \A b \in Attempts : pc[b] \in {"scope", "ingest"} =>
            /\ what'[b] = what[b] /\ owner'[b] = owner[b]
            /\ \/ pc'[b] \in {"scope", "ingest"}
               \/ G!Has(owner[b], what[b])'
               \/ <<owner[b], what[b]>> \in dropped'
  PROVE  G!Handled(i, d)'
  <1>1. CASE G!Has(i, d)
    BY <1>1 DEF G!Has, G!Handled
  <1>2. CASE <<i, d>> \in dropped
    BY <1>2 DEF G!Handled
  <1>3. CASE \E b \in Attempts : what[b] = d /\ owner[b] = i /\ pc[b] \in {"scope", "ingest"}
    <2>1. PICK b \in Attempts : what[b] = d /\ owner[b] = i /\ pc[b] \in {"scope", "ingest"}
      BY <1>3
    <2>2. what'[b] = d /\ owner'[b] = i
      BY <2>1
    <2>3. CASE pc'[b] \in {"scope", "ingest"}
      BY <2>2, <2>3 DEF G!Handled
    <2>4. CASE G!Has(owner[b], what[b])'
      BY <2>1, <2>2, <2>4 DEF G!Has, G!Handled
    <2>5. CASE <<owner[b], what[b]>> \in dropped'
      BY <2>1, <2>5 DEF G!Handled
    <2>6. QED
      BY <2>1, <2>3, <2>4, <2>5
  <1>4. QED
    BY <1>1, <1>2, <1>3 DEF G!Handled

(* An attempt moves on: what Refuse, Dedupe, Map, Ingest and Crash have in   *)
(* common.                                                                   *)
LEMMA AttemptMoves ==
  ASSUME G!Proper, G!WebhookInv, NEW a \in Attempts,
         NEW phase \in {"scope", "ingest", "over"}, NEW text \in G!Answers,
         pc[a] \in {"resolve", "dedupe", "scope", "ingest"},
         UNCHANGED <<secret, enabled, changes, what, owner>>,
         pc' = [pc EXCEPT ![a] = phase],
         reply' = [reply EXCEPT ![a] = text],
         text # None => phase = "over",
         text = "duplicate" => pc[a] = "dedupe" /\ <<owner[a], what[a]>> \in seen,
         phase = "scope" => pc[a] = "dedupe",
         phase = "ingest" => pc[a] = "scope" /\ G!InScope(owner[a], what[a]),
         pc[a] \in {"scope", "ingest"} /\ phase = "over" =>
            G!Has(owner[a], what[a])' \/ <<owner[a], what[a]>> \in dropped',
         \/ stored' = stored
         \/ pc[a] = "ingest" /\ stored' = stored \cup {G!Event(owner[a], what[a])},
         \/ dropped' = dropped
         \/ pc[a] \in {"scope", "ingest"} /\ dropped' = dropped \cup {<<owner[a], what[a]>>},
         \/ seen' = seen
         \/ phase = "scope" /\ seen' = seen \cup {<<owner[a], what[a]>>}
  PROVE  G!WebhookInv'
  <1>1. /\ what[a] \in Deliveries
        /\ pc[a] # "resolve" => owner[a] \in Integrations
        /\ pc \in [Attempts -> G!Phases] /\ reply \in [Attempts -> G!Answers]
    BY DEF G!WebhookInv, G!TypeOK, G!AttemptsAreProper
  <1>2. \A e \in stored' : e \in stored \/
          (pc[a] = "ingest" /\ e.owner = owner[a] /\ e.delivery = what[a])
    BY DEF G!Event
  <1>3. G!TypeOK'
    <2>1. pc' \in [Attempts -> G!Phases] /\ reply' \in [Attempts -> G!Answers]
      BY <1>1 DEF G!Phases
    <2>2. /\ seen' \subseteq Integrations \X Deliveries
          /\ dropped' \subseteq Integrations \X Deliveries
      BY <1>1 DEF G!WebhookInv, G!TypeOK
    <2>3. \A e \in stored' : e.owner \in Integrations /\ e.delivery \in Deliveries
      BY <1>1, <1>2 DEF G!WebhookInv, G!TypeOK
    <2>4. QED
      BY <2>1, <2>2, <2>3 DEF G!WebhookInv, G!TypeOK, G!Issued
  <1>4. G!AttemptsAreProper'
    BY <1>1 DEF G!WebhookInv, G!AttemptsAreProper, G!InScope
  <1>5. G!SecretsDiffer' /\ G!OwnersSigned' /\ G!AttemptsShareOwner'
    BY DEF G!WebhookInv, G!SecretsDiffer, G!OwnersSigned, G!AttemptsShareOwner, G!Issued
  <1>6. G!EventsComeFromAttempts'
    <2>1. pc[a] = "ingest" => G!InScope(owner[a], what[a])
      BY DEF G!WebhookInv, G!AttemptsAreProper
    <2>2. QED
      BY <1>2, <2>1 DEF G!WebhookInv, G!EventsComeFromAttempts, G!InScope
  <1>7. \A i \in Integrations, d \in Deliveries : G!Handled(i, d) => G!Handled(i, d)'
    <2> SUFFICES ASSUME NEW i \in Integrations, NEW d \in Deliveries, G!Handled(i, d)
                 PROVE  G!Handled(i, d)'
      OBVIOUS
    <2>1. stored \subseteq stored' /\ dropped \subseteq dropped'
      OBVIOUS
    <2>2. \A b \in Attempts : pc[b] \in {"scope", "ingest"} =>
            /\ what'[b] = what[b] /\ owner'[b] = owner[b]
            /\ \/ pc'[b] \in {"scope", "ingest"}
               \/ G!Has(owner[b], what[b])'
               \/ <<owner[b], what[b]>> \in dropped'
      BY <1>1
    <2>3. QED
      BY <2>1, <2>2, HandledStays
  <1>8. \A k \in seen : k[1] \in Integrations /\ k[2] \in Deliveries
    BY DEF G!WebhookInv, G!TypeOK
  <1>9. G!SeenIsHandled'
    <2>1. SUFFICES ASSUME NEW k \in seen' PROVE G!Handled(k[1], k[2])'
      BY DEF G!SeenIsHandled
    <2>2. CASE k \in seen
      BY <1>7, <1>8, <2>2 DEF G!WebhookInv, G!SeenIsHandled
    <2>3. CASE phase = "scope" /\ k = <<owner[a], what[a]>>
      BY <1>1, <2>3 DEF G!Handled
    <2>4. QED
      BY <2>2, <2>3
  <1>10. G!DuplicatesWereSeen'
    <2>1. SUFFICES ASSUME NEW b \in Attempts, reply'[b] = "duplicate"
                   PROVE  G!Handled(owner[b], what[b])'
      BY DEF G!DuplicatesWereSeen
    <2>2. owner[b] \in Integrations /\ what[b] \in Deliveries /\ G!Handled(owner[b], what[b])
      <3>1. CASE b = a
        <4>1. pc[a] = "dedupe" /\ <<owner[a], what[a]>> \in seen
          BY <1>1, <2>1, <3>1
        <4>2. QED
          BY <1>1, <3>1, <4>1 DEF G!WebhookInv, G!SeenIsHandled
      <3>2. CASE b # a
        <4>1. reply[b] = "duplicate" /\ pc[b] # "idle"
          BY <1>1, <2>1, <3>2 DEF G!Proper, G!WebhookInv, G!AttemptsAreProper
        <4>2. QED
          BY <2>1, <4>1 DEF G!WebhookInv, G!DuplicatesWereSeen, G!AttemptsAreProper
      <3>3. QED
        BY <3>1, <3>2
    <2>3. QED
      BY <1>7, <2>2
  <1>11. QED
    BY <1>3, <1>4, <1>5, <1>6, <1>9, <1>10 DEF G!WebhookInv

(* POST /integrations/github/webhook picks up a delivery. *)
LEMMA ReceiveStep ==
  ASSUME G!Proper, G!WebhookInv, NEW a \in Attempts, G!Receive(a)
  PROVE  G!WebhookInv'
  <1>1. PICK d \in Deliveries : what' = [what EXCEPT ![a] = d]
    BY DEF G!Receive
  <1>2. /\ pc[a] = "idle" /\ pc' = [pc EXCEPT ![a] = "resolve"]
        /\ UNCHANGED <<secret, enabled, changes, seen, stored, owner, reply, faults, dropped>>
    BY DEF G!Receive, G!Goto, G!integrations
  <1>3. owner[a] = None /\ reply[a] = None
    BY <1>2 DEF G!WebhookInv, G!AttemptsAreProper
  <1>4. G!TypeOK'
    BY <1>1, <1>2 DEF G!WebhookInv, G!TypeOK, G!Phases, G!Issued
  <1>5. G!AttemptsAreProper'
    BY <1>1, <1>2, <1>3 DEF G!Proper, G!WebhookInv, G!AttemptsAreProper, G!TypeOK, G!InScope
  <1>6. \A b \in Attempts : b # a => what'[b] = what[b] /\ pc'[b] = pc[b]
    BY <1>1, <1>2 DEF G!WebhookInv, G!TypeOK
  <1>7. G!SecretsDiffer' /\ G!OwnersSigned' /\ G!AttemptsShareOwner'
    BY <1>2, <1>3, <1>6 DEF G!WebhookInv, G!SecretsDiffer, G!OwnersSigned, G!AttemptsShareOwner, G!Issued
  <1>8. G!EventsComeFromAttempts'
    <2> SUFFICES ASSUME NEW e \in stored
                 PROVE  /\ \E b \in Attempts : owner[b] = e.owner /\ what'[b] = e.delivery
                        /\ G!InScope(e.owner, e.delivery)
      BY <1>2 DEF G!EventsComeFromAttempts, G!InScope
    <2>1. PICK b \in Attempts : owner[b] = e.owner /\ what[b] = e.delivery
      BY DEF G!WebhookInv, G!EventsComeFromAttempts
    <2>2. b # a
      BY <1>3, <2>1 DEF G!Proper, G!WebhookInv, G!TypeOK
    <2>3. QED
      BY <1>6, <2>1, <2>2 DEF G!WebhookInv, G!EventsComeFromAttempts
  <1>9. \A i, d0 : G!Handled(i, d0) => G!Handled(i, d0)'
    <2>1. \A b \in Attempts : pc[b] \in {"scope", "ingest"} =>
            what'[b] = what[b] /\ owner'[b] = owner[b] /\ pc'[b] \in {"scope", "ingest"}
      BY <1>2, <1>6
    <2>2. QED
      BY <1>2, <2>1, HandledStays
  <1>10. G!SeenIsHandled'
    BY <1>2, <1>9 DEF G!WebhookInv, G!SeenIsHandled
  <1>11. G!DuplicatesWereSeen'
    BY <1>2, <1>3, <1>6, <1>9 DEF G!Proper, G!WebhookInv, G!DuplicatesWereSeen
  <1>12. QED
    BY <1>4, <1>5, <1>7, <1>8, <1>10, <1>11 DEF G!WebhookInv

(* resolveGitHubIntegrationForWebhook: whoever it is resolved to has the      *)
(* secret that signed the delivery.                                          *)
LEMMA ResolveStep ==
  ASSUME G!Proper, G!WebhookInv, NEW a \in Attempts, G!Resolve(a)
  PROVE  G!WebhookInv'
  <1>1. CASE G!Reply(a, "refused") /\ UNCHANGED owner
    <2>1. /\ pc[a] = "resolve" /\ pc' = [pc EXCEPT ![a] = "over"]
          /\ reply' = [reply EXCEPT ![a] = "refused"]
          /\ UNCHANGED <<secret, enabled, changes, what, owner, stored, dropped, seen>>
      BY <1>1 DEF G!Resolve, G!Reply, G!Goto, G!integrations
    <2>2. QED
      BY <2>1, AttemptMoves DEF G!Answers
  <1>2. CASE /\ \E i \in G!Resolved(what[a]) : owner' = [owner EXCEPT ![a] = i]
             /\ G!Goto(a, "dedupe")
             /\ UNCHANGED reply
    <2>1. PICK i \in G!Resolved(what[a]) : owner' = [owner EXCEPT ![a] = i]
      BY <1>2
    <2>2. /\ pc[a] = "resolve" /\ pc' = [pc EXCEPT ![a] = "dedupe"] /\ reply' = reply
          /\ UNCHANGED <<secret, enabled, changes, seen, stored, what, faults, dropped>>
      BY <1>2 DEF G!Resolve, G!Goto, G!integrations
    <2>3. i \in Integrations /\ Sent[what[a]].secret = secret[i]
      BY <2>1 DEF G!Resolved, G!Direct, G!Signs
    <2>4. owner[a] = None /\ what[a] \in Deliveries /\ reply[a] = None
      BY <2>2 DEF G!WebhookInv, G!AttemptsAreProper
    <2>5. \A b \in Attempts : /\ b # a => owner'[b] = owner[b] /\ pc'[b] = pc[b]
                              /\ b = a => owner'[b] = i /\ pc'[b] = "dedupe"
      BY <2>1, <2>2 DEF G!WebhookInv, G!TypeOK
    <2>6. G!TypeOK'
      BY <2>1, <2>2, <2>3 DEF G!WebhookInv, G!TypeOK, G!Phases, G!Issued
    <2>7. G!AttemptsAreProper'
      BY <2>2, <2>3, <2>4, <2>5 DEF G!Proper, G!WebhookInv, G!AttemptsAreProper, G!InScope
    <2>8. G!SecretsDiffer'
      BY <2>2 DEF G!WebhookInv, G!SecretsDiffer
    <2>9. G!OwnersSigned'
      <3>1. secret[i] \in G!Issued
        BY <2>3 DEF G!WebhookInv, G!TypeOK
      <3>2. \A j \in Integrations : secret[j] = Sent[what[a]].secret => j = i
        BY <2>3 DEF G!WebhookInv, G!SecretsDiffer
      <3>3. QED
        BY <2>2, <2>3, <2>5, <3>1, <3>2 DEF G!WebhookInv, G!OwnersSigned, G!Issued
    <2>10. G!AttemptsShareOwner'
      <3>1. \A b \in Attempts : owner[b] # None /\ what[b] = what[a] => owner[b] = i
        BY <2>3 DEF G!WebhookInv, G!OwnersSigned
      <3>2. QED
        BY <2>2, <2>5, <3>1 DEF G!WebhookInv, G!AttemptsShareOwner
    <2>11. G!EventsComeFromAttempts'
      <3> SUFFICES ASSUME NEW e \in stored
                   PROVE  /\ \E b \in Attempts : owner'[b] = e.owner /\ what[b] = e.delivery
                          /\ G!InScope(e.owner, e.delivery)
        BY <2>2 DEF G!EventsComeFromAttempts, G!InScope
      <3>1. PICK b \in Attempts : owner[b] = e.owner /\ what[b] = e.delivery
        BY DEF G!WebhookInv, G!EventsComeFromAttempts
      <3>2. b # a
        BY <2>4, <3>1 DEF G!Proper, G!WebhookInv, G!TypeOK
      <3>3. QED
        BY <2>5, <3>1, <3>2 DEF G!WebhookInv, G!EventsComeFromAttempts
    <2>12. \A j, d : G!Handled(j, d) => G!Handled(j, d)'
      <3>1. \A b \in Attempts : pc[b] \in {"scope", "ingest"} =>
              what'[b] = what[b] /\ owner'[b] = owner[b] /\ pc'[b] \in {"scope", "ingest"}
        BY <2>2, <2>5
      <3>2. QED
        BY <2>2, <3>1, HandledStays
    <2>13. G!SeenIsHandled'
      BY <2>2, <2>12 DEF G!WebhookInv, G!SeenIsHandled
    <2>14. G!DuplicatesWereSeen'
      BY <2>2, <2>4, <2>5, <2>12 DEF G!Proper, G!WebhookInv, G!DuplicatesWereSeen
    <2>15. QED
      BY <2>6, <2>7, <2>8, <2>9, <2>10, <2>11, <2>13, <2>14 DEF G!WebhookInv
  <1>3. QED
    BY <1>1, <1>2 DEF G!Resolve

(* redisSetNx of the delivery key. *)
LEMMA DedupeStep ==
  ASSUME G!Proper, G!WebhookInv, NEW a \in Attempts, G!Dedupe(a)
  PROVE  G!WebhookInv'
  <1>1. /\ pc[a] = "dedupe" /\ reply[a] = None /\ reply \in [Attempts -> G!Answers]
        /\ UNCHANGED <<secret, enabled, changes, what, owner, stored, dropped>>
    BY DEF G!Dedupe, G!integrations, G!WebhookInv, G!AttemptsAreProper, G!TypeOK
  <1>2. CASE /\ seen' = seen \cup {G!DeliveryKey(a)}
             /\ G!Goto(a, "scope")
             /\ UNCHANGED reply
    <2>1. /\ seen' = seen \cup {<<owner[a], what[a]>>}
          /\ pc' = [pc EXCEPT ![a] = "scope"] /\ reply' = [reply EXCEPT ![a] = None]
      BY <1>1, <1>2 DEF G!DeliveryKey, G!Goto
    <2>2. None \in G!Answers /\ None # "duplicate"
      BY DEF G!Answers, G!Proper
    <2>3. QED
      BY <1>1, <2>1, <2>2, AttemptMoves
  <1>3. CASE G!DeliveryKey(a) \in seen /\ G!Reply(a, "duplicate") /\ UNCHANGED seen
    <2>1. /\ <<owner[a], what[a]>> \in seen /\ seen' = seen
          /\ pc' = [pc EXCEPT ![a] = "over"] /\ reply' = [reply EXCEPT ![a] = "duplicate"]
      BY <1>3 DEF G!DeliveryKey, G!Reply, G!Goto
    <2>2. "duplicate" \in G!Answers
      BY DEF G!Answers
    <2>3. QED
      BY <1>1, <2>1, <2>2, AttemptMoves
  <1>4. CASE G!Goto(a, "scope") /\ UNCHANGED <<seen, reply>>
    <2>1. seen' = seen /\ pc' = [pc EXCEPT ![a] = "scope"] /\ reply' = [reply EXCEPT ![a] = None]
      BY <1>1, <1>4 DEF G!Goto
    <2>2. None \in G!Answers /\ None # "duplicate"
      BY DEF G!Answers, G!Proper
    <2>3. QED
      BY <1>1, <2>1, <2>2, AttemptMoves
  <1>5. QED
    BY <1>2, <1>3, <1>4 DEF G!Dedupe

(* A delivery refused before anything is read. *)
LEMMA RefuseStep ==
  ASSUME G!Proper, G!WebhookInv, NEW a \in Attempts, G!Refuse(a)
  PROVE  G!WebhookInv'
  <1>1. /\ pc[a] = "resolve" /\ pc' = [pc EXCEPT ![a] = "over"]
        /\ reply' = [reply EXCEPT ![a] = "refused"]
        /\ UNCHANGED <<secret, enabled, changes, what, owner, stored, dropped, seen>>
    BY DEF G!Refuse, G!Reply, G!Goto, G!integrations
  <1>2. QED
    BY <1>1, AttemptMoves DEF G!Answers

(* The scope and the mapping. *)
LEMMA MapStep ==
  ASSUME G!Proper, G!WebhookInv, NEW a \in Attempts, G!Map(a)
  PROVE  G!WebhookInv'
  <1>1. /\ pc[a] = "scope" /\ reply[a] = None /\ reply \in [Attempts -> G!Answers]
        /\ UNCHANGED <<secret, enabled, changes, what, owner, stored, seen>>
    BY DEF G!Map, G!integrations, G!WebhookInv, G!AttemptsAreProper, G!TypeOK
  <1>2. CASE \E text \in {"out_of_scope", "ignored"} : G!Reply(a, text) /\ G!Drop(a)
    <2>1. PICK text \in {"out_of_scope", "ignored"} : G!Reply(a, text) /\ G!Drop(a)
      BY <1>2
    <2>2. /\ dropped' = dropped \cup {<<owner[a], what[a]>>}
          /\ pc' = [pc EXCEPT ![a] = "over"] /\ reply' = [reply EXCEPT ![a] = text]
      BY <2>1 DEF G!Drop, G!Reply, G!Goto
    <2>3. text \in G!Answers /\ text # "duplicate"
      BY <2>1 DEF G!Answers
    <2>4. QED
      BY <1>1, <2>2, <2>3, AttemptMoves
  <1>3. CASE G!InScope(owner[a], what[a]) /\ G!Goto(a, "ingest") /\ UNCHANGED <<reply, dropped>>
    <2>1. pc' = [pc EXCEPT ![a] = "ingest"] /\ reply' = [reply EXCEPT ![a] = None] /\ dropped' = dropped
      BY <1>1, <1>3 DEF G!Goto
    <2>2. None \in G!Answers /\ None # "duplicate"
      BY DEF G!Answers, G!Proper
    <2>3. QED
      BY <1>1, <1>3, <2>1, <2>2, AttemptMoves
  <1>4. QED
    BY <1>2, <1>3 DEF G!Map

(* The events are stored, or are not; or the process dies before or after.   *)
LEMMA IngestStep ==
  ASSUME G!Proper, G!WebhookInv, NEW a \in Attempts, G!Ingest(a) \/ G!Crash(a)
  PROVE  G!WebhookInv'
  <1>1. /\ pc[a] \in {"resolve", "dedupe", "scope", "ingest"}
        /\ UNCHANGED <<secret, enabled, changes, what, owner, seen>>
    BY DEF G!Ingest, G!Crash, G!integrations
  <1>2. PICK text \in {"ok", "failed", "lost"} : G!Reply(a, text)
    BY DEF G!Ingest, G!Crash
  <1>3. pc' = [pc EXCEPT ![a] = "over"] /\ reply' = [reply EXCEPT ![a] = text]
    BY <1>2 DEF G!Reply, G!Goto
  <1>4. text \in G!Answers /\ text # "duplicate" /\ text # "scope"
    BY <1>2 DEF G!Answers
  <1>5. CASE pc[a] = "ingest" /\ stored' = stored \cup {G!Event(owner[a], what[a])} /\ dropped' = dropped
    <2>1. G!Event(owner[a], what[a]).owner = owner[a] /\ G!Event(owner[a], what[a]).delivery = what[a]
      BY DEF G!Event
    <2>2. G!Has(owner[a], what[a])'
      BY <1>1, <1>5, <2>1 DEF G!Has
    <2>3. QED
      BY <1>1, <1>3, <1>4, <1>5, <2>2, AttemptMoves
  <1>6. CASE pc[a] \in {"scope", "ingest"} /\ G!Drop(a) /\ stored' = stored
    <2>1. dropped' = dropped \cup {<<owner[a], what[a]>>} /\ <<owner[a], what[a]>> \in dropped'
      BY <1>6 DEF G!Drop
    <2>2. QED
      BY <1>1, <1>3, <1>4, <1>6, <2>1, AttemptMoves
  <1>7. CASE pc[a] \in {"resolve", "dedupe"} /\ UNCHANGED <<stored, dropped>>
    BY <1>1, <1>3, <1>4, <1>7, AttemptMoves
  <1>8. QED
    BY <1>5, <1>6, <1>7 DEF G!Ingest, G!Crash

(* Rotation gives an integration a secret that signed no delivery so far     *)
(* resolved; whether it is enabled matters to no attempt under way.           *)
LEMMA ReconfigureStep ==
  ASSUME G!Proper, G!WebhookInv, NEW i \in Integrations, G!Reconfigure(i)
  PROVE  G!WebhookInv'
  <1>1. /\ changes \in Nat /\ changes' = changes + 1 /\ LastSecret \in Nat
        /\ UNCHANGED <<seen, stored, pc, what, owner, reply, faults, dropped>>
    BY DEF G!Reconfigure, G!WebhookInv, G!TypeOK, G!Proper
  <1>2. G!Issued \subseteq G!Issued' /\ G!Fresh \notin G!Issued /\ G!Fresh \in G!Issued'
    BY <1>1 DEF G!Issued, G!Fresh
  <1>3. secret \in [Integrations -> G!Issued]
    BY DEF G!WebhookInv, G!TypeOK
  <1>4. \A j \in Integrations : secret'[j] = secret[j] \/ (j = i /\ secret'[j] = G!Fresh)
    BY <1>3 DEF G!Reconfigure
  <1>5. G!TypeOK'
    <2>1. secret' \in [Integrations -> G!Issued'] /\ enabled' \in [Integrations -> BOOLEAN]
      BY <1>2, <1>3 DEF G!Reconfigure, G!WebhookInv, G!TypeOK
    <2>2. QED
      BY <1>1, <2>1 DEF G!WebhookInv, G!TypeOK
  <1>6. G!SecretsDiffer'
    BY <1>2, <1>3, <1>4 DEF G!WebhookInv, G!SecretsDiffer
  <1>7. G!OwnersSigned'
    BY <1>1, <1>2, <1>4 DEF G!WebhookInv, G!OwnersSigned
  <1>8. G!AttemptsAreProper' /\ G!AttemptsShareOwner' /\ G!EventsComeFromAttempts'
    BY <1>1 DEF G!WebhookInv, G!AttemptsAreProper, G!AttemptsShareOwner, G!EventsComeFromAttempts, G!InScope
  <1>9. G!DuplicatesWereSeen' /\ G!SeenIsHandled'
    BY <1>1 DEF G!WebhookInv, G!DuplicatesWereSeen, G!SeenIsHandled, G!Handled, G!Has
  <1>10. QED
    BY <1>5, <1>6, <1>7, <1>8, <1>9 DEF G!WebhookInv

(* A delivery key runs out, or nothing happens. *)
LEMMA ForgetStep ==
  ASSUME G!WebhookInv, G!Forget \/ UNCHANGED G!vars
  PROVE  G!WebhookInv'
  <1>1. seen' \subseteq seen /\ UNCHANGED <<secret, enabled, changes, stored, pc, what, owner, reply, dropped>>
    BY DEF G!Forget, G!integrations, G!vars
  <1>2. G!TypeOK'
    BY <1>1 DEF G!WebhookInv, G!TypeOK, G!Issued
  <1>3. G!AttemptsAreProper' /\ G!AttemptsShareOwner' /\ G!EventsComeFromAttempts'
    BY <1>1 DEF G!WebhookInv, G!AttemptsAreProper, G!AttemptsShareOwner, G!EventsComeFromAttempts, G!InScope
  <1>4. G!SecretsDiffer' /\ G!OwnersSigned'
    BY <1>1 DEF G!WebhookInv, G!SecretsDiffer, G!OwnersSigned, G!Issued
  <1>5. G!DuplicatesWereSeen' /\ G!SeenIsHandled'
    BY <1>1 DEF G!WebhookInv, G!DuplicatesWereSeen, G!SeenIsHandled, G!Handled, G!Has
  <1>6. QED
    BY <1>2, <1>3, <1>4, <1>5 DEF G!WebhookInv

(* Each step keeps the inductive invariant: what an attempt was resolved to,  *)
(* and what the delivery keys stand for, outlasts a change of the             *)
(* integration's secret (routes/github-webhook.ts).                           *)
LEMMA WebhookSteps ==
  ASSUME G!Proper
  PROVE  G!WebhookInv /\ [G!Next]_G!vars => G!WebhookInv'
  BY ReceiveStep, RefuseStep, ResolveStep, DedupeStep, MapStep, IngestStep, ReconfigureStep, ForgetStep
     DEF G!Next, G!Step

----------------------------------------------------------------------------
(* The whole.                                                              *)

(* Every reachable state satisfies the inductive invariant of the part it is *)
(* of: only the steps of that part are taken, which keep it.                 *)
THEOREM IntakeInvariant == Spec => []TypeOK
  <1>1. Init => TypeOK
    BY InitRedisInv, InitQueueInv, InitWebhookInv, RedisIsProper, QueueIsProper, WebhookIsProper
       DEF Init, TypeOK
  <1>2. TypeOK /\ [Next]_vars => TypeOK'
    <2> SUFFICES ASSUME TypeOK, [Next]_vars PROVE TypeOK'
      OBVIOUS
    <2>1. part' = part
      BY DEF Next, vars
    <2>2. ASSUME part = "redis" PROVE R!RedisInv'
      <3>1. R!RedisInv /\ [R!Next]_R!vars
        BY <2>2 DEF TypeOK, Next, vars, redisVars, R!vars
      <3>2. QED
        BY <3>1, RedisSteps, RedisIsProper
    <2>3. ASSUME part = "queue" PROVE Q!QueueInv'
      <3>1. Q!QueueInv /\ [Q!Next]_Q!vars
        BY <2>3 DEF TypeOK, Next, vars, queueVars, Q!vars
      <3>2. QED
        BY <3>1, QueueSteps, QueueIsProper
    <2>4. ASSUME part = "github" PROVE G!WebhookInv'
      <3>1. G!WebhookInv /\ [G!Next]_G!vars
        BY <2>4 DEF TypeOK, Next, vars, githubVars, G!vars
      <3>2. QED
        BY <3>1, WebhookSteps, WebhookIsProper
    <2>5. QED
      BY <2>1, <2>2, <2>3, <2>4 DEF TypeOK
  <1>3. QED
    BY <1>1, <1>2, PTL DEF Spec

(* A call is refused only when more than the limit were counted in the       *)
(* window that ends with it, or its counter was given more time than the     *)
(* window (consumeRateLimit).                                                *)
THEOREM RefusalsAreEarned == Spec => []RefusalsAreDeserved
  <1>1. TypeOK => RefusalsAreDeserved
    <2>1. ASSUME R!RedisInv PROVE R!RefusalsAreDeserved
      <3>1. Quota \in Nat
        BY RedisIsProper DEF R!Proper
      <3>2. SUFFICES ASSUME NEW p \in Procs, R!Refused(p)
                     PROVE  answer[p].calls > Quota \/ answer[p].late
        BY DEF R!RefusalsAreDeserved
      <3>3. answer[p] \in R!Answers
        BY <2>1 DEF R!RedisInv, R!TypeOK
      <3>4. answer[p].n <= answer[p].calls \/ answer[p].late
        BY <2>1 DEF R!RedisInv, R!AnswersAreTrue
      <3>5. QED
        BY <3>1, <3>2, <3>3, <3>4 DEF R!Refused, R!Allowed, R!Answers
    <2>2. QED
      BY <2>1 DEF TypeOK, RefusalsAreDeserved
  <1>2. QED
    BY <1>1, IntakeInvariant, PTL

(* A call that Redis answered is counted by a counter that will run out,     *)
(* although the call that created it may have ended between INCR and EXPIRE  *)
(* (redisIncrWithTtl).                                                       *)
THEOREM AnsweredCallsRunOut == Spec => []AnsweredCallsExpire
  <1>1. TypeOK => AnsweredCallsExpire
    <2>1. R!RedisInv => R!AnsweredCallsExpire
      BY DEF R!RedisInv, R!MineAreTimed, R!AnsweredCallsExpire
    <2>2. QED
      BY <2>1 DEF TypeOK, AnsweredCallsExpire
  <1>2. QED
    BY <1>1, IntakeInvariant, PTL

(* A report that was accepted is in BigQuery or with Pub/Sub, and reports    *)
(* with one fingerprint make one row, but for what the model records as an   *)
(* excuse: a holder of the dedupe key that died or failed, a second delivery *)
(* that ran into one at work, a key that ran out, a failed insert that was   *)
(* applied (processQueueMessage).                                            *)
THEOREM AcceptedReportsAreKeptOnce == Spec => []AcceptedIsKeptOnce
  <1>1. TypeOK => AcceptedIsKeptOnce
    <2>1. Q!QueueInv => Q!AcceptedIsKeptOnce
      BY DEF Q!QueueInv, Q!AcceptedIsKeptOnce
    <2>2. QED
      BY <2>1 DEF TypeOK, AcceptedIsKeptOnce
  <1>2. QED
    BY <1>1, IntakeInvariant, PTL

(* A delivery answered as a duplicate was stored, or is being stored, or an  *)
(* attempt at this very delivery had dropped it (routes/github-webhook.ts).  *)
THEOREM DuplicatesWereHandled == Spec => []DuplicatesWereSeen
  <1>1. TypeOK => DuplicatesWereSeen
    <2>1. G!WebhookInv => G!DuplicatesWereSeen
      BY DEF G!WebhookInv
    <2>2. QED
      BY <2>1 DEF TypeOK, DuplicatesWereSeen
  <1>2. QED
    BY <1>1, IntakeInvariant, PTL

(* The events of a delivery belong to one integration, and to the repository *)
(* it is scoped to, though the delivery is sent again and secrets rotate in  *)
(* between (resolveGitHubIntegrationForWebhook).                             *)
THEOREM EventsKeepTheirOwner == Spec => []EventsStayWithTheirOwner
  <1>1. TypeOK => EventsStayWithTheirOwner
    <2>1. G!WebhookInv => G!EventsStayWithTheirOwner
      <3> SUFFICES ASSUME G!WebhookInv, NEW e \in stored
                   PROVE  /\ ScopeOf[e.owner] \in {None, Sent[e.delivery].repo}
                          /\ \A f \in stored : f.delivery = e.delivery => f.owner = e.owner
        BY DEF G!EventsStayWithTheirOwner
      <3>1. \A f \in stored : /\ f.owner \in Integrations
                              /\ \E a \in Attempts : owner[a] = f.owner /\ what[a] = f.delivery
                              /\ G!InScope(f.owner, f.delivery)
        BY DEF G!WebhookInv, G!TypeOK, G!EventsComeFromAttempts
      <3>2. \A f \in stored : f.delivery = e.delivery => f.owner = e.owner
        BY <3>1, WebhookIsProper DEF G!Proper, G!WebhookInv, G!AttemptsShareOwner
      <3>3. QED
        BY <3>1, <3>2 DEF G!InScope
    <2>2. QED
      BY <2>1 DEF TypeOK, EventsStayWithTheirOwner
  <1>2. QED
    BY <1>1, IntakeInvariant, PTL
=============================================================================
