---------------------------- MODULE EventLedger ----------------------------
(***************************************************************************)
(* Idempotent ingestion of operational events: the ledger of               *)
(* event-idempotency-service.ts, one row per idempotency key, and the      *)
(* deliveries that ingestOperationalEvents works through, one event after  *)
(* the other (operational-event-ingestion-service.ts).                     *)
(*                                                                         *)
(* A delivery is a request: a webhook, an API call, a retry of either.     *)
(* Several run at once, in several processes.  Each database call may      *)
(* fail, after or before it was applied, and a process may crash between   *)
(* any two calls.                                                          *)
(***************************************************************************)
EXTENDS Naturals, Sequences, FiniteSets

CONSTANTS
    Keys,        \* idempotency keys
    Deliveries,
    Batch,       \* the keys of the events of each delivery, in order
    TTL,         \* PROCESSING_TTL_SEC
    MaxNow       \* bound on the clock

ASSUME BatchAssumption == Batch \in [Deliveries -> Seq(Keys)]
ASSUME TTLAssumption == TTL \in Nat \ {0}
ASSUME MaxNowAssumption == MaxNow \in Nat

VARIABLES
    now,      \* wall clock
    ledger,   \* status and lock_expires_at of each key
    copies,   \* how many operational_event rows carry the key
    pc,       \* how far each delivery is with its current event
    idx,      \* the current event of each delivery
    at,       \* the `now` its reservation captured
    answer,   \* the outcomes the delivery has counted, by key
    faults    \* the kinds of fault that have happened

vars == <<now, ledger, copies, pc, idx, at, answer, faults>>

Statuses == {"absent", "processing", "completed", "failed"}

LedgerRows == [status : Statuses, lock : Nat]

\* lock_expires_at = null: earlier than every clock reading.
NoLock == 0

Absent == [status |-> "absent", lock |-> NoLock]

Outcomes == {"ingested", "duplicate", "skipped", "failed"}

\* overtaken: a reservation was taken over while its delivery was still at work.
\* ambiguous: a commit was applied but reported as an error.
\* swallowed: the create of a reservation failed without another's row there.
Faults == {"overtaken", "ambiguous", "swallowed"}

\* The delivery holds the reservation of its current event.
Persisting == {"persist", "markFailed"}

Over == {"answered", "rejected", "crashed"}

Phases ==
    {"next", "find", "create", "refind", "seen", "inflight",
     "claimFailed", "claimStale"} \cup Persisting \cup Over

Cur(d) == Batch[d][idx[d]]

Holds(d, k) == pc[d] \in Persisting /\ Cur(d) = k

Init ==
    /\ now = 1
    /\ ledger = [k \in Keys |-> Absent]
    /\ copies = [k \in Keys |-> 0]
    /\ pc = [d \in Deliveries |-> "next"]
    /\ idx = [d \in Deliveries |-> 0]
    /\ at = [d \in Deliveries |-> 0]
    /\ answer = [d \in Deliveries |-> {}]
    /\ faults = {}

----------------------------------------------------------------------------
(* Moving through the batch.                                               *)

Goto(d, phase) == pc' = [pc EXCEPT ![d] = phase]

\* The current event is counted under `outcome` and the loop goes on.
Count(d, outcome) ==
    /\ answer' = [answer EXCEPT ![d] = @ \cup {<<Cur(d), outcome>>}]
    /\ Goto(d, "next")

\* The next event of the loop: reserveEventIdempotency reads the clock.
NextEvent(d) ==
    /\ pc[d] = "next"
    /\ idx[d] < Len(Batch[d])
    /\ idx' = [idx EXCEPT ![d] = @ + 1]
    /\ at' = [at EXCEPT ![d] = now]
    /\ Goto(d, "find")
    /\ UNCHANGED <<now, ledger, copies, answer, faults>>

\* The loop is over; the request is answered with the counts.
Answer(d) ==
    /\ pc[d] = "next"
    /\ idx[d] = Len(Batch[d])
    /\ Goto(d, "answered")
    /\ UNCHANGED <<now, ledger, copies, idx, at, answer, faults>>

----------------------------------------------------------------------------
(* reserveEventIdempotency.                                                *)

\* Faulty: an event still in flight is answered as a duplicate of a stored one.
BranchOnPresence(d) ==
    LET row == ledger[Cur(d)] IN
    CASE row.status = "failed" -> "claimFailed"
      [] row.status = "processing" /\ row.lock <= at[d] -> "claimStale"
      [] OTHER -> "seen"

\* The branch taken on the row that is read, when there is one.
Branch(d) ==
    LET row == ledger[Cur(d)] IN
    CASE row.status = "completed" -> "seen"
      [] row.status = "failed" -> "claimFailed"
      [] row.lock > at[d] -> "inflight"
      [] OTHER -> "claimStale"

\* The first findUnique.
Find(d) ==
    /\ pc[d] = "find"
    /\ Goto(d, IF ledger[Cur(d)] = Absent THEN "create" ELSE Branch(d))
    /\ UNCHANGED <<now, ledger, copies, idx, at, answer, faults>>

Reserve(d) ==
    ledger' = [ledger EXCEPT ![Cur(d)] = [status |-> "processing", lock |-> at[d] + TTL]]

\* The create, unique on the key: any error leads to a second findUnique.
Create(d) ==
    /\ pc[d] = "create"
    /\ \/ /\ ledger[Cur(d)] = Absent
          /\ Reserve(d)
          /\ Goto(d, "persist")
          /\ UNCHANGED faults
       \/ /\ ledger[Cur(d)] # Absent
          /\ Goto(d, "refind")
          /\ UNCHANGED <<ledger, faults>>
       \/ /\ ledger[Cur(d)] = Absent
          /\ UNCHANGED ledger \/ Reserve(d)
          /\ Goto(d, "refind")
          /\ faults' = faults \cup {"swallowed"}
    /\ UNCHANGED <<now, copies, idx, at, answer>>

\* The second findUnique: a row that is still missing counts as in flight.
Refind(d) ==
    /\ pc[d] = "refind"
    /\ \/ /\ ledger[Cur(d)] = Absent
          /\ Count(d, "skipped")
       \/ /\ ledger[Cur(d)] # Absent
          /\ Goto(d, Branch(d))
          /\ UNCHANGED answer
    /\ UNCHANGED <<now, ledger, copies, idx, at, faults>>

\* duplicate_completed and the not stale duplicate_inflight: only seen_count
\* and last_seen_at change.
Seen(d) ==
    /\ \/ pc[d] = "seen" /\ Count(d, "duplicate")
       \/ pc[d] = "inflight" /\ Count(d, "skipped")
    /\ UNCHANGED <<now, ledger, copies, idx, at, faults>>

\* recovered_failed: the conditional updateMany, lost to another delivery if
\* the row is no longer failed.
ClaimFailed(d) ==
    /\ pc[d] = "claimFailed"
    /\ \/ /\ ledger[Cur(d)].status = "failed"
          /\ Reserve(d)
          /\ Goto(d, "persist")
          /\ UNCHANGED answer
       \/ /\ ledger[Cur(d)].status # "failed"
          /\ Count(d, "skipped")
          /\ UNCHANGED ledger
    /\ UNCHANGED <<now, copies, idx, at, faults>>

\* Faulty: a row completed in the meantime is claimed.
StaleByLock(d) == ledger[Cur(d)].lock <= at[d]

\* recovered_stale_processing: the lock must still be expired.
Stale(d) ==
    /\ ledger[Cur(d)].status = "processing"
    /\ ledger[Cur(d)].lock <= at[d]

ClaimStale(d) ==
    /\ pc[d] = "claimStale"
    /\ \/ /\ Stale(d)
          /\ Reserve(d)
          /\ Goto(d, "persist")
          /\ faults' = IF \E o \in Deliveries \ {d} : Holds(o, Cur(d))
                       THEN faults \cup {"overtaken"} ELSE faults
          /\ UNCHANGED answer
       \/ /\ ~Stale(d)
          /\ Count(d, "skipped")
          /\ UNCHANGED <<ledger, faults>>
    /\ UNCHANGED <<now, copies, idx, at>>

----------------------------------------------------------------------------
(* Persisting the event.                                                   *)

\* Faulty: the ledger row is not completed with the event.
CommitEventOnly(d) ==
    /\ copies' = [copies EXCEPT ![Cur(d)] = @ + 1]
    /\ UNCHANGED ledger

\* The transaction: operational_event created, ledger row completed whatever
\* it says by now.
Commit(d) ==
    /\ copies' = [copies EXCEPT ![Cur(d)] = @ + 1]
    /\ ledger' = [ledger EXCEPT ![Cur(d)] = [status |-> "completed", lock |-> NoLock]]

Persist(d) ==
    /\ pc[d] = "persist"
    /\ Commit(d)
    /\ Count(d, "ingested")
    /\ UNCHANGED <<now, idx, at, faults>>

\* The transaction fails: rolled back, or committed with its answer lost.
PersistErrors(d) ==
    /\ pc[d] = "persist"
    /\ \/ UNCHANGED <<ledger, copies, faults>>
       \/ Commit(d) /\ faults' = faults \cup {"ambiguous"}
    /\ Goto(d, "markFailed")
    /\ UNCHANGED <<now, idx, at, answer>>

\* markEventIdempotencyFailed: unconditional.
Fail(d) ==
    ledger' = [ledger EXCEPT ![Cur(d)] = [status |-> "failed", lock |-> NoLock]]

\* Faulty: the failure is counted as a skipped duplicate.
MarkFailedQuietly(d) ==
    /\ pc[d] = "markFailed"
    /\ Fail(d)
    /\ Count(d, "skipped")
    /\ UNCHANGED <<now, copies, idx, at, faults>>

MarkFailed(d) ==
    /\ pc[d] = "markFailed"
    /\ Fail(d)
    /\ Count(d, "failed")
    /\ UNCHANGED <<now, copies, idx, at, faults>>

----------------------------------------------------------------------------
(* The environment.                                                        *)

\* A call outside the try throws, applied or not: the request is rejected and
\* the rest of the batch is not looked at.
CallErrors(d) ==
    /\ \/ pc[d] \in {"find", "refind", "seen", "inflight"} /\ UNCHANGED ledger
       \/ /\ pc[d] = "claimFailed"
          /\ UNCHANGED ledger \/ (ledger[Cur(d)].status = "failed" /\ Reserve(d))
       \/ /\ pc[d] = "claimStale"
          /\ UNCHANGED ledger \/ (Stale(d) /\ Reserve(d))
       \/ pc[d] = "markFailed" /\ (UNCHANGED ledger \/ Fail(d))
    /\ Goto(d, "rejected")
    /\ UNCHANGED <<now, copies, idx, at, answer, faults>>

Crash(d) ==
    /\ pc[d] \notin Over
    /\ Goto(d, "crashed")
    /\ UNCHANGED <<now, ledger, copies, idx, at, answer, faults>>

Tick ==
    /\ now < MaxNow
    /\ now' = now + 1
    /\ UNCHANGED <<ledger, copies, pc, idx, at, answer, faults>>

Step(d) ==
    \/ NextEvent(d) \/ Answer(d)
    \/ Find(d) \/ Create(d) \/ Refind(d) \/ Seen(d) \/ ClaimFailed(d) \/ ClaimStale(d)
    \/ Persist(d) \/ PersistErrors(d) \/ MarkFailed(d)
    \/ CallErrors(d) \/ Crash(d)

Next == Tick \/ \E d \in Deliveries : Step(d)

Spec == Init /\ [][Next]_vars

----------------------------------------------------------------------------
(* Properties.                                                             *)

\* Every variable has its type.
TypeOK ==
    /\ now \in Nat
    /\ ledger \in [Keys -> LedgerRows]
    /\ copies \in [Keys -> Nat]
    /\ pc \in [Deliveries -> Phases]
    /\ idx \in [Deliveries -> Nat]
    /\ at \in [Deliveries -> Nat]
    /\ answer \in [Deliveries -> SUBSET (Keys \X Outcomes)]
    /\ faults \subseteq Faults

\* Neither a takeover of a delivery still at work nor a commit reported as an
\* error has happened.
NoSlip == faults \cap {"overtaken", "ambiguous"} = {}

\* What the ledger is for: an event delivered many times, concurrently, with
\* retries and crashes, is stored at most once.  The two faults of NoSlip are
\* exactly what it does not protect against.
AtMostOnce ==
    NoSlip => \A k \in Keys : copies[k] <= 1

\* Absent those faults a completed row stays completed: no late
\* markEventIdempotencyFailed and no late claim reopens it.
CompletedIsFinal ==
    [][\A k \in Keys :
        NoSlip' /\ ledger[k].status = "completed" => ledger'[k].status = "completed"]_vars

\* A sender told "duplicate" may forget the event: it is stored, whatever
\* faults have happened.
DuplicateAnswerIsTruthful ==
    \A d \in Deliveries, k \in Keys :
        <<k, "duplicate">> \in answer[d] => copies[k] >= 1

Carries(d, k) == \E i \in 1..Len(Batch[d]) : Batch[d][i] = k

\* A sender of k knows that it may be missing: its request was rejected or cut
\* off by a crash, or the answer counts k as failed.
Excused(k) ==
    \E d \in Deliveries :
        /\ Carries(d, k)
        /\ pc[d] \in {"rejected", "crashed"} \/ <<k, "failed">> \in answer[d]

\* When all deliveries are through, an event that is not stored was refused
\* to one of its senders, or lost with a crashed process: "skipped" answers
\* alone never lose it, except through a swallowed create error.
NoSilentLoss ==
    (\A d \in Deliveries : pc[d] \in Over) /\ "swallowed" \notin faults =>
        \A k \in Keys :
            (\E d \in Deliveries : Carries(d, k)) /\ copies[k] = 0 => Excused(k)

CompletedKeys == {k \in Keys : ledger[k].status = "completed"}

HoldersByKey == [k \in Keys |-> {d \in Deliveries : Holds(d, k)}]

\* The ledger, its phases and its locks implement the store of EventStore: among
\* others an event is stored by the delivery that took it last, and by no other
\* while that one is at work (reserveEventIdempotency, ingestOperationalEvents).
Store == INSTANCE EventStore WITH
    rows <- copies, kept <- CompletedKeys, holders <- HoldersByKey, told <- answer,
    slipped <- ~NoSlip
ImplementsEventStore == Store!Spec

\* "does not create a second operational_event for duplicate normalized
\* ingestion", without the proviso of AtMostOnce.
NeverTwice == \A k \in Keys : copies[k] <= 1

----------------------------------------------------------------------------
(* The inductive invariant behind AtMostOnce, CompletedIsFinal,            *)
(* DuplicateAnswerIsTruthful and NoSilentLoss.                             *)

\* A delivery between two events or over may be at either end of its batch;
\* in between it has a current event.
IndexIsValid ==
    \A d \in Deliveries :
        /\ idx[d] <= Len(Batch[d])
        /\ pc[d] \notin Over \cup {"next"} => idx[d] > 0

\* What is completed, or was read or answered as completed, is stored.
CompletedIsStored ==
    /\ \A k \in Keys : ledger[k].status = "completed" => copies[k] >= 1
    /\ \A d \in Deliveries : pc[d] = "seen" => copies[Cur(d)] >= 1
    /\ DuplicateAnswerIsTruthful

\* One holder at a time, and only while the event is not stored.
OneHolder ==
    \A k \in Keys, d \in Deliveries :
        Holds(d, k) =>
            /\ ledger[k].status = "processing"
            /\ \A e \in Deliveries : Holds(e, k) => e = d

StoredOnceCompleted ==
    \A k \in Keys : copies[k] = (IF ledger[k].status = "completed" THEN 1 ELSE 0)

\* Delivery d is past the create of its i-th event.
Passed(d, i) ==
    \/ i < idx[d]
    \/ i = idx[d] /\ pc[d] \notin {"find", "create", "rejected", "crashed"}

\* Once passed an event has a row, and an event with a row is stored, excused
\* or still at work in some delivery.
NothingIsForgotten ==
    /\ \A d \in Deliveries : \A i \in 1..Len(Batch[d]) :
          Passed(d, i) => ledger[Batch[d][i]] # Absent
    /\ \A k \in Keys : ledger[k] # Absent =>
          copies[k] >= 1 \/ Excused(k) \/ \E d \in Deliveries : Holds(d, k)

AnsweredIsThrough == \A d \in Deliveries : pc[d] = "answered" => idx[d] = Len(Batch[d])

LedgerInv ==
    /\ TypeOK
    /\ IndexIsValid
    /\ CompletedIsStored
    /\ AnsweredIsThrough
    /\ NoSlip => OneHolder /\ StoredOnceCompleted
    /\ "swallowed" \notin faults => NothingIsForgotten
=============================================================================
