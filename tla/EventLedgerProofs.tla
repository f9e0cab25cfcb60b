------------------------- MODULE EventLedgerProofs -------------------------
(***************************************************************************)
(* Proofs about EventLedger, for any keys, deliveries and batches: the     *)
(* inductive invariant LedgerInv, the properties that follow, and the      *)
(* refinement of EventStore.                                               *)
(***************************************************************************)
EXTENDS EventLedger, TLAPS

(* The current event of a delivery inside its batch is a key. *)
LEMMA CurIsKey ==
  ASSUME NEW d \in Deliveries, idx[d] \in Nat, idx[d] <= Len(Batch[d]), idx[d] > 0
  PROVE  Cur(d) \in Keys
  BY BatchAssumption DEF Cur

LEMMA InitLedgerInv == Init => LedgerInv
  BY BatchAssumption
  DEF Init, LedgerInv, TypeOK, LedgerRows, Statuses, Absent, NoLock, Phases, Over,
      Persisting, Faults, IndexIsValid, CompletedIsStored, DuplicateAnswerIsTruthful,
      OneHolder, Holds, StoredOnceCompleted, AnsweredIsThrough, NothingIsForgotten, Passed

(* What a reservation leaves in the ledger. *)
LEMMA ReserveRow ==
  ASSUME TypeOK, NEW d \in Deliveries, Cur(d) \in Keys, Reserve(d)
  PROVE  /\ ledger' \in [Keys -> LedgerRows]
         /\ ledger'[Cur(d)].status = "processing"
         /\ \A k \in Keys \ {Cur(d)} : ledger'[k] = ledger[k]
  BY TTLAssumption DEF TypeOK, LedgerRows, Statuses, Reserve

LEMMA FailRow ==
  ASSUME TypeOK, NEW d \in Deliveries, Cur(d) \in Keys, Fail(d)
  PROVE  /\ ledger' \in [Keys -> LedgerRows]
         /\ ledger'[Cur(d)].status = "failed"
         /\ \A k \in Keys \ {Cur(d)} : ledger'[k] = ledger[k]
  BY DEF TypeOK, LedgerRows, Statuses, Fail, NoLock

LEMMA CommitRow ==
  ASSUME TypeOK, NEW d \in Deliveries, Cur(d) \in Keys, Commit(d)
  PROVE  /\ ledger' \in [Keys -> LedgerRows] /\ copies' \in [Keys -> Nat]
         /\ ledger'[Cur(d)].status = "completed"
         /\ copies'[Cur(d)] = copies[Cur(d)] + 1
         /\ \A k \in Keys \ {Cur(d)} : ledger'[k] = ledger[k] /\ copies'[k] = copies[k]
  BY DEF TypeOK, LedgerRows, Statuses, Commit, NoLock

(* Counting adds one outcome, to one delivery, for its current key. *)
LEMMA CountAdds ==
  ASSUME TypeOK, NEW d \in Deliveries, Cur(d) \in Keys,
         NEW outcome \in Outcomes, Count(d, outcome)
  PROVE  /\ answer' \in [Deliveries -> SUBSET (Keys \X Outcomes)]
         /\ \A x \in Deliveries, k \in Keys, o \in Outcomes :
              <<k, o>> \in answer'[x] =>
                  \/ <<k, o>> \in answer[x]
                  \/ x = d /\ k = Cur(d) /\ o = outcome
         /\ pc' = [pc EXCEPT ![d] = "next"]
  <1>1. <<Cur(d), outcome>> \in Keys \X Outcomes
    OBVIOUS
  <1>2. pc' = [pc EXCEPT ![d] = "next"]
    BY DEF Count, Goto
  <1>3. /\ answer' = [answer EXCEPT ![d] = @ \cup {<<Cur(d), outcome>>}]
        /\ answer \in [Deliveries -> SUBSET (Keys \X Outcomes)]
    BY DEF Count, TypeOK
  <1>4. answer' \in [Deliveries -> SUBSET (Keys \X Outcomes)]
    BY <1>1, <1>3
  <1>5. ASSUME NEW x \in Deliveries, NEW k \in Keys, NEW o \in Outcomes,
               <<k, o>> \in answer'[x]
        PROVE  <<k, o>> \in answer[x] \/ (x = d /\ k = Cur(d) /\ o = outcome)
    BY <1>3, <1>5
  <1>6. QED
    BY <1>2, <1>4, <1>5

LEMMA BranchPhase ==
  ASSUME NEW d \in Deliveries
  PROVE  /\ Branch(d) \in {"seen", "claimFailed", "inflight", "claimStale"}
         /\ Branch(d) = "seen" => ledger[Cur(d)].status = "completed"
  BY DEF Branch

(* Every step keeps the types and the position in the batch. *)
LEMMA NextTypeOK == TypeOK /\ IndexIsValid /\ [Next]_vars => TypeOK' /\ IndexIsValid'
  <1> SUFFICES ASSUME TypeOK, IndexIsValid, [Next]_vars PROVE TypeOK' /\ IndexIsValid'
    OBVIOUS
  <1>1. CASE Tick
    BY <1>1 DEF Tick, TypeOK, IndexIsValid
  <1>2. CASE UNCHANGED vars
    BY <1>2 DEF vars, TypeOK, IndexIsValid
  <1>3. ASSUME NEW d \in Deliveries, Step(d) PROVE TypeOK' /\ IndexIsValid'
    <2>1. ASSUME NEW outcome \in Outcomes, Cur(d) \in Keys, Count(d, outcome)
            PROVE  /\ answer' \in [Deliveries -> SUBSET (Keys \X Outcomes)]
                   /\ pc' = [pc EXCEPT ![d] = "next"]
      BY <2>1, CountAdds
    <2>2. /\ pc[d] \in Phases /\ idx[d] \in Nat /\ at[d] \in Nat
          /\ pc[d] \notin Over \cup {"next"} => Cur(d) \in Keys
      BY CurIsKey DEF TypeOK, IndexIsValid
    <2>3. \A x \in Deliveries : Len(Batch[x]) \in Nat
      BY BatchAssumption
    <2> USE <2>1, <2>2, <2>3 DEF Goto, Phases, Persisting, Over, IndexIsValid
    <2>4. CASE NextEvent(d)
      BY <2>4 DEF NextEvent, TypeOK
    <2>5. CASE Answer(d)
      BY <2>5 DEF Answer, TypeOK
    <2>6. CASE Find(d)
      BY <2>6, BranchPhase DEF Find, TypeOK
    <2>7. CASE Create(d)
      BY <2>7, ReserveRow DEF Create, TypeOK, Faults
    <2>8. CASE Refind(d)
      BY <2>8, BranchPhase DEF Refind, TypeOK, Outcomes
    <2>9. CASE Seen(d)
      BY <2>9 DEF Seen, TypeOK, Outcomes
    <2>10. CASE ClaimFailed(d)
      BY <2>10, ReserveRow DEF ClaimFailed, TypeOK, Outcomes
    <2>11. CASE ClaimStale(d)
      BY <2>11, ReserveRow DEF ClaimStale, TypeOK, Outcomes, Faults
    <2>12. CASE Persist(d)
      BY <2>12, CommitRow DEF Persist, TypeOK, Outcomes
    <2>13. CASE PersistErrors(d)
      BY <2>13, CommitRow DEF PersistErrors, TypeOK, Faults
    <2>14. CASE MarkFailed(d)
      BY <2>14, FailRow DEF MarkFailed, TypeOK, Outcomes
    <2>15. CASE CallErrors(d)
      BY <2>15, ReserveRow, FailRow DEF CallErrors, TypeOK
    <2>16. CASE Crash(d)
      BY <2>16 DEF Crash, TypeOK
    <2>17. QED
      BY <1>3, <2>4, <2>5, <2>6, <2>7, <2>8, <2>9, <2>10, <2>11, <2>12, <2>13, <2>14, <2>15, <2>16 DEF Step
  <1>4. QED
    BY <1>1, <1>2, <1>3 DEF Next

(* What a step of a delivery does to its key and to nothing else.          *)
LEMMA StepEffect ==
  ASSUME TypeOK, IndexIsValid, NEW d \in Deliveries, Step(d)
  PROVE  /\ \A x \in Deliveries \ {d} : pc'[x] = pc[x] /\ Cur(x)' = Cur(x)
         /\ \/ UNCHANGED idx
            \/ pc'[d] = "find" /\ UNCHANGED <<ledger, copies, faults, answer>>
         /\ \A k \in Keys : copies'[k] = copies[k] \/ copies'[k] = copies[k] + 1
  <1>1. /\ pc[d] \in Phases /\ idx[d] \in Nat
        /\ pc[d] \notin Over \cup {"next"} => Cur(d) \in Keys
    BY CurIsKey DEF TypeOK, IndexIsValid
  <1> USE <1>1 DEF Goto, Count, TypeOK, Over
  <1>2. CASE NextEvent(d)
    BY <1>2 DEF NextEvent, Cur
  <1>3. CASE Answer(d) \/ Seen(d) \/ Crash(d)
    BY <1>3 DEF Answer, Seen, Crash, Cur
  <1>4. CASE Find(d) \/ Refind(d) \/ Create(d)
    BY <1>4 DEF Find, Refind, Create, Cur
  <1>5. CASE ClaimFailed(d) \/ ClaimStale(d)
    BY <1>5 DEF ClaimFailed, ClaimStale, Cur
  <1>6. CASE Persist(d) \/ PersistErrors(d)
    <2>1. UNCHANGED idx /\ \A x \in Deliveries \ {d} : pc'[x] = pc[x] /\ Cur(x)' = Cur(x)
      BY <1>6 DEF Persist, PersistErrors, Cur
    <2>2. \A k \in Keys : copies'[k] = copies[k] \/ copies'[k] = copies[k] + 1
      BY <1>6, CommitRow DEF Persist, PersistErrors
    <2>3. QED
      BY <2>1, <2>2
  <1>7. CASE MarkFailed(d) \/ CallErrors(d)
    BY <1>7 DEF MarkFailed, CallErrors, Cur
  <1>8. QED
    BY <1>2, <1>3, <1>4, <1>5, <1>6, <1>7 DEF Step

(* What is completed stays stored, and "duplicate" is answered only for it. *)
LEMMA NextCompletedIsStored ==
  ASSUME TypeOK, IndexIsValid, CompletedIsStored, [Next]_vars
  PROVE  CompletedIsStored'
  <1>1. CASE Tick
    BY <1>1 DEF Tick, CompletedIsStored, DuplicateAnswerIsTruthful, Cur
  <1>2. CASE UNCHANGED vars
    BY <1>2 DEF vars, CompletedIsStored, DuplicateAnswerIsTruthful, Cur
  <1>3. ASSUME NEW d \in Deliveries, Step(d) PROVE CompletedIsStored'
    <2>1. /\ pc[d] \in Phases
          /\ \A x \in Deliveries : pc[x] \notin Over \cup {"next"} => Cur(x) \in Keys
      BY CurIsKey DEF TypeOK, IndexIsValid
    <2>2. \A k \in Keys : copies[k] >= 1 => copies'[k] >= 1
      BY <1>3, StepEffect DEF TypeOK
    <2>3. \A k \in Keys : ledger'[k].status = "completed" =>
                             ledger[k].status = "completed" \/ copies'[k] >= 1
      <3> USE <2>1 DEF Over
      <3>1. CASE Create(d) \/ ClaimFailed(d) \/ ClaimStale(d)
        BY <3>1, ReserveRow DEF Create, ClaimFailed, ClaimStale
      <3>2. CASE Persist(d) \/ PersistErrors(d)
        BY <3>2, CommitRow DEF Persist, PersistErrors, TypeOK
      <3>3. CASE MarkFailed(d) \/ CallErrors(d)
        BY <3>3, FailRow, ReserveRow DEF MarkFailed, CallErrors
      <3>4. CASE NextEvent(d) \/ Answer(d) \/ Find(d) \/ Refind(d) \/ Seen(d) \/ Crash(d)
        BY <3>4 DEF NextEvent, Answer, Find, Refind, Seen, Crash
      <3>5. QED
        BY <1>3, <3>1, <3>2, <3>3, <3>4 DEF Step
    <2>4. pc'[d] = "seen" => /\ ledger[Cur(d)].status = "completed"
                             /\ Cur(d) \in Keys /\ Cur(d)' = Cur(d)
      BY <1>3, <2>1, BranchPhase
      DEF Step, NextEvent, Answer, Find, Create, Refind, Seen, ClaimFailed, ClaimStale,
          Persist, PersistErrors, MarkFailed, CallErrors, Crash, Goto, Count, Over, Cur, TypeOK
    <2>5. \A x \in Deliveries, k \in Keys :
            <<k, "duplicate">> \in answer'[x] =>
                <<k, "duplicate">> \in answer[x] \/ (k = Cur(d) /\ pc[d] = "seen")
      <3>1. CASE pc[d] = "seen" /\ Count(d, "duplicate")
        BY <3>1, <2>1, CountAdds DEF Outcomes, Over
      <3>2. ASSUME NEW o \in Outcomes \ {"duplicate"}, Count(d, o),
                   pc[d] \notin Over \cup {"next"}
            PROVE  \A x \in Deliveries, k \in Keys :
                     <<k, "duplicate">> \in answer'[x] => <<k, "duplicate">> \in answer[x]
        <4>1. \A x \in Deliveries, k \in Keys, p \in Outcomes :
                <<k, p>> \in answer'[x] => <<k, p>> \in answer[x] \/ p = o
          BY <3>2, <2>1, CountAdds
        <4>2. "duplicate" \in Outcomes
          BY DEF Outcomes
        <4>3. QED
          BY <3>2, <4>1, <4>2
      <3>3. CASE UNCHANGED answer
        BY <3>3
      <3>4. \/ UNCHANGED answer
            \/ pc[d] = "seen" /\ Count(d, "duplicate")
            \/ \E o \in Outcomes \ {"duplicate"} :
                 Count(d, o) /\ pc[d] \notin Over \cup {"next"}
        BY <1>3
        DEF Step, NextEvent, Answer, Find, Create, Refind, Seen, ClaimFailed, ClaimStale,
            Persist, PersistErrors, MarkFailed, CallErrors, Crash, Outcomes, Over
      <3>5. QED
        BY <3>1, <3>2, <3>3, <3>4
    <2>6. \A x \in Deliveries \ {d} : pc'[x] = pc[x] /\ Cur(x)' = Cur(x)
      BY <1>3, StepEffect
    <2>7. \A k \in Keys : ledger'[k].status = "completed" => copies'[k] >= 1
      BY <2>2, <2>3 DEF CompletedIsStored
    <2>8. \A x \in Deliveries : pc'[x] = "seen" => copies'[Cur(x)'] >= 1
      BY <2>1, <2>2, <2>4, <2>6 DEF CompletedIsStored, Over
    <2>9. DuplicateAnswerIsTruthful'
      BY <2>1, <2>2, <2>5 DEF CompletedIsStored, DuplicateAnswerIsTruthful, Over
    <2>10. QED
      BY <2>7, <2>8, <2>9 DEF CompletedIsStored
  <1>4. QED
    BY <1>1, <1>2, <1>3 DEF Next

(* Absent the two faults, one delivery at a time holds a key and its event *)
(* is stored exactly when the ledger says completed.                       *)
Exclusive == OneHolder /\ StoredOnceCompleted

(* A delivery takes the key: nobody holds it and it is not stored. *)
LEMMA ReserveKeepsExclusive ==
  ASSUME TypeOK, IndexIsValid, Exclusive,
         NEW d \in Deliveries, pc[d] \notin Over \cup {"next"},
         \A x \in Deliveries \ {d} : ~Holds(x, Cur(d)),
         ledger[Cur(d)].status # "completed",
         Reserve(d), UNCHANGED <<copies, idx>>,
         \A x \in Deliveries \ {d} : pc'[x] = pc[x]
  PROVE  Exclusive'
  <1>1. Cur(d) \in Keys /\ \A x \in Deliveries : Cur(x)' = Cur(x)
    BY CurIsKey DEF TypeOK, IndexIsValid, Cur
  <1>2. /\ ledger'[Cur(d)].status = "processing"
        /\ \A k \in Keys \ {Cur(d)} : ledger'[k] = ledger[k]
    BY <1>1, ReserveRow
  <1>3. StoredOnceCompleted'
    BY <1>1, <1>2 DEF Exclusive, StoredOnceCompleted
  <1>4. \A x \in Deliveries \ {d}, k \in Keys : Holds(x, k)' <=> Holds(x, k)
    BY <1>1 DEF Holds
  <1>5. \A k \in Keys : Holds(d, k)' => k = Cur(d)
    BY <1>1 DEF Holds
  <1>6. OneHolder'
    <2> SUFFICES ASSUME NEW k \in Keys, NEW x \in Deliveries, Holds(x, k)'
                 PROVE  /\ ledger'[k].status = "processing"
                        /\ \A e \in Deliveries : Holds(e, k)' => e = x
      BY DEF OneHolder
    <2>1. CASE k = Cur(d)
      BY <2>1, <1>2, <1>4
    <2>2. CASE k # Cur(d)
      BY <2>2, <1>2, <1>4, <1>5 DEF Exclusive, OneHolder
    <2>3. QED
      BY <2>1, <2>2
  <1>7. QED
    BY <1>3, <1>6 DEF Exclusive

LEMMA NextExclusive ==
  ASSUME TypeOK, IndexIsValid, NoSlip => Exclusive, [Next]_vars
  PROVE  NoSlip' => Exclusive'
  <1> SUFFICES ASSUME NoSlip' PROVE Exclusive'
    OBVIOUS
  <1>1. CASE Tick \/ UNCHANGED vars
    BY <1>1 DEF Tick, vars, NoSlip, Exclusive, OneHolder, StoredOnceCompleted, Holds, Cur
  <1>2. ASSUME NEW d \in Deliveries, Step(d) PROVE Exclusive'
    <2>1. faults \subseteq faults'
      BY <1>2
      DEF Step, NextEvent, Answer, Find, Create, Refind, Seen, ClaimFailed, ClaimStale,
          Persist, PersistErrors, MarkFailed, CallErrors, Crash
    <2>2. Exclusive
      BY <2>1 DEF NoSlip
    <2>3. /\ pc[d] \in Phases /\ pc \in [Deliveries -> Phases]
          /\ pc[d] \notin Over \cup {"next"} => Cur(d) \in Keys
      BY CurIsKey DEF TypeOK, IndexIsValid
    <2>4. \A x \in Deliveries \ {d} : pc'[x] = pc[x] /\ Cur(x)' = Cur(x)
      BY <1>2, StepEffect
    <2>5. \A x \in Deliveries \ {d}, k \in Keys : Holds(x, k)' <=> Holds(x, k)
      BY <2>4 DEF Holds
    <2> USE <2>2, <2>3
    <2>6. ASSUME pc[d] \notin Over \cup {"next"}, Reserve(d), UNCHANGED <<copies, idx>>,
                 \A x \in Deliveries \ {d} : ~Holds(x, Cur(d)),
                 ledger[Cur(d)].status # "completed"
          PROVE  Exclusive'
      BY <2>4, <2>6, ReserveKeepsExclusive
    <2>7. ASSUME UNCHANGED <<ledger, copies>>, pc'[d] \notin Persisting
          PROVE  Exclusive'
      <3>1. \A k \in Keys : ~Holds(d, k)'
        BY <2>7 DEF Holds
      <3>2. QED
        BY <3>1, <2>5, <2>7 DEF Exclusive, OneHolder, StoredOnceCompleted
    <2>8. CASE NextEvent(d) \/ Answer(d) \/ Find(d) \/ Refind(d) \/ Seen(d) \/ Crash(d)
      BY <2>7, <2>8, BranchPhase
      DEF NextEvent, Answer, Find, Refind, Seen, Crash, Goto, Count, Persisting
    <2>9. CASE Create(d)
      <3>1. CASE ledger[Cur(d)] = Absent /\ Reserve(d)
        <4>1. \A x \in Deliveries \ {d} : ~Holds(x, Cur(d))
          BY <2>9, <3>1 DEF Create, Over, Exclusive, OneHolder, Absent
        <4>2. QED
          BY <2>6, <2>9, <3>1, <4>1 DEF Create, Over, Absent
      <3>2. CASE UNCHANGED ledger /\ Goto(d, "refind")
        BY <2>7, <2>9, <3>2 DEF Create, Goto, Persisting
      <3>3. QED
        BY <2>9, <3>1, <3>2 DEF Create
    <2>10. CASE ClaimFailed(d)
      <3>1. CASE ledger[Cur(d)].status = "failed"
        <4>1. \A x \in Deliveries \ {d} : ~Holds(x, Cur(d))
          BY <2>10, <3>1 DEF ClaimFailed, Over, Exclusive, OneHolder
        <4>2. QED
          BY <2>6, <2>10, <3>1, <4>1 DEF ClaimFailed, Over
      <3>2. CASE ledger[Cur(d)].status # "failed"
        BY <2>7, <2>10, <3>2 DEF ClaimFailed, Goto, Count, Persisting
      <3>3. QED
        BY <3>1, <3>2
    <2>11. CASE ClaimStale(d)
      <3>1. CASE Stale(d)
        <4>1. \A x \in Deliveries \ {d} : ~Holds(x, Cur(d))
          BY <2>11, <3>1 DEF ClaimStale, NoSlip
        <4>2. QED
          BY <2>6, <2>11, <3>1, <4>1 DEF ClaimStale, Stale, Over
      <3>2. CASE ~Stale(d)
        BY <2>7, <2>11, <3>2 DEF ClaimStale, Goto, Count, Persisting
      <3>3. QED
        BY <3>1, <3>2
    <2>12. CASE Persist(d)
      <3>1. /\ Holds(d, Cur(d)) /\ Cur(d) \in Keys
            /\ ledger[Cur(d)].status = "processing" /\ copies[Cur(d)] = 0
        BY <2>12 DEF Persist, Holds, Persisting, Over, Exclusive, OneHolder, StoredOnceCompleted
      <3>2. /\ ledger'[Cur(d)].status = "completed" /\ copies'[Cur(d)] = 1
            /\ \A k \in Keys \ {Cur(d)} : ledger'[k] = ledger[k] /\ copies'[k] = copies[k]
        BY <2>12, <3>1, CommitRow DEF Persist
      <3>3. StoredOnceCompleted'
        BY <3>2 DEF Exclusive, StoredOnceCompleted
      <3>4. \A k \in Keys : ~Holds(d, k)'
        BY <2>12 DEF Persist, Count, Goto, Holds, Persisting
      <3>5. \A x \in Deliveries \ {d} : ~Holds(x, Cur(d))
        BY <3>1 DEF Exclusive, OneHolder
      <3>6. OneHolder'
        BY <2>5, <3>2, <3>4, <3>5 DEF Exclusive, OneHolder
      <3>7. QED
        BY <3>3, <3>6 DEF Exclusive
    <2>13. CASE PersistErrors(d)
      <3>1. UNCHANGED <<ledger, copies, idx>> /\ Goto(d, "markFailed")
        BY <2>13 DEF PersistErrors, NoSlip
      <3>2. \A k \in Keys : Holds(d, k)' => Holds(d, k)
        BY <2>13, <3>1 DEF PersistErrors, Goto, Holds, Persisting, Cur
      <3>3. OneHolder'
        BY <2>5, <3>1, <3>2 DEF Exclusive, OneHolder
      <3>4. QED
        BY <3>1, <3>3 DEF Exclusive, StoredOnceCompleted
    <2>14. ASSUME pc[d] = "markFailed", Fail(d), UNCHANGED copies, pc'[d] \notin Persisting
           PROVE  Exclusive'
      <3>1. /\ Holds(d, Cur(d)) /\ Cur(d) \in Keys /\ ledger[Cur(d)].status = "processing"
        BY <2>14 DEF Holds, Persisting, Over, Exclusive, OneHolder
      <3>2. /\ ledger'[Cur(d)].status = "failed"
            /\ \A k \in Keys \ {Cur(d)} : ledger'[k] = ledger[k]
        BY <2>14, <3>1, FailRow
      <3>3. StoredOnceCompleted'
        BY <2>14, <3>1, <3>2 DEF Exclusive, StoredOnceCompleted
      <3>4. \A k \in Keys : ~Holds(d, k)'
        BY <2>14 DEF Holds
      <3>5. \A x \in Deliveries \ {d} : ~Holds(x, Cur(d))
        BY <3>1 DEF Exclusive, OneHolder
      <3>6. OneHolder'
        BY <2>5, <3>2, <3>4, <3>5 DEF Exclusive, OneHolder
      <3>7. QED
        BY <3>3, <3>6 DEF Exclusive
    <2>15. CASE MarkFailed(d)
      BY <2>14, <2>15 DEF MarkFailed, Count, Goto, Persisting
    <2>16. CASE CallErrors(d)
      <3>1. pc'[d] \notin Persisting /\ UNCHANGED <<copies, idx>>
        BY <2>16 DEF CallErrors, Goto, Persisting
      <3>2. CASE UNCHANGED ledger
        BY <2>7, <3>1, <3>2
      <3>3. CASE pc[d] = "markFailed" /\ Fail(d)
        BY <2>14, <3>1, <3>3
      <3>4. CASE pc[d] \in {"claimFailed", "claimStale"} /\ Reserve(d)
                 /\ ledger[Cur(d)].status \in {"failed", "processing"}
        <4>1. Cur(d) \in Keys
          BY <3>4 DEF Over
        <4>2. /\ ledger'[Cur(d)].status = "processing"
              /\ \A k \in Keys \ {Cur(d)} : ledger'[k] = ledger[k]
          BY <3>4, <4>1, ReserveRow
        <4>3. StoredOnceCompleted'
          BY <3>1, <3>4, <4>2 DEF Exclusive, StoredOnceCompleted
        <4>4. \A k \in Keys : ~Holds(d, k)'
          BY <3>1 DEF Holds
        <4>5. OneHolder'
          BY <2>5, <4>2, <4>4 DEF Exclusive, OneHolder
        <4>6. QED
          BY <4>3, <4>5 DEF Exclusive
      <3>5. QED
        BY <2>16, <3>2, <3>3, <3>4 DEF CallErrors, Stale
    <2>17. QED
      BY <1>2, <2>8, <2>9, <2>10, <2>11, <2>12, <2>13, <2>15, <2>16 DEF Step
  <1>3. QED
    BY <1>1, <1>2 DEF Next

(* A key with a row keeps one, and only the key at hand gets one.          *)
LEMMA RowsAreKept ==
  ASSUME TypeOK, IndexIsValid, NEW d \in Deliveries, Step(d)
  PROVE  /\ \A k \in Keys : ledger[k] # Absent => ledger'[k] # Absent
         /\ \A k \in Keys : ledger'[k] # ledger[k] => k = Cur(d) /\ pc[d] \notin Over \cup {"next"}
  <1>1. pc[d] \in Phases /\ (pc[d] \notin Over \cup {"next"} => Cur(d) \in Keys)
    BY CurIsKey DEF TypeOK, IndexIsValid
  <1> USE <1>1 DEF Over, Absent
  <1>2. CASE NextEvent(d) \/ Answer(d) \/ Find(d) \/ Refind(d) \/ Seen(d) \/ Crash(d)
    BY <1>2 DEF NextEvent, Answer, Find, Refind, Seen, Crash
  <1>3. CASE Create(d)
    BY <1>3, ReserveRow DEF Create
  <1>4. CASE ClaimFailed(d)
    BY <1>4, ReserveRow DEF ClaimFailed
  <1>5. CASE ClaimStale(d)
    BY <1>5, ReserveRow DEF ClaimStale, Stale
  <1>6. CASE Persist(d) \/ PersistErrors(d)
    BY <1>6, CommitRow DEF Persist, PersistErrors
  <1>7. CASE MarkFailed(d) \/ CallErrors(d)
    BY <1>7, FailRow, ReserveRow DEF MarkFailed, CallErrors, Stale
  <1>8. QED
    BY <1>2, <1>3, <1>4, <1>5, <1>6, <1>7 DEF Step

(* An event of its batch that d leaves is carried by d. *)
LEMMA CurIsCarried ==
  ASSUME IndexIsValid, TypeOK, NEW d \in Deliveries, pc[d] \notin Over \cup {"next"}
  PROVE  Carries(d, Cur(d))
  <1>1. idx[d] \in 1..Len(Batch[d])
    BY BatchAssumption DEF TypeOK, IndexIsValid
  <1>2. QED
    BY <1>1 DEF Carries, Cur

(* An excuse stays one. *)
LEMMA ExcusesAreKept ==
  ASSUME TypeOK, IndexIsValid, NEW d \in Deliveries, Step(d), NEW k \in Keys, Excused(k)
  PROVE  Excused(k)'
  <1>1. pc[d] \notin Over
    BY DEF Step, NextEvent, Answer, Find, Create, Refind, Seen, ClaimFailed, ClaimStale,
           Persist, PersistErrors, MarkFailed, CallErrors, Crash, Over
  <1>2. \A x \in Deliveries \ {d} : pc'[x] = pc[x]
    BY StepEffect
  <1>3. ASSUME NEW o \in Outcomes, Count(d, o)
        PROVE  \A x \in Deliveries : answer[x] \subseteq answer'[x]
    BY <1>3 DEF Count, TypeOK
  <1>4. UNCHANGED answer \/ \E o \in Outcomes : Count(d, o)
    BY DEF Step, NextEvent, Answer, Find, Create, Refind, Seen, ClaimFailed, ClaimStale,
           Persist, PersistErrors, MarkFailed, CallErrors, Crash, Outcomes
  <1>5. \A x \in Deliveries : answer[x] \subseteq answer'[x]
    BY <1>3, <1>4
  <1>6. QED
    BY <1>1, <1>2, <1>5 DEF Excused, Carries, Over

(* A delivery leaves an event that it held, or for which it wrote a row,   *)
(* stored or excused.                                                      *)
LEMMA HeldIsCared ==
  ASSUME TypeOK, IndexIsValid, NEW d \in Deliveries, Step(d), "swallowed" \notin faults',
         NEW k \in Keys, k = Cur(d), Holds(d, k) \/ ledger'[k] # ledger[k]
  PROVE  copies'[k] >= 1 \/ Excused(k)' \/ Holds(d, k)'
  <1>1. pc[d] \in Phases /\ pc \in [Deliveries -> Phases] /\ pc[d] \notin Over \cup {"next"}
    BY RowsAreKept DEF TypeOK, Holds, Persisting, Over
  <1>2. Carries(d, k)'
    BY <1>1, CurIsCarried DEF Carries
  <1>3. pc'[d] \in {"rejected", "crashed"} => Excused(k)'
    BY <1>2 DEF Excused
  <1>4. pc'[d] \in Persisting /\ UNCHANGED idx => Holds(d, k)'
    BY DEF Holds, Cur
  <1> USE <1>1 DEF Over, Goto
  <1>5. CASE NextEvent(d) \/ Answer(d) \/ Find(d) \/ Refind(d) \/ Seen(d)
    BY <1>5 DEF NextEvent, Answer, Find, Refind, Seen, Holds, Persisting
  <1>6. CASE Crash(d) \/ CallErrors(d)
    BY <1>6, <1>3 DEF Crash, CallErrors
  <1>7. CASE Create(d)
    BY <1>7, <1>4 DEF Create, Holds, Persisting
  <1>8. CASE ClaimFailed(d) \/ ClaimStale(d)
    BY <1>8, <1>4 DEF ClaimFailed, ClaimStale, Holds, Persisting
  <1>9. CASE Persist(d)
    BY <1>9, CommitRow DEF Persist, TypeOK
  <1>10. CASE PersistErrors(d)
    BY <1>10, <1>4 DEF PersistErrors, Persisting
  <1>11. CASE MarkFailed(d)
    <2>1. Count(d, "failed")
      BY <1>11 DEF MarkFailed
    <2>2. <<k, "failed">> \in answer'[d]
      BY <2>1 DEF Count, TypeOK
    <2>3. QED
      BY <1>2, <2>2 DEF Excused
  <1>12. QED
    BY <1>5, <1>6, <1>7, <1>8, <1>9, <1>10, <1>11 DEF Step

(* A delivery passes an event only with a row in the ledger. *)
LEMMA PassedHasRow ==
  ASSUME TypeOK, IndexIsValid, NothingIsForgotten, NEW d \in Deliveries, Step(d),
         "swallowed" \notin faults', NEW i \in 1..Len(Batch[d]), Passed(d, i)'
  PROVE  ledger'[Batch[d][i]] # Absent
  <1>1. /\ pc[d] \in Phases /\ pc \in [Deliveries -> Phases]
        /\ idx \in [Deliveries -> Nat] /\ i \in Nat /\ Batch[d][i] \in Keys
    BY BatchAssumption DEF TypeOK
  <1>2. CASE Passed(d, i)
    BY <1>1, <1>2, RowsAreKept DEF NothingIsForgotten
  <1>3. CASE ~Passed(d, i)
    <2> USE <1>1, <1>3 DEF Goto, Passed
    <2>1. CASE NextEvent(d)
      BY <2>1 DEF NextEvent
    <2>2. CASE Answer(d)
      BY <2>2 DEF Answer
    <2>3. CASE Find(d)
      <3>1. pc'[d] # "create" /\ i = idx[d]
        BY <2>3 DEF Find
      <3>2. ledger[Cur(d)] # Absent
        BY <2>3, <3>1 DEF Find
      <3>3. QED
        BY <2>3, <3>1, <3>2 DEF Find, Cur
    <2>4. CASE Create(d)
      <3>1. i = idx[d] /\ Batch[d][i] = Cur(d)
        BY <2>4 DEF Create, Cur
      <3>2. ledger'[Cur(d)] # Absent
        BY <2>4, <3>1, ReserveRow DEF Create, Absent
      <3>3. QED
        BY <3>1, <3>2
    <2>5. CASE Refind(d) \/ Seen(d)
      BY <2>5 DEF Refind, Seen, Count
    <2>6. CASE ClaimFailed(d) \/ ClaimStale(d)
      BY <2>6 DEF ClaimFailed, ClaimStale, Count
    <2>7. CASE Persist(d) \/ PersistErrors(d) \/ MarkFailed(d)
      BY <2>7 DEF Persist, PersistErrors, MarkFailed, Count
    <2>8. CASE CallErrors(d) \/ Crash(d)
      BY <2>8 DEF CallErrors, Crash
    <2>9. QED
      BY <2>1, <2>2, <2>3, <2>4, <2>5, <2>6, <2>7, <2>8 DEF Step
  <1>4. QED
    BY <1>2, <1>3

(* What has a row stays cared for, and what is passed has a row. *)
LEMMA NextNothingIsForgotten ==
  ASSUME TypeOK, IndexIsValid, "swallowed" \notin faults => NothingIsForgotten, [Next]_vars
  PROVE  "swallowed" \notin faults' => NothingIsForgotten'
  <1> SUFFICES ASSUME "swallowed" \notin faults' PROVE NothingIsForgotten'
    OBVIOUS
  <1>1. CASE Tick \/ UNCHANGED vars
    BY <1>1 DEF Tick, vars, NothingIsForgotten, Passed, Excused, Carries, Holds, Cur
  <1>2. ASSUME NEW d \in Deliveries, Step(d) PROVE NothingIsForgotten'
    <2>1. faults \subseteq faults'
      BY <1>2
      DEF Step, NextEvent, Answer, Find, Create, Refind, Seen, ClaimFailed, ClaimStale,
          Persist, PersistErrors, MarkFailed, CallErrors, Crash
    <2>2. NothingIsForgotten
      BY <2>1
    <2>3. \A x \in Deliveries \ {d} : pc'[x] = pc[x] /\ Cur(x)' = Cur(x) /\ idx'[x] = idx[x]
      BY <1>2, StepEffect
      DEF TypeOK, Step, NextEvent, Answer, Find, Create, Refind, Seen, ClaimFailed, ClaimStale,
          Persist, PersistErrors, MarkFailed, CallErrors, Crash
    <2>4. ASSUME NEW x \in Deliveries, NEW i \in 1..Len(Batch[x]), Passed(x, i)'
          PROVE  ledger'[Batch[x][i]] # Absent
      <3>1. CASE x = d
        BY <1>2, <2>2, <2>4, <3>1, PassedHasRow
      <3>2. CASE x # d
        <4>1. Passed(x, i) /\ Batch[x][i] \in Keys
          BY <2>3, <2>4, <3>2, BatchAssumption DEF Passed
        <4>2. QED
          BY <1>2, <2>2, <4>1, RowsAreKept DEF NothingIsForgotten
      <3>3. QED
        BY <3>1, <3>2
    <2>5. ASSUME NEW k \in Keys, ledger'[k] # Absent
          PROVE  copies'[k] >= 1 \/ Excused(k)' \/ \E x \in Deliveries : Holds(x, k)'
      <3>1. CASE ledger'[k] # ledger[k]
        BY <1>2, <3>1, RowsAreKept, HeldIsCared
      <3>2. CASE ledger'[k] = ledger[k]
        <4>1. copies[k] >= 1 \/ Excused(k) \/ \E x \in Deliveries : Holds(x, k)
          BY <2>2, <2>5, <3>2 DEF NothingIsForgotten
        <4>2. copies[k] >= 1 => copies'[k] >= 1
          BY <1>2, StepEffect DEF TypeOK
        <4>3. Excused(k) => Excused(k)'
          BY <1>2, ExcusesAreKept
        <4>4. ASSUME NEW x \in Deliveries, Holds(x, k), x # d PROVE Holds(x, k)'
          BY <2>3, <4>4 DEF Holds
        <4>5. Holds(d, k) => copies'[k] >= 1 \/ Excused(k)' \/ Holds(d, k)'
          BY <1>2, HeldIsCared DEF Holds
        <4>6. QED
          BY <4>1, <4>2, <4>3, <4>4, <4>5
      <3>3. QED
        BY <3>1, <3>2
    <2>6. QED
      BY <2>4, <2>5 DEF NothingIsForgotten
  <1>3. QED
    BY <1>1, <1>2 DEF Next

LEMMA NextAnsweredIsThrough ==
  ASSUME TypeOK, AnsweredIsThrough, [Next]_vars
  PROVE  AnsweredIsThrough'
  <1>1. CASE Tick \/ UNCHANGED vars
    BY <1>1 DEF Tick, vars, AnsweredIsThrough
  <1>2. ASSUME NEW d \in Deliveries, Step(d) PROVE AnsweredIsThrough'
    <2> USE DEF TypeOK, AnsweredIsThrough, Goto, Count
    <2>1. CASE NextEvent(d) \/ Answer(d) \/ Find(d) \/ Create(d) \/ Refind(d) \/ Seen(d)
      <3>1. \A x \in {"create", "seen", "claimFailed", "inflight", "claimStale"} : x # "answered"
        OBVIOUS
      <3>2. QED
        BY <2>1, <3>1, BranchPhase DEF NextEvent, Answer, Find, Create, Refind, Seen
    <2>2. CASE ClaimFailed(d) \/ ClaimStale(d) \/ Persist(d) \/ PersistErrors(d) \/ MarkFailed(d)
      BY <2>2 DEF ClaimFailed, ClaimStale, Persist, PersistErrors, MarkFailed
    <2>3. CASE CallErrors(d) \/ Crash(d)
      BY <2>3 DEF CallErrors, Crash
    <2>4. QED
      BY <1>2, <2>1, <2>2, <2>3 DEF Step
  <1>3. QED
    BY <1>1, <1>2 DEF Next

----------------------------------------------------------------------------
(* The theorems.                                                           *)

(* The inductive invariant of the ledger holds in every reachable state.   *)
THEOREM LedgerInvariant == Spec => []LedgerInv
  <1>1. LedgerInv /\ [Next]_vars => LedgerInv'
    BY NextTypeOK, NextCompletedIsStored, NextExclusive, NextAnsweredIsThrough,
       NextNothingIsForgotten DEF LedgerInv, Exclusive
  <1>2. QED
    BY <1>1, InitLedgerInv, PTL DEF Spec

(* ingestOperationalEvents stores an event at most once, unless a delivery *)
(* at work is overtaken or a commit is reported as an error.               *)
THEOREM StoredAtMostOnce == Spec => []AtMostOnce
  <1>1. LedgerInv => AtMostOnce
    BY DEF LedgerInv, StoredOnceCompleted, AtMostOnce
  <1>2. QED
    BY <1>1, LedgerInvariant, PTL

(* An event answered as duplicate_completed is stored. *)
THEOREM DuplicateMeansStored == Spec => []DuplicateAnswerIsTruthful
  <1>1. LedgerInv => DuplicateAnswerIsTruthful
    BY DEF LedgerInv, CompletedIsStored
  <1>2. QED
    BY <1>1, LedgerInvariant, PTL

(* Absent those faults no step takes a completed row back. *)
THEOREM CompletedStaysCompleted == Spec => CompletedIsFinal
  <1>1. LedgerInv /\ LedgerInv' /\ [Next]_vars =>
          [\A k \in Keys :
            NoSlip' /\ ledger[k].status = "completed" => ledger'[k].status = "completed"]_vars
    <2> SUFFICES ASSUME LedgerInv, LedgerInv', [Next]_vars, NEW k \in Keys, NoSlip',
                        ledger[k].status = "completed"
                 PROVE  ledger'[k].status = "completed"
      OBVIOUS
    <2>1. copies'[k] >= copies[k]
      <3>1. CASE Tick \/ UNCHANGED vars
        BY <3>1 DEF Tick, vars, LedgerInv, TypeOK
      <3>2. ASSUME NEW d \in Deliveries, Step(d) PROVE copies'[k] >= copies[k]
        BY <3>2, StepEffect DEF LedgerInv, TypeOK
      <3>3. QED
        BY <3>1, <3>2 DEF Next
    <2>2. copies[k] >= 1
      BY DEF LedgerInv, CompletedIsStored
    <2>3. QED
      BY <2>1, <2>2 DEF LedgerInv, StoredOnceCompleted, TypeOK
  <1>2. QED
    BY <1>1, LedgerInvariant, PTL DEF Spec, CompletedIsFinal

(* When all deliveries are through, an event that is not stored was        *)
(* refused to one of its senders: skipped answers alone never lose it,     *)
(* except through a create whose error is swallowed.                       *)
THEOREM NothingIsLostSilently == Spec => []NoSilentLoss
  <1>1. LedgerInv => NoSilentLoss
    <2> SUFFICES ASSUME LedgerInv, \A d \in Deliveries : pc[d] \in Over, "swallowed" \notin faults,
                        NEW k \in Keys, NEW d \in Deliveries, Carries(d, k), copies[k] = 0
                 PROVE  Excused(k)
      BY DEF NoSilentLoss
    <2>1. CASE pc[d] \in {"rejected", "crashed"}
      BY <2>1 DEF Excused
    <2>2. CASE pc[d] = "answered"
      <3>1. PICK i \in 1..Len(Batch[d]) : Batch[d][i] = k
        BY DEF Carries
      <3>2. idx[d] = Len(Batch[d]) /\ i \in Nat /\ Len(Batch[d]) \in Nat /\ i <= idx[d]
        BY <2>2, <3>1, BatchAssumption DEF LedgerInv, AnsweredIsThrough
      <3>3. Passed(d, i)
        BY <2>2, <3>2 DEF Passed
      <3>4. ledger[k] # Absent
        BY <3>1, <3>3 DEF LedgerInv, NothingIsForgotten
      <3>5. \A x \in Deliveries : ~Holds(x, k)
        BY DEF Holds, Persisting, Over
      <3>6. QED
        BY <3>4, <3>5 DEF LedgerInv, NothingIsForgotten
    <2>3. QED
      BY <2>1, <2>2 DEF Over
  <1>2. QED
    BY <1>1, LedgerInvariant, PTL

----------------------------------------------------------------------------
(* The refinement of EventStore.                                           *)

(* What a step does to the set of completed keys. *)
LEMMA CompletedKeysAfter ==
  ASSUME TypeOK, NEW d \in Deliveries, Cur(d) \in Keys
  PROVE  /\ Reserve(d) \/ Fail(d) => CompletedKeys' = CompletedKeys \ {Cur(d)}
         /\ Commit(d) => CompletedKeys' = CompletedKeys \cup {Cur(d)}
  BY ReserveRow, FailRow, CommitRow DEF CompletedKeys

(* What a step that ends in some phase does to the holders. *)
LEMMA HoldersAfter ==
  ASSUME TypeOK, IndexIsValid, NEW d \in Deliveries, UNCHANGED idx,
         \A x \in Deliveries \ {d} : pc'[x] = pc[x],
         pc[d] \notin Over \cup {"next"}
  PROVE  /\ Cur(d) \in Keys
         /\ d \in HoldersByKey[Cur(d)] <=> pc[d] \in Persisting
         /\ pc'[d] \in Persisting =>
              HoldersByKey' = [HoldersByKey EXCEPT ![Cur(d)] = @ \cup {d}]
         /\ pc'[d] \notin Persisting =>
              HoldersByKey' = [HoldersByKey EXCEPT ![Cur(d)] = @ \ {d}]
         /\ (pc'[d] \in Persisting <=> pc[d] \in Persisting) => HoldersByKey' = HoldersByKey
  <1>1. Cur(d) \in Keys /\ \A x \in Deliveries : Cur(x)' = Cur(x)
    BY CurIsKey DEF TypeOK, IndexIsValid, Cur
  <1>2. \A x \in Deliveries \ {d}, k \in Keys : Holds(x, k)' <=> Holds(x, k)
    BY <1>1 DEF Holds
  <1>3. \A k \in Keys : /\ Holds(d, k) <=> pc[d] \in Persisting /\ k = Cur(d)
                        /\ Holds(d, k)' <=> pc'[d] \in Persisting /\ k = Cur(d)
    BY <1>1 DEF Holds
  <1>4. d \in HoldersByKey[Cur(d)] <=> pc[d] \in Persisting
    BY <1>1, <1>3 DEF HoldersByKey
  <1>5. HoldersByKey' = [k \in Keys |-> {x \in Deliveries : Holds(x, k)'}]
    BY DEF HoldersByKey
  <1>6. ASSUME pc'[d] \in Persisting
        PROVE  HoldersByKey' = [HoldersByKey EXCEPT ![Cur(d)] = @ \cup {d}]
    <2>1. \A k \in Keys : {x \in Deliveries : Holds(x, k)'} =
             {x \in Deliveries : Holds(x, k)} \cup (IF k = Cur(d) THEN {d} ELSE {})
      BY <1>2, <1>3, <1>6
    <2>2. QED
      BY <1>1, <1>5, <2>1 DEF HoldersByKey
  <1>7. ASSUME pc'[d] \notin Persisting
        PROVE  HoldersByKey' = [HoldersByKey EXCEPT ![Cur(d)] = @ \ {d}]
    <2>1. \A k \in Keys : {x \in Deliveries : Holds(x, k)'} =
             {x \in Deliveries : Holds(x, k)} \ (IF k = Cur(d) THEN {d} ELSE {})
      BY <1>2, <1>3, <1>7
    <2>2. QED
      BY <1>1, <1>5, <2>1 DEF HoldersByKey
  <1>8. ASSUME pc'[d] \in Persisting <=> pc[d] \in Persisting PROVE HoldersByKey' = HoldersByKey
    <2>1. \A k \in Keys : {x \in Deliveries : Holds(x, k)'} = {x \in Deliveries : Holds(x, k)}
      BY <1>2, <1>3, <1>8
    <2>2. QED
      BY <1>5, <2>1 DEF HoldersByKey
  <1>9. QED
    BY <1>1, <1>4, <1>6, <1>7, <1>8

(* A delivery that does not hold its event takes it: without a slip nobody *)
(* else does, and the event is not stored.                                 *)
LEMMA TakeStep ==
  ASSUME LedgerInv, NEW d \in Deliveries, Cur(d) \in Keys,
         pc[d] \notin Over \cup {"next"} \cup Persisting, pc'[d] \in Persisting,
         UNCHANGED <<idx, copies, answer>>,
         \A x \in Deliveries \ {d} : pc'[x] = pc[x],
         ledger[Cur(d)].status # "completed", Reserve(d),
         (~NoSlip)' <=> (~NoSlip \/ HoldersByKey[Cur(d)] # {})
  PROVE  Store!Take(d, Cur(d))
  <1>1. TypeOK /\ IndexIsValid
    BY DEF LedgerInv
  <1>2. /\ HoldersByKey' = [HoldersByKey EXCEPT ![Cur(d)] = @ \cup {d}]
        /\ d \notin HoldersByKey[Cur(d)]
    BY <1>1, HoldersAfter
  <1>3. CompletedKeys' = CompletedKeys /\ Cur(d) \notin CompletedKeys
    BY <1>1, CompletedKeysAfter DEF CompletedKeys
  <1>4. ~NoSlip \/ copies[Cur(d)] = 0
    BY DEF LedgerInv, StoredOnceCompleted
  <1>5. (~NoSlip)' = (~NoSlip \/ HoldersByKey[Cur(d)] # {})
    BY DEF NoSlip
  <1>6. QED
    BY <1>2, <1>3, <1>4, <1>5 DEF Store!Take

(* The faults that are no slip. *)
LEMMA SlipAfter ==
  /\ UNCHANGED faults => (NoSlip' <=> NoSlip)
  /\ faults' = faults \cup {"swallowed"} => (NoSlip' <=> NoSlip)
  /\ faults' = faults \cup {"overtaken"} => ~NoSlip'
  /\ faults' = faults \cup {"ambiguous"} => ~NoSlip'
  BY DEF NoSlip

(* A step that neither takes nor leaves an event, and stores and says nothing. *)
LEMMA QuietStep ==
  ASSUME TypeOK, IndexIsValid, NEW d \in Deliveries, pc[d] \notin Over \cup {"next"},
         UNCHANGED <<idx, copies, answer>>,
         \A x \in Deliveries \ {d} : pc'[x] = pc[x],
         pc'[d] \in Persisting <=> pc[d] \in Persisting,
         CompletedKeys' = CompletedKeys, NoSlip' <=> NoSlip
  PROVE  UNCHANGED Store!svars
  <1>1. HoldersByKey' = HoldersByKey
    BY HoldersAfter
  <1>2. (~NoSlip)' = ~NoSlip
    BY Zenon
  <1>3. QED
    BY <1>1, <1>2 DEF Store!svars

(* A delivery says of an event that it does not hold what it may. *)
LEMMA DismissStep ==
  ASSUME TypeOK, IndexIsValid, NEW d \in Deliveries, Cur(d) \in Keys,
         pc[d] \notin Over \cup {"next"} \cup Persisting,
         UNCHANGED <<ledger, copies, idx, faults>>,
         Count(d, "skipped") \/ (Count(d, "duplicate") /\ copies[Cur(d)] >= 1)
  PROVE  Store!Dismiss(d, Cur(d))
  <1>1. /\ pc' = [pc EXCEPT ![d] = "next"]
        /\ \A x \in Deliveries \ {d} : pc'[x] = pc[x]
        /\ pc'[d] \notin Persisting /\ pc[d] \notin Persisting
    BY DEF Count, Goto, TypeOK, Persisting
  <1>2. HoldersByKey' = HoldersByKey /\ d \notin HoldersByKey[Cur(d)]
    BY <1>1, HoldersAfter
  <1>3. CompletedKeys' = CompletedKeys /\ (~NoSlip)' = ~NoSlip
    BY DEF CompletedKeys, NoSlip
  <1>4. QED
    BY <1>2, <1>3 DEF Store!Dismiss, Store!Say, Count

(* Every step is one of EventStore, or invisible there. *)
LEMMA StepImplements ==
  ASSUME LedgerInv, LedgerInv', NEW d \in Deliveries, Step(d)
  PROVE  Store!Next \/ UNCHANGED Store!svars
  <1>1. TypeOK /\ IndexIsValid /\ CompletedIsStored /\ (NoSlip => OneHolder /\ StoredOnceCompleted)
    BY DEF LedgerInv
  <1>2. pc[d] \notin Over \cup {"next"} => Cur(d) \in Keys
    BY <1>1, CurIsKey DEF TypeOK, IndexIsValid
  <1>3. \A x \in Deliveries \ {d} : pc'[x] = pc[x]
    BY <1>1, StepEffect
  <1>4. \A phase : Goto(d, phase) => pc'[d] = phase
    BY <1>1 DEF Goto, TypeOK
  <1>5. ledger' = ledger => CompletedKeys' = CompletedKeys
    BY DEF CompletedKeys
  <1>6. CASE NextEvent(d)
    <2>1. HoldersByKey' = HoldersByKey
      <3>1. \A x \in Deliveries \ {d} : Cur(x)' = Cur(x)
        BY <1>1, StepEffect
      <3>2. pc[d] \notin Persisting /\ pc'[d] \notin Persisting
        BY <1>4, <1>6 DEF NextEvent, Persisting
      <3>3. \A x \in Deliveries, k \in Keys : Holds(x, k)' <=> Holds(x, k)
        BY <1>3, <3>1, <3>2 DEF Holds
      <3>4. QED
        BY <3>3 DEF HoldersByKey
    <2>2. CompletedKeys' = CompletedKeys /\ (~NoSlip)' = ~NoSlip
      BY <1>5, <1>6, SlipAfter, Zenon DEF NextEvent
    <2>3. QED
      BY <1>6, <2>1, <2>2 DEF NextEvent, Store!svars
  <1>7. CASE Answer(d)
    <2>1. HoldersByKey' = HoldersByKey
      <3>1. pc[d] \notin Persisting /\ pc'[d] \notin Persisting /\ UNCHANGED idx
        BY <1>4, <1>7 DEF Answer, Persisting
      <3>2. \A x \in Deliveries, k \in Keys : Holds(x, k)' <=> Holds(x, k)
        BY <1>3, <3>1 DEF Holds, Cur
      <3>3. QED
        BY <3>2 DEF HoldersByKey
    <2>2. CompletedKeys' = CompletedKeys /\ (~NoSlip)' = ~NoSlip
      BY <1>5, <1>7, SlipAfter, Zenon DEF Answer
    <2>3. QED
      BY <1>7, <2>1, <2>2 DEF Answer, Store!svars
  <1> USE DEF Over, Persisting
  <1>8. CASE Find(d)
    <2>1. pc'[d] \notin Persisting
      BY <1>4, <1>8, BranchPhase DEF Find
    <2>2. UNCHANGED Store!svars
      BY <1>1, <1>3, <1>5, <1>8, <2>1, QuietStep, SlipAfter DEF Find
    <2>3. QED
      BY <2>2
  <1>9. CASE Create(d)
    <2>1. CASE UNCHANGED ledger
      <3>1. pc'[d] \notin Persisting
        BY <1>1, <1>2, <1>4, <1>9, <2>1, ReserveRow DEF Create, Absent
      <3>2. UNCHANGED Store!svars
        BY <1>1, <1>3, <1>5, <1>9, <2>1, <3>1, QuietStep, SlipAfter DEF Create
      <3>3. QED
        BY <3>2
    <2>2. CASE /\ Reserve(d) /\ ledger[Cur(d)] = Absent /\ Goto(d, "refind")
               /\ faults' = faults \cup {"swallowed"}
      <3>1. CompletedKeys' = CompletedKeys
        BY <1>1, <1>2, <1>9, <2>2, CompletedKeysAfter DEF Create, CompletedKeys, Absent
      <3>2. pc'[d] \notin Persisting
        BY <1>4, <2>2
      <3>3. UNCHANGED Store!svars
        BY <1>1, <1>3, <1>9, <2>2, <3>1, <3>2, QuietStep, SlipAfter DEF Create
      <3>4. QED
        BY <3>3
    <2>3. CASE /\ Reserve(d) /\ ledger[Cur(d)] = Absent /\ Goto(d, "persist")
               /\ UNCHANGED faults
      <3>1. NoSlip => HoldersByKey[Cur(d)] = {}
        BY <1>1, <1>2, <1>9, <2>3 DEF Create, OneHolder, HoldersByKey, Absent
      <3>2. Cur(d) \in Keys /\ Store!Take(d, Cur(d))
        BY <1>2, <1>3, <1>4, <1>9, <2>3, <3>1, SlipAfter, TakeStep DEF Create, Absent
      <3>3. QED
        BY <3>2 DEF Store!Next
    <2>4. QED
      BY <1>9, <2>1, <2>2, <2>3 DEF Create
  <1>10. CASE Refind(d)
    <2>1. CASE Count(d, "skipped")
      <3>1. Cur(d) \in Keys /\ Store!Dismiss(d, Cur(d))
        BY <1>1, <1>2, <1>10, <2>1, DismissStep DEF Refind
      <3>2. QED
        BY <3>1 DEF Store!Next
    <2>2. CASE Goto(d, Branch(d)) /\ UNCHANGED answer
      <3>1. pc'[d] \notin Persisting
        BY <1>4, <2>2, BranchPhase
      <3>2. UNCHANGED Store!svars
        BY <1>1, <1>3, <1>5, <1>10, <2>2, <3>1, QuietStep, SlipAfter DEF Refind
      <3>3. QED
        BY <3>2
    <2>3. QED
      BY <1>10, <2>1, <2>2 DEF Refind
  <1>11. CASE Seen(d)
    <2>1. Cur(d) \in Keys /\ Store!Dismiss(d, Cur(d))
      BY <1>1, <1>2, <1>11, DismissStep DEF Seen, CompletedIsStored
    <2>2. QED
      BY <2>1 DEF Store!Next
  <1>12. CASE ClaimFailed(d)
    <2>1. CASE Count(d, "skipped") /\ UNCHANGED ledger
      <3>1. Cur(d) \in Keys /\ Store!Dismiss(d, Cur(d))
        BY <1>1, <1>2, <1>12, <2>1, DismissStep DEF ClaimFailed
      <3>2. QED
        BY <3>1 DEF Store!Next
    <2>2. CASE /\ ledger[Cur(d)].status = "failed" /\ Reserve(d) /\ Goto(d, "persist")
               /\ UNCHANGED answer
      <3>1. NoSlip => HoldersByKey[Cur(d)] = {}
        BY <1>1, <1>2, <1>12, <2>2 DEF ClaimFailed, OneHolder, HoldersByKey
      <3>2. Cur(d) \in Keys /\ Store!Take(d, Cur(d))
        BY <1>2, <1>3, <1>4, <1>12, <2>2, <3>1, SlipAfter, TakeStep DEF ClaimFailed
      <3>3. QED
        BY <3>2 DEF Store!Next
    <2>3. QED
      BY <1>12, <2>1, <2>2 DEF ClaimFailed
  <1>13. CASE ClaimStale(d)
    <2>1. CASE Count(d, "skipped") /\ UNCHANGED <<ledger, faults>>
      <3>1. Cur(d) \in Keys /\ Store!Dismiss(d, Cur(d))
        BY <1>1, <1>2, <1>13, <2>1, DismissStep DEF ClaimStale
      <3>2. QED
        BY <3>1 DEF Store!Next
    <2>2. CASE /\ Stale(d) /\ Reserve(d) /\ Goto(d, "persist") /\ UNCHANGED answer
               /\ faults' = IF \E o \in Deliveries \ {d} : Holds(o, Cur(d))
                            THEN faults \cup {"overtaken"} ELSE faults
      <3>1. ~Holds(d, Cur(d)) /\ Cur(d) \in Keys
        BY <1>2, <1>13 DEF ClaimStale, Holds
      <3>2. HoldersByKey[Cur(d)] # {} <=> \E o \in Deliveries \ {d} : Holds(o, Cur(d))
        BY <3>1 DEF HoldersByKey
      <3>3. (~NoSlip)' <=> (~NoSlip \/ HoldersByKey[Cur(d)] # {})
        BY <2>2, <3>2, SlipAfter
      <3>4. Store!Take(d, Cur(d))
        BY <1>3, <1>4, <1>13, <2>2, <3>1, <3>3, TakeStep DEF ClaimStale, Stale
      <3>5. QED
        BY <3>1, <3>4 DEF Store!Next
    <2>3. QED
      BY <1>13, <2>1, <2>2 DEF ClaimStale
  <1>14. CASE Persist(d)
    <2>1. /\ Cur(d) \in Keys /\ d \in HoldersByKey[Cur(d)]
          /\ HoldersByKey' = [HoldersByKey EXCEPT ![Cur(d)] = @ \ {d}]
      BY <1>1, <1>3, <1>4, <1>14, HoldersAfter DEF Persist, Count
    <2>2. CompletedKeys' = CompletedKeys \cup {Cur(d)}
      BY <1>1, <1>14, <2>1, CompletedKeysAfter DEF Persist
    <2>3. (~NoSlip)' = ~NoSlip
      BY <1>14, SlipAfter, Zenon DEF Persist
    <2>4. Store!Store(d, Cur(d))
      BY <1>14, <2>1, <2>2, <2>3
      DEF Persist, Commit, Count, Store!Store, Store!Say, Store!Leave
    <2>5. QED
      BY <2>1, <2>4 DEF Store!Next
  <1>15. CASE PersistErrors(d)
    <2>1. pc'[d] \in Persisting /\ pc[d] \in Persisting
      BY <1>4, <1>15 DEF PersistErrors
    <2>2. CASE UNCHANGED <<ledger, copies, faults>>
      <3>1. UNCHANGED Store!svars
        BY <1>1, <1>3, <1>5, <1>15, <2>1, <2>2, QuietStep, SlipAfter DEF PersistErrors
      <3>2. QED
        BY <3>1
    <2>3. CASE Commit(d) /\ faults' = faults \cup {"ambiguous"}
      <3>1. /\ Cur(d) \in Keys /\ d \in HoldersByKey[Cur(d)]
            /\ HoldersByKey' = HoldersByKey
        BY <1>1, <1>3, <1>15, <2>1, HoldersAfter DEF PersistErrors
      <3>2. CompletedKeys' = CompletedKeys \cup {Cur(d)}
        BY <1>1, <2>3, <3>1, CompletedKeysAfter
      <3>3. (~NoSlip)' = TRUE
        BY <2>3, SlipAfter, Zenon
      <3>4. Store!Store(d, Cur(d))
        BY <1>15, <2>3, <3>1, <3>2, <3>3 DEF PersistErrors, Commit, Store!Store
      <3>5. QED
        BY <3>1, <3>4 DEF Store!Next
    <2>4. QED
      BY <1>15, <2>2, <2>3 DEF PersistErrors
  <1>16. ASSUME pc[d] \in Persisting, pc'[d] \notin Persisting,
                UNCHANGED <<idx, copies, faults>>, UNCHANGED ledger \/ Fail(d),
                UNCHANGED answer \/ Count(d, "failed")
         PROVE  Store!Next
    <2>1. /\ Cur(d) \in Keys /\ d \in HoldersByKey[Cur(d)]
          /\ HoldersByKey' = [HoldersByKey EXCEPT ![Cur(d)] = @ \ {d}]
      BY <1>1, <1>3, <1>16, HoldersAfter
    <2>2. NoSlip => Cur(d) \notin CompletedKeys
      BY <1>1, <1>16, <2>1 DEF OneHolder, Holds, CompletedKeys
    <2>3. CompletedKeys' = CompletedKeys \/ (~NoSlip /\ CompletedKeys' = CompletedKeys \ {Cur(d)})
      BY <1>1, <1>5, <1>16, <2>1, <2>2, CompletedKeysAfter
    <2>4. (~NoSlip)' = ~NoSlip
      BY <1>16, SlipAfter, Zenon
    <2>5. Store!GiveUp(d, Cur(d))
      BY <1>16, <2>1, <2>3, <2>4 DEF Store!GiveUp, Store!Leave, Store!Say, Count
    <2>6. QED
      BY <2>1, <2>5 DEF Store!Next
  <1>17. CASE MarkFailed(d)
    BY <1>4, <1>16, <1>17 DEF MarkFailed, Count
  <1>18. CASE CallErrors(d)
    <2>1. pc'[d] \notin Persisting
      BY <1>4, <1>18 DEF CallErrors
    <2>2. CASE pc[d] = "markFailed"
      BY <1>16, <1>18, <2>1, <2>2 DEF CallErrors
    <2>3. CASE pc[d] # "markFailed"
      <3>1. CompletedKeys' = CompletedKeys
        BY <1>1, <1>2, <1>5, <1>18, <2>3, CompletedKeysAfter
        DEF CallErrors, Stale, CompletedKeys
      <3>2. UNCHANGED Store!svars
        BY <1>1, <1>3, <1>18, <2>1, <2>3, <3>1, QuietStep, SlipAfter DEF CallErrors
      <3>3. QED
        BY <3>2
    <2>4. QED
      BY <2>2, <2>3
  <1>19. CASE Crash(d)
    <2>1. pc'[d] \notin Persisting
      BY <1>4, <1>19 DEF Crash
    <2>2. CASE pc[d] \in Persisting
      BY <1>16, <1>19, <2>1, <2>2 DEF Crash
    <2>3. CASE pc[d] \notin Persisting /\ pc[d] # "next"
      <3>1. UNCHANGED Store!svars
        BY <1>1, <1>3, <1>5, <1>19, <2>1, <2>3, QuietStep, SlipAfter DEF Crash
      <3>2. QED
        BY <3>1
    <2>4. CASE pc[d] = "next"
      <3>1. \A x \in Deliveries, k \in Keys : Holds(x, k)' <=> Holds(x, k)
        BY <1>3, <1>19, <2>1, <2>4 DEF Crash, Holds, Cur
      <3>2. HoldersByKey' = HoldersByKey
        BY <3>1 DEF HoldersByKey
      <3>3. CompletedKeys' = CompletedKeys /\ (~NoSlip)' = ~NoSlip
        BY <1>5, <1>19, SlipAfter, Zenon DEF Crash
      <3>4. QED
        BY <1>19, <3>2, <3>3 DEF Crash, Store!svars
    <2>5. QED
      BY <2>2, <2>3, <2>4
  <1>20. QED
    BY <1>6, <1>7, <1>8, <1>9, <1>10, <1>11, <1>12, <1>13, <1>14, <1>15, <1>17, <1>18, <1>19
    DEF Step

(* The ledger implements EventStore: what deliveries do to an event with   *)
(* its row, locks and phases is taking, storing, giving up and dismissing  *)
(* it as said there, for any keys, deliveries and batches.                 *)
THEOREM RefinesEventStore == Spec => ImplementsEventStore
  <1>1. Init => Store!Init
    <2> SUFFICES ASSUME Init PROVE Store!Init
      OBVIOUS
    <2>1. CompletedKeys = {} /\ HoldersByKey = [k \in Keys |-> {}]
      BY DEF Init, CompletedKeys, HoldersByKey, Holds, Persisting, Absent
    <2>2. (~NoSlip) = FALSE
      BY DEF Init, NoSlip
    <2>3. QED
      BY <2>1, <2>2 DEF Init, Store!Init
  <1>2. LedgerInv /\ LedgerInv' /\ [Next]_vars => [Store!Next]_Store!svars
    <2> SUFFICES ASSUME LedgerInv, LedgerInv', [Next]_vars
                 PROVE  Store!Next \/ UNCHANGED Store!svars
      OBVIOUS
    <2>1. CASE Tick \/ UNCHANGED vars
      <3>1. UNCHANGED <<ledger, copies, pc, idx, answer, faults>>
        BY <2>1 DEF Tick, vars
      <3>2. CompletedKeys' = CompletedKeys /\ HoldersByKey' = HoldersByKey /\ (~NoSlip)' = ~NoSlip
        BY <3>1 DEF CompletedKeys, HoldersByKey, Holds, Cur, NoSlip
      <3>3. QED
        BY <3>1, <3>2 DEF Store!svars
    <2>2. ASSUME NEW d \in Deliveries, Step(d) PROVE Store!Next \/ UNCHANGED Store!svars
      BY <2>2, StepImplements
    <2>3. QED
      BY <2>1, <2>2 DEF Next
  <1>3. QED
    BY <1>1, <1>2, LedgerInvariant, PTL DEF Spec, Store!Spec, ImplementsEventStore
=============================================================================
