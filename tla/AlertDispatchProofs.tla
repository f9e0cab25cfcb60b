------------------------ MODULE AlertDispatchProofs ------------------------
(***************************************************************************)
(* Proofs about AlertDispatch, for any tenants, runs, limits and retries:  *)
(* the inductive invariant DispatchInv, the properties that follow, and    *)
(* the refinement of AlertQueue.                                           *)
(***************************************************************************)
EXTENDS AlertDispatch, LeastElements, FiniteSetTheorems, TLAPS

LEMMA IdsAreNat == MaxEvents \in Nat /\ Ids \subseteq Nat \ {0} /\ NoEvent \notin Ids
  BY BoundsAssumption DEF MaxEvents, Ids, NoEvent

LEMMA LeastIsMember ==
  ASSUME NEW S \in SUBSET Ids, S # {}
  PROVE  Least(S) \in S
  <1>1. S \in SUBSET Nat
    BY IdsAreNat
  <1>2. \E e \in S : \A x \in S : e <= x
    BY <1>1, HasLeast
  <1>3. QED
    BY <1>2 DEF Least

(* The event at hand of a run that has one. *)
LEMMA CurrentIsId ==
  ASSUME TypeOK, NEW d \in Dispatchers, run[d].left # {}
  PROVE  Current(d) \in run[d].left /\ Current(d) \in Ids
  <1>1. run[d].left \in SUBSET Ids
    BY DEF TypeOK, Runs
  <1>2. QED
    BY <1>1, LeastIsMember DEF Current

(* How a step of run d changes the runs. *)
LEMMA GotoRow ==
  ASSUME run \in [Dispatchers -> Runs], NEW d \in Dispatchers, NEW phase \in Phases,
         Goto(d, phase)
  PROVE  /\ run' \in [Dispatchers -> Runs]
         /\ run'[d].phase = phase /\ run'[d].left = run[d].left
         /\ \A x \in Dispatchers \ {d} : run'[x] = run[x]
  BY DEF Goto, Runs

LEMMA ContinueRow ==
  ASSUME run \in [Dispatchers -> Runs], NEW d \in Dispatchers, Continue(d)
  PROVE  /\ run' \in [Dispatchers -> Runs]
         /\ run'[d].phase = "look" /\ run'[d].left \subseteq run[d].left
         /\ \A x \in Dispatchers \ {d} : run'[x] = run[x]
  <1> DEFINE row == [run[d] EXCEPT !.phase = "look", !.left = @ \ {Current(d)}]
  <1>1. row \in Runs /\ row.phase = "look" /\ row.left \subseteq run[d].left
    BY DEF Runs, Phases
  <1>2. run' = [run EXCEPT ![d] = row]
    BY DEF Continue
  <1>3. QED
    BY <1>1, <1>2

LEMMA NoRunRow ==
  ASSUME run \in [Dispatchers -> Runs], NEW d \in Dispatchers, run' = [run EXCEPT ![d] = NoRun]
  PROVE  /\ run' \in [Dispatchers -> Runs]
         /\ run'[d].phase = "idle"
         /\ \A x \in Dispatchers \ {d} : run'[x] = run[x]
  <1>1. NoRun \in Runs /\ NoRun.phase = "idle"
    BY DEF NoRun, Runs, Phases
  <1>2. QED
    BY <1>1

LEMMA BeginRow ==
  ASSUME run \in [Dispatchers -> Runs], NEW d \in Dispatchers, Begin(d)
  PROVE  /\ run' \in [Dispatchers -> Runs]
         /\ run'[d].phase = "look"
         /\ \A x \in Dispatchers \ {d} : run'[x] = run[x]
  <1>1. FirstOf(Pending) \in SUBSET Ids
    BY DEF FirstOf, Pending
  <1> DEFINE row == [run[d] EXCEPT !.phase = "look", !.left = FirstOf(Pending)]
  <1>2. row \in Runs /\ row.phase = "look"
    BY <1>1 DEF Runs, Phases
  <1>3. run' = [run EXCEPT ![d] = row]
    BY DEF Begin
  <1>4. QED
    BY <1>2, <1>3

LEMMA LookRow ==
  ASSUME TypeOK, NEW d \in Dispatchers, Look(d)
  PROVE  /\ run' \in [Dispatchers -> Runs]
         /\ run'[d].phase \in {"skip", "claim", "look"}
         /\ run'[d].phase # "look" => run'[d].left # {}
         /\ \A x \in Dispatchers \ {d} : run'[x] = run[x]
  <1> DEFINE e == Current(d)
             t == events[e].tenant
             next == Decision(d, e)
  <1>1. run \in [Dispatchers -> Runs] /\ mode \in [Tenants -> Modes]
    BY DEF TypeOK
  <1>2. e \in Ids /\ t \in Tenants
    BY CurrentIsId DEF Look, TypeOK, Events
  <1>3. next \in {"skip", "claim", "look"}
    BY DEF Decision
  <1>4. Access(d, t) \in Modes \cup {"unread"}
    BY <1>1, <1>2 DEF Access, Runs
  <1>5. run[d].left # {} /\ run' = [run EXCEPT ![d].phase = next, ![d].access[t] = Access(d, t),
                               ![d].left = IF next = "look" THEN @ \ {e} ELSE @]
    BY DEF Look
  <1> HIDE DEF e, t, next
  <1>6. /\ run'[d] \in Runs /\ run'[d].phase = next
        /\ next # "look" => run'[d].left = run[d].left
    BY <1>1, <1>2, <1>3, <1>4, <1>5 DEF Runs, Phases
  <1>7. \A x \in Dispatchers \ {d} : run'[x] = run[x]
    BY <1>1, <1>5
  <1>8. run' = [x \in Dispatchers |-> run'[x]]
    BY <1>1, <1>5
  <1>9. run' \in [Dispatchers -> Runs]
    BY <1>1, <1>6, <1>7, <1>8
  <1>10. QED
    BY <1>3, <1>5, <1>6, <1>7, <1>9

LEMMA ClaimRow ==
  ASSUME TypeOK, NEW d \in Dispatchers, run[d].left # {}, Claim(d)
  PROVE  /\ run' \in [Dispatchers -> Runs]
         /\ \A x \in Dispatchers \ {d} : run'[x] = run[x]
         /\ \/ /\ StillPending(Current(d)) /\ SetType(Current(d), "claimed")
               /\ run'[d].phase = "send" /\ run'[d].left = run[d].left
            \/ /\ run'[d].phase = "look" /\ run'[d].left \subseteq run[d].left
               /\ UNCHANGED events
  <1> DEFINE e == Current(d)
             t == events[e].tenant
             counted == IF Access(d, t) = "full" THEN 0 ELSE 1
  <1>1. run \in [Dispatchers -> Runs]
    BY DEF TypeOK
  <1>2. t \in Tenants
    BY CurrentIsId DEF TypeOK, Events
  <1>3. counted \in Nat
    OBVIOUS
  <1>4. CASE Continue(d) /\ UNCHANGED events
    BY <1>1, <1>4, ContinueRow
  <1>5. CASE /\ StillPending(e) /\ SetType(e, "claimed")
             /\ run' = [run EXCEPT ![d].phase = "send", ![d].basic[t] = @ + counted]
    <2> HIDE DEF t, counted
    <2>1. run'[d] \in Runs /\ run'[d].phase = "send" /\ run'[d].left = run[d].left
      <3>1. run[d] \in Runs /\ run[d].basic[t] + counted \in Nat
        BY <1>1, <1>2, <1>3 DEF Runs
      <3>2. run'[d] = [run[d] EXCEPT !.phase = "send", !.basic[t] = @ + counted]
        BY <1>1, <1>5
      <3>3. DEFINE basic == [run[d].basic EXCEPT ![t] = run[d].basic[t] + counted]
      <3>4. basic \in [Tenants -> Nat]
        BY <1>2, <3>1 DEF Runs
      <3>5. run'[d] = [run[d] EXCEPT !.phase = "send", !.basic = basic]
        BY <3>1, <3>2 DEF Runs
      <3> HIDE DEF basic
      <3>6. QED
        BY <3>1, <3>4, <3>5 DEF Runs, Phases
    <2>2. \A x \in Dispatchers \ {d} : run'[x] = run[x]
      BY <1>1, <1>5
    <2>3. run' = [x \in Dispatchers |-> run'[x]]
      BY <1>1, <1>5
    <2>4. run' \in [Dispatchers -> Runs]
      BY <1>1, <2>1, <2>2, <2>3
    <2>5. QED
      BY <1>5, <2>1, <2>2, <2>4
  <1>6. QED
    BY <1>4, <1>5 DEF Claim

(* What NewEvent writes. *)
LEMMA NewEventRow ==
  ASSUME TypeOK, IdsAreInOrder, NEW t \in Tenants, NEW attempt \in 0..MaxRetries,
         NEW due \in BOOLEAN, NEW previous \in Ids \cup {NoEvent},
         NewEvent(t, attempt, due, previous)
  PROVE  /\ events' \in [Ids -> Events] /\ last' = last + 1 /\ last' \in Ids
         /\ events[last'].type = "none"
         /\ events'[last'] = [type |-> "pending", tenant |-> t, attempt |-> attempt, due |-> due,
                              previous |-> previous]
         /\ \A e \in Ids \ {last'} : events'[e] = events[e]
  <1>1. events \in [Ids -> Events] /\ last \in 0..MaxEvents
    BY DEF TypeOK
  <1>2. last' = last + 1 /\ last' \in Ids
    BY <1>1, IdsAreNat DEF NewEvent, Ids
  <1>3. events[last'].type = "none"
    BY <1>1, <1>2, IdsAreNat DEF IdsAreInOrder, Used
  <1>4. [type |-> "pending", tenant |-> t, attempt |-> attempt, due |-> due,
         previous |-> previous] \in Events
    BY DEF Events, Types
  <1>5. QED
    BY <1>1, <1>2, <1>3, <1>4 DEF NewEvent

(* What SetType writes. *)
LEMMA SetTypeRow ==
  ASSUME events \in [Ids -> Events], NEW e \in Ids, NEW type \in Types, SetType(e, type)
  PROVE  /\ events' \in [Ids -> Events]
         /\ events'[e].type = type
         /\ \A x \in Ids \ {e} : events'[x].type = events[x].type
         /\ \A x \in Ids : /\ events'[x].attempt = events[x].attempt
                           /\ events'[x].previous = events[x].previous
  BY DEF SetType, Events

LEMMA InitDispatchInv == Init => DispatchInv
  <1> SUFFICES ASSUME Init PROVE DispatchInv
    OBVIOUS
  <1>1. NoRun \in Runs /\ NoRun.phase = "idle"
    BY DEF NoRun, Runs, Phases
  <1>2. events \in [Ids -> Events]
    BY BoundsAssumption DEF Init, Events, Types
  <1>3. run \in [Dispatchers -> Runs]
    BY <1>1 DEF Init
  <1>4. TypeOK
    <2>1. /\ last \in 0..MaxEvents /\ raised \in 0..MaxAlerts /\ aborts \in 0..MaxAborts
          /\ sends \in [Ids -> Nat] /\ mode \in [Tenants -> Modes]
      BY BoundsAssumption, IdsAreNat DEF Init
    <2>2. notified \subseteq Ids /\ abandoned \subseteq Ids
      BY DEF Init
    <2>3. QED
      BY <1>2, <1>3, <2>1, <2>2 DEF TypeOK
  <1>5. ClaimsAreDue
    BY <1>1 DEF Init, ClaimsAreDue, NoRun
  <1>6. QED
    BY <1>1, <1>4, <1>5, IdsAreNat
    DEF Init, DispatchInv, RunsHaveWork, IdsAreInOrder, OneSendPerEvent,
       UnclaimedIsUnsent, OwnersAreAlone, ClaimedHasOwner, AbandonedIsClaimed, RetriesFollow,
       RetryComesBetween, FailedIsRetried, Owns, Owning, Used

(* The parts of DispatchInv that say more than the types. *)
Bookkeeping ==
  /\ IdsAreInOrder /\ OneSendPerEvent /\ UnclaimedIsUnsent /\ OwnersAreAlone /\ ClaimedHasOwner
  /\ AbandonedIsClaimed /\ RetriesFollow /\ RetryComesBetween /\ FailedIsRetried

(* A step that gives no id, changes no type and leaves the owning runs alone. *)
LEMMA IdleStep ==
  ASSUME TypeOK, Bookkeeping, last' = last, sends' = sends, abandoned' = abandoned,
         \A e \in Ids : /\ events'[e].type = events[e].type
                        /\ events'[e].attempt = events[e].attempt
                        /\ events'[e].previous = events[e].previous,
         \A x \in Dispatchers :
            run'[x] = run[x] \/ (run[x].phase \notin Owning /\ run'[x].phase \notin Owning)
  PROVE  Bookkeeping'
  <1>1. \A x \in Dispatchers, e \in Ids :
           /\ Owns(x, e)' <=> Owns(x, e)
           /\ Owns(x, e) => run'[x].phase = run[x].phase
    BY DEF Owns, Current
  <1>2. \A e \in Ids : (Used(e)' <=> Used(e)) /\ (RetriesLeft(e)' <=> RetriesLeft(e))
    BY DEF Used, RetriesLeft
  <1>3. \A e \in Ids : Retries(e)' = Retries(e)
    BY DEF Retries
  <1>4. IdsAreInOrder' /\ OneSendPerEvent' /\ UnclaimedIsUnsent' /\ AbandonedIsClaimed'
    BY <1>2 DEF Bookkeeping, IdsAreInOrder, OneSendPerEvent, UnclaimedIsUnsent,
                AbandonedIsClaimed, TypeOK
  <1>5. OwnersAreAlone' /\ ClaimedHasOwner'
    BY <1>1 DEF Bookkeeping, OwnersAreAlone, ClaimedHasOwner
  <1>6. RetriesFollow'
    <2>1. \A r \in Ids : events[r].previous \in Ids \cup {NoEvent}
      BY DEF TypeOK, Events
    <2>2. QED
      BY <1>2, <2>1 DEF Bookkeeping, RetriesFollow
  <1>7. RetryComesBetween' /\ FailedIsRetried'
    BY <1>1, <1>2, <1>3 DEF Bookkeeping, RetryComesBetween, FailedIsRetried
  <1>8. QED
    BY <1>4, <1>5, <1>6, <1>7 DEF Bookkeeping

(* Who owns what when run d takes a step and other runs do not. *)
LEMMA OthersKeepOwning ==
  ASSUME NEW d \in Dispatchers, \A x \in Dispatchers \ {d} : run'[x] = run[x]
  PROVE  \A x \in Dispatchers \ {d}, e \in Ids :
            (Owns(x, e)' <=> Owns(x, e)) /\ run'[x].phase = run[x].phase
  BY DEF Owns, Current

(* A new alert is the retry of nothing. *)
LEMMA RaiseStep ==
  ASSUME TypeOK, Bookkeeping, NEW t \in Tenants, Raise(t)
  PROVE  Bookkeeping'
  <1> DEFINE n == last'
  <1>1. run' = run /\ sends' = sends /\ abandoned' = abandoned
    BY DEF Raise
  <1>2. /\ n = last + 1 /\ n \in Ids
        /\ events[n].type = "none"
        /\ events'[n].type = "pending" /\ events'[n].previous = NoEvent
        /\ \A e \in Ids \ {n} : events'[e] = events[e]
    <2>1. NewEvent(t, 0, TRUE, NoEvent)
      BY DEF Raise
    <2>2. 0 \in 0..MaxRetries /\ NoEvent \in Ids \cup {NoEvent} /\ TRUE \in BOOLEAN
      BY BoundsAssumption
    <2>3. IdsAreInOrder
      BY DEF Bookkeeping
    <2>4. /\ last' = last + 1 /\ last' \in Ids
          /\ events[last'].type = "none"
          /\ events'[last'] = [type |-> "pending", tenant |-> t, attempt |-> 0, due |-> TRUE,
                               previous |-> NoEvent]
          /\ \A e \in Ids \ {last'} : events'[e] = events[e]
      BY <2>1, <2>2, <2>3, NewEventRow
    <2>5. QED
      BY <2>4
  <1>3. last \in Nat /\ Ids \subseteq Nat /\ NoEvent \notin Ids
    BY IdsAreNat DEF TypeOK
  <1> HIDE DEF n
  <1>4. \A x \in Dispatchers, e \in Ids : Owns(x, e)' <=> Owns(x, e)
    BY <1>1 DEF Owns, Current
  <1>5. \A e \in Ids : Retries(e)' = Retries(e)
    BY <1>2, <1>3 DEF Retries
  <1>6. IdsAreInOrder'
    BY <1>2, <1>3 DEF Bookkeeping, IdsAreInOrder, Used, n
  <1>7. OneSendPerEvent' /\ UnclaimedIsUnsent'
    BY <1>1, <1>2 DEF Bookkeeping, OneSendPerEvent, UnclaimedIsUnsent
  <1>8. OwnersAreAlone' /\ ClaimedHasOwner' /\ AbandonedIsClaimed'
    <2>1. OwnersAreAlone'
      BY <1>1, <1>2, <1>4 DEF Bookkeeping, OwnersAreAlone
    <2>2. ClaimedHasOwner'
      BY <1>1, <1>2, <1>4 DEF Bookkeeping, ClaimedHasOwner
    <2>3. AbandonedIsClaimed'
      BY <1>1, <1>2 DEF Bookkeeping, AbandonedIsClaimed, TypeOK
    <2>4. QED
      BY <2>1, <2>2, <2>3
  <1>9. RetriesFollow'
    <2>1. \A r \in Ids : events[r].previous \in Ids \cup {NoEvent}
      BY DEF TypeOK, Events
    <2>2. QED
      BY <1>1, <1>2, <2>1 DEF Bookkeeping, RetriesFollow, Used
  <1>10. RetryComesBetween'
    BY <1>1, <1>2, <1>4, <1>5 DEF Bookkeeping, RetryComesBetween, RetriesLeft, OwnersAreAlone
  <1>11. FailedIsRetried'
    BY <1>2, <1>5 DEF Bookkeeping, FailedIsRetried
  <1>12. QED
    BY <1>6, <1>7, <1>8, <1>9, <1>10, <1>11 DEF Bookkeeping

(* A pending event is skipped by a run that does not own it. *)
LEMMA SkippedStep ==
  ASSUME TypeOK, Bookkeeping, NEW d \in Dispatchers, NEW e \in Ids,
         StillPending(e), SetType(e, "skipped"),
         run[d].phase \notin Owning, run'[d].phase \notin Owning,
         \A x \in Dispatchers \ {d} : run'[x] = run[x],
         last' = last, sends' = sends, abandoned' = abandoned
  PROVE  Bookkeeping'
  <1>1. events[e].type = "pending"
    BY DEF StillPending
  <1>2. /\ events'[e].type = "skipped"
        /\ \A x \in Ids \ {e} : events'[x].type = events[x].type
        /\ \A x \in Ids : /\ events'[x].attempt = events[x].attempt
                          /\ events'[x].previous = events[x].previous
    BY SetTypeRow DEF TypeOK, Types
  <1>3. \A x \in Dispatchers, i \in Ids :
           (Owns(x, i)' <=> Owns(x, i)) /\ (Owns(x, i) => run'[x].phase = run[x].phase)
    BY OthersKeepOwning DEF Owns
  <1>4. \A i \in Ids : (Used(i)' <=> Used(i)) /\ (RetriesLeft(i)' <=> RetriesLeft(i))
    BY <1>1, <1>2 DEF Used, RetriesLeft
  <1>5. \A i \in Ids : Retries(i)' = Retries(i)
    BY <1>1, <1>2 DEF Retries
  <1>6. IdsAreInOrder' /\ OneSendPerEvent' /\ UnclaimedIsUnsent' /\ AbandonedIsClaimed'
    BY <1>1, <1>2, <1>4 DEF Bookkeeping, IdsAreInOrder, OneSendPerEvent, UnclaimedIsUnsent,
                            AbandonedIsClaimed, TypeOK
  <1>7. OwnersAreAlone' /\ ClaimedHasOwner'
    BY <1>1, <1>2, <1>3 DEF Bookkeeping, OwnersAreAlone, ClaimedHasOwner
  <1>8. RetriesFollow'
    <2>1. \A r \in Ids : events[r].previous \in Ids \cup {NoEvent}
      BY DEF TypeOK, Events
    <2>2. QED
      BY <1>1, <1>2, <1>4, <2>1 DEF Bookkeeping, RetriesFollow
  <1>9. RetryComesBetween' /\ FailedIsRetried'
    BY <1>2, <1>3, <1>4, <1>5 DEF Bookkeeping, RetryComesBetween, FailedIsRetried
  <1>10. QED
    BY <1>6, <1>7, <1>8, <1>9 DEF Bookkeeping

(* A run that claims a pending event owns it alone. *)
LEMMA ClaimedStep ==
  ASSUME TypeOK, Bookkeeping, NEW d \in Dispatchers, NEW e \in Ids,
         e = Current(d), StillPending(e), SetType(e, "claimed"),
         run[d].phase \notin Owning, run'[d].phase = "send", run'[d].left = run[d].left,
         \A x \in Dispatchers \ {d} : run'[x] = run[x],
         last' = last, sends' = sends, abandoned' = abandoned
  PROVE  Bookkeeping'
  <1>1. events[e].type = "pending"
    BY DEF StillPending
  <1>2. /\ events'[e].type = "claimed"
        /\ \A x \in Ids \ {e} : events'[x].type = events[x].type
        /\ \A x \in Ids : /\ events'[x].attempt = events[x].attempt
                          /\ events'[x].previous = events[x].previous
    BY SetTypeRow DEF TypeOK, Types
  <1>3. /\ \A x \in Dispatchers \ {d}, i \in Ids :
              (Owns(x, i)' <=> Owns(x, i)) /\ run'[x].phase = run[x].phase
        /\ \A i \in Ids : ~Owns(d, i) /\ (Owns(d, i)' <=> i = e)
    BY OthersKeepOwning DEF Owns, Current, Owning
  <1>4. \A i \in Ids : (Used(i)' <=> Used(i)) /\ (RetriesLeft(i)' <=> RetriesLeft(i))
    BY <1>1, <1>2 DEF Used, RetriesLeft
  <1>5. \A i \in Ids : Retries(i)' = Retries(i)
    BY <1>1, <1>2 DEF Retries
  <1>6. IdsAreInOrder' /\ OneSendPerEvent' /\ UnclaimedIsUnsent' /\ AbandonedIsClaimed'
    BY <1>1, <1>2, <1>4 DEF Bookkeeping, IdsAreInOrder, OneSendPerEvent, UnclaimedIsUnsent,
                            AbandonedIsClaimed, TypeOK
  <1>7. OwnersAreAlone'
    <2>1. \A x \in Dispatchers : ~Owns(x, e)
      BY <1>1 DEF Bookkeeping, OwnersAreAlone
    <2>2. sends[e] = 0 /\ e \notin abandoned
      BY <1>1 DEF Bookkeeping, UnclaimedIsUnsent, AbandonedIsClaimed
    <2>3. QED
      BY <1>2, <1>3, <2>1, <2>2 DEF Bookkeeping, OwnersAreAlone
  <1>8. ClaimedHasOwner'
    BY <1>2, <1>3 DEF Bookkeeping, ClaimedHasOwner
  <1>9. RetriesFollow'
    <2>1. \A r \in Ids : events[r].previous \in Ids \cup {NoEvent}
      BY DEF TypeOK, Events
    <2>2. QED
      BY <1>1, <1>2, <1>4, <2>1 DEF Bookkeeping, RetriesFollow
  <1>10. RetryComesBetween'
    <2>1. Retries(e) = {}
      BY <1>1, IdsAreNat DEF Bookkeeping, RetriesFollow, Retries, Used
    <2>2. QED
      BY <1>3, <1>4, <1>5, <2>1 DEF Bookkeeping, RetryComesBetween
  <1>11. FailedIsRetried'
    BY <1>2, <1>4, <1>5 DEF Bookkeeping, FailedIsRetried
  <1>12. QED
    BY <1>6, <1>7, <1>8, <1>9, <1>10, <1>11 DEF Bookkeeping

(* The notifications go out once. *)
LEMMA SentStep ==
  ASSUME TypeOK, Bookkeeping, NEW d \in Dispatchers, NEW e \in Ids, e = Current(d),
         run[d].phase = "send", run'[d].phase \in {"sent", "retry"}, run'[d].left = run[d].left,
         \A x \in Dispatchers \ {d} : run'[x] = run[x],
         sends' = [sends EXCEPT ![e] = @ + 1],
         events' = events, last' = last, abandoned' = abandoned
  PROVE  Bookkeeping'
  <1>1. /\ \A x \in Dispatchers \ {d}, i \in Ids :
              (Owns(x, i)' <=> Owns(x, i)) /\ run'[x].phase = run[x].phase
        /\ \A i \in Ids : (Owns(d, i) <=> i = e) /\ (Owns(d, i)' <=> i = e)
    BY OthersKeepOwning DEF Owns, Current, Owning
  <1>2. \A i \in Ids : Retries(i)' = Retries(i)
    BY DEF Retries
  <1>3. /\ events[e].type = "claimed" /\ e \notin abandoned
        /\ \A x \in Dispatchers \ {d} : ~Owns(x, e)
        /\ Retries(e) = {}
        /\ sends[e] = 0
    BY <1>1 DEF Bookkeeping, OwnersAreAlone, RetryComesBetween
  <1>4. sends'[e] = 1 /\ \A i \in Ids \ {e} : sends'[i] = sends[i]
    BY <1>3 DEF TypeOK
  <1>5. IdsAreInOrder' /\ AbandonedIsClaimed'
    BY DEF Bookkeeping, IdsAreInOrder, AbandonedIsClaimed, Used
  <1>6. OneSendPerEvent' /\ UnclaimedIsUnsent'
    BY <1>3, <1>4 DEF Bookkeeping, OneSendPerEvent, UnclaimedIsUnsent
  <1>7. OwnersAreAlone' /\ ClaimedHasOwner'
    BY <1>1, <1>3, <1>4 DEF Bookkeeping, OwnersAreAlone, ClaimedHasOwner
  <1>8. RetriesFollow'
    <2>1. \A r \in Ids : events[r].previous \in Ids \cup {NoEvent}
      BY DEF TypeOK, Events
    <2>2. QED
      BY <1>3, <1>4, <2>1 DEF Bookkeeping, RetriesFollow, Used
  <1>9. RetryComesBetween' /\ FailedIsRetried'
    BY <1>1, <1>2, <1>3 DEF Bookkeeping, RetryComesBetween, RetriesLeft, FailedIsRetried
  <1>10. QED
    BY <1>5, <1>6, <1>7, <1>8, <1>9 DEF Bookkeeping

(* The one retry of an event is written by the run that owns it. *)
LEMMA RetriedStep ==
  ASSUME TypeOK, Bookkeeping, NEW d \in Dispatchers, NEW e \in Ids, e = Current(d),
         run[d].phase = "retry", run'[d].phase = "failed", run'[d].left = run[d].left,
         \A x \in Dispatchers \ {d} : run'[x] = run[x],
         RetriesLeft(e), NewEvent(events[e].tenant, events[e].attempt + 1, FALSE, e),
         sends' = sends, abandoned' = abandoned
  PROVE  Bookkeeping'
  <1> DEFINE n == last'
  <1>1. /\ n = last + 1 /\ n \in Ids
        /\ events[n].type = "none"
        /\ events'[n].type = "pending" /\ events'[n].previous = e
        /\ events'[n].attempt = events[e].attempt + 1
        /\ \A i \in Ids \ {n} : events'[i] = events[i]
    <2>1. events[e].tenant \in Tenants /\ events[e].attempt + 1 \in 0..MaxRetries
      BY BoundsAssumption DEF TypeOK, Events, RetriesLeft
    <2>2. IdsAreInOrder /\ e \in Ids \cup {NoEvent} /\ FALSE \in BOOLEAN
      BY DEF Bookkeeping
    <2>3. /\ last' = last + 1 /\ last' \in Ids
          /\ events[last'].type = "none"
          /\ events'[last'] = [type |-> "pending", tenant |-> events[e].tenant,
                               attempt |-> events[e].attempt + 1, due |-> FALSE, previous |-> e]
          /\ \A i \in Ids \ {last'} : events'[i] = events[i]
      BY <2>1, <2>2, NewEventRow
    <2>4. QED
      BY <2>3
  <1>2. last \in Nat /\ Ids \subseteq Nat /\ NoEvent \notin Ids
    BY IdsAreNat DEF TypeOK
  <1> HIDE DEF n
  <1>3. /\ \A x \in Dispatchers \ {d}, i \in Ids :
              (Owns(x, i)' <=> Owns(x, i)) /\ run'[x].phase = run[x].phase
        /\ \A i \in Ids : (Owns(d, i) <=> i = e) /\ (Owns(d, i)' <=> i = e)
    BY OthersKeepOwning DEF Owns, Current, Owning
  <1>4. /\ events[e].type = "claimed" /\ e # n
        /\ \A x \in Dispatchers \ {d} : ~Owns(x, e)
        /\ Retries(e) = {}
        /\ sends[e] = 1
    BY <1>1, <1>3 DEF Bookkeeping, OwnersAreAlone, RetryComesBetween
  <1>5. /\ Retries(e)' = {n}
        /\ \A i \in Ids \ {e} : Retries(i)' = Retries(i)
    <2>1. \A r \in Ids : r \in Retries(e)' <=> r = n
      BY <1>1, <1>4 DEF Retries
    <2>2. Retries(e)' \subseteq Ids
      BY DEF Retries
    <2>3. ASSUME NEW i \in Ids \ {e} PROVE Retries(i)' = Retries(i)
      <3>1. \A r \in Ids : r \in Retries(i)' <=> r \in Retries(i)
        BY <1>1, <1>4 DEF Retries
      <3>2. Retries(i)' \subseteq Ids /\ Retries(i) \subseteq Ids
        BY DEF Retries
      <3>3. QED
        BY <3>1, <3>2
    <2>4. QED
      BY <1>1, <2>1, <2>2, <2>3
  <1>6. IdsAreInOrder'
    BY <1>1, <1>2 DEF Bookkeeping, IdsAreInOrder, Used, n
  <1>7. OneSendPerEvent' /\ UnclaimedIsUnsent'
    BY <1>1 DEF Bookkeeping, OneSendPerEvent, UnclaimedIsUnsent
  <1>8. OwnersAreAlone' /\ ClaimedHasOwner' /\ AbandonedIsClaimed'
    BY <1>1, <1>3, <1>4 DEF Bookkeeping, OwnersAreAlone, ClaimedHasOwner, AbandonedIsClaimed,
                            TypeOK
  <1>9. RetriesFollow'
    <2>1. \A r \in Ids : events[r].previous \in Ids \cup {NoEvent}
      BY DEF TypeOK, Events
    <2>2. \A r \in Ids : Used(r) => events[r].previous # e
      BY <1>4 DEF Retries, Used
    <2>3. \A r \in Ids : Used(r)' => r = n \/ (Used(r) /\ events'[r] = events[r])
      BY <1>1 DEF Used
    <2>4. \A r \in Ids : Used(r) /\ events[r].previous # NoEvent => events[r].previous # n
      BY <1>1 DEF Bookkeeping, RetriesFollow
    <2>5. ASSUME NEW r \in Ids, Used(r)', events'[r].previous # NoEvent
          PROVE  /\ events'[events'[r].previous].type \in {"claimed", "failed"}
                 /\ sends[events'[r].previous] = 1
                 /\ events'[r].attempt = events'[events'[r].previous].attempt + 1
                 /\ \A q \in Ids : Used(q)' /\ events'[q].previous = events'[r].previous => q = r
      <3>1. CASE r = n
        BY <1>1, <1>4, <2>2, <2>3, <3>1
      <3>2. CASE r # n
        <4>1. Used(r) /\ events'[r] = events[r] /\ events[r].previous # e
              /\ events[r].previous # n /\ events[r].previous \in Ids
          BY <2>1, <2>2, <2>3, <2>4, <2>5, <3>2
        <4>2. /\ events'[events[r].previous] = events[events[r].previous]
              /\ \A q \in Ids : q # n /\ Used(q)' => Used(q) /\ events'[q] = events[q]
          BY <1>1, <2>3, <4>1
        <4>3. events'[n].previous # events[r].previous
          BY <1>1, <4>1
        <4>4. /\ events[events[r].previous].type \in {"claimed", "failed"}
              /\ sends[events[r].previous] = 1
              /\ events[r].attempt = events[events[r].previous].attempt + 1
              /\ \A q \in Ids : Used(q) /\ events[q].previous = events[r].previous => q = r
          BY <2>5, <4>1 DEF Bookkeeping, RetriesFollow
        <4>5. QED
          BY <4>1, <4>2, <4>3, <4>4
      <3>3. QED
        BY <3>1, <3>2
    <2>6. QED
      BY <2>5 DEF RetriesFollow
  <1>10. RetryComesBetween'
    BY <1>1, <1>3, <1>4, <1>5 DEF Bookkeeping, RetryComesBetween, RetriesLeft, OwnersAreAlone
  <1>11. FailedIsRetried'
    BY <1>1, <1>4, <1>5 DEF Bookkeeping, FailedIsRetried
  <1>12. QED
    BY <1>6, <1>7, <1>8, <1>9, <1>10, <1>11 DEF Bookkeeping

(* Without retries left the event just fails. *)
LEMMA UnretriedStep ==
  ASSUME TypeOK, Bookkeeping, NEW d \in Dispatchers, NEW e \in Ids, e = Current(d),
         run[d].phase = "retry", run'[d].phase = "failed", run'[d].left = run[d].left,
         \A x \in Dispatchers \ {d} : run'[x] = run[x], ~RetriesLeft(e),
         events' = events, last' = last, sends' = sends, abandoned' = abandoned
  PROVE  Bookkeeping'
  <1>1. /\ \A x \in Dispatchers \ {d}, i \in Ids :
              (Owns(x, i)' <=> Owns(x, i)) /\ run'[x].phase = run[x].phase
        /\ \A i \in Ids : (Owns(d, i) <=> i = e) /\ (Owns(d, i)' <=> i = e)
    BY OthersKeepOwning DEF Owns, Current, Owning
  <1>2. \A i \in Ids : Retries(i)' = Retries(i)
    BY DEF Retries
  <1>3. /\ IdsAreInOrder' /\ OneSendPerEvent' /\ UnclaimedIsUnsent' /\ AbandonedIsClaimed'
        /\ FailedIsRetried'
    BY <1>2 DEF Bookkeeping, IdsAreInOrder, Used, OneSendPerEvent, UnclaimedIsUnsent,
                AbandonedIsClaimed, FailedIsRetried
  <1>4. RetriesFollow'
    BY DEF Bookkeeping, RetriesFollow, Used
  <1>5. OwnersAreAlone' /\ ClaimedHasOwner'
    BY <1>1 DEF Bookkeeping, OwnersAreAlone, ClaimedHasOwner
  <1>6. RetryComesBetween'
    BY <1>1, <1>2 DEF Bookkeeping, RetryComesBetween, RetriesLeft
  <1>7. QED
    BY <1>3, <1>4, <1>5, <1>6 DEF Bookkeeping

(* The owner settles its event and owns it no longer. *)
LEMMA SettledStep ==
  ASSUME TypeOK, Bookkeeping, NEW d \in Dispatchers, NEW e \in Ids, e = Current(d),
         run[d].phase \in {"sent", "failed"}, SetType(e, run[d].phase),
         run'[d].phase \notin Owning, \A x \in Dispatchers \ {d} : run'[x] = run[x],
         last' = last, sends' = sends, abandoned' = abandoned
  PROVE  Bookkeeping'
  <1>1. /\ events'[e].type = run[d].phase
        /\ \A x \in Ids \ {e} : events'[x].type = events[x].type
        /\ \A x \in Ids : /\ events'[x].attempt = events[x].attempt
                          /\ events'[x].previous = events[x].previous
    BY SetTypeRow DEF TypeOK, Types
  <1>2. /\ \A x \in Dispatchers \ {d}, i \in Ids :
              (Owns(x, i)' <=> Owns(x, i)) /\ run'[x].phase = run[x].phase
        /\ \A i \in Ids : (Owns(d, i) <=> i = e) /\ ~Owns(d, i)'
    BY OthersKeepOwning DEF Owns, Current, Owning
  <1>3. /\ events[e].type = "claimed" /\ e \notin abandoned
        /\ \A x \in Dispatchers \ {d} : ~Owns(x, e)
        /\ sends[e] = 1
        /\ run[d].phase = "sent" => Retries(e) = {}
        /\ run[d].phase = "failed" /\ RetriesLeft(e) => Retries(e) # {}
    BY <1>2 DEF Bookkeeping, OwnersAreAlone, RetryComesBetween
  <1>4. \A i \in Ids : (Used(i)' <=> Used(i)) /\ (RetriesLeft(i)' <=> RetriesLeft(i))
    BY <1>1, <1>3 DEF Used, RetriesLeft
  <1>5. \A i \in Ids : Retries(i)' = Retries(i)
    BY <1>1, <1>3 DEF Retries
  <1>6. IdsAreInOrder' /\ OneSendPerEvent' /\ UnclaimedIsUnsent' /\ AbandonedIsClaimed'
    BY <1>1, <1>3, <1>4 DEF Bookkeeping, IdsAreInOrder, OneSendPerEvent, UnclaimedIsUnsent,
                            AbandonedIsClaimed, TypeOK
  <1>7. OwnersAreAlone' /\ ClaimedHasOwner'
    BY <1>1, <1>2, <1>3 DEF Bookkeeping, OwnersAreAlone, ClaimedHasOwner
  <1>8. RetriesFollow'
    <2>1. \A r \in Ids : events[r].previous \in Ids \cup {NoEvent}
      BY DEF TypeOK, Events
    <2>2. run[d].phase = "sent" => \A r \in Ids : Used(r) => events[r].previous # e
      BY <1>3 DEF Retries, Used
    <2>3. QED
      BY <1>1, <1>4, <2>1, <2>2 DEF Bookkeeping, RetriesFollow
  <1>9. RetryComesBetween'
    BY <1>2, <1>4, <1>5 DEF Bookkeeping, RetryComesBetween
  <1>10. FailedIsRetried'
    BY <1>1, <1>3, <1>4, <1>5 DEF Bookkeeping, FailedIsRetried, RetriesLeft
  <1>11. QED
    BY <1>6, <1>7, <1>8, <1>9, <1>10 DEF Bookkeeping

(* What a run owned when it died stays claimed, by nobody. *)
LEMMA AbortedStep ==
  ASSUME TypeOK, Bookkeeping, RunsHaveWork, NEW d \in Dispatchers, Abort(d)
  PROVE  Bookkeeping'
  <1>1. /\ run'[d].phase = "idle"
        /\ \A x \in Dispatchers \ {d} : run'[x] = run[x]
        /\ events' = events /\ last' = last /\ sends' = sends
    BY NoRunRow DEF Abort, TypeOK
  <1>2. CASE run[d].phase \notin Owning
    <2>1. abandoned' = abandoned
      BY <1>2 DEF Abort
    <2>2. \A x \in Dispatchers :
             run'[x] = run[x] \/ (run[x].phase \notin Owning /\ run'[x].phase \notin Owning)
      BY <1>1, <1>2 DEF Owning
    <2>3. QED
      BY <1>1, <2>1, <2>2, IdleStep
  <1>3. CASE run[d].phase \in Owning
    <2> DEFINE e == Current(d)
    <2>1. e \in Ids /\ abandoned' = abandoned \cup {e}
      BY <1>3, CurrentIsId DEF Abort, RunsHaveWork, Owning
    <2>2. /\ \A x \in Dispatchers \ {d}, i \in Ids :
                (Owns(x, i)' <=> Owns(x, i)) /\ run'[x].phase = run[x].phase
          /\ \A i \in Ids : (Owns(d, i) <=> i = e) /\ ~Owns(d, i)'
      BY <1>1, <1>3, OthersKeepOwning DEF Owns, Owning
    <2> HIDE DEF e
    <2>3. events[e].type = "claimed" /\ \A x \in Dispatchers \ {d} : ~Owns(x, e)
      BY <2>1, <2>2 DEF Bookkeeping, OwnersAreAlone
    <2>4. \A i \in Ids : Retries(i)' = Retries(i)
      BY <1>1 DEF Retries
    <2>5. /\ IdsAreInOrder' /\ OneSendPerEvent' /\ UnclaimedIsUnsent' /\ AbandonedIsClaimed'
          /\ FailedIsRetried'
      BY <1>1, <2>1, <2>3, <2>4 DEF Bookkeeping, IdsAreInOrder, Used, OneSendPerEvent,
                       UnclaimedIsUnsent, AbandonedIsClaimed, FailedIsRetried
    <2>6. RetriesFollow'
      BY <1>1 DEF Bookkeeping, RetriesFollow, Used
    <2>7. OwnersAreAlone' /\ ClaimedHasOwner'
      BY <1>1, <2>1, <2>2, <2>3 DEF Bookkeeping, OwnersAreAlone, ClaimedHasOwner
    <2>8. RetryComesBetween'
      BY <1>1, <2>2, <2>4 DEF Bookkeeping, RetryComesBetween, RetriesLeft
    <2>9. QED
      BY <2>5, <2>6, <2>7, <2>8 DEF Bookkeeping
  <1>4. QED
    BY <1>2, <1>3

(* Every step keeps the types and leaves a run that is past the look with an event. *)
LEMMA NextTypeOK == DispatchInv /\ [Next]_vars => TypeOK' /\ RunsHaveWork'
  <1> SUFFICES ASSUME DispatchInv, [Next]_vars PROVE TypeOK' /\ RunsHaveWork'
    OBVIOUS
  <1>1. TypeOK /\ RunsHaveWork /\ IdsAreInOrder
    BY DEF DispatchInv
  <1>2. /\ events \in [Ids -> Events] /\ run \in [Dispatchers -> Runs] /\ sends \in [Ids -> Nat]
        /\ notified \subseteq Ids /\ abandoned \subseteq Ids /\ mode \in [Tenants -> Modes]
        /\ last \in 0..MaxEvents /\ raised \in 0..MaxAlerts /\ aborts \in 0..MaxAborts
    BY <1>1 DEF TypeOK
  <1>3. CASE UNCHANGED vars
    BY <1>1, <1>3 DEF vars, TypeOK, RunsHaveWork
  <1>4. ASSUME NEW t \in Tenants, Raise(t) PROVE TypeOK' /\ RunsHaveWork'
    <2>1. events' \in [Ids -> Events] /\ last' \in 0..MaxEvents
      <3>1. NewEvent(t, 0, TRUE, NoEvent)
        BY <1>4 DEF Raise
      <3>2. 0 \in 0..MaxRetries /\ NoEvent \in Ids \cup {NoEvent} /\ TRUE \in BOOLEAN
        BY BoundsAssumption
      <3>3. events' \in [Ids -> Events] /\ last' \in Ids
        BY <1>1, <3>1, <3>2, NewEventRow
      <3>4. QED
        BY <3>3, IdsAreNat DEF Ids
    <2>2. raised' \in 0..MaxAlerts
      BY <1>4, <1>2, BoundsAssumption DEF Raise
    <2>3. QED
      BY <1>4, <1>1, <1>2, <2>1, <2>2 DEF Raise, TypeOK, RunsHaveWork
  <1>5. ASSUME NEW t \in Tenants, ChangePlan(t) PROVE TypeOK' /\ RunsHaveWork'
    <2>1. mode' \in [Tenants -> Modes]
      BY <1>5, <1>2 DEF ChangePlan
    <2>2. QED
      BY <1>5, <1>1, <1>2, <2>1 DEF ChangePlan, TypeOK, RunsHaveWork
  <1>6. ASSUME NEW e \in Ids, Ripen(e) PROVE TypeOK' /\ RunsHaveWork'
    <2>1. events' \in [Ids -> Events]
      <3>1. [events[e] EXCEPT !.due = TRUE] \in Events
        BY <1>2 DEF Events
      <3>2. events' = [events EXCEPT ![e] = [events[e] EXCEPT !.due = TRUE]]
        BY <1>6 DEF Ripen
      <3>3. QED
        BY <1>2, <3>1, <3>2
    <2>2. QED
      BY <1>6, <1>1, <1>2, <2>1 DEF Ripen, TypeOK, RunsHaveWork
  <1>7. ASSUME NEW d \in Dispatchers, Work(d) PROVE TypeOK' /\ RunsHaveWork'
    <2>1. run[d].left # {} => Current(d) \in Ids
      BY <1>1, CurrentIsId
    <2>2. run[d].phase \notin {"idle", "look"} => run[d].left # {}
      BY <1>1 DEF RunsHaveWork
    <2>3. \A type \in {"claimed", "skipped", "sent", "failed"} :
             run[d].left # {} /\ SetType(Current(d), type) => events' \in [Ids -> Events]
      BY <1>2, <2>1, SetTypeRow DEF Types
    <2>4. \A phase \in Phases : Goto(d, phase) =>
             run' \in [Dispatchers -> Runs] /\ run'[d].left = run[d].left
             /\ \A x \in Dispatchers \ {d} : run'[x] = run[x]
      BY <1>2, GotoRow
    <2>5. Continue(d) => run' \in [Dispatchers -> Runs] /\ run'[d].phase = "look"
                         /\ \A x \in Dispatchers \ {d} : run'[x] = run[x]
      BY <1>2, ContinueRow
    <2>6. ASSUME \A x \in Dispatchers \ {d} : run'[x] = run[x],
                 run'[d].phase \in {"idle", "look"} \/ run'[d].left # {}
          PROVE  RunsHaveWork'
      BY <1>1, <2>6 DEF RunsHaveWork
    <2> USE DEF Phases
    <2>7. CASE Begin(d)
      <3>1. run' \in [Dispatchers -> Runs] /\ RunsHaveWork'
        BY <1>2, <2>7, <2>6, BeginRow
      <3>2. QED
        BY <1>2, <2>7, <3>1 DEF Begin, TypeOK
    <2>8. CASE End(d)
      <3>1. run' \in [Dispatchers -> Runs] /\ RunsHaveWork'
        BY <1>2, <2>8, <2>6, NoRunRow DEF End
      <3>2. QED
        BY <1>2, <2>8, <3>1 DEF End, TypeOK
    <2>9. CASE Look(d)
      <3>1. run' \in [Dispatchers -> Runs] /\ RunsHaveWork'
        BY <1>1, <2>9, <2>6, LookRow
      <3>2. QED
        BY <1>2, <2>9, <3>1 DEF Look, TypeOK
    <2>10. CASE Skip(d)
      <3>1. run' \in [Dispatchers -> Runs] /\ RunsHaveWork'
        BY <2>10, <2>2, <2>4, <2>5, <2>6 DEF Skip
      <3>2. events' \in [Ids -> Events]
        BY <1>2, <2>10, <2>2, <2>3 DEF Skip
      <3>3. QED
        BY <1>2, <2>10, <3>1, <3>2 DEF Skip, TypeOK
    <2>11. CASE Claim(d)
      <3>1. run[d].left # {}
        BY <2>11, <2>2 DEF Claim
      <3>2. run' \in [Dispatchers -> Runs] /\ RunsHaveWork' /\ events' \in [Ids -> Events]
        BY <1>1, <1>2, <2>11, <2>3, <2>6, <3>1, ClaimRow
      <3>3. QED
        BY <1>2, <2>11, <3>2 DEF Claim, TypeOK
    <2>12. CASE Send(d)
      <3>1. run' \in [Dispatchers -> Runs] /\ RunsHaveWork'
        BY <2>12, <2>2, <2>4, <2>6 DEF Send
      <3>2. sends' \in [Ids -> Nat]
        BY <1>2, <2>12, <2>1, <2>2 DEF Send
      <3>3. QED
        BY <1>2, <2>12, <3>1, <3>2 DEF Send, TypeOK
    <2>13. CASE Retry(d)
      <3>1. run' \in [Dispatchers -> Runs] /\ RunsHaveWork'
        BY <2>13, <2>2, <2>4, <2>6 DEF Retry
      <3>2. events' \in [Ids -> Events] /\ last' \in 0..MaxEvents
        <4> DEFINE e == Current(d)
        <4>1. e \in Ids
          BY <2>13, <2>1, <2>2 DEF Retry
        <4>2. CASE UNCHANGED <<events, last>>
          BY <1>2, <4>2
        <4>3. CASE RetriesLeft(e) /\ NewEvent(events[e].tenant, events[e].attempt + 1, FALSE, e)
          <5>1. events[e].tenant \in Tenants /\ events[e].attempt + 1 \in 0..MaxRetries
            BY <1>2, <4>1, <4>3, BoundsAssumption DEF Events, RetriesLeft
          <5>2. events' \in [Ids -> Events] /\ last' \in Ids
            BY <1>1, <4>1, <4>3, <5>1, NewEventRow
          <5>3. QED
            BY <5>2, IdsAreNat DEF Ids
        <4>4. QED
          BY <2>13, <4>2, <4>3 DEF Retry
      <3>3. QED
        BY <1>2, <2>13, <3>1, <3>2 DEF Retry, TypeOK
    <2>14. CASE Settle(d)
      <3>1. run' \in [Dispatchers -> Runs] /\ RunsHaveWork'
        BY <2>14, <2>2, <2>4, <2>6 DEF Settle
      <3>2. events' \in [Ids -> Events]
        BY <2>14, <2>2, <2>3 DEF Settle
      <3>3. QED
        BY <1>2, <2>14, <3>1, <3>2 DEF Settle, TypeOK
    <2>15. CASE Notify(d)
      <3>1. run' \in [Dispatchers -> Runs] /\ RunsHaveWork'
        BY <2>15, <2>5, <2>6 DEF Notify
      <3>2. notified' \subseteq Ids
        BY <1>2, <2>15, <2>1, <2>2 DEF Notify
      <3>3. QED
        BY <1>2, <2>15, <3>1, <3>2 DEF Notify, TypeOK
    <2>16. QED
      BY <1>7, <2>7, <2>8, <2>9, <2>10, <2>11, <2>12, <2>13, <2>14, <2>15 DEF Work
  <1>8. ASSUME NEW d \in Dispatchers, Abort(d) PROVE TypeOK' /\ RunsHaveWork'
    <2>1. abandoned' \subseteq Ids
      BY <1>8, <1>1, <1>2, CurrentIsId DEF Abort, RunsHaveWork, Owning
    <2>2. aborts' \in 0..MaxAborts
      BY <1>8, <1>2, BoundsAssumption DEF Abort
    <2>3. /\ run' \in [Dispatchers -> Runs] /\ run'[d].phase = "idle"
          /\ \A x \in Dispatchers \ {d} : run'[x] = run[x]
      BY <1>8, <1>2, NoRunRow DEF Abort
    <2>4. RunsHaveWork'
      BY <1>1, <2>3 DEF RunsHaveWork
    <2>5. QED
      BY <1>8, <1>2, <2>1, <2>2, <2>3, <2>4 DEF Abort, TypeOK
  <1>9. QED
    BY <1>3, <1>4, <1>5, <1>6, <1>7, <1>8 DEF Next

(* Every step keeps the books. *)
LEMMA NextBookkeeping == DispatchInv /\ [Next]_vars => Bookkeeping'
  <1> SUFFICES ASSUME DispatchInv, [Next]_vars PROVE Bookkeeping'
    OBVIOUS
  <1>1. TypeOK /\ RunsHaveWork /\ Bookkeeping
    BY DEF DispatchInv, Bookkeeping
  <1>2. events \in [Ids -> Events] /\ run \in [Dispatchers -> Runs]
    BY <1>1 DEF TypeOK
  <1>3. CASE UNCHANGED vars
    BY <1>1, <1>3, IdleStep DEF vars
  <1>4. ASSUME NEW t \in Tenants, Raise(t) PROVE Bookkeeping'
    BY <1>4, <1>1, RaiseStep
  <1>5. ASSUME NEW t \in Tenants, ChangePlan(t) PROVE Bookkeeping'
    BY <1>5, <1>1, IdleStep DEF ChangePlan
  <1>6. ASSUME NEW e \in Ids, Ripen(e) PROVE Bookkeeping'
    <2>1. \A x \in Ids : /\ events'[x].type = events[x].type
                         /\ events'[x].attempt = events[x].attempt
                         /\ events'[x].previous = events[x].previous
      BY <1>6, <1>2 DEF Ripen, Events
    <2>2. QED
      BY <1>6, <1>1, <2>1, IdleStep DEF Ripen
  <1>7. ASSUME NEW d \in Dispatchers, Work(d) PROVE Bookkeeping'
    <2> DEFINE e == Current(d)
    <2>1. run[d].left # {} => e \in Ids
      BY <1>1, CurrentIsId
    <2>2. run[d].phase \notin {"idle", "look"} => run[d].left # {}
      BY <1>1 DEF RunsHaveWork
    <2>3. ASSUME run[d].phase \notin Owning, run'[d].phase \notin Owning,
                 \A x \in Dispatchers \ {d} : run'[x] = run[x],
                 events' = events, last' = last, sends' = sends, abandoned' = abandoned
          PROVE  Bookkeeping'
      <3>1. \A x \in Dispatchers :
               run'[x] = run[x] \/ (run[x].phase \notin Owning /\ run'[x].phase \notin Owning)
        BY <2>3
      <3>2. QED
        BY <1>1, <2>3, <3>1, IdleStep
    <2> HIDE DEF e
    <2>4. CASE Begin(d)
      BY <1>2, <2>4, <2>3, BeginRow DEF Begin, Owning
    <2>5. CASE End(d)
      BY <1>2, <2>5, <2>3, NoRunRow DEF End, Owning
    <2>6. CASE Look(d)
      <3>1. /\ run'[d].phase \in {"skip", "claim", "look"}
            /\ \A x \in Dispatchers \ {d} : run'[x] = run[x]
        BY <1>1, <2>6, LookRow
      <3>2. QED
        BY <2>6, <2>3, <3>1 DEF Look, Owning
    <2>7. CASE Skip(d)
      <3>1. CASE Continue(d) /\ UNCHANGED events
        BY <1>2, <2>7, <2>3, <3>1, ContinueRow DEF Skip, Owning
      <3>2. CASE StillPending(e) /\ SetType(e, "skipped") /\ Goto(d, "notify")
        <4>1. /\ run'[d].phase = "notify" /\ \A x \in Dispatchers \ {d} : run'[x] = run[x]
          BY <1>2, <3>2, GotoRow DEF Phases
        <4>2. e \in Ids
          BY <2>7, <2>1, <2>2 DEF Skip
        <4>3. QED
          BY <1>1, <2>7, <3>2, <4>1, <4>2, SkippedStep DEF Skip, Owning
      <3>3. QED
        BY <2>7, <3>1, <3>2 DEF Skip, e
    <2>8. CASE Claim(d)
      <3>1. run[d].left # {} /\ e \in Ids
        BY <2>8, <2>1, <2>2 DEF Claim
      <3>2. \A x \in Dispatchers \ {d} : run'[x] = run[x]
        BY <1>1, <2>8, <3>1, ClaimRow
      <3>3. \/ /\ StillPending(e) /\ SetType(e, "claimed")
               /\ run'[d].phase = "send" /\ run'[d].left = run[d].left
            \/ run'[d].phase = "look" /\ UNCHANGED events
        BY <1>1, <2>8, <3>1, ClaimRow DEF e
      <3>4. CASE run'[d].phase = "look" /\ UNCHANGED events
        BY <2>8, <2>3, <3>2, <3>4 DEF Claim, Owning
      <3>5. CASE /\ StillPending(e) /\ SetType(e, "claimed")
                 /\ run'[d].phase = "send" /\ run'[d].left = run[d].left
        BY <1>1, <2>8, <3>1, <3>2, <3>5, ClaimedStep DEF Claim, Owning, e
      <3>6. QED
        BY <3>3, <3>4, <3>5
    <2>9. CASE Send(d)
      <3>1. e \in Ids /\ e = Current(d)
        BY <2>9, <2>1, <2>2 DEF Send, e
      <3>2. /\ run'[d].phase \in {"sent", "retry"} /\ run'[d].left = run[d].left
            /\ \A x \in Dispatchers \ {d} : run'[x] = run[x]
        BY <1>2, <2>9, GotoRow DEF Send, Phases
      <3>3. /\ run[d].phase = "send" /\ sends' = [sends EXCEPT ![e] = @ + 1]
            /\ events' = events /\ last' = last /\ abandoned' = abandoned
        BY <2>9, <3>1 DEF Send
      <3>4. QED
        BY <1>1, <3>1, <3>2, <3>3, SentStep
    <2>10. CASE Retry(d)
      <3>1. e \in Ids /\ e = Current(d)
        BY <2>10, <2>1, <2>2 DEF Retry, e
      <3>2. /\ run'[d].phase = "failed" /\ run'[d].left = run[d].left
            /\ \A x \in Dispatchers \ {d} : run'[x] = run[x]
        BY <1>2, <2>10, GotoRow DEF Retry, Phases
      <3>3. run[d].phase = "retry" /\ sends' = sends /\ abandoned' = abandoned
        BY <2>10 DEF Retry
      <3>4. CASE RetriesLeft(e) /\ NewEvent(events[e].tenant, events[e].attempt + 1, FALSE, e)
        BY <1>1, <3>1, <3>2, <3>3, <3>4, RetriedStep
      <3>5. CASE ~RetriesLeft(e) /\ UNCHANGED <<events, last>>
        BY <1>1, <3>1, <3>2, <3>3, <3>5, UnretriedStep
      <3>6. QED
        BY <2>10, <3>4, <3>5 DEF Retry, e
    <2>11. CASE Settle(d)
      <3>1. e \in Ids /\ e = Current(d)
        BY <2>11, <2>1, <2>2 DEF Settle, e
      <3>2. run'[d].phase \notin Owning /\ \A x \in Dispatchers \ {d} : run'[x] = run[x]
        BY <1>2, <2>11, GotoRow DEF Settle, Phases, Owning
      <3>3. /\ run[d].phase \in {"sent", "failed"} /\ SetType(e, run[d].phase)
            /\ last' = last /\ sends' = sends /\ abandoned' = abandoned
        BY <2>11, <3>1 DEF Settle
      <3>4. QED
        BY <1>1, <3>1, <3>2, <3>3, SettledStep
    <2>12. CASE Notify(d)
      <3>1. run'[d].phase \notin Owning /\ \A x \in Dispatchers \ {d} : run'[x] = run[x]
        BY <1>2, <2>12, ContinueRow DEF Notify, Owning
      <3>2. QED
        BY <2>12, <2>3, <3>1 DEF Notify, Owning
    <2>13. QED
      BY <1>7, <2>4, <2>5, <2>6, <2>7, <2>8, <2>9, <2>10, <2>11, <2>12 DEF Work
  <1>8. ASSUME NEW d \in Dispatchers, Abort(d) PROVE Bookkeeping'
    BY <1>8, <1>1, AbortedStep
  <1>9. QED
    BY <1>3, <1>4, <1>5, <1>6, <1>7, <1>8 DEF Next

(* Events that exist go on to, and become due but never undue, while run d *)
(* goes on with some of the events it had and claims none.                 *)
LEMMA DueStep ==
  ASSUME TypeOK, RunsHaveWork, ClaimsAreDue, NEW d \in Dispatchers,
         \A x \in Dispatchers \ {d} : run'[x] = run[x],
         run'[d].phase # "claim", \A e \in run'[d].left : Used(e)',
         \A e \in Ids : Used(e) => Used(e)' /\ (events[e].due => events'[e].due)
  PROVE  ClaimsAreDue'
  <1>1. \A x \in Dispatchers : run[x].left \subseteq Ids
    BY DEF TypeOK, Runs
  <1>2. ASSUME NEW x \in Dispatchers \ {d}
        PROVE  /\ \A e \in run'[x].left : Used(e)'
               /\ run'[x].phase = "claim" => events'[Current(x)'].due
    <2>1. Current(x)' = Current(x)
      BY DEF Current
    <2>2. run[x].phase = "claim" => Current(x) \in run[x].left
      BY CurrentIsId DEF RunsHaveWork
    <2>3. QED
      BY <1>1, <2>1, <2>2 DEF ClaimsAreDue
  <1>3. QED
    BY <1>2 DEF ClaimsAreDue

(* What the writes of events do to their existence and their times. *)
LEMMA SetTypeDue ==
  ASSUME TypeOK, NEW e \in Ids, NEW type \in Types \ {"none"}, SetType(e, type)
  PROVE  \A x \in Ids : (Used(x) => Used(x)') /\ (events'[x].due <=> events[x].due)
  BY DEF TypeOK, Events, SetType, Used

LEMMA NewEventDue ==
  ASSUME TypeOK, IdsAreInOrder, NEW t \in Tenants, NEW attempt \in 0..MaxRetries,
         NEW due \in BOOLEAN, NEW previous \in Ids \cup {NoEvent},
         NewEvent(t, attempt, due, previous)
  PROVE  \A x \in Ids : Used(x) => Used(x)' /\ (events'[x].due <=> events[x].due)
  BY NewEventRow DEF Used

(* A retry is a new event of the same tenant, one attempt further. *)
LEMMA RetryIsNewEvent ==
  ASSUME TypeOK, IdsAreInOrder, NEW e \in Ids, RetriesLeft(e),
         NewEvent(events[e].tenant, events[e].attempt + 1, FALSE, e)
  PROVE  /\ last' \in Ids /\ events[last'].type = "none"
         /\ \A x \in Ids : Used(x) => Used(x)' /\ (events'[x].due <=> events[x].due)
  <1>1. /\ events[e].tenant \in Tenants /\ events[e].attempt + 1 \in 0..MaxRetries
        /\ FALSE \in BOOLEAN /\ e \in Ids \cup {NoEvent}
    BY BoundsAssumption DEF TypeOK, Events, RetriesLeft
  <1>2. QED
    BY <1>1, NewEventRow, NewEventDue

LEMMA NextClaimsAreDue == DispatchInv /\ [Next]_vars => ClaimsAreDue'
  <1> SUFFICES ASSUME DispatchInv, [Next]_vars PROVE ClaimsAreDue'
    OBVIOUS
  <1>1. TypeOK /\ RunsHaveWork /\ IdsAreInOrder /\ ClaimsAreDue
    BY DEF DispatchInv
  <1>2. /\ run \in [Dispatchers -> Runs] /\ events \in [Ids -> Events]
        /\ \A x \in Dispatchers : run[x].left \subseteq Ids
    BY <1>1 DEF TypeOK, Runs
  <1>3. ASSUME run' = run,
               \A x \in Ids : Used(x) => Used(x)' /\ (events[x].due => events'[x].due)
        PROVE  ClaimsAreDue'
    <2>1. \A x \in Dispatchers : Current(x)' = Current(x)
      BY <1>3 DEF Current
    <2>2. \A x \in Dispatchers : run[x].phase = "claim" => Current(x) \in run[x].left
      BY <1>1, CurrentIsId DEF RunsHaveWork
    <2>3. QED
      BY <1>1, <1>2, <1>3, <2>1, <2>2 DEF ClaimsAreDue
  <1>4. CASE UNCHANGED vars
    BY <1>3, <1>4 DEF vars, Used
  <1>5. ASSUME NEW t \in Tenants, Raise(t) PROVE ClaimsAreDue'
    <2>1. 0 \in 0..MaxRetries /\ NoEvent \in Ids \cup {NoEvent} /\ TRUE \in BOOLEAN
      BY BoundsAssumption
    <2>2. \A x \in Ids : Used(x) => Used(x)' /\ (events'[x].due <=> events[x].due)
      BY <1>1, <1>5, <2>1, NewEventDue DEF Raise
    <2>3. QED
      BY <1>3, <1>5, <2>2 DEF Raise
  <1>6. ASSUME NEW t \in Tenants, ChangePlan(t) PROVE ClaimsAreDue'
    BY <1>3, <1>6 DEF ChangePlan, Used
  <1>7. ASSUME NEW e \in Ids, Ripen(e) PROVE ClaimsAreDue'
    <2>1. \A x \in Ids : (Used(x) => Used(x)') /\ (events[x].due => events'[x].due)
      BY <1>2, <1>7 DEF Ripen, Used, Events
    <2>2. QED
      BY <1>3, <1>7, <2>1 DEF Ripen
  <1>8. ASSUME NEW d \in Dispatchers, Work(d) PROVE ClaimsAreDue'
    <2> DEFINE e == Current(d)
    <2>1. run[d].phase \notin {"idle", "look"} => run[d].left # {}
      BY <1>1 DEF RunsHaveWork
    <2>2. run[d].left # {} => e \in Ids /\ e \in run[d].left
      BY <1>1, CurrentIsId
    <2>3. ASSUME \A x \in Dispatchers \ {d} : run'[x] = run[x],
                 run'[d].phase # "claim", run'[d].left \subseteq run[d].left,
                 \A x \in Ids : Used(x) => Used(x)' /\ (events[x].due => events'[x].due)
          PROVE  ClaimsAreDue'
      <3>1. \A x \in run'[d].left : Used(x)'
        BY <1>1, <1>2, <2>3 DEF ClaimsAreDue
      <3>2. QED
        BY <1>1, <2>3, <3>1, DueStep
    <2>4. \A phase \in Phases : Goto(d, phase) =>
             /\ run'[d].phase = phase /\ run'[d].left = run[d].left
             /\ \A x \in Dispatchers \ {d} : run'[x] = run[x]
      BY <1>2, GotoRow
    <2>5. Continue(d) => /\ run'[d].phase = "look" /\ run'[d].left \subseteq run[d].left
                         /\ \A x \in Dispatchers \ {d} : run'[x] = run[x]
      BY <1>2 DEF Continue, Runs
    <2>6. \A type \in {"claimed", "skipped", "sent", "failed"} :
             run[d].left # {} /\ SetType(e, type) =>
                \A x \in Ids : Used(x) => Used(x)' /\ (events[x].due => events'[x].due)
      BY <1>1, <2>2, SetTypeDue DEF Types
    <2>7. events' = events =>
             \A x \in Ids : Used(x) => Used(x)' /\ (events[x].due => events'[x].due)
      BY DEF Used
    <2> HIDE DEF e
    <2> USE DEF Phases
    <2>8. CASE Begin(d)
      <3>1. /\ run'[d].phase = "look" /\ run'[d].left = FirstOf(Pending)
            /\ \A x \in Dispatchers \ {d} : run'[x] = run[x]
        BY <1>2, <2>8 DEF Begin, Runs
      <3>2. \A x \in run'[d].left : Used(x)'
        BY <2>8, <3>1 DEF Begin, FirstOf, Pending, Used
      <3>3. QED
        BY <1>1, <2>7, <2>8, <3>1, <3>2, DueStep DEF Begin
    <2>9. CASE End(d)
      <3>1. /\ run'[d].phase # "claim" /\ run'[d].left = {}
            /\ \A x \in Dispatchers \ {d} : run'[x] = run[x]
        BY <1>2, <2>9 DEF End, NoRun
      <3>2. QED
        BY <2>3, <2>7, <2>9, <3>1 DEF End
    <2>10. CASE Look(d)
      <3>1. /\ \A x \in Dispatchers \ {d} : run'[x] = run[x]
            /\ events' = events
            /\ run'[d].phase = Decision(d, e)
            /\ run'[d].left = IF Decision(d, e) = "look" THEN run[d].left \ {e} ELSE run[d].left
        <4>1. run[d] \in Runs
          BY <1>2
        <4>2. QED
          BY <1>2, <2>10, <4>1 DEF Look, Runs, e
      <3>2. CASE Decision(d, e) # "claim"
        BY <2>3, <2>7, <3>1, <3>2
      <3>3. CASE Decision(d, e) = "claim"
        <4>1. events[e].due
          BY <3>3 DEF Decision
        <4>2. Current(d)' = Current(d)
          BY <3>1, <3>3 DEF Current
        <4>3. ASSUME NEW x \in Dispatchers \ {d}
              PROVE  /\ \A y \in run'[x].left : Used(y)'
                     /\ run'[x].phase = "claim" => events'[Current(x)'].due
          BY <1>1, <3>1 DEF ClaimsAreDue, Current, Used
        <4>4. \A y \in run'[d].left : Used(y)'
          BY <1>1, <3>1, <3>3 DEF ClaimsAreDue, Used
        <4>5. QED
          BY <3>1, <4>1, <4>2, <4>3, <4>4 DEF ClaimsAreDue, e
      <3>4. QED
        BY <3>2, <3>3
    <2>11. CASE Skip(d)
      <3>1. CASE SetType(e, "skipped") /\ Goto(d, "notify")
        BY <2>1, <2>3, <2>4, <2>6, <2>11, <3>1 DEF Skip
      <3>2. CASE Continue(d) /\ UNCHANGED events
        BY <2>3, <2>5, <2>7, <3>2
      <3>3. QED
        BY <2>11, <3>1, <3>2 DEF Skip, e
    <2>12. CASE Claim(d)
      <3>1. run[d].left # {}
        BY <2>1, <2>12 DEF Claim
      <3>2. /\ \A x \in Dispatchers \ {d} : run'[x] = run[x]
            /\ \/ /\ SetType(e, "claimed")
                  /\ run'[d].phase = "send" /\ run'[d].left = run[d].left
               \/ /\ run'[d].phase = "look" /\ run'[d].left \subseteq run[d].left
                  /\ UNCHANGED events
        BY <1>1, <2>12, <3>1, ClaimRow DEF e
      <3>3. QED
        BY <2>3, <2>6, <2>7, <3>1, <3>2
    <2>13. CASE Send(d)
      BY <2>3, <2>4, <2>7, <2>13 DEF Send
    <2>14. CASE Retry(d)
      <3>1. \A x \in Ids : Used(x) => Used(x)' /\ (events[x].due => events'[x].due)
        <4>1. e \in Ids
          BY <2>1, <2>2, <2>14 DEF Retry
        <4>2. CASE RetriesLeft(e) /\ NewEvent(events[e].tenant, events[e].attempt + 1, FALSE, e)
          BY <1>1, <4>1, <4>2, RetryIsNewEvent
        <4>3. CASE UNCHANGED <<events, last>>
          BY <2>7, <4>3
        <4>4. QED
          BY <2>14, <4>2, <4>3 DEF Retry, e
      <3>2. QED
        BY <2>3, <2>4, <2>14, <3>1 DEF Retry
    <2>15. CASE Settle(d)
      BY <2>1, <2>3, <2>4, <2>6, <2>15 DEF Settle, e
    <2>16. CASE Notify(d)
      BY <2>3, <2>5, <2>7, <2>16 DEF Notify
    <2>17. QED
      BY <1>8, <2>8, <2>9, <2>10, <2>11, <2>12, <2>13, <2>14, <2>15, <2>16 DEF Work
  <1>9. ASSUME NEW d \in Dispatchers, Abort(d) PROVE ClaimsAreDue'
    <2>1. /\ run'[d].phase # "claim" /\ run'[d].left = {} /\ events' = events
          /\ \A x \in Dispatchers \ {d} : run'[x] = run[x]
      BY <1>2, <1>9 DEF Abort, NoRun
    <2>2. QED
      BY <1>1, <2>1, DueStep DEF Used
  <1>10. QED
    BY <1>4, <1>5, <1>6, <1>7, <1>8, <1>9 DEF Next

(* DispatchInv holds in every reachable state.                             *)
THEOREM DispatchInvariant == Spec => []DispatchInv
  <1>1. DispatchInv /\ [Next]_vars => DispatchInv'
    BY NextTypeOK, NextBookkeeping, NextClaimsAreDue DEF DispatchInv, Bookkeeping
  <1>2. QED
    BY InitDispatchInv, <1>1, PTL DEF Spec

(* The notifications of an event go out once, whatever runs overlap or die *)
(* (the conditional update of claimPendingAlertEvent).                     *)
THEOREM EachEventIsSentOnce == Spec => []OneSendPerEvent
  <1>1. DispatchInv => OneSendPerEvent
    BY DEF DispatchInv
  <1>2. QED
    BY DispatchInvariant, <1>1, PTL

(* A claimed event is in the hands of exactly one run, or its run died.    *)
THEOREM EachClaimHasOneOwner == Spec => []ClaimedIsOwned
  <1>1. DispatchInv => ClaimedIsOwned
    BY DEF DispatchInv, ClaimedIsOwned, OwnersAreAlone, ClaimedHasOwner
  <1>2. QED
    BY DispatchInvariant, <1>1, PTL

(* A failed event with retries left has one retry, one attempt further on, *)
(* and only failed sendings are retried (scheduleRetryIfNeeded).           *)
THEOREM RetriesMatch == Spec => []RetriesMatchFailures
  <1>1. DispatchInv => RetriesMatchFailures
    <2> SUFFICES ASSUME DispatchInv PROVE RetriesAreJustified
      BY DEF DispatchInv, RetriesMatchFailures
    <2>1. ASSUME NEW e \in Ids
          PROVE  /\ Cardinality(Retries(e)) <= 1
                 /\ \A r \in Retries(e) : /\ events[r].attempt = events[e].attempt + 1
                                          /\ events[e].type \in {"claimed", "failed"}
                                          /\ sends[e] = 1
      <3>1. \A r \in Retries(e) :
               /\ events[r].attempt = events[e].attempt + 1
               /\ events[e].type \in {"claimed", "failed"}
               /\ sends[e] = 1
               /\ \A q \in Retries(e) : q = r
        BY IdsAreNat DEF DispatchInv, RetriesFollow, Retries, Used
      <3>2. CASE Retries(e) = {}
        BY <3>2, FS_EmptySet
      <3>3. CASE Retries(e) # {}
        <4>1. PICK r \in Retries(e) : TRUE
          BY <3>3
        <4>2. Retries(e) = {r}
          BY <3>1, <4>1
        <4>3. QED
          BY <3>1, <4>2, FS_Singleton
      <3>4. QED
        BY <3>1, <3>2, <3>3
    <2>2. QED
      BY <2>1 DEF RetriesAreJustified
  <1>2. QED
    BY DispatchInvariant, <1>1, PTL

----------------------------------------------------------------------------
(* The refinement of AlertQueue.                                           *)

(* What a step of run d does to the owners of events. *)
LEMMA OwnersAfter ==
  ASSUME NEW d \in Dispatchers, \A x \in Dispatchers \ {d} : run'[x] = run[x]
  PROVE  /\ run[d].phase \notin Owning /\ run'[d].phase \notin Owning => Owners' = Owners
         /\ /\ run[d].phase \in Owning /\ run'[d].phase \in Owning
            /\ run'[d].left = run[d].left
            => Owners' = Owners
         /\ /\ Current(d) \in Ids /\ Owners[Current(d)] = {} /\ run[d].phase \notin Owning
            /\ run'[d].phase \in Owning /\ run'[d].left = run[d].left
            => Owners' = [Owners EXCEPT ![Current(d)] = {d}]
         /\ /\ Current(d) \in Ids /\ Owners[Current(d)] = {d} /\ run[d].phase \in Owning
            /\ run'[d].phase \notin Owning
            => Owners' = [Owners EXCEPT ![Current(d)] = {}]
  <1>1. Owners' = [e \in Ids |-> {x \in Dispatchers : Owns(x, e)'}]
    BY DEF Owners
  <1>2. \A x \in Dispatchers \ {d}, e \in Ids : Owns(x, e)' <=> Owns(x, e)
    BY OthersKeepOwning
  <1>3. run'[d].left = run[d].left => Current(d)' = Current(d)
    BY DEF Current
  <1>4. ASSUME \A e \in Ids : Owns(d, e)' <=> Owns(d, e) PROVE Owners' = Owners
    <2>1. \A x \in Dispatchers, e \in Ids : Owns(x, e)' <=> Owns(x, e)
      BY <1>2, <1>4
    <2>2. QED
      BY <1>1, <2>1 DEF Owners
  <1>5. CASE run[d].phase \notin Owning /\ run'[d].phase \notin Owning
    BY <1>4, <1>5 DEF Owns
  <1>6. CASE /\ run[d].phase \in Owning /\ run'[d].phase \in Owning
             /\ run'[d].left = run[d].left
    BY <1>3, <1>4, <1>6 DEF Owns
  <1>7. CASE /\ Current(d) \in Ids /\ Owners[Current(d)] = {} /\ run[d].phase \notin Owning
             /\ run'[d].phase \in Owning /\ run'[d].left = run[d].left
    <2>1. \A e \in Ids : (Owns(d, e)' <=> e = Current(d)) /\ ~Owns(d, e)
      BY <1>3, <1>7 DEF Owns
    <2>2. \A x \in Dispatchers : ~Owns(x, Current(d))
      BY <1>7 DEF Owners
    <2>3. \A e \in Ids : {x \in Dispatchers : Owns(x, e)'} =
             IF e = Current(d) THEN {d} ELSE {x \in Dispatchers : Owns(x, e)}
      BY <1>2, <2>1, <2>2
    <2>4. Owners' = [Owners EXCEPT ![Current(d)] = {d}]
      BY <1>1, <1>7, <2>3 DEF Owners
    <2>5. QED
      BY <1>7, <2>4
  <1>8. CASE /\ Current(d) \in Ids /\ Owners[Current(d)] = {d} /\ run[d].phase \in Owning
             /\ run'[d].phase \notin Owning
    <2>1. \A e \in Ids : ~Owns(d, e)' /\ (Owns(d, e) <=> e = Current(d))
      BY <1>8 DEF Owns
    <2>2. \A x \in Dispatchers : Owns(x, Current(d)) <=> x = d
      BY <1>8 DEF Owners
    <2>3. \A e \in Ids : {x \in Dispatchers : Owns(x, e)'} =
             IF e = Current(d) THEN {} ELSE {x \in Dispatchers : Owns(x, e)}
      BY <1>2, <2>1, <2>2
    <2>4. Owners' = [Owners EXCEPT ![Current(d)] = {}]
      BY <1>1, <1>8, <2>3 DEF Owners
    <2>5. QED
      BY <1>8, <2>4
  <1>9. QED
    BY <1>5, <1>6, <1>7, <1>8

(* What is known of the event of a run between its claim and its settling. *)
LEMMA OwnedEvent ==
  ASSUME DispatchInv, NEW d \in Dispatchers, run[d].phase \in Owning
  PROVE  LET e == Current(d) IN
         /\ e \in Ids /\ events[e].type = "claimed" /\ Owners[e] = {d}
         /\ sends[e] = (IF run[d].phase = "send" THEN 0 ELSE 1)
         /\ Queue!Retried(e) <=> Retries(e) # {}
         /\ run[d].phase # "failed" => ~Queue!Retried(e)
         /\ run[d].phase = "failed" /\ events[e].attempt < MaxRetries => Queue!Retried(e)
  <1> DEFINE e == Current(d)
  <1>1. e \in Ids
    BY CurrentIsId DEF DispatchInv, RunsHaveWork, Owning
  <1>2. Owns(d, e)
    BY DEF Owns
  <1>3. /\ events[e].type = "claimed" /\ \A x \in Dispatchers : Owns(x, e) <=> x = d
        /\ sends[e] = (IF run[d].phase = "send" THEN 0 ELSE 1)
    BY <1>1, <1>2 DEF DispatchInv, OwnersAreAlone
  <1>4. Owners[e] = {d}
    BY <1>1, <1>3 DEF Owners
  <1>5. Queue!Retried(e) <=> Retries(e) # {}
    BY DEF Queue!Retried, Retries
  <1>6. /\ run[d].phase # "failed" => Retries(e) = {}
        /\ run[d].phase = "failed" /\ events[e].attempt < MaxRetries => Retries(e) # {}
    BY <1>1, <1>2 DEF DispatchInv, RetryComesBetween, RetriesLeft
  <1>7. QED
    BY <1>1, <1>3, <1>4, <1>5, <1>6

(* A run's steps, seen from the queue. *)
LEMMA WorkImplements ==
  ASSUME DispatchInv, NEW d \in Dispatchers, Work(d)
  PROVE  Queue!Next \/ UNCHANGED Queue!avars
  <1> DEFINE e == Current(d)
  <1>1. TypeOK /\ RunsHaveWork /\ IdsAreInOrder
    BY DEF DispatchInv
  <1>2. run \in [Dispatchers -> Runs] /\ events \in [Ids -> Events]
    BY <1>1 DEF TypeOK
  <1>3. run[d].phase \notin {"idle", "look"} => run[d].left # {} /\ e \in Ids
    BY <1>1, CurrentIsId DEF RunsHaveWork
  <1>4. \A phase \in Phases : Goto(d, phase) =>
           /\ run'[d].phase = phase /\ run'[d].left = run[d].left
           /\ \A x \in Dispatchers \ {d} : run'[x] = run[x]
    BY <1>2, GotoRow
  <1>5. ASSUME \A x \in Dispatchers \ {d} : run'[x] = run[x], events' = events, sends' = sends,
               run[d].phase \notin Owning, run'[d].phase \notin Owning
        PROVE  UNCHANGED Queue!avars
    BY <1>5, OwnersAfter DEF Queue!avars
  <1> HIDE DEF e
  <1> USE DEF Phases
  <1>6. CASE Begin(d)
    BY <1>2, <1>5, <1>6, BeginRow DEF Begin, Owning
  <1>7. CASE End(d)
    BY <1>2, <1>5, <1>7, NoRunRow DEF End, Owning
  <1>8. CASE Look(d)
    <2>1. /\ run'[d].phase \in {"skip", "claim", "look"}
          /\ \A x \in Dispatchers \ {d} : run'[x] = run[x]
      BY <1>1, <1>8, LookRow
    <2>2. QED
      BY <1>5, <1>8, <2>1 DEF Look, Owning
  <1>9. CASE Skip(d)
    <2>1. CASE Continue(d) /\ UNCHANGED events
      BY <1>2, <1>5, <1>9, <2>1, ContinueRow DEF Skip, Owning
    <2>2. CASE StillPending(e) /\ SetType(e, "skipped") /\ Goto(d, "notify")
      <3>1. Owners' = Owners
        BY <1>4, <1>9, <2>2, OwnersAfter DEF Skip, Owning
      <3>2. e \in Ids /\ Queue!Skip(e) /\ events[e].type = "pending"
        BY <1>3, <1>9, <2>2, <3>1 DEF Skip, StillPending, SetType, Queue!Skip, Queue!Become
      <3>3. QED
        BY <3>2 DEF Queue!Next, Queue!Wait
    <2>3. QED
      BY <1>9, <2>1, <2>2 DEF Skip, e
  <1>10. CASE Claim(d)
    <2>1. run[d].left # {} /\ e \in Ids /\ run[d].phase = "claim"
      BY <1>3, <1>10 DEF Claim
    <2>2. /\ \A x \in Dispatchers \ {d} : run'[x] = run[x]
          /\ \/ /\ StillPending(e) /\ SetType(e, "claimed")
                /\ run'[d].phase = "send" /\ run'[d].left = run[d].left
             \/ run'[d].phase = "look" /\ UNCHANGED events
      BY <1>1, <1>10, <2>1, ClaimRow DEF e
    <2>3. CASE run'[d].phase = "look" /\ UNCHANGED events
      BY <1>5, <1>10, <2>1, <2>2, <2>3 DEF Claim, Owning
    <2>4. CASE /\ StillPending(e) /\ SetType(e, "claimed")
               /\ run'[d].phase = "send" /\ run'[d].left = run[d].left
      <3>1. events[e].type = "pending" /\ events[e].due /\ sends[e] = 0
        BY <2>1, <2>4 DEF StillPending, DispatchInv, ClaimsAreDue, UnclaimedIsUnsent, e
      <3>2. Owners[e] = {}
        BY <2>1, <3>1 DEF DispatchInv, OwnersAreAlone, Owners
      <3>3. Owners' = [Owners EXCEPT ![e] = {d}]
        BY <2>1, <2>2, <2>4, <3>2, OwnersAfter DEF Owning, e
      <3>4. Queue!Take(e)
        BY <1>10, <2>4, <3>1, <3>2, <3>3 DEF Claim, SetType, Queue!Take, Queue!Become
      <3>5. QED
        BY <2>1, <3>1, <3>4 DEF Queue!Next, Queue!Wait
    <2>5. QED
      BY <2>2, <2>3, <2>4
  <1>11. ASSUME run[d].phase \in Owning
         PROVE  /\ e \in Ids /\ events[e].type = "claimed" /\ Owners[e] = {d}
                /\ sends[e] = (IF run[d].phase = "send" THEN 0 ELSE 1)
                /\ run[d].phase # "failed" => ~Queue!Retried(e)
                /\ run[d].phase = "failed" /\ events[e].attempt < MaxRetries => Queue!Retried(e)
                /\ Queue!GoOut(e) \/ Queue!Retry(e) \/ Queue!Settle(e) => Queue!Next
    <2>1. /\ e \in Ids /\ events[e].type = "claimed" /\ Owners[e] = {d}
          /\ sends[e] = (IF run[d].phase = "send" THEN 0 ELSE 1)
          /\ run[d].phase # "failed" => ~Queue!Retried(e)
          /\ run[d].phase = "failed" /\ events[e].attempt < MaxRetries => Queue!Retried(e)
      BY <1>11, OwnedEvent DEF e
    <2>2. Queue!GoOut(e) \/ Queue!Retry(e) \/ Queue!Settle(e) => Queue!Work(e)
      BY <2>1 DEF Queue!Work
    <2>3. Queue!Work(e) => Queue!Next
      BY <2>1 DEF Queue!Next
    <2>4. QED
      BY <2>1, <2>2, <2>3
  <1>12. CASE Send(d)
    <2>1. Owners' = Owners
      BY <1>4, <1>12, OwnersAfter DEF Send, Owning
    <2>2. sends[e] = 0 /\ (Queue!GoOut(e) => Queue!Next)
      BY <1>11, <1>12 DEF Send, Owning
    <2>3. Queue!GoOut(e)
      BY <1>12, <2>1, <2>2 DEF Send, Queue!GoOut, e
    <2>4. QED
      BY <2>2, <2>3
  <1>13. CASE Retry(d)
    <2>1. Owners' = Owners
      BY <1>4, <1>13, OwnersAfter DEF Retry, Owning
    <2>2. CASE UNCHANGED <<events, last>>
      BY <1>13, <2>1, <2>2 DEF Retry, Queue!avars
    <2>3. CASE RetriesLeft(e) /\ NewEvent(events[e].tenant, events[e].attempt + 1, FALSE, e)
      <3>1. e \in Ids /\ sends[e] = 1 /\ ~Queue!Retried(e) /\ (Queue!Retry(e) => Queue!Next)
        BY <1>11, <1>13 DEF Retry, Owning
      <3>2. last' \in Ids /\ events[last'].type = "none"
        BY <1>1, <2>3, <3>1, RetryIsNewEvent
      <3>3. Queue!Enter(last', events[e].tenant, events[e].attempt + 1, FALSE, e)
        BY <1>13, <2>1, <2>3, <3>2 DEF Retry, NewEvent, Queue!Enter
      <3>4. Queue!Retry(e)
        BY <2>3, <3>1, <3>2, <3>3 DEF RetriesLeft, Queue!Retry
      <3>5. QED
        BY <3>1, <3>4
    <2>4. QED
      BY <1>13, <2>2, <2>3 DEF Retry, e
  <1>14. CASE Settle(d)
    <2>1. /\ e \in Ids /\ Owners[e] = {d} /\ sends[e] = 1
          /\ run[d].phase # "failed" => ~Queue!Retried(e)
          /\ run[d].phase = "failed" /\ events[e].attempt < MaxRetries => Queue!Retried(e)
          /\ Queue!Settle(e) => Queue!Next
      BY <1>11, <1>14 DEF Settle, Owning
    <2>2. Owners' = [Owners EXCEPT ![e] = {}]
      BY <1>4, <1>14, <2>1, OwnersAfter DEF Settle, Owning, e
    <2>3. Queue!Settle(e)
      BY <1>14, <2>1, <2>2 DEF Settle, SetType, Queue!Settle, Queue!Become, Queue!Leave, e
    <2>4. QED
      BY <2>1, <2>3
  <1>15. CASE Notify(d)
    <2>1. run'[d].phase \notin Owning /\ \A x \in Dispatchers \ {d} : run'[x] = run[x]
      BY <1>2, <1>15, ContinueRow DEF Notify, Owning
    <2>2. QED
      BY <1>5, <1>15, <2>1 DEF Notify, Owning
  <1>16. QED
    BY <1>6, <1>7, <1>8, <1>9, <1>10, <1>12, <1>13, <1>14, <1>15 DEF Work

(* The dispatch implements AlertQueue, for any tenants, runs, batches and  *)
(* retries: what overlapping runs do to an event is taking it once, when   *)
(* due, and sending, retrying and settling it in this order, or losing it. *)
THEOREM RefinesAlertQueue == Spec => ImplementsAlertQueue
  <1>1. Init => Queue!Init
    <2> SUFFICES ASSUME Init PROVE Queue!Init
      OBVIOUS
    <2>1. \A d \in Dispatchers : run[d].phase \notin Owning
      BY DEF Init, NoRun, Owning
    <2>2. Owners = [e \in Ids |-> {}]
      BY <2>1 DEF Owners, Owns
    <2>3. QED
      BY <2>2 DEF Init, Queue!Init
  <1>2. DispatchInv /\ [Next]_vars => [Queue!Next]_Queue!avars
    <2> SUFFICES ASSUME DispatchInv, [Next]_vars PROVE Queue!Next \/ UNCHANGED Queue!avars
      OBVIOUS
    <2>1. TypeOK /\ IdsAreInOrder
      BY DEF DispatchInv
    <2>2. run' = run => Owners' = Owners
      BY DEF Owners, Owns, Current
    <2>3. CASE UNCHANGED vars
      BY <2>2, <2>3 DEF vars, Queue!avars
    <2>4. ASSUME NEW t \in Tenants, Raise(t) PROVE Queue!Next
      <3>1. 0 \in 0..MaxRetries /\ NoEvent \in Ids \cup {NoEvent} /\ TRUE \in BOOLEAN
        BY BoundsAssumption
      <3>2. last' \in Ids /\ events[last'].type = "none"
        BY <2>1, <2>4, <3>1, NewEventRow DEF Raise
      <3>3. Queue!Put(last')
        BY <2>2, <2>4, <3>2 DEF Raise, NewEvent, Queue!Put, Queue!Enter
      <3>4. QED
        BY <3>2, <3>3 DEF Queue!Next
    <2>5. ASSUME NEW t \in Tenants, ChangePlan(t) PROVE UNCHANGED Queue!avars
      BY <2>2, <2>5 DEF ChangePlan, Queue!avars
    <2>6. ASSUME NEW e \in Ids, Ripen(e) PROVE Queue!Next
      BY <2>2, <2>6 DEF Ripen, Queue!Ripen, Queue!Wait, Queue!Next
    <2>7. ASSUME NEW d \in Dispatchers, Work(d) PROVE Queue!Next \/ UNCHANGED Queue!avars
      BY <2>7, WorkImplements
    <2>8. ASSUME NEW d \in Dispatchers, Abort(d) PROVE Queue!Next \/ UNCHANGED Queue!avars
      <3>1. /\ run'[d].phase \notin Owning /\ events' = events /\ sends' = sends
            /\ \A x \in Dispatchers \ {d} : run'[x] = run[x]
        BY <2>1, <2>8, NoRunRow DEF Abort, TypeOK, Owning
      <3>2. CASE run[d].phase \notin Owning
        BY <3>1, <3>2, OwnersAfter DEF Queue!avars
      <3>3. CASE run[d].phase \in Owning
        <4>1. /\ Current(d) \in Ids /\ events[Current(d)].type = "claimed"
              /\ Owners[Current(d)] = {d}
          BY <3>3, OwnedEvent
        <4>2. Owners' = [Owners EXCEPT ![Current(d)] = {}]
          BY <3>1, <3>3, <4>1, OwnersAfter
        <4>3. Queue!Lose(Current(d))
          BY <3>1, <4>2 DEF Queue!Lose, Queue!Leave
        <4>4. QED
          BY <4>1, <4>3 DEF Queue!Work, Queue!Next
      <3>4. QED
        BY <3>2, <3>3
    <2>9. QED
      BY <2>3, <2>4, <2>5, <2>6, <2>7, <2>8 DEF Next
  <1>3. QED
    BY <1>1, <1>2, DispatchInvariant, PTL DEF Spec, Queue!Spec, ImplementsAlertQueue
=============================================================================
