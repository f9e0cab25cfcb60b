--------------------------- MODULE AlertDispatch ---------------------------
(***************************************************************************)
(* The dispatch of alerts (alert-service.ts): the ALERT_ events of         *)
(* incident_events and the runs of dispatchPendingAlertEvents that work    *)
(* through them.  Runs are meant to be alone under the job:alerts lease,   *)
(* but a run that has outlived its lease goes on, so several may overlap.  *)
(*                                                                         *)
(* The clock appears only as `due`: a retry is created not due             *)
(* (retry_not_before) and becomes due later.  The plan of a tenant decides *)
(* how its alerts go out and may change while a run is under way.          *)
(***************************************************************************)
EXTENDS Integers, FiniteSets

CONSTANTS
    Tenants,
    Dispatchers,
    Limit,        \* how many pending events a run takes
    BasicLimit,   \* FREE_BASIC_EMAIL_MAX_EVENTS_PER_BATCH
    MaxRetries,   \* ALERT_DISPATCH_MAX_RETRIES
    MaxAlerts,    \* bound on the alerts raised
    MaxAborts     \* bound on the runs that die

ASSUME BoundsAssumption ==
    /\ Limit \in Nat \ {0}
    /\ BasicLimit \in Nat
    /\ MaxRetries \in Nat
    /\ MaxAlerts \in Nat
    /\ MaxAborts \in Nat

\* An alert takes one event and one more for each retry.
MaxEvents == MaxAlerts * (MaxRetries + 1)

Ids == 1..MaxEvents

NoEvent == 0

VARIABLES
    events,     \* the ALERT_ events by id: type, tenant, retry_attempt, due, previous event
    last,       \* the last id given; ids follow the order of at_time
    raised,     \* how many alerts have been raised
    sends,      \* how often the notifications of an event went out
    notified,   \* the events that have a NOTIFICATION_RESULT
    mode,       \* how the plan of each tenant lets alerts out
    run,        \* the runs: phase, events left, access and counts cached
    abandoned,  \* the claimed events whose run died
    aborts      \* how many runs have died

vars == <<events, last, raised, sends, notified, mode, run, abandoned, aborts>>

\* full: the channels of the policy (every plan that has this mode has the
\* alerts feature too, so alerts_not_entitled does not occur); basic: mail to
\* owners and admins; nobody: basic without a recipient.
Modes == {"full", "basic", "nobody"}

Types == {"none", "pending", "claimed", "sent", "failed", "skipped"}

Events ==
    [type : Types, tenant : Tenants, attempt : 0..MaxRetries, due : BOOLEAN,
     previous : Ids \cup {NoEvent}]

\* idle; look at the next event; then skip it, or claim it, send it and
\* settle the outcome: sent, or retry and then failed; and write the result.
Phases == {"idle", "look", "skip", "claim", "send", "sent", "retry", "failed", "notify"}

Runs ==
    [phase : Phases, left : SUBSET Ids, access : [Tenants -> Modes \cup {"unread"}],
     basic : [Tenants -> Nat]]

NoRun == [phase |-> "idle", left |-> {}, access |-> [t \in Tenants |-> "unread"],
          basic |-> [t \in Tenants |-> 0]]

Init ==
    /\ \E t \in Tenants :
        events = [e \in Ids |-> [type |-> "none", tenant |-> t, attempt |-> 0,
                                 due |-> FALSE, previous |-> NoEvent]]
    /\ last = 0
    /\ raised = 0
    /\ sends = [e \in Ids |-> 0]
    /\ notified = {}
    /\ mode \in [Tenants -> Modes]
    /\ run = [d \in Dispatchers |-> NoRun]
    /\ abandoned = {}
    /\ aborts = 0

----------------------------------------------------------------------------
(* The events around a run.                                                *)

\* MaxEvents is never met.
NewEvent(t, attempt, due, previous) ==
    /\ last < MaxEvents
    /\ last' = last + 1
    /\ events' = [events EXCEPT ![last + 1] =
                    [type |-> "pending", tenant |-> t, attempt |-> attempt,
                     due |-> due, previous |-> previous]]

\* An incident opens, reopens or escalates: an ALERT_PENDING event is written.
Raise(t) ==
    /\ raised < MaxAlerts
    /\ raised' = raised + 1
    /\ NewEvent(t, 0, TRUE, NoEvent)
    /\ UNCHANGED <<sends, notified, mode, run, abandoned, aborts>>

\* retry_not_before passes.
Ripen(e) ==
    /\ events[e].type = "pending"
    /\ ~events[e].due
    /\ events' = [events EXCEPT ![e].due = TRUE]
    /\ UNCHANGED <<last, raised, sends, notified, mode, run, abandoned, aborts>>

\* A tenant changes plan, or gains or loses its owners and admins.
ChangePlan(t) ==
    /\ mode' \in {[mode EXCEPT ![t] = m] : m \in Modes \ {mode[t]}}
    /\ UNCHANGED <<events, last, raised, sends, notified, run, abandoned, aborts>>

----------------------------------------------------------------------------
(* dispatchPendingAlertEvents.                                             *)

Pending == {e \in Ids : events[e].type = "pending"}

\* The first Limit elements of S.
FirstOf(S) == {e \in S : Cardinality({x \in S : x < e}) < Limit}

\* The findMany that a run works from.
Begin(d) ==
    /\ run[d].phase = "idle"
    /\ Pending # {}
    /\ run' = [run EXCEPT ![d].phase = "look", ![d].left = FirstOf(Pending)]
    /\ UNCHANGED <<events, last, raised, sends, notified, mode, abandoned, aborts>>

Least(S) == CHOOSE e \in S : \A x \in S : e <= x

\* A run takes its events in the order of their ids.
Current(d) == Least(run[d].left)

Goto(d, phase) == run' = [run EXCEPT ![d].phase = phase]

\* On to the next event of the batch.
Continue(d) == run' = [run EXCEPT ![d].phase = "look", ![d].left = @ \ {Current(d)}]

\* The run has gone through its batch.
End(d) ==
    /\ run[d].phase = "look"
    /\ run[d].left = {}
    /\ run' = [run EXCEPT ![d] = NoRun]
    /\ UNCHANGED <<events, last, raised, sends, notified, mode, abandoned, aborts>>

\* The access of a tenant is read once in a run.
Access(d, t) == IF run[d].access[t] = "unread" THEN mode[t] ELSE run[d].access[t]

\* Faulty: what the plan does not let out stays pending.
DecisionToWait(d, e) ==
    LET t == events[e].tenant IN
    CASE Access(d, t) = "nobody" -> "look"
      [] Access(d, t) = "basic" /\ run[d].basic[t] >= BasicLimit -> "skip"
      [] OTHER -> IF events[e].due THEN "claim" ELSE "look"

\* What becomes of event e: the plan and the batch limit come before the test
\* of retry_not_before.
Decision(d, e) ==
    LET t == events[e].tenant IN
    CASE Access(d, t) = "nobody" -> "skip"
      [] Access(d, t) = "basic" /\ run[d].basic[t] >= BasicLimit -> "skip"
      [] OTHER -> IF events[e].due THEN "claim" ELSE "look"

Look(d) ==
    /\ run[d].phase = "look"
    /\ run[d].left # {}
    /\ LET e == Current(d)
           t == events[e].tenant
           next == Decision(d, e)
       IN  run' = [run EXCEPT ![d].phase = next,
                              ![d].access[t] = Access(d, t),
                              ![d].left = IF next = "look" THEN @ \ {e} ELSE @]
    /\ UNCHANGED <<events, last, raised, sends, notified, mode, abandoned, aborts>>

SetType(e, type) == events' = [events EXCEPT ![e].type = type]

\* Faulty: an event is taken without looking whether it still is pending.
TakenUnseen(e) == events[e].type # "none"

\* Faulty: an event claimed by another run is taken.
TakenTwice(e) == events[e].type \in {"pending", "claimed"}

\* The condition of both conditional updates: event_type = ALERT_PENDING.
StillPending(e) == events[e].type = "pending"

\* skipPendingAlertForPlan.
Skip(d) ==
    /\ run[d].phase = "skip"
    /\ \/ /\ StillPending(Current(d))
          /\ SetType(Current(d), "skipped")
          /\ Goto(d, "notify")
       \/ /\ ~StillPending(Current(d))
          /\ Continue(d)
          /\ UNCHANGED events
    /\ UNCHANGED <<last, raised, sends, notified, mode, abandoned, aborts>>

\* claimPendingAlertEvent.
Claim(d) ==
    /\ run[d].phase = "claim"
    /\ LET e == Current(d)
           t == events[e].tenant
           counted == IF Access(d, t) = "full" THEN 0 ELSE 1
       IN  \/ /\ StillPending(e)
              /\ SetType(e, "claimed")
              /\ run' = [run EXCEPT ![d].phase = "send", ![d].basic[t] = @ + counted]
           \/ /\ ~StillPending(e)
              /\ Continue(d)
              /\ UNCHANGED events
    /\ UNCHANGED <<last, raised, sends, notified, mode, abandoned, aborts>>

\* The notifications go out to every channel or recipient.  Unless there is
\* one and all of them succeed the event is to be retried.
Send(d) ==
    /\ run[d].phase = "send"
    /\ sends' = [sends EXCEPT ![Current(d)] = @ + 1]
    /\ Goto(d, "sent") \/ Goto(d, "retry")
    /\ UNCHANGED <<events, last, raised, notified, mode, abandoned, aborts>>

\* Faulty: one retry too many.
RetriesLeftOver(e) == events[e].attempt <= MaxRetries

RetriesLeft(e) == events[e].attempt < MaxRetries

\* scheduleRetryIfNeeded: a new ALERT_PENDING event while retries are left.
Retry(d) ==
    /\ run[d].phase = "retry"
    /\ LET e == Current(d)
       IN  \/ /\ RetriesLeft(e)
              /\ NewEvent(events[e].tenant, events[e].attempt + 1, FALSE, e)
           \/ /\ ~RetriesLeft(e)
              /\ UNCHANGED <<events, last>>
    /\ Goto(d, "failed")
    /\ UNCHANGED <<raised, sends, notified, mode, abandoned, aborts>>

\* The update to ALERT_SENT or ALERT_FAILED.
Settle(d) ==
    /\ run[d].phase \in {"sent", "failed"}
    /\ SetType(Current(d), run[d].phase)
    /\ Goto(d, "notify")
    /\ UNCHANGED <<last, raised, sends, notified, mode, abandoned, aborts>>

\* The NOTIFICATION_RESULT event.
Notify(d) ==
    /\ run[d].phase = "notify"
    /\ notified' = notified \cup {Current(d)}
    /\ Continue(d)
    /\ UNCHANGED <<events, last, raised, sends, mode, abandoned, aborts>>

\* The phases between a successful claim and the update that settles it.
Owning == {"send", "sent", "retry", "failed"}

\* The process crashes, or a database call throws and ends the job.
Abort(d) ==
    /\ aborts < MaxAborts
    /\ run[d].phase # "idle"
    /\ aborts' = aborts + 1
    /\ abandoned' = IF run[d].phase \in Owning THEN abandoned \cup {Current(d)} ELSE abandoned
    /\ run' = [run EXCEPT ![d] = NoRun]
    /\ UNCHANGED <<events, last, raised, sends, notified, mode>>

Work(d) ==
    \/ Begin(d) \/ End(d) \/ Look(d) \/ Skip(d) \/ Claim(d)
    \/ Send(d) \/ Retry(d) \/ Settle(d) \/ Notify(d)

Next ==
    \/ \E t \in Tenants : Raise(t) \/ ChangePlan(t)
    \/ \E e \in Ids : Ripen(e)
    \/ \E d \in Dispatchers : Work(d) \/ Abort(d)

Spec == Init /\ [][Next]_vars

\* The scheduler keeps starting runs, a run that lives goes on, and time passes.
Fairness ==
    /\ \A d \in Dispatchers : WF_vars(Work(d))
    /\ \A e \in Ids : WF_vars(Ripen(e))

FairSpec == Spec /\ Fairness

----------------------------------------------------------------------------
(* Properties.                                                             *)

\* Every variable has its type.
TypeOK ==
    /\ events \in [Ids -> Events]
    /\ last \in 0..MaxEvents
    /\ raised \in 0..MaxAlerts
    /\ sends \in [Ids -> Nat]
    /\ notified \subseteq Ids
    /\ mode \in [Tenants -> Modes]
    /\ run \in [Dispatchers -> Runs]
    /\ abandoned \subseteq Ids
    /\ aborts \in 0..MaxAborts

Owns(d, e) == run[d].phase \in Owning /\ Current(d) = e

Retries(e) == {r \in Ids : events[r].type # "none" /\ events[r].previous = e}

\* However many runs see a pending event, its notifications go out once; a
\* run that dies never makes another repeat them.
OneSendPerEvent == \A e \in Ids : sends[e] <= 1

\* A claimed event is in the hands of exactly one run, unless its run died
\* (then nothing ever takes it up again).
ClaimedIsOwned ==
    \A e \in Ids : events[e].type = "claimed" =>
        \/ e \in abandoned /\ \A d \in Dispatchers : ~Owns(d, e)
        \/ \E d \in Dispatchers : Owns(d, e) /\ \A x \in Dispatchers : Owns(x, e) => x = d

\* A failed event with retries left has its retry, in spite of crashes: the
\* retry is written before the failure.
FailedIsRetried ==
    \A e \in Ids : events[e].type = "failed" /\ events[e].attempt < MaxRetries => Retries(e) # {}

\* An event is retried at most once, one attempt further, and only after its
\* notifications went out without success.
RetriesAreJustified ==
    \A e \in Ids :
        /\ Cardinality(Retries(e)) <= 1
        /\ \A r \in Retries(e) :
            /\ events[r].attempt = events[e].attempt + 1
            /\ events[e].type \in {"claimed", "failed"}
            /\ sends[e] = 1

\* Failures and retries match, one to one (scheduleRetryIfNeeded).
RetriesMatchFailures == FailedIsRetried /\ RetriesAreJustified

Used(e) == events[e].type # "none"

\* Ids are given in order, and an event that was never claimed was never sent.
IdsAreInOrder == \A e \in Ids : Used(e) <=> e <= last

UnclaimedIsUnsent ==
    \A e \in Ids : events[e].type \in {"none", "pending", "skipped"} => sends[e] = 0

\* A run between its claim and the update that settles it has its event alone,
\* and has sent it once it is past the sending.
OwnersAreAlone ==
    \A d \in Dispatchers : \A e \in Ids : Owns(d, e) =>
        /\ events[e].type = "claimed"
        /\ e \notin abandoned
        /\ sends[e] = (IF run[d].phase = "send" THEN 0 ELSE 1)
        /\ \A x \in Dispatchers : Owns(x, e) => x = d

ClaimedHasOwner ==
    \A e \in Ids : events[e].type = "claimed" => e \in abandoned \/ \E d \in Dispatchers : Owns(d, e)

AbandonedIsClaimed == \A e \in abandoned : events[e].type = "claimed"

\* Whatever an event is the retry of has no other, and went out without success.
RetriesFollow ==
    \A r \in Ids : Used(r) /\ events[r].previous # NoEvent =>
        /\ events[events[r].previous].type \in {"claimed", "failed"}
        /\ sends[events[r].previous] = 1
        /\ events[r].attempt = events[events[r].previous].attempt + 1
        /\ \A q \in Ids : Used(q) /\ events[q].previous = events[r].previous => q = r

\* A run writes the retry between sending the event and failing it.
RetryComesBetween ==
    \A d \in Dispatchers : \A e \in Ids : Owns(d, e) =>
        /\ run[d].phase # "failed" => Retries(e) = {}
        /\ run[d].phase = "failed" /\ RetriesLeft(e) => Retries(e) # {}

RunsHaveWork ==
    \A d \in Dispatchers : run[d].phase \notin {"idle", "look"} => run[d].left # {}

\* The events at hand exist, and one that a run is about to claim is due.
ClaimsAreDue ==
    \A d \in Dispatchers :
        /\ \A e \in run[d].left : Used(e)
        /\ run[d].phase = "claim" => events[Current(d)].due

\* The inductive invariant, from which the properties follow.
DispatchInv ==
    /\ TypeOK
    /\ RunsHaveWork
    /\ IdsAreInOrder
    /\ OneSendPerEvent
    /\ UnclaimedIsUnsent
    /\ OwnersAreAlone
    /\ ClaimedHasOwner
    /\ AbandonedIsClaimed
    /\ RetriesFollow
    /\ RetryComesBetween
    /\ FailedIsRetried
    /\ ClaimsAreDue

Settled(e) == events[e].type \in {"sent", "failed", "skipped"}

\* Every pending event is settled sooner or later, even when retries that are
\* not due yet fill the batches and plans change under way, or it is
\* stranded with a run that died.
PendingIsSettled ==
    \A e \in Ids : events[e].type = "pending" ~> (Settled(e) \/ e \in abandoned)

Owners == [e \in Ids |-> {d \in Dispatchers : Owns(d, e)}]

\* The runs implement the queue of AlertQueue: among others an event once
\* claimed is never taken by another run, and goes out, is retried and is
\* settled in that order (dispatchPendingAlertEvents, scheduleRetryIfNeeded).
Queue == INSTANCE AlertQueue WITH out <- sends, takers <- Owners
ImplementsAlertQueue == Queue!Spec
=============================================================================
