----------------------------- MODULE AlertQueue -----------------------------
(***************************************************************************)
(* What the dispatch of alerts promises, without runs, batches or plans:   *)
(* an alert is taken by one dispatcher and by no second one ever, not      *)
(* before it is due; it goes out once while it is taken, and then is sent, *)
(* or failed and followed by one later retry as long as retries are left.  *)
(* An alert whose dispatcher is lost stays claimed.                        *)
(***************************************************************************)
EXTENDS Integers

CONSTANTS Ids, Tenants, Dispatchers, MaxRetries, NoEvent

VARIABLES
    events,  \* the alerts by id: type, tenant, attempt, due, previous alert
    out,     \* how often each alert went out
    takers   \* the dispatchers that work on each alert

avars == <<events, out, takers>>

Init ==
    /\ \A i \in Ids : events[i].type = "none"
    /\ out = [i \in Ids |-> 0]
    /\ takers = [i \in Ids |-> {}]

Become(i, type) == events' = [events EXCEPT ![i].type = type]

Enter(i, t, n, due, from) ==
    /\ events[i].type = "none"
    /\ events' = [events EXCEPT ![i] = [type |-> "pending", tenant |-> t, attempt |-> n,
                                        due |-> due, previous |-> from]]
    /\ UNCHANGED <<out, takers>>

Put(i) == \E t \in Tenants : Enter(i, t, 0, TRUE, NoEvent)

\* A pending alert becomes due, is dropped, or is taken once it is due.
Ripen(i) ==
    /\ events' = [events EXCEPT ![i].due = TRUE]
    /\ UNCHANGED <<out, takers>>

Skip(i) == Become(i, "skipped") /\ UNCHANGED <<out, takers>>

Take(i) ==
    /\ events[i].due /\ out[i] = 0 /\ takers[i] = {}
    /\ Become(i, "claimed")
    /\ \E d \in Dispatchers : takers' = [takers EXCEPT ![i] = {d}]
    /\ UNCHANGED out

Wait(i) == events[i].type = "pending" /\ (Ripen(i) \/ Skip(i) \/ Take(i))

\* A taken alert goes out, is retried, is settled, or loses its dispatcher.
GoOut(i) ==
    /\ out[i] = 0
    /\ out' = [out EXCEPT ![i] = 1]
    /\ UNCHANGED <<events, takers>>

Retried(i) == \E j \in Ids : events[j].type # "none" /\ events[j].previous = i

Retry(i) ==
    /\ out[i] = 1 /\ events[i].attempt < MaxRetries /\ ~Retried(i)
    /\ \E j \in Ids : Enter(j, events[i].tenant, events[i].attempt + 1, FALSE, i)

Leave(i) == takers' = [takers EXCEPT ![i] = {}]

Settle(i) ==
    /\ out[i] = 1
    /\ \/ ~Retried(i) /\ Become(i, "sent")
       \/ (events[i].attempt < MaxRetries => Retried(i)) /\ Become(i, "failed")
    /\ Leave(i)
    /\ UNCHANGED out

Lose(i) == Leave(i) /\ UNCHANGED <<events, out>>

Work(i) ==
    /\ events[i].type = "claimed" /\ takers[i] # {}
    /\ GoOut(i) \/ Retry(i) \/ Settle(i) \/ Lose(i)

Next == \E i \in Ids : Put(i) \/ Wait(i) \/ Work(i)

\* Most steps of an implementation change nothing here, so that is tried first.
Spec == Init /\ [][UNCHANGED avars \/ Next]_avars
=============================================================================
