----------------------------- MODULE EventStore -----------------------------
(***************************************************************************)
(* What the ingestion of events promises, without a ledger, locks, phases  *)
(* or a clock: an event is stored only by a delivery that has taken it, a  *)
(* delivery takes it only while it is neither taken nor stored, a stored   *)
(* event is kept, and "duplicate" is said of stored events alone.  After a *)
(* slip (an event taken away from a delivery still at work, or stored by   *)
(* one that was told it was not) only the last of these is left.           *)
(***************************************************************************)
EXTENDS Naturals

CONSTANTS Keys, Deliveries

VARIABLES
    rows,     \* how often the event of each key is stored
    kept,     \* the keys whose events count as stored
    holders,  \* the deliveries that have taken the event of each key
    told,     \* what each delivery says of its events
    slipped

svars == <<rows, kept, holders, told, slipped>>

Init ==
    /\ rows = [k \in Keys |-> 0]
    /\ kept = {}
    /\ holders = [k \in Keys |-> {}]
    /\ told = [d \in Deliveries |-> {}]
    /\ slipped = FALSE

Say(d, k, outcome) == told' = [told EXCEPT ![d] = @ \cup {<<k, outcome>>}]

Leave(d, k) == holders' = [holders EXCEPT ![k] = @ \ {d}]

Take(d, k) ==
    /\ d \notin holders[k] /\ k \notin kept
    /\ slipped \/ rows[k] = 0
    /\ holders' = [holders EXCEPT ![k] = @ \cup {d}]
    /\ slipped' = (slipped \/ holders[k] # {})
    /\ UNCHANGED <<rows, kept, told>>

Store(d, k) ==
    /\ d \in holders[k]
    /\ rows' = [rows EXCEPT ![k] = @ + 1]
    /\ kept' = kept \cup {k}
    /\ \/ Say(d, k, "ingested") /\ Leave(d, k) /\ UNCHANGED slipped
       \/ slipped' = TRUE /\ UNCHANGED <<holders, told>>

\* The delivery gives up on the event, and may live to say so.
GiveUp(d, k) ==
    /\ d \in holders[k]
    /\ Leave(d, k)
    /\ UNCHANGED kept \/ (slipped /\ kept' = kept \ {k})
    /\ UNCHANGED told \/ Say(d, k, "failed")
    /\ UNCHANGED <<rows, slipped>>

Dismiss(d, k) ==
    /\ d \notin holders[k]
    /\ Say(d, k, "skipped") \/ (rows[k] >= 1 /\ Say(d, k, "duplicate"))
    /\ UNCHANGED <<rows, kept, holders, slipped>>

Next ==
    \E d \in Deliveries, k \in Keys :
        Take(d, k) \/ Store(d, k) \/ GiveUp(d, k) \/ Dismiss(d, k)

\* Most steps of an implementation change nothing here, so that is tried first.
Spec == Init /\ [][UNCHANGED svars \/ Next]_svars
=============================================================================
