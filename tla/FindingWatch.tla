---------------------------- MODULE FindingWatch ----------------------------
(***************************************************************************)
(* What the bridge from findings to incidents promises, without batches,   *)
(* a cursor, plans or calls: a finding has one incident for good, which is *)
(* opened only for a finding read as open and resolved, but for operators, *)
(* only for one read as resolved; it is alerted after it opened; and a     *)
(* finding is settled only when what was read of it still is so and its    *)
(* incident was brought in line.  A finding is linked to its incident when *)
(* it is settled as open; until then nobody resolves the incident for it.  *)
(***************************************************************************)
EXTENDS Integers

CONSTANTS Findings, Ids

VARIABLES
    finding,  \* absent, open or resolved
    read,     \* what was read of each finding and is still to be dealt with
    care,     \* the incident of each finding, with its status
    opened,   \* findings whose incident has just been opened
    owed,     \* findings whose incident has no alert yet
    linked,   \* findings whose incident is known
    settled   \* findings dealt with in their latest state

fvars == <<finding, read, care, opened, owed, linked, settled>>

Nothing == [f \in Findings |-> "absent"]

Init ==
    /\ finding = Nothing
    /\ read = Nothing
    /\ care = [f \in Findings |-> {}]
    /\ opened = {} /\ owed = {} /\ linked = {} /\ settled = {}

Change(f) ==
    /\ \E s \in {"open", "resolved"} : finding' = [finding EXCEPT ![f] = s]
    /\ settled' = settled \ {f}
    /\ UNCHANGED <<read, care, opened, owed, linked>>

\* An operator writes the incident, whatever it says.
Operate(f) ==
    /\ UNCHANGED <<finding, read, opened, owed, linked, settled>>
    /\ \E i \in Ids, s, t \in {"open", "acked", "resolved"} :
        care[f] = {<<i, s>>} /\ care' = [care EXCEPT ![f] = {<<i, t>>}]

Read ==
    /\ read = Nothing
    /\ \E S \in SUBSET Findings :
        read' = [f \in Findings |-> IF f \in S THEN finding[f] ELSE "absent"]
    /\ UNCHANGED <<finding, care, opened, owed, linked, settled>>

\* The incident is created, reopened or refreshed, and is always the same one.
Open(f) ==
    /\ read[f] = "open" /\ opened = {}
    /\ \E i \in Ids :
        /\ care' = [care EXCEPT ![f] = {<<i, "open">>}]
        /\ \/ care[f] \in {{}, {<<i, "resolved">>}} /\ owed' = owed \cup {f}
           \/ care[f] \in {{<<i, "open">>}, {<<i, "acked">>}} /\ UNCHANGED owed
    /\ opened' = {f}
    /\ UNCHANGED <<finding, read, linked, settled>>

Alert(f) ==
    /\ f \in opened
    /\ owed' = owed \ {f}
    /\ UNCHANGED <<finding, read, care, opened, linked, settled>>

Leave(f) ==
    /\ read' = [read EXCEPT ![f] = "absent"]
    /\ opened' = {}

Settle(f) ==
    /\ Leave(f)
    /\ settled' = settled \/ (finding[f] = read[f] /\ settled' = settled \cup {f})

SettleOpen(f) ==
    /\ read[f] = "open" /\ f \in opened
    /\ Settle(f)
    /\ linked' = linked \cup {f}
    /\ UNCHANGED <<finding, care, owed>>

\* A finding that is not linked is settled without a look for its incident.
SettleResolved(f) ==
    /\ read[f] = "resolved"
    /\ Settle(f)
    /\ \/ f \notin linked /\ UNCHANGED care
       \/ f \in linked /\ \E i \in Ids, s \in {"open", "acked", "resolved"} :
            care[f] = {<<i, s>>} /\ care' = [care EXCEPT ![f] = {<<i, "resolved">>}]
    /\ UNCHANGED <<finding, owed, linked>>

Drop(f) == Leave(f) /\ UNCHANGED <<finding, care, owed, linked, settled>>

\* The reader dies and forgets what it has read.
Forget ==
    /\ read' = Nothing /\ opened' = {}
    /\ UNCHANGED <<finding, care, owed, linked, settled>>

Next ==
    \/ Read \/ Forget
    \/ \E f \in Findings :
        \/ Change(f) \/ Operate(f) \/ Open(f) \/ Alert(f)
        \/ SettleOpen(f) \/ SettleResolved(f) \/ Drop(f)

\* Most steps of an implementation change nothing here, so that is tried first.
Spec == Init /\ [][UNCHANGED fvars \/ Next]_fvars
=============================================================================
