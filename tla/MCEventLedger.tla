--------------------------- MODULE MCEventLedger ---------------------------
(* EventLedger with a batch of two events and single redeliveries of each. *)
EXTENDS EventLedger, TLC

CONSTANTS k1, k2, d1, d2, d3

MCKeys == {k1, k2}
MCDeliveries == {d1, d2, d3}
MCBatch == d1 :> <<k1, k2>> @@ d2 :> <<k1>> @@ d3 :> <<k1>>

OneKey == {k1}
OneKeyBatch == [d \in MCDeliveries |-> <<k1>>]

\* The two redeliveries of the same event are interchangeable.
Symmetric == Permutations({d2, d3})
=============================================================================
