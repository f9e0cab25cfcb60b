-------------------------- MODULE MCIncidentBridge --------------------------
(* IncidentBridge on a small instance. *)
EXTENDS IncidentBridge
=============================================================================
