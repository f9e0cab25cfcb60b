-------------------------- MODULE MCAlertDispatch --------------------------
(* AlertDispatch on a small instance. *)
EXTENDS AlertDispatch, TLC

Symmetric == Permutations(Dispatchers)
=============================================================================
