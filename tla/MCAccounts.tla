----------------------------- MODULE MCAccounts -----------------------------
(***************************************************************************)
(* Small instances of accounts, plans and settings.                        *)
(***************************************************************************)
EXTENDS Accounts, TLC

CONSTANTS r1, r2, l1, i1, e1, e2, u1, u2, w1, g1, c1, p1, b1

MCWorkflowOf == w1 :> "t1"

\* e1 has a user in one tenant, and in the other none; e2 has one in both.
MCTenantsOf == e1 :> {"t1"} @@ e2 :> {"t1", "t2"}

Symmetric == Permutations({r1, r2})
=============================================================================
