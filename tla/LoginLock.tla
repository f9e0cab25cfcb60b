----------------------------- MODULE LoginLock ------------------------------
(***************************************************************************)
(* The lock on logins (auth-abuse-service.ts, POST /auth/login): failures  *)
(* are counted for the address and for the email in its scope, and either  *)
(* counter locks both.  The scope looked at is the tenant that the request *)
(* names, or "global" when it names none; the scope counted is the tenant  *)
(* named, or else that of the user who is found.  Requests run             *)
(* concurrently; each pair of calls to Redis that the code makes at once   *)
(* is a step.                                                              *)
(***************************************************************************)
EXTENDS Integers, FiniteSets

CONSTANTS
    Requests,
    Ips,
    Emails,
    Tenants,
    TenantsOf, \* the tenants in which each email has a user who is not disabled
    MaxIp,     \* AUTH_LOGIN_MAX_ATTEMPTS_PER_IP
    MaxEmail   \* AUTH_LOGIN_MAX_ATTEMPTS_PER_EMAIL

\* What the proofs assume of the constants.
Proper ==
    /\ IsFiniteSet(Requests) /\ Requests # {}
    /\ MaxIp \in Nat /\ MaxEmail \in Nat
    /\ \A email \in Emails : TenantsOf[email] \in SUBSET Tenants

VARIABLES
    fails,  \* the counter of each address and of each email in a scope, up to its limit
    locked, \* those with a lock key
    pc,
    login,  \* the keys each request looked at
    counts, \* the keys its outcome is counted for
    late    \* passwords tried since each was locked, by requests that looked at it

vars == <<fails, locked, pc, login, counts, late>>

\* tenantScope: "global" stands for no tenant.
Scopes == Tenants \cup {"global"}

Keys == Ips \cup (Emails \X Scopes)

Limit(k) == IF k \in Ips THEN MaxIp ELSE MaxEmail

Phases == {"idle", "password", "lock", "unlock"}

Init ==
    /\ fails = [k \in Keys |-> 0]
    /\ locked = {}
    /\ pc = [r \in Requests |-> "idle"]
    /\ login = [r \in Requests |-> {}]
    /\ counts = [r \in Requests |-> {}]
    /\ late = [k \in Keys |-> 0]

Goto(r, phase) == pc' = [pc EXCEPT ![r] = phase]

Finish(r) ==
    /\ Goto(r, "idle")
    /\ login' = [login EXCEPT ![r] = {}]
    /\ counts' = [counts EXCEPT ![r] = {}]

\* resolveUserForTenantScopedAuth finds nobody whose tenant it has to ask for.
IsResolved(email, scope) == scope \in Tenants \/ Cardinality(TenantsOf[email]) <= 1

\* tenantId ?? user?.tenant_id ?? null.
ScopeCounted(email, scope) ==
    IF scope = "global" /\ TenantsOf[email] # {} THEN CHOOSE t \in Tenants : t \in TenantsOf[email]
    ELSE scope

\* Faulty: only the lock of the address is looked at.
LoginByAddress(r) ==
    /\ pc[r] = "idle"
    /\ \E ip \in Ips, email \in Emails, scope \in Scopes :
        /\ ip \notin locked
        /\ IsResolved(email, scope)
        /\ login' = [login EXCEPT ![r] = {ip, <<email, scope>>}]
        /\ counts' = [counts EXCEPT ![r] = {ip, <<email, ScopeCounted(email, scope)>>}]
    /\ Goto(r, "password")
    /\ UNCHANGED <<fails, locked, late>>

\* getLoginLockState: 429 while either key looked at is set.  An email with
\* users in several tenants, none of them named, is refused and not counted.
Login(r) ==
    /\ pc[r] = "idle"
    /\ \E ip \in Ips, email \in Emails, scope \in Scopes :
        /\ {ip, <<email, scope>>} \cap locked = {}
        /\ IsResolved(email, scope)
        /\ login' = [login EXCEPT ![r] = {ip, <<email, scope>>}]
        /\ counts' = [counts EXCEPT ![r] = {ip, <<email, ScopeCounted(email, scope)>>}]
    /\ Goto(r, "password")
    /\ UNCHANGED <<fails, locked, late>>

\* A user is found, and the password is right.
Succeed(r) ==
    /\ pc[r] = "password"
    /\ \E email \in Emails : \E t \in TenantsOf[email] : <<email, t>> \in counts[r]
    /\ Goto(r, "unlock")
    /\ UNCHANGED <<fails, locked, login, counts, late>>

\* recordFailedLoginAttempt counts a wrong password, or an unknown user.
Fail(r) ==
    /\ pc[r] = "password"
    /\ fails' = [k \in Keys |->
                    IF k \in counts[r] /\ fails[k] < Limit(k) THEN fails[k] + 1 ELSE fails[k]]
    /\ late' = [k \in Keys |-> IF k \in login[r] \cap locked THEN late[k] + 1 ELSE late[k]]
    /\ IF \E k \in counts[r] : fails'[k] = Limit(k)
       THEN Goto(r, "lock") /\ UNCHANGED <<login, counts>>
       ELSE Finish(r)
    /\ UNCHANGED locked

\* lockLogin.
Lock(r) ==
    /\ pc[r] = "lock"
    /\ locked' = locked \cup counts[r]
    /\ Finish(r)
    /\ UNCHANGED <<fails, late>>

\* resetLoginAbuseState: also a lock that was set since the request looked.
Unlock(r) ==
    /\ pc[r] = "unlock"
    /\ locked' = locked \ counts[r]
    /\ fails' = [k \in Keys |-> IF k \in counts[r] THEN 0 ELSE fails[k]]
    /\ late' = [k \in Keys |-> IF k \in counts[r] THEN 0 ELSE late[k]]
    /\ Finish(r)

\* A key runs out: AUTH_LOGIN_WINDOW_SEC, AUTH_LOGIN_LOCKOUT_SEC.
CounterEnds(k) ==
    /\ fails[k] > 0
    /\ fails' = [fails EXCEPT ![k] = 0]
    /\ UNCHANGED <<locked, pc, login, counts, late>>

LockEnds(k) ==
    /\ k \in locked
    /\ locked' = locked \ {k}
    /\ late' = [late EXCEPT ![k] = 0]
    /\ UNCHANGED <<fails, pc, login, counts>>

\* The process of a request dies.
Crash(r) ==
    /\ pc[r] # "idle"
    /\ Finish(r)
    /\ UNCHANGED <<fails, locked, late>>

Next ==
    \/ \E r \in Requests :
        Login(r) \/ Succeed(r) \/ Fail(r) \/ Lock(r) \/ Unlock(r) \/ Crash(r)
    \/ \E k \in Keys : CounterEnds(k) \/ LockEnds(k)

Spec == Init /\ [][Next]_vars

----------------------------------------------------------------------------

\* The shape of every variable.
TypeOK ==
    /\ fails \in [Keys -> Nat] /\ \A k \in Keys : fails[k] <= Limit(k)
    /\ locked \subseteq Keys
    /\ pc \in [Requests -> Phases]
    /\ login \in [Requests -> SUBSET Keys]
    /\ counts \in [Requests -> SUBSET Keys]
    /\ \A r \in Requests : pc[r] = "idle" <=> login[r] = {}
    /\ late \in [Keys -> Nat]

\* While an address, or an email in a scope, is locked, the requests that look
\* at it try no more passwords than were under way when the lock was set
\* (getLoginLockState).  Every request looks at its address, and one that names
\* a tenant at the email it is counted for.  One that names no tenant looks at
\* the email under "global" and is counted for that of the tenant of the user
\* (auth.ts:151, 199): of the two locks only that of the address stops it.
LockStopsGuessing == \A k \in Keys : late[k] <= Cardinality(Requests) - 1

Trying(k) == {r \in Requests : pc[r] = "password" /\ k \in login[r]}

\* Why: the request that set the lock tries none, and none that is tried was
\* begun since.
TriesAreLimited ==
    \A k \in Keys : IF k \in locked THEN late[k] + Cardinality(Trying(k)) <= Cardinality(Requests) - 1
                                     ELSE late[k] = 0

\* The inductive invariant.
LockInv == TypeOK /\ TriesAreLimited
=============================================================================
