------------------------------ MODULE Accounts ------------------------------
(***************************************************************************)
(* Accounts, plans and settings: sessions, the lock on logins, the team,   *)
(* the sources with their trial, the control plane, and the session of a   *)
(* browser.  A behaviour is one of one of them, which `part` names; the    *)
(* variables that only the others have are Unused.  Constants of one name  *)
(* have one value.                                                         *)
(***************************************************************************)
EXTENDS Integers

CONSTANTS
    Requests, None,
    Tokens, Links, MaxEpoch,
    Ips, Emails, TenantsOf, MaxIp, MaxEmail,
    Users, Invited, Invites, PerEmail, Roles,
    Workflows, Hooks, Trial, MaxNow, MaxChanges,
    Tenants, WorkflowOf, ApiKeys, Channels, Policies,
    Browsers, MaxUpsets

VARIABLES
    part, pc, disabled, req, stale,
    epoch, owed, token, link, uses, raced, arg, saw,
    fails, locked, login, counts, late,
    role, invite, answers, excused,
    now, plan, trial, active, gone, versions, guards, changes,
    key, channel, policy,
    jar, upsets, signedIn, signedOut, spoilt

sessionVars == <<epoch, owed, link, uses, raced, arg, saw>>
lockVars == <<fails, locked, login, counts, late>>
teamVars == <<role, invite, answers, excused>>
sourceVars == <<now, plan, trial, active, gone, versions, guards, changes>>
planeVars == <<key, channel, policy>>
webVars == <<jar, upsets, signedIn, signedOut, spoilt>>
vars == <<part, pc, disabled, req, stale, token, sessionVars, lockVars, teamVars, sourceVars,
          planeVars, webVars>>

Unused == "unused"

S == INSTANCE Sessions
L == INSTANCE LoginLock
T == INSTANCE Team
O == INSTANCE Sources
C == INSTANCE ControlPlane WITH Keys <- ApiKeys
W == INSTANCE WebSession

ASSUME SessionsIsProper == S!Proper
ASSUME LockIsProper == L!Proper
ASSUME TeamIsProper == T!Proper
ASSUME SourcesIsProper == O!Proper
ASSUME PlaneIsProper == C!Proper
ASSUME WebIsProper == W!Proper

SessionsUnused ==
    /\ epoch = Unused /\ owed = Unused /\ link = Unused
    /\ uses = Unused /\ raced = Unused /\ arg = Unused /\ saw = Unused

LockUnused ==
    fails = Unused /\ locked = Unused /\ login = Unused /\ counts = Unused /\ late = Unused

TeamUnused == role = Unused /\ invite = Unused /\ answers = Unused /\ excused = Unused

SourcesUnused ==
    /\ now = Unused /\ plan = Unused /\ trial = Unused /\ active = Unused /\ gone = Unused
    /\ versions = Unused /\ guards = Unused /\ changes = Unused

PlaneUnused == key = Unused /\ channel = Unused /\ policy = Unused

WebUnused ==
    /\ jar = Unused /\ upsets = Unused /\ signedIn = Unused /\ signedOut = Unused /\ spoilt = Unused

Init ==
    \/ /\ part = "sessions" /\ S!Init
       /\ LockUnused /\ TeamUnused /\ SourcesUnused /\ PlaneUnused /\ WebUnused
       /\ req = Unused /\ stale = Unused
    \/ /\ part = "lock" /\ L!Init
       /\ SessionsUnused /\ TeamUnused /\ SourcesUnused /\ PlaneUnused /\ WebUnused
       /\ disabled = Unused /\ req = Unused /\ stale = Unused /\ token = Unused
    \/ /\ part = "team" /\ T!Init
       /\ SessionsUnused /\ LockUnused /\ SourcesUnused /\ PlaneUnused /\ WebUnused
       /\ token = Unused
    \/ /\ part = "sources" /\ O!Init
       /\ SessionsUnused /\ LockUnused /\ TeamUnused /\ PlaneUnused /\ WebUnused
       /\ disabled = Unused /\ token = Unused
    \/ /\ part = "plane" /\ C!Init
       /\ SessionsUnused /\ LockUnused /\ TeamUnused /\ SourcesUnused /\ WebUnused
       /\ disabled = Unused /\ stale = Unused /\ token = Unused
    \/ /\ part = "web" /\ W!Init
       /\ SessionsUnused /\ LockUnused /\ TeamUnused /\ SourcesUnused /\ PlaneUnused
       /\ pc = Unused /\ disabled = Unused

Next ==
    /\ UNCHANGED part
    /\ \/ /\ part = "sessions" /\ S!Next
          /\ UNCHANGED <<lockVars, teamVars, sourceVars, planeVars, webVars, req, stale>>
       \/ /\ part = "lock" /\ L!Next
          /\ UNCHANGED <<sessionVars, teamVars, sourceVars, planeVars, webVars, disabled, req, stale, token>>
       \/ /\ part = "team" /\ T!Next
          /\ UNCHANGED <<sessionVars, lockVars, sourceVars, planeVars, webVars, token>>
       \/ /\ part = "sources" /\ O!Next
          /\ UNCHANGED <<sessionVars, lockVars, teamVars, planeVars, webVars, disabled, token>>
       \/ /\ part = "plane" /\ C!Next
          /\ UNCHANGED <<sessionVars, lockVars, teamVars, sourceVars, webVars, disabled, stale, token>>
       \/ /\ part = "web" /\ W!Next
          /\ UNCHANGED <<sessionVars, lockVars, teamVars, sourceVars, planeVars, pc, disabled>>

Spec == Init /\ [][Next]_vars

\* The inductive invariants that are proved of the six modules: they say what
\* every variable looks like, and why the properties below hold.
TypeOK ==
    /\ part = "sessions" => S!SessionsInv
    /\ part = "lock" => L!LockInv
    /\ part = "team" => T!TeamInv
    /\ part = "sources" => O!SourcesInv
    /\ part = "plane" => C!PlaneInv
    /\ part = "web" => W!WebInv

\* Sessions, Team: a refresh token, a reset or verification link and an
\* invitation each work once (the conditional updates of rotateRefreshToken and
\* of the accept route), a link except when two requests had read it as unused.
CredentialsWorkOnce ==
    /\ part = "sessions" => S!CredentialsWorkOnce
    /\ part = "team" => T!CredentialsWorkOnce

\* Sessions: whatever ends the sessions of a user ends all of them, except for
\* the causes named there (revokeAllRefreshTokensForUser, rotateRefreshToken).
EndedSessionsStayEnded == part = "sessions" => S!EndedSessionsStayEnded

\* LoginLock: while a key is locked, the requests that look at it try no more
\* passwords than were under way (getLoginLockState, recordFailedLoginAttempt).
LockStopsGuessing == part = "lock" => L!LockStopsGuessing

\* Team: the tenant keeps an active owner, except for the causes named there
\* (LAST_OWNER_PROTECTION).
LastOwnerIsProtected == part = "team" => T!LastOwnerIsProtected

\* Team: "Cannot demote the last active owner" (team.ts:530): the tenant always
\* has one.
AnOwnerRemains == part = "team" => T!AnOwnerRemains

\* Sources: one trial for each tenant, on the free plan, which adds no second
\* source, except for the causes named there (startTrialIfEligible,
\* requireSourceCapacity).
FreePlanIsKept == [][part = "sources" => O!TrialStep /\ O!CapacityStep]_vars

\* ControlPlane: policies name workflows and channels of their tenant, and a
\* rotated key is revoked (the checks and transactions of control-plane.ts).
TenantsAreSeparate ==
    part = "plane" => C!TenantsAreSeparate

\* WebSession: a browser stays signed in until its user signs out, and signed
\* out from then on, except for the causes named there (middleware.ts).
BrowsersKeepSession == part = "web" => W!BrowsersKeepSession
=============================================================================
