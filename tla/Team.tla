-------------------------------- MODULE Team --------------------------------
(***************************************************************************)
(* The team of one tenant (routes/team.ts): invitations, roles, disabled   *)
(* accounts and the protection of the last owner.                          *)
(*                                                                         *)
(* Requests run concurrently.  Each reads the account it is about, some    *)
(* count the active owners, and the write comes after that, outside any    *)
(* transaction; the checks of the token, of the role and of the plan are   *)
(* one step with the request's arrival.  What happens to the sessions of   *)
(* an account is in Sessions.                                              *)
(***************************************************************************)
EXTENDS Integers, FiniteSets

CONSTANTS
    Users,       \* accounts, named by their email
    Invites,     \* invitations, used in order: 1 .. n
    Requests,
    PerEmail,    \* INVITE_PER_EMAIL_PER_DAY
    Invited,     \* bound: the accounts that are invited
    Roles,       \* bound: "owner", "admin" and what else accounts get
    None

\* What the proofs assume of the constants.
Proper ==
    /\ IsFiniteSet(Users) /\ Invited \subseteq Users /\ Invites \subseteq Nat
    /\ "owner" \in Roles
    /\ None \notin Users /\ None \notin Invites /\ None \notin Roles

VARIABLES
    role,     \* the role of each account, None for one that does not exist
    disabled, \* accounts with disabled_at
    invite,   \* invites
    pc,
    req,      \* what each request is about, and what it read
    stale,    \* requests whose reads were overtaken by a change to the accounts
    answers,  \* how often each invitation was answered with a session
    excused   \* something happened that can cost a tenant its last owner

vars == <<role, disabled, invite, pc, req, stale, answers, excused>>

accounts == <<role, disabled>>

NoInvite == [state |-> "none", user |-> None, role |-> None]

NoRequest == [op |-> None, byOwner |-> FALSE, target |-> None, role |-> None, invite |-> None,
              known |-> FALSE]

Phases == {"idle", "target", "count", "write", "send", "renew", "accept", "commit"}

ActiveOwners == {u \in Users : role[u] = "owner" /\ u \notin disabled}

Init ==
    /\ \E others \in [Users -> Roles \cup {None}], u \in Users :
        role = [others EXCEPT ![u] = "owner"]
    /\ disabled = {}
    /\ invite = [i \in Invites |-> NoInvite]
    /\ pc = [r \in Requests |-> "idle"]
    /\ req = [r \in Requests |-> NoRequest]
    /\ stale = {}
    /\ answers = [i \in Invites |-> 0]
    /\ excused = FALSE

Goto(r, phase) == pc' = [pc EXCEPT ![r] = phase]

Finish(r) ==
    /\ Goto(r, "idle")
    /\ req' = [req EXCEPT ![r] = NoRequest]
    /\ stale' = stale \ {r}

\* Every other request that read the accounts has read something old.
Overtake(r) == stale' = (stale \cup {q \in Requests : pc[q] \in {"count", "write"}}) \ {r}

\* requireDashboardAuth, and the permissions that owners and admins have.
Manager(u) == u \notin disabled /\ role[u] \in {"owner", "admin"}

Unused == {i \in Invites : invite[i].state = "none"}

NextInvite == CHOOSE i \in Unused : \A j \in Unused : i <= j

----------------------------------------------------------------------------
(* Roles and disabled accounts.                                            *)

\* POST /team/users/:id/role and /disable.  An owner that disables itself is
\* refused in any case, later.
Manage(r) ==
    /\ pc[r] = "idle"
    /\ \E actor \in Users, target \in Users, op \in {"role", "disable"}, to \in Roles \cup {None} :
        /\ Manager(actor)
        /\ to = "owner" => role[actor] = "owner"
        /\ op = "disable" <=> to = None
        /\ op = "disable" => ~(actor = target /\ role[actor] = "owner")
        /\ req' = [req EXCEPT ![r] = [NoRequest EXCEPT !.op = op, !.byOwner = (role[actor] = "owner"),
                                       !.target = target, !.role = to]]
    /\ Goto(r, "target")
    /\ UNCHANGED <<accounts, invite, stale, answers, excused>>

\* The account; 404, or 403 for an owner's that is not an owner's to change.
ReadTarget(r) ==
    LET q == req[r] IN
    /\ pc[r] = "target"
    /\ IF role[q.target] = None \/ (role[q.target] = "owner" /\ ~q.byOwner)
       THEN Finish(r)
       ELSE /\ Goto(r, IF q.target \in ActiveOwners /\ q.role # "owner" THEN "count" ELSE "write")
            /\ req' = [req EXCEPT ![r].byOwner = FALSE]
            /\ UNCHANGED stale
    /\ UNCHANGED <<accounts, invite, answers, excused>>

\* Faulty: disabled owners are counted too.
CountOwners(r) ==
    /\ pc[r] = "count"
    /\ IF Cardinality({u \in Users : role[u] = "owner"}) <= 1
       THEN Finish(r)
       ELSE Goto(r, "write") /\ UNCHANGED <<req, stale>>
    /\ UNCHANGED <<accounts, invite, answers, excused>>

\* countActiveOwners, and LAST_OWNER_PROTECTION.
Count(r) ==
    /\ pc[r] = "count"
    /\ IF Cardinality(ActiveOwners) <= 1
       THEN Finish(r)
       ELSE Goto(r, "write") /\ UNCHANGED <<req, stale>>
    /\ UNCHANGED <<accounts, invite, answers, excused>>

\* The update, by the id of the account alone.
Write(r) ==
    /\ pc[r] = "write"
    /\ IF req[r].op = "role"
       THEN role' = [role EXCEPT ![req[r].target] = req[r].role] /\ UNCHANGED disabled
       ELSE disabled' = disabled \cup {req[r].target} /\ UNCHANGED role
    /\ Goto(r, "idle")
    /\ req' = [req EXCEPT ![r] = NoRequest]
    /\ Overtake(r)
    /\ excused' = (excused \/ r \in stale)
    /\ UNCHANGED <<invite, answers>>

----------------------------------------------------------------------------
(* Invitations.                                                            *)

\* POST /team/invite and /resend: the limits are counted, and for a resend the
\* newest active invitation is read.
Invite(r) ==
    /\ pc[r] = "idle"
    /\ \E actor \in Users, user \in Invited :
        /\ Manager(actor)
        /\ Cardinality({i \in Invites : invite[i].user = user}) < PerEmail
        /\ \/ \E to \in Roles :
                /\ to = "owner" => role[actor] = "owner"
                /\ Goto(r, "send")
                /\ req' = [req EXCEPT ![r] = [NoRequest EXCEPT !.target = user, !.role = to]]
           \/ \E i \in Invites :
                /\ invite[i].user = user /\ invite[i].state = "open"
                /\ \A j \in Invites : invite[j].user = user /\ invite[j].state = "open" => j <= i
                /\ Goto(r, "renew")
                /\ req' = [req EXCEPT ![r] = [NoRequest EXCEPT !.target = user, !.invite = i,
                                               !.role = invite[i].role]]
    /\ UNCHANGED <<accounts, invite, stale, answers, excused>>

Open(r) == [state |-> "open", user |-> req[r].target, role |-> req[r].role]

Send(r) ==
    /\ pc[r] = "send" /\ Unused # {}
    /\ invite' = [invite EXCEPT ![NextInvite] = Open(r)]
    /\ Finish(r)
    /\ UNCHANGED <<accounts, answers, excused>>

\* One transaction: the old invitation expires unless it has been accepted,
\* and the new one is created even then.
Resend(r) ==
    /\ pc[r] = "renew" /\ Unused # {}
    /\ LET old == req[r].invite
           was == invite[old].state
       IN invite' = [invite EXCEPT ![old].state = IF was = "open" THEN "expired" ELSE was,
                                   ![NextInvite] = Open(r)]
    /\ Finish(r)
    /\ UNCHANGED <<accounts, answers, excused>>

InviteExpires(i) ==
    /\ invite[i].state = "open"
    /\ invite' = [invite EXCEPT ![i].state = "expired"]
    /\ UNCHANGED <<accounts, pc, req, stale, answers, excused>>

\* POST /team/invite/:token/accept: the invitation is read, and refused when
\* accepted or expired.
ReadInvite(r) ==
    /\ pc[r] = "idle"
    /\ \E i \in Invites :
        /\ invite[i].state = "open"
        /\ req' = [req EXCEPT ![r] = [NoRequest EXCEPT !.target = invite[i].user, !.invite = i,
                                       !.role = invite[i].role]]
    /\ Goto(r, "accept")
    /\ UNCHANGED <<accounts, invite, stale, answers, excused>>

\* The transaction begins: what it reads (the invitation, the account) it reads
\* as of now.
BeginAccept(r) ==
    /\ pc[r] = "accept"
    /\ IF invite[req[r].invite].state = "accepted"
       THEN Finish(r)
       ELSE /\ Goto(r, "commit")
            /\ req' = [req EXCEPT ![r].known = (role[req[r].target] # None)]
            /\ UNCHANGED stale
    /\ UNCHANGED <<accounts, invite, answers, excused>>

\* The account gets the invitation's role and is enabled.  Owners are not
\* looked at.
Join(r) ==
    LET u == req[r].target IN
    /\ role' = [role EXCEPT ![u] = req[r].role]
    /\ disabled' = disabled \ {u}
    /\ Overtake(r)
    /\ Goto(r, "idle") /\ req' = [req EXCEPT ![r] = NoRequest]
    /\ excused' = (excused \/ (u \in ActiveOwners /\ req[r].role # "owner"))

\* The account is written first, then the invitation consumed unless it has
\* been: the request is then refused, but the transaction commits.  An account
\* created since the transaction began makes the creation fail.
Accept(r) ==
    LET i == req[r].invite IN
    /\ pc[r] = "commit"
    /\ \/ /\ req[r].known \/ role[req[r].target] = None
          /\ Join(r)
          /\ IF invite[i].state # "accepted"
             THEN /\ invite' = [invite EXCEPT ![i].state = "accepted"]
                  /\ answers' = [answers EXCEPT ![i] = @ + 1]
             ELSE UNCHANGED <<invite, answers>>
       \/ /\ ~req[r].known /\ role[req[r].target] # None
          /\ Finish(r)
          /\ UNCHANGED <<accounts, invite, answers, excused>>

\* The process dies; a transaction is rolled back.
Crash(r) ==
    /\ pc[r] # "idle"
    /\ Finish(r)
    /\ UNCHANGED <<accounts, invite, answers, excused>>

Next ==
    \/ \E r \in Requests :
        \/ Manage(r) \/ ReadTarget(r) \/ Count(r) \/ Write(r)
        \/ Invite(r) \/ Send(r) \/ Resend(r)
        \/ ReadInvite(r) \/ BeginAccept(r) \/ Accept(r)
        \/ Crash(r)
    \/ \E i \in Invites : InviteExpires(i)

Spec == Init /\ [][Next]_vars

----------------------------------------------------------------------------
(* Properties.                                                             *)

InviteRows ==
    [state : {"none", "open", "expired", "accepted"}, user : Users \cup {None},
     role : Roles \cup {None}]

RequestRows ==
    [op : {"role", "disable", None}, byOwner : BOOLEAN, target : Users \cup {None},
     role : Roles \cup {None}, invite : Invites \cup {None}, known : BOOLEAN]

\* The shape of every variable.
TypeOK ==
    /\ role \in [Users -> Roles \cup {None}]
    /\ disabled \subseteq {u \in Users : role[u] # None}
    /\ invite \in [Invites -> InviteRows]
    /\ pc \in [Requests -> Phases]
    /\ req \in [Requests -> RequestRows]
    /\ stale \subseteq {r \in Requests : pc[r] # "idle"}
    /\ answers \in [Invites -> Nat]
    /\ excused \in BOOLEAN

\* What a request q in a phase is about.
ProperIn(phase, q) ==
    /\ phase = "idle" => q = NoRequest
    /\ phase # "idle" => q.target \in Users
    /\ phase \in {"target", "count", "write"} => q.op = IF q.role = None THEN "disable" ELSE "role"
    /\ phase \in {"count", "write"} => role[q.target] # None
    /\ phase \in {"send", "renew", "accept", "commit"} => q.role \in Roles
    /\ phase \in {"renew", "accept", "commit"} =>
          q.invite \in Invites /\ invite[q.invite].state # "none"

RequestsAreProper == \A r \in Requests : ProperIn(pc[r], req[r])

\* An invitation that was made names an account and a role.
InvitesAreProper ==
    \A i \in Invites : invite[i].state # "none" => invite[i].user \in Users /\ invite[i].role \in Roles

\* The tenant keeps an active owner (LAST_OWNER_PROTECTION), unless a change
\* was written on reads that another change had overtaken, or an owner accepted
\* an invitation to a lesser role.
LastOwnerIsProtected == ActiveOwners # {} \/ excused

\* "Cannot demote the last active owner", "Cannot disable the last active
\* owner" (team.ts:530, 589): the tenant always has an active owner.
AnOwnerRemains == ActiveOwners # {}

LeavesAnOwner(q) ==
    \/ q.role = "owner"
    \/ q.target \notin ActiveOwners
    \/ ActiveOwners \ {q.target} # {}

\* Why: what a request was about to write left an owner when it was decided,
\* and what came after that makes it stale.
WritesAreDecided ==
    \A r \in Requests : pc[r] = "write" /\ r \notin stale => LeavesAnOwner(req[r])

\* An invitation makes one session, however many requests present it at once
\* (the conditional update of the accept route).
InviteIsUsedOnce == \A i \in Invites : answers[i] <= 1

\* Why: the one answer leaves it accepted, for good.
AnswersAreCounted ==
    \A i \in Invites : answers[i] > 0 => invite[i].state = "accepted"

\* Of the credentials of a team: its invitations.
CredentialsWorkOnce == InviteIsUsedOnce

\* The inductive invariant.
TeamInv ==
    /\ TypeOK
    /\ RequestsAreProper
    /\ InvitesAreProper
    /\ LastOwnerIsProtected
    /\ WritesAreDecided
    /\ InviteIsUsedOnce
    /\ AnswersAreCounted
=============================================================================
