------------------------------ MODULE Sessions ------------------------------
(***************************************************************************)
(* The sessions of one user: login, refresh tokens and one-time links      *)
(* (auth-service.ts, routes/auth.ts), and what team management does to     *)
(* them (routes/team.ts).                                                  *)
(*                                                                         *)
(* Requests run concurrently; a transaction of the database, or a single   *)
(* statement outside one, is a step, and so is each read that precedes it. *)
(* A password change, a reset, a disabled account, a logout everywhere and *)
(* a detected reuse all end the sessions of the user: they begin an epoch, *)
(* and a session carries the epoch in which its password was checked.      *)
(* Access tokens, which expire by themselves, are left out.                *)
(***************************************************************************)
EXTENDS Integers, FiniteSets

CONSTANTS
    Requests,    \* requests handled at a time
    Tokens,      \* refresh tokens, used in order: 1 .. n
    Links,       \* password reset and email verification tokens
    None,
    MaxEpoch     \* bound on the events that end sessions

\* What the proofs assume of the constants.
Proper ==
    /\ Tokens \subseteq Nat /\ IsFiniteSet(Tokens)
    /\ MaxEpoch \in Nat \ {0}
    /\ None \notin Tokens \cup Links

VARIABLES
    disabled,  \* disabled_at of the user
    epoch,
    token,     \* refresh_tokens
    link,      \* email_verification_tokens and password_reset_tokens
    pc,
    arg,       \* the token or link a request is about
    saw,       \* the epoch a request saw
    owed,      \* a write that ends the sessions was not followed by revoking them
    uses,      \* how often each link was consumed
    raced      \* links that two requests had read as unused

vars == <<disabled, epoch, owed, token, link, uses, raced, pc, arg, saw>>

account == <<disabled, epoch, owed>>
links == <<link, uses, raced>>

NoToken == [state |-> "none", epoch |-> 0, stale |-> FALSE, from |-> None]

NoLink == [state |-> "none", kind |-> None]

Phases == {"idle", "issue", "claim", "reuse", "change", "end", "logout", "confirm"}

Init ==
    /\ disabled = FALSE
    /\ epoch = 1
    /\ token = [t \in Tokens |-> NoToken]
    /\ link = [l \in Links |-> NoLink]
    /\ pc = [r \in Requests |-> "idle"]
    /\ arg = [r \in Requests |-> None]
    /\ saw = [r \in Requests |-> 0]
    /\ owed = FALSE
    /\ uses = [l \in Links |-> 0]
    /\ raced = {}

Goto(r, phase) == pc' = [pc EXCEPT ![r] = phase]

About(r, x) == arg' = [arg EXCEPT ![r] = x]

Finish(r) ==
    /\ Goto(r, "idle")
    /\ About(r, None)
    /\ saw' = [saw EXCEPT ![r] = 0]

\* Faulty: expired tokens are left, as revokeRefreshToken leaves them.
UnexpiredRevoked ==
    [t \in Tokens |-> IF token[t].state = "live" THEN [token[t] EXCEPT !.state = "revoked"] ELSE token[t]]

\* revokeAllRefreshTokensForUser, and the same update inside transactions.
AllRevoked ==
    [t \in Tokens |-> IF token[t].state = "none" THEN token[t] ELSE [token[t] EXCEPT !.state = "revoked"]]

NewEpoch == epoch < MaxEpoch /\ epoch' = epoch + 1

Unused == {t \in Tokens : token[t].state = "none"}

NextToken == CHOOSE t \in Unused : \A s \in Unused : t <= s

\* createRefreshToken, for a session that began in epoch e.
Create(tokens, e, from) ==
    [tokens EXCEPT ![NextToken] =
        [state |-> "live", epoch |-> e, from |-> from,
         stale |-> IF from = None THEN e # epoch ELSE token[from].stale]]

----------------------------------------------------------------------------
(* Login.                                                                  *)

\* A login past its lock (LoginLock): a user who is not disabled, with the
\* right password.
Login(r) ==
    /\ pc[r] = "idle"
    /\ ~disabled
    /\ saw' = [saw EXCEPT ![r] = epoch]
    /\ Goto(r, "issue")
    /\ UNCHANGED <<account, token, links, arg>>

\* createAuthSession.
Issue(r) ==
    /\ pc[r] = "issue"
    /\ Unused # {}
    /\ token' = Create(token, saw[r], None)
    /\ Finish(r)
    /\ UNCHANGED <<account, links>>

----------------------------------------------------------------------------
(* Refresh tokens.                                                         *)

\* rotateRefreshToken reads the token with its user, at the time it takes for
\* the whole transaction.
Refresh(r) ==
    /\ pc[r] = "idle"
    /\ \E t \in Tokens \ Unused :
        /\ About(r, t)
        /\ Goto(r, IF token[t].state = "live" /\ ~disabled THEN "claim" ELSE "reuse")
    /\ UNCHANGED <<account, token, links, saw>>

\* Faulty: the token is revoked by its id alone.
ClaimAnyway(r) ==
    /\ pc[r] = "claim"
    /\ Unused # {}
    /\ token' = [Create(token, token[arg[r]].epoch, arg[r]) EXCEPT ![arg[r]].state = "revoked"]
    /\ Finish(r)
    /\ UNCHANGED <<account, links>>

\* The conditional update, and the successor in the same transaction.  The
\* token may have expired since it was read.
Claim(r) ==
    /\ pc[r] = "claim"
    /\ \/ /\ token[arg[r]].state \in {"live", "expired"}
          /\ Unused # {}
          /\ token' = [Create(token, token[arg[r]].epoch, arg[r]) EXCEPT ![arg[r]].state = "revoked"]
          /\ Finish(r)
       \/ token[arg[r]].state = "revoked" /\ Goto(r, "reuse") /\ UNCHANGED <<token, arg, saw>>
    /\ UNCHANGED <<account, links>>

\* reuse_detected: every session of the user ends.
Reuse(r) ==
    /\ pc[r] = "reuse"
    /\ token' = AllRevoked
    /\ NewEpoch
    /\ owed' = FALSE
    /\ Finish(r)
    /\ UNCHANGED <<disabled, links>>

\* revokeRefreshToken.
Logout(t) ==
    /\ token[t].state = "live"
    /\ token' = [token EXCEPT ![t].state = "revoked"]
    /\ UNCHANGED <<account, links, pc, arg, saw>>

TokenExpires(t) ==
    /\ token[t].state = "live"
    /\ token' = [token EXCEPT ![t].state = "expired"]
    /\ UNCHANGED <<account, links, pc, arg, saw>>

----------------------------------------------------------------------------
(* Requests that end the sessions.                                         *)

\* A logout everywhere takes a valid access token, even of a disabled user; a
\* change of password takes a user who is not disabled, and the current one.
Authenticate(r) ==
    /\ pc[r] = "idle"
    /\ Goto(r, "logout") \/ (~disabled /\ Goto(r, "change"))
    /\ UNCHANGED <<account, token, links, arg, saw>>

LogoutAll(r) ==
    /\ pc[r] = "logout"
    /\ token' = AllRevoked
    /\ NewEpoch
    /\ owed' = FALSE
    /\ Finish(r)
    /\ UNCHANGED <<disabled, links>>

\* change-password writes the new password, and revokes the tokens in End.
ChangePassword(r) ==
    /\ pc[r] = "change"
    /\ NewEpoch
    /\ owed' = TRUE
    /\ Goto(r, "end")
    /\ UNCHANGED <<disabled, token, links, arg, saw>>

\* The account is disabled (routes/team.ts), and its tokens revoked in End.
Disable(r) ==
    /\ pc[r] = "idle" /\ ~disabled
    /\ disabled' = TRUE
    /\ NewEpoch
    /\ owed' = TRUE
    /\ Goto(r, "end")
    /\ UNCHANGED <<token, links, arg, saw>>

End(r) ==
    /\ pc[r] = "end"
    /\ token' = AllRevoked
    /\ owed' = FALSE
    /\ Finish(r)
    /\ UNCHANGED <<disabled, epoch, links>>

\* An invitation is accepted (routes/team.ts): the account gets a password, is
\* enabled, and logged in; sessions it had are not revoked.
Accept(r) ==
    /\ pc[r] = "idle"
    /\ disabled' = FALSE
    /\ NewEpoch
    /\ owed' = TRUE
    /\ saw' = [saw EXCEPT ![r] = epoch']
    /\ Goto(r, "issue")
    /\ UNCHANGED <<token, links, arg>>

----------------------------------------------------------------------------
(* One-time links.                                                         *)

\* issuePasswordResetToken, issueEmailVerificationToken.
IssueLink(l) ==
    /\ link[l].state = "none"
    /\ ~disabled
    /\ \E kind \in {"reset", "verify"} : link' = [link EXCEPT ![l] = [state |-> "open", kind |-> kind]]
    /\ UNCHANGED <<account, token, uses, raced, pc, arg, saw>>

LinkExpires(l) ==
    /\ link[l].state = "open"
    /\ link' = [link EXCEPT ![l].state = "expired"]
    /\ UNCHANGED <<account, token, uses, raced, pc, arg, saw>>

\* consumePasswordResetToken, consumeEmailVerificationToken: the link is read
\* outside the transaction that uses it.
Confirm(r) ==
    /\ pc[r] = "idle"
    /\ \E l \in Links :
        /\ link[l].state = "open"
        /\ About(r, l)
        /\ raced' = IF \E q \in Requests : pc[q] = "confirm" /\ arg[q] = l THEN raced \cup {l} ELSE raced
    /\ Goto(r, "confirm")
    /\ UNCHANGED <<account, token, link, uses, saw>>

UseLink(r) ==
    /\ link' = [link EXCEPT ![arg[r]].state = "used"]
    /\ uses' = [uses EXCEPT ![arg[r]] = @ + 1]

\* A verification marks the address, which is only shown (email_verified_at is
\* left out); a reset changes the password and enables the account.
Consume(r) ==
    /\ pc[r] = "confirm"
    /\ UseLink(r)
    /\ \/ /\ link[arg[r]].kind = "verify"
          /\ UNCHANGED <<disabled, epoch, owed, token>>
       \/ /\ link[arg[r]].kind = "reset"
          /\ disabled' = FALSE
          /\ NewEpoch
          /\ token' = AllRevoked
          /\ owed' = FALSE
    /\ Finish(r)
    /\ UNCHANGED <<raced>>

\* The process dies; a transaction under way is rolled back.
Crash(r) ==
    /\ pc[r] # "idle"
    /\ Finish(r)
    /\ UNCHANGED <<account, token, links>>

Step(r) ==
    \/ Login(r) \/ Issue(r)
    \/ Refresh(r) \/ Claim(r) \/ Reuse(r)
    \/ Authenticate(r) \/ LogoutAll(r) \/ ChangePassword(r) \/ Disable(r) \/ End(r) \/ Accept(r)
    \/ Confirm(r) \/ Consume(r)
    \/ Crash(r)

Next ==
    \/ \E r \in Requests : Step(r)
    \/ \E t \in Tokens : Logout(t) \/ TokenExpires(t)
    \/ \E l \in Links : IssueLink(l) \/ LinkExpires(l)

Spec == Init /\ [][Next]_vars

----------------------------------------------------------------------------
(* Properties.                                                             *)

TokenRows ==
    [state : {"none", "live", "expired", "revoked"}, epoch : 0 .. MaxEpoch, stale : BOOLEAN,
     from : Tokens \cup {None}]

LinkRows ==
    [state : {"none", "open", "expired", "used"}, kind : {"reset", "verify", None}]

\* The shape of every variable.
TypeOK ==
    /\ disabled \in BOOLEAN /\ owed \in BOOLEAN
    /\ epoch \in 1 .. MaxEpoch
    /\ token \in [Tokens -> TokenRows]
    /\ link \in [Links -> LinkRows]
    /\ uses \in [Links -> Nat] /\ raced \subseteq Links
    /\ pc \in [Requests -> Phases]
    /\ arg \in [Requests -> Tokens \cup Links \cup {None}]
    /\ saw \in [Requests -> 0 .. MaxEpoch]

\* What a request in a phase is about.
RequestsAreProper ==
    \A r \in Requests :
        /\ pc[r] = "idle" => arg[r] = None /\ saw[r] = 0
        /\ pc[r] = "claim" => arg[r] \in Tokens /\ token[arg[r]].state # "none"
        /\ pc[r] = "confirm" => arg[r] \in Links

\* A refresh token is exchanged for one new token at most, however many
\* requests present it at once (the conditional update of rotateRefreshToken).
OneSuccessorPerToken ==
    \A t \in Tokens : Cardinality({s \in Tokens : token[s].from = t}) <= 1

\* Why: a token that has a successor is revoked for good.
SuccessorsAreAlone ==
    \A s, u \in Tokens :
        token[s].from # None =>
            /\ token[token[s].from].state = "revoked"
            /\ token[s].from = token[u].from => s = u

\* Whatever ends the sessions of a user (a new password, a disabled account, a
\* logout everywhere, a detected reuse) ends all that began before: a token
\* that can still be refreshed goes back to a password checked since then,
\* unless the login was half-way through at the time, or the tokens are yet to
\* be revoked, the process having died in between or an invitation having set
\* the password.
EndedSessionsStayEnded ==
    \A t \in Tokens :
        token[t].state = "live" => token[t].epoch = epoch \/ token[t].stale \/ owed

\* Why: an expired token, which a claim may take yet, is no exception.
ExpiredSessionsEndToo ==
    \A t \in Tokens :
        token[t].state \in {"live", "expired"} => token[t].epoch = epoch \/ token[t].stale \/ owed

\* A reset or verification link is consumed once, unless two requests had
\* both read it as unused (auth-service.ts:279 and 325 read it outside the
\* transaction).
LinksAreUsedOnce == \A l \in Links : uses[l] > 1 => l \in raced

Confirms(r, l) == pc[r] = "confirm" /\ arg[r] = l

\* Why: a used link is not read as unused again, and unless it is raced for a
\* link has one request or one use.
UsesAreCounted ==
    \A l \in Links :
        /\ uses[l] > 0 => link[l].state = "used"
        /\ l \notin raced =>
              \A r \in Requests : Confirms(r, l) =>
                  uses[l] = 0 /\ \A q \in Requests : Confirms(q, l) => q = r

\* Refresh tokens and links each work once.
CredentialsWorkOnce == OneSuccessorPerToken /\ LinksAreUsedOnce

\* The inductive invariant.
SessionsInv ==
    /\ TypeOK
    /\ RequestsAreProper
    /\ SuccessorsAreAlone
    /\ ExpiredSessionsEndToo
    /\ LinksAreUsedOnce
    /\ UsesAreCounted

=============================================================================
