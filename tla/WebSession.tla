----------------------------- MODULE WebSession -----------------------------
(***************************************************************************)
(* The session of a browser: the cookies of the web application and the    *)
(* requests that renew them (apps/web: middleware.ts, lib/auth.ts, the     *)
(* routes under app/api), over the API's refresh tokens (Sessions).        *)
(*                                                                         *)
(* The access and the refresh token of one answer bear one number.  An     *)
(* access token is fresh while it has more than 30 seconds left; then it   *)
(* is stale, and the API soon refuses it.  A browser may have several      *)
(* requests under way: pages that it prefetches, several tabs.  Next.js    *)
(* shows a page the cookies that the middleware sets, and lets a server    *)
(* action, but not the rendering of a page, set cookies.                   *)
(***************************************************************************)
EXTENDS Integers, FiniteSets

CONSTANTS
    Browsers,    \* of one user
    Requests,    \* under way at a time
    Tokens,      \* used in order: 1 .. n
    None,
    MaxUpsets    \* bound on lost calls and answers, and on sessions ended elsewhere

\* The requests of a browser: a page, a server action, a call of a route that
\* takes the access token, a logout, a login.
Kinds == {"page", "action", "call", "logout", "login"}

\* What an answer does to the cookies, if it does not set those of a token.
Keep == 0
Clear == -1

\* What the proofs assume of the constants.
Proper ==
    /\ Tokens \subseteq Nat \ {0} /\ 1 \in Tokens
    /\ None \notin Tokens \cup Browsers /\ None \notin Kinds /\ None \notin {Keep, Clear}

VARIABLES
    token,       \* refresh_tokens, with the browser that is to hold each
    stale,       \* those whose access token is not fresh any more
    jar,         \* the cookies synteq_token and synteq_refresh_token
    req,
    upsets,
    signedIn,    \* browsers whose user signed in and not out
    signedOut,   \* browsers whose last request was to sign out, with no other beside it
    spoilt       \* browsers whose session something else may have ended

vars == <<token, stale, jar, req, upsets, signedIn, signedOut, spoilt>>

NoToken == [state |-> "none", owner |-> None]

NoCookies == [access |-> None, refresh |-> None]

Idle == [kind |-> None, browser |-> None, phase |-> "idle", hand |-> NoCookies,
         set |-> Keep, beside |-> FALSE]

\* One browser is signed in, and the others are not.
Init ==
    \E b \in Browsers :
        /\ token = [t \in Tokens |-> IF t = 1 THEN [state |-> "live", owner |-> b] ELSE NoToken]
        /\ stale = {}
        /\ jar = [c \in Browsers |-> IF c = b THEN [access |-> 1, refresh |-> 1] ELSE NoCookies]
        /\ req = [r \in Requests |-> Idle]
        /\ upsets = 0
        /\ signedIn = {b} /\ signedOut = {} /\ spoilt = {}

UnderWay(b) == {r \in Requests : req[r].browser = b}

IsLive(t) == t # None /\ token[t].state = "live"

Upset == upsets < MaxUpsets /\ upsets' = upsets + 1

----------------------------------------------------------------------------
(* The API.                                                                *)

Unissued == {t \in Tokens : token[t].state = "none"}

NextToken == CHOOSE t \in Unissued : \A s \in Unissued : t <= s

AllRevoked ==
    [t \in Tokens |-> IF token[t].state = "none" THEN token[t] ELSE [token[t] EXCEPT !.state = "revoked"]]

Issued(tokens, b) == [tokens EXCEPT ![NextToken] = [state |-> "live", owner |-> b]]

\* rotateRefreshToken; the successor of t is for the browser b.
Rotated(t, b) ==
    IF IsLive(t) THEN Issued([token EXCEPT ![t].state = "revoked"], b) ELSE AllRevoked

----------------------------------------------------------------------------
(* The browser.                                                            *)

\* isTokenFresh
IsFresh(t) == t # None /\ t \notin stale

\* Where a request with some cookies goes first.  A page or an action: the
\* middleware lets it pass, refreshes, or redirects it to the login page.  The
\* routes scan/run and simulate: the API takes the access token or refuses it;
\* without cookies they refuse the request and leave the cookies alone.  The
\* refresh cookie outlives the one of the access token.
First(kind, cookies) ==
    CASE kind \in {"login", "logout"} -> {kind}
      [] kind \in {"page", "action"} ->
            IF IsFresh(cookies.access) THEN {"render"}
            ELSE IF cookies.refresh # None THEN {"middleware refresh"} ELSE {"no session"}
      [] kind = "call" ->
            IF cookies.refresh = None \/ IsFresh(cookies.access) THEN {"called"}
            ELSE {"called", "call refresh"}

\* A request is sent with the cookies there are; a login form is shown to those
\* without, a logout button to those with.
Send(r) ==
    /\ req[r] = Idle
    /\ \E b \in Browsers, k \in Kinds :
        /\ k = "login" => jar[b] = NoCookies
        /\ k = "logout" => jar[b] # NoCookies
        /\ \E phase \in First(k, jar[b]) :
            LET me == [Idle EXCEPT !.kind = k, !.browser = b, !.beside = UnderWay(b) # {}]
                sent == CASE phase = "called" -> [me EXCEPT !.phase = "answer"]
                          [] phase = "no session" -> [me EXCEPT !.phase = "answer", !.set = Clear]
                          [] OTHER -> [me EXCEPT !.phase = phase, !.hand = jar[b]]
            IN  req' = [q \in Requests |->
                 IF q = r THEN sent
                 ELSE IF req[q].browser = b THEN [req[q] EXCEPT !.beside = TRUE] ELSE req[q]]
        /\ signedOut' = IF k = "login" THEN signedOut \ {b} ELSE signedOut
    /\ UNCHANGED <<token, stale, jar, upsets, signedIn, spoilt>>

Quiet(b) == \A r \in Requests : req'[r].browser # b

\* Faulty: only the cookie of the access token is set.
AccessCookie(set, old) ==
    CASE set = Keep -> old
      [] set = Clear -> NoCookies
      [] OTHER -> [access |-> set, refresh |-> IF old.refresh = None THEN set ELSE old.refresh]

\* The answer comes: its cookies are set, or deleted.
Cookies(set, old) ==
    CASE set = Keep -> old
      [] set = Clear -> NoCookies
      [] OTHER -> [access |-> set, refresh |-> set]

\* A token whose cookie is overwritten or deleted.
Forgotten(old, new) ==
    [t \in Tokens |-> IF t = old /\ t # new THEN [token[t] EXCEPT !.owner = None] ELSE token[t]]

Land(r) ==
    /\ req[r].phase = "answer"
    /\ LET me == req[r]
           b == me.browser
       IN  /\ jar' = [jar EXCEPT ![b] = Cookies(me.set, @)]
           /\ req' = [req EXCEPT ![r] = Idle]
           /\ signedIn' = IF me.kind = "login" THEN signedIn \cup {b}
                          ELSE IF me.kind = "logout" THEN signedIn \ {b} ELSE signedIn
           /\ signedOut' = IF me.kind = "logout" /\ ~me.beside THEN signedOut \cup {b} ELSE signedOut
           /\ spoilt' = IF Quiet(b) /\ IsLive(jar'[b].refresh) THEN spoilt \ {b}
                        ELSE IF me.kind = "login" /\ me.beside THEN spoilt \cup {b} ELSE spoilt
           /\ token' = IF me.kind = "logout" /\ ~me.beside THEN token ELSE Forgotten(jar[b].refresh, jar'[b].refresh)
    /\ UNCHANGED <<stale, upsets>>

\* The browser has gone elsewhere, and the answer is lost with its cookies.
Miss(r) ==
    /\ Upset
    /\ req[r].phase = "answer" /\ req[r].set # Keep
    /\ token' = [t \in Tokens |-> IF t = req[r].set THEN [token[t] EXCEPT !.owner = None] ELSE token[t]]
    /\ spoilt' = spoilt \cup {req[r].browser}
    /\ req' = [req EXCEPT ![r] = Idle]
    /\ UNCHANGED <<stale, jar, signedIn, signedOut>>

----------------------------------------------------------------------------
(* The web application.                                                    *)

Continue(r, phase) == req' = [req EXCEPT ![r].phase = phase]

End(r, set) == req' = [req EXCEPT ![r].phase = "answer", ![r].set = set, ![r].hand = NoCookies]

\* What is left of a request that has no session: a page cannot delete cookies.
Cleared(r) == IF req[r].kind = "page" THEN req[r].set ELSE Clear

\* requireToken, in the rendering of a page or in an action.
RequireToken(r) ==
    /\ req[r].phase = "render"
    /\ LET hand == req[r].hand IN
        IF IsFresh(hand.access) THEN End(r, req[r].set)
        ELSE IF hand.refresh = None THEN End(r, Cleared(r))
        ELSE Continue(r, "render refresh")
    /\ UNCHANGED <<token, stale, jar, upsets, signedIn, signedOut, spoilt>>

Refreshing == {"middleware refresh", "render refresh", "call refresh"}

\* The token that the rendering of a page gets is not kept.
Unsaved(r) == req[r].phase = "render refresh" /\ req[r].kind = "page"

\* The API is asked for new tokens, which it gives, or it ends every session.
Refresh(r) ==
    /\ req[r].phase \in Refreshing /\ Unissued # {}
    /\ LET me == req[r]
           t == me.hand.refresh
           new == [access |-> NextToken, refresh |-> NextToken]
       IN  /\ token' = Rotated(t, IF Unsaved(r) THEN None ELSE me.browser)
           /\ CASE IsLive(t) /\ me.phase = "middleware refresh" ->
                     req' = [req EXCEPT ![r].phase = "render", ![r].hand = new, ![r].set = NextToken]
                [] IsLive(t) /\ Unsaved(r) -> End(r, me.set)
                [] IsLive(t) /\ me.phase # "middleware refresh" /\ ~Unsaved(r) -> End(r, NextToken)
                [] ~IsLive(t) /\ me.phase = "render refresh" -> End(r, Cleared(r))
                [] ~IsLive(t) /\ me.phase # "render refresh" -> End(r, Clear)
           /\ spoilt' = IF ~IsLive(t) THEN Browsers
                        ELSE IF me.beside \/ Unsaved(r) THEN spoilt \cup {me.browser} ELSE spoilt
    /\ UNCHANGED <<stale, jar, upsets, signedIn, signedOut>>

\* The call fails, though the API may have handled it.  The middleware sends the
\* browser to the login page, and a route answers with an error.
RefreshFails(r) ==
    /\ Upset
    /\ req[r].phase \in Refreshing /\ Unissued # {}
    /\ token' \in {token, Rotated(req[r].hand.refresh, None)}
    /\ End(r, CASE req[r].phase = "middleware refresh" -> Clear
                [] req[r].phase = "render refresh" -> Cleared(r)
                [] req[r].phase = "call refresh" -> Keep)
    /\ spoilt' = IF IsLive(req[r].hand.refresh) THEN spoilt \cup {req[r].browser} ELSE Browsers
    /\ UNCHANGED <<stale, jar, signedIn, signedOut>>

\* revokeRefreshToken, of which the route does not wait to hear that it failed.
Logout(r) ==
    /\ req[r].phase = "logout"
    /\ LET t == req[r].hand.refresh IN
        \/ /\ token' = [token EXCEPT ![t].state = IF @ = "live" THEN "revoked" ELSE @]
           /\ UNCHANGED upsets
        \/ Upset /\ token' = [token EXCEPT ![t].owner = None]
    /\ End(r, Clear)
    /\ UNCHANGED <<stale, jar, signedIn, signedOut, spoilt>>

\* The routes login and signup.
Login(r) ==
    /\ req[r].phase = "login" /\ Unissued # {}
    /\ token' = Issued(token, req[r].browser)
    /\ End(r, NextToken)
    /\ UNCHANGED <<stale, jar, upsets, signedIn, signedOut, spoilt>>

----------------------------------------------------------------------------

\* A new password, or a logout everywhere.
EndSessions ==
    /\ Upset
    /\ token' = AllRevoked
    /\ spoilt' = Browsers
    /\ UNCHANGED <<stale, jar, req, signedIn, signedOut>>

\* The access token of a browser or a request; a request is short beside the
\* life of a token that it was given.
Age(t) ==
    /\ t \notin stale
    /\ (\E b \in Browsers : jar[b].access = t) \/ (\E r \in Requests : req[r].hand.access = t)
    /\ \A r \in Requests : req[r].set # t
    /\ stale' = stale \cup {t}
    /\ UNCHANGED <<token, jar, req, upsets, signedIn, signedOut, spoilt>>

Next ==
    \/ \E r \in Requests :
        \/ Send(r) \/ Land(r) \/ Miss(r)
        \/ RequireToken(r) \/ Refresh(r) \/ RefreshFails(r)
        \/ Logout(r) \/ Login(r)
    \/ EndSessions
    \/ \E t \in Tokens : Age(t)

Spec == Init /\ [][Next]_vars

----------------------------------------------------------------------------
(* Properties.                                                             *)

TokenRows == [state : {"none", "live", "revoked"}, owner : Browsers \cup {None}]

CookieRows == [access : Tokens \cup {None}, refresh : Tokens \cup {None}]

RequestRows ==
    [kind : Kinds \cup {None}, browser : Browsers \cup {None},
     phase : {"idle", "render", "login", "logout", "answer"} \cup Refreshing,
     hand : CookieRows, set : Tokens \cup {Keep, Clear}, beside : BOOLEAN]

\* The shape of every variable.
TypeOK ==
    /\ token \in [Tokens -> TokenRows]
    /\ stale \subseteq Tokens \ Unissued
    /\ jar \in [Browsers -> CookieRows]
    /\ req \in [Requests -> RequestRows]
    /\ signedIn \in SUBSET Browsers /\ signedOut \in SUBSET Browsers /\ spoilt \in SUBSET Browsers

\* The cookies of a browser, and those that a request was given, are of one
\* answer; what a request is for, where it is, and what its answer sets.
ProperIn(q) ==
    /\ q.browser = None => q = Idle
    /\ q.phase = "idle" => q = Idle
    /\ q.hand.access = q.hand.refresh
    /\ q.kind = "login" => q.phase = "login" \/ (q.phase = "answer" /\ q.set \in Tokens)
    /\ q.kind = "logout" => q.phase = "logout" \/ (q.phase = "answer" /\ q.set = Clear)
    /\ q.phase \in {"login", "logout"} => q.kind = q.phase
    /\ q.phase \in {"render", "logout"} \cup Refreshing => q.hand.refresh \in Tokens
    /\ q.phase \in {"login", "logout"} \cup Refreshing => q.set = Keep
    /\ q.phase = "render" => q.set \in {Keep, q.hand.refresh}
    /\ q.phase = "answer" => q.hand = NoCookies
    /\ q.set \in Tokens => q.set \notin stale

RequestsAreProper ==
    /\ \A b \in Browsers : jar[b].access = jar[b].refresh
    /\ \A r \in Requests : ProperIn(req[r])
    /\ \A r, q \in Requests : r # q /\ req[r].browser = req[q].browser /\ req[r] # Idle => req[r].beside

\* A token is of one browser, whose cookie it is, or that of a request or an
\* answer.
Holds(b, t) ==
    \/ jar[b].refresh = t
    \/ \E r \in Requests : req[r].browser = b /\ t \in {req[r].hand.refresh, req[r].set}

TokensAreHeldByOne ==
    \A t \in Tokens, b \in Browsers : Holds(b, t) =>
        token[t].state # "none" /\ \A c \in Browsers : Holds(c, t) => b = c

\* The token of an answer that is to come is in nobody else's hands, and works
\* unless the browser is spoilt.
AnswersAreFresh ==
    \A r \in Requests : req[r].set \in Tokens =>
        /\ \A b \in Browsers : jar[b].refresh # req[r].set
        /\ \A q \in Requests \ {r} : req[r].set \notin {req[q].hand.refresh, req[q].set}
        /\ IsLive(req[r].set) \/ req[r].browser \in spoilt

\* A token that works is in its owner's cookies, or to be.
LiveTokensAreKept ==
    \A t \in Tokens, b \in Browsers : IsLive(t) /\ token[t].owner = b =>
        jar[b].refresh = t \/ \E r \in Requests : req[r].browser = b /\ req[r].set = t

\* A logout with no request beside it is about the cookies there are, and when it
\* is answered their token does not work or is the browser's no more.
LogoutsAreHeard ==
    \A r \in Requests : \A b \in Browsers : \A t \in Tokens :
        req[r].kind = "logout" /\ req[r].browser = b /\ ~req[r].beside /\ jar[b].refresh = t =>
            IF req[r].phase = "logout" THEN req[r].hand.refresh = t
            ELSE ~(IsLive(t) /\ token[t].owner = b)

\* A browser that can go on has cookies, which only a logout is to delete; their
\* token works, or there is an answer to come with another, or to a logout.
GoesOn(b) ==
    /\ jar[b].refresh # None
    /\ \A r \in Requests : req[r].browser = b /\ req[r].set = Clear => req[r].kind = "logout"
    /\ \/ IsLive(jar[b].refresh)
       \/ \E r \in Requests : /\ req[r].browser = b
                              /\ req[r].set \in Tokens \/ (req[r].kind = "logout" /\ req[r].phase = "answer")

SignedInGoOn == \A b \in signedIn \ spoilt : GoesOn(b)

\* A browser whose user signed in and has no request under way can go on: it has
\* a refresh token, and the token works.  Except when a request of it refreshed,
\* or logged in, with another beside it, a page refreshed while it was rendered,
\* a call or an answer was lost, the sessions were ended elsewhere, or one of
\* these things has happened to another browser of the user and the API took it
\* for a reuse (middleware.ts, requireToken, rotateRefreshToken).
SessionGoesOn ==
    \A b \in signedIn \ spoilt : UnderWay(b) = {} => IsLive(jar[b].refresh)

\* After a logout with no request beside it the browser has no cookies, and the
\* refresh token that it had does not work, until it logs in again; those that
\* were lost, not saved or replaced before do (app/api/logout/route.ts).
LogoutIsFinal ==
    \A b \in signedOut :
        /\ jar[b] = NoCookies
        /\ \A t \in Tokens : token[t].owner = b => ~IsLive(t)

BrowsersKeepSession == SessionGoesOn /\ LogoutIsFinal

\* The requests of such a browser have an answer to come that sets no cookie.
SignedOutAreQuiet ==
    \A b \in signedOut : \A r \in Requests : req[r].browser = b =>
        req[r].phase = "answer" /\ req[r].set \in {Keep, Clear} /\ req[r].kind \notin {"login", "logout"}

\* The inductive invariant.
WebInv ==
    /\ TypeOK /\ RequestsAreProper /\ TokensAreHeldByOne /\ AnswersAreFresh /\ LiveTokensAreKept
    /\ LogoutsAreHeard /\ SignedInGoOn /\ LogoutIsFinal /\ SignedOutAreQuiet
=============================================================================
