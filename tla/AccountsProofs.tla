--------------------------- MODULE AccountsProofs ---------------------------
(***************************************************************************)
(* Proofs about accounts, plans and settings: for the sessions of a user   *)
(* (S), the session of a browser (W), the lock on logins (L), the team     *)
(* (T), the sources (O) and the control plane (C) that each step keeps the *)
(* inductive invariant of its module; then the properties of the whole.    *)
(***************************************************************************)
EXTENDS Accounts, LeastElements, FiniteSetTheorems, TLAPS

(* FiniteSets, which three of the modules extend, is here under other names.  *)
LEMMA SameSets ==
  /\ \A A : S!IsFiniteSet(A) <=> IsFiniteSet(A)
  /\ \A A : L!IsFiniteSet(A) <=> IsFiniteSet(A)
  /\ \A A : T!IsFiniteSet(A) <=> IsFiniteSet(A)
  BY DEF S!IsFiniteSet, L!IsFiniteSet, T!IsFiniteSet, IsFiniteSet

LEMMA SameSizes ==
  /\ \A A : S!Cardinality(A) = Cardinality(A)
  /\ \A A : L!Cardinality(A) = Cardinality(A)
  /\ \A A : T!Cardinality(A) = Cardinality(A)
  BY DEF S!Cardinality, L!Cardinality, T!Cardinality, Cardinality

(* The sessions of a user.                                                 *)

LEMMA NextTokenIsUnused ==
  ASSUME S!Proper, S!Unused # {}
  PROVE  S!NextToken \in S!Unused
  <1>1. S!Unused \in SUBSET Nat
    BY DEF S!Unused, S!Proper
  <1>2. QED
    BY <1>1, HasLeast DEF S!NextToken

(* How a step changes the tokens. *)
LEMMA AllRevokedRows ==
  ASSUME S!TypeOK
  PROVE  /\ S!AllRevoked \in [Tokens -> S!TokenRows]
         /\ \A t \in Tokens : /\ S!AllRevoked[t].state \in {"none", "revoked"}
                              /\ S!AllRevoked[t].state = "none" <=> token[t].state = "none"
                              /\ S!AllRevoked[t].from = token[t].from
  <1>1. \A t \in Tokens : token[t] \in S!TokenRows
    BY DEF S!TypeOK
  <1>2. ASSUME NEW t \in Tokens
        PROVE  /\ S!AllRevoked[t] \in S!TokenRows
               /\ S!AllRevoked[t].state \in {"none", "revoked"}
               /\ S!AllRevoked[t].state = "none" <=> token[t].state = "none"
               /\ S!AllRevoked[t].from = token[t].from
    BY <1>1 DEF S!AllRevoked, S!TokenRows
  <1>3. QED
    BY <1>2 DEF S!AllRevoked

LEMMA CreateRows ==
  ASSUME S!Proper, S!TypeOK, S!Unused # {}, NEW e \in 0 .. MaxEpoch, NEW from \in Tokens \cup {None}
  PROVE  /\ S!Create(token, e, from) \in [Tokens -> S!TokenRows]
         /\ \A t \in Tokens \ {S!NextToken} : S!Create(token, e, from)[t] = token[t]
         /\ LET new == S!Create(token, e, from)[S!NextToken]
            IN  /\ new.state = "live" /\ new.epoch = e /\ new.from = from
                /\ new.stale = IF from = None THEN e # epoch ELSE token[from].stale
  <1> DEFINE new == [state |-> "live", epoch |-> e, from |-> from,
                     stale |-> IF from = None THEN e # epoch ELSE token[from].stale]
  <1>1. \A t \in Tokens : token[t].stale \in BOOLEAN
    BY DEF S!TypeOK, S!TokenRows
  <1>2. new.stale \in BOOLEAN
    BY <1>1
  <1>3. new \in S!TokenRows
    BY <1>2 DEF S!TokenRows
  <1>4. S!NextToken \in Tokens
    BY NextTokenIsUnused DEF S!Unused
  <1>5. token \in [Tokens -> S!TokenRows]
    BY DEF S!TypeOK
  <1>6. S!Create(token, e, from) = [token EXCEPT ![S!NextToken] = new]
    BY DEF S!Create
  <1>7. QED
    BY <1>3, <1>4, <1>5, <1>6

(* How a step changes a request. *)
LEMMA FinishRequest ==
  ASSUME S!Proper, S!TypeOK, S!RequestsAreProper, NEW r \in Requests, S!Finish(r),
         \A t \in Tokens : token'[t].state = "none" => token[t].state = "none"
  PROVE  /\ pc' \in [Requests -> S!Phases] /\ pc' = [pc EXCEPT ![r] = "idle"]
         /\ arg' \in [Requests -> Tokens \cup Links \cup {None}]
         /\ saw' \in [Requests -> 0 .. MaxEpoch]
         /\ S!RequestsAreProper'
         /\ \A q \in Requests, l \in Links : S!Confirms(q, l)' => q # r /\ S!Confirms(q, l)
  <1>1. /\ pc' = [pc EXCEPT ![r] = "idle"] /\ arg' = [arg EXCEPT ![r] = None]
        /\ saw' = [saw EXCEPT ![r] = 0]
    BY DEF S!Finish, S!Goto, S!About
  <1>2. saw' \in [Requests -> 0 .. MaxEpoch]
    <2>1. 0 \in 0 .. MaxEpoch
      BY DEF S!Proper
    <2>2. QED
      BY <1>1, <2>1 DEF S!TypeOK
  <1>3. pc' \in [Requests -> S!Phases] /\ arg' \in [Requests -> Tokens \cup Links \cup {None}]
    BY <1>1 DEF S!TypeOK, S!Phases
  <1>4. S!RequestsAreProper'
    BY <1>1 DEF S!RequestsAreProper, S!TypeOK
  <1>5. \A q \in Requests, l \in Links : S!Confirms(q, l)' => q # r /\ S!Confirms(q, l)
    BY <1>1 DEF S!Confirms, S!TypeOK
  <1>6. QED
    BY <1>1, <1>2, <1>3, <1>4, <1>5

LEMMA InitSessionsInv ==
  ASSUME S!Proper
  PROVE  S!Init => S!SessionsInv
  <1> SUFFICES ASSUME S!Init PROVE S!SessionsInv
    OBVIOUS
  <1>1. S!NoToken \in S!TokenRows /\ S!NoLink \in S!LinkRows
    BY DEF S!Proper, S!NoToken, S!NoLink, S!TokenRows, S!LinkRows
  <1>2. S!TypeOK
    <2>1. epoch \in 1 .. MaxEpoch /\ 0 \in 0 .. MaxEpoch
      BY DEF S!Init, S!Proper
    <2>2. pc \in [Requests -> S!Phases]
      BY DEF S!Init, S!Phases
    <2>3. saw \in [Requests -> 0 .. MaxEpoch]
      BY <2>1 DEF S!Init
    <2>4. QED
      BY <1>1, <2>1, <2>2, <2>3 DEF S!Init, S!TypeOK
  <1>3. S!RequestsAreProper /\ S!SuccessorsAreAlone /\ S!ExpiredSessionsEndToo
    BY DEF S!Init, S!RequestsAreProper, S!SuccessorsAreAlone, S!ExpiredSessionsEndToo, S!NoToken
  <1>4. S!LinksAreUsedOnce /\ S!UsesAreCounted
    BY DEF S!Init, S!LinksAreUsedOnce, S!UsesAreCounted, S!Confirms
  <1>5. QED
    BY <1>2, <1>3, <1>4 DEF S!SessionsInv

(* A step that changes neither tokens nor what ended the sessions. *)
LEMMA SameTokens ==
  ASSUME S!SessionsInv, UNCHANGED <<token, epoch, owed>>
  PROVE  S!SuccessorsAreAlone' /\ S!ExpiredSessionsEndToo'
  BY DEF S!SessionsInv, S!SuccessorsAreAlone, S!ExpiredSessionsEndToo

LEMMA SameLinks ==
  ASSUME S!SessionsInv, UNCHANGED S!links,
         \A q \in Requests, l \in Links : S!Confirms(q, l)' => S!Confirms(q, l)
  PROVE  S!LinksAreUsedOnce' /\ S!UsesAreCounted'
  BY DEF S!SessionsInv, S!LinksAreUsedOnce, S!UsesAreCounted, S!links

(* All tokens are revoked, in this epoch or a new one. *)
LEMMA EndingStep ==
  ASSUME S!SessionsInv, token' = S!AllRevoked
  PROVE  /\ token' \in [Tokens -> S!TokenRows]
         /\ S!SuccessorsAreAlone' /\ S!ExpiredSessionsEndToo'
         /\ \A t \in Tokens : token'[t].state = "none" => token[t].state = "none"
  <1>1. /\ token' \in [Tokens -> S!TokenRows]
        /\ \A t \in Tokens : /\ token'[t].state \in {"none", "revoked"}
                             /\ token'[t].state = "none" <=> token[t].state = "none"
                             /\ token'[t].from = token[t].from
    BY AllRevokedRows DEF S!SessionsInv
  <1>2. \A t \in Tokens : token[t].from \in Tokens \cup {None}
    BY DEF S!SessionsInv, S!TypeOK, S!TokenRows
  <1>3. S!SuccessorsAreAlone'
    BY <1>1, <1>2 DEF S!SessionsInv, S!SuccessorsAreAlone
  <1>4. S!ExpiredSessionsEndToo'
    BY <1>1 DEF S!ExpiredSessionsEndToo
  <1>5. QED
    BY <1>1, <1>3, <1>4

(* A request moves to another phase. *)
LEMMA GotoRequest ==
  ASSUME S!TypeOK, S!RequestsAreProper, NEW r \in Requests, NEW phase \in S!Phases, S!Goto(r, phase),
         phase \notin {"idle", "claim", "confirm"}, UNCHANGED <<token, arg>>,
         \A q \in Requests \ {r} : saw'[q] = saw[q]
  PROVE  /\ pc' \in [Requests -> S!Phases] /\ S!RequestsAreProper'
         /\ \A q \in Requests, l \in Links : S!Confirms(q, l)' => S!Confirms(q, l)
  <1>1. pc' = [pc EXCEPT ![r] = phase] /\ pc' \in [Requests -> S!Phases]
    BY DEF S!Goto, S!TypeOK
  <1>2. S!RequestsAreProper'
    BY <1>1 DEF S!RequestsAreProper, S!TypeOK
  <1>3. \A q \in Requests, l \in Links : S!Confirms(q, l)' => S!Confirms(q, l)
    BY <1>1 DEF S!Confirms, S!TypeOK
  <1>4. QED
    BY <1>1, <1>2, <1>3

(* A new epoch is in bounds. *)
LEMMA NewEpochIsOne ==
  ASSUME S!Proper, S!TypeOK, S!NewEpoch
  PROVE  epoch' \in 1 .. MaxEpoch /\ epoch' \in 0 .. MaxEpoch /\ epoch' # epoch
  BY DEF S!Proper, S!TypeOK, S!NewEpoch

(* Requests that read, and those that owe the end of the sessions. *)
LEMMA SessionsReadingStep ==
  ASSUME S!Proper, S!SessionsInv, NEW r \in Requests,
         S!Login(r) \/ S!Authenticate(r) \/ S!ChangePassword(r) \/ S!Disable(r) \/ S!Accept(r)
  PROVE  S!SessionsInv'
  <1>1. S!TypeOK /\ S!RequestsAreProper /\ epoch \in 0 .. MaxEpoch
    BY DEF S!SessionsInv, S!TypeOK, S!Proper
  <1>2. UNCHANGED <<token, link, uses, raced, arg>>
    BY DEF S!Login, S!Authenticate, S!ChangePassword, S!Disable, S!Accept, S!links
  <1>3. PICK phase \in S!Phases \ {"idle", "claim", "confirm"} : S!Goto(r, phase)
    BY DEF S!Login, S!Authenticate, S!ChangePassword, S!Disable, S!Accept, S!Phases
  <1>4. \/ UNCHANGED <<epoch, owed>> /\ disabled' = disabled
        \/ /\ owed' = TRUE /\ epoch' \in 1 .. MaxEpoch /\ epoch' \in 0 .. MaxEpoch
           /\ disabled' \in BOOLEAN
    BY <1>1, NewEpochIsOne
    DEF S!Login, S!Authenticate, S!ChangePassword, S!Disable, S!Accept, S!account, S!TypeOK
  <1>5. /\ saw' \in [Requests -> 0 .. MaxEpoch]
        /\ \A q \in Requests \ {r} : saw'[q] = saw[q]
    BY <1>1, <1>4, NewEpochIsOne
    DEF S!Login, S!Authenticate, S!ChangePassword, S!Disable, S!Accept, S!TypeOK
  <1>6. /\ pc' \in [Requests -> S!Phases] /\ S!RequestsAreProper'
        /\ \A q \in Requests, l \in Links : S!Confirms(q, l)' => S!Confirms(q, l)
    BY <1>1, <1>2, <1>3, <1>5, GotoRequest
  <1>7. S!TypeOK'
    BY <1>1, <1>2, <1>4, <1>5, <1>6 DEF S!TypeOK
  <1>8. S!SuccessorsAreAlone' /\ S!ExpiredSessionsEndToo'
    BY <1>2, <1>4 DEF S!SessionsInv, S!SuccessorsAreAlone, S!ExpiredSessionsEndToo
  <1>9. S!LinksAreUsedOnce' /\ S!UsesAreCounted'
    BY <1>2, <1>6, SameLinks DEF S!links
  <1>10. QED
    BY <1>6, <1>7, <1>8, <1>9 DEF S!SessionsInv

(* A login ends with a token of the epoch that it saw. *)
LEMMA IssueStep ==
  ASSUME S!Proper, S!SessionsInv, NEW r \in Requests, S!Issue(r)
  PROVE  S!SessionsInv'
  <1>1. /\ S!TypeOK /\ S!RequestsAreProper /\ saw[r] \in 0 .. MaxEpoch
        /\ token \in [Tokens -> S!TokenRows]
    BY DEF S!SessionsInv, S!TypeOK
  <1>2. /\ S!Unused # {} /\ token' = S!Create(token, saw[r], None) /\ S!Finish(r)
        /\ UNCHANGED <<disabled, epoch, owed, link, uses, raced>>
    BY DEF S!Issue, S!account, S!links
  <1>3. S!NextToken \in Tokens /\ token[S!NextToken].state = "none"
    BY <1>2, NextTokenIsUnused DEF S!Unused
  <1>4. /\ token' \in [Tokens -> S!TokenRows]
        /\ \A t \in Tokens \ {S!NextToken} : token'[t] = token[t]
        /\ token'[S!NextToken].state = "live" /\ token'[S!NextToken].epoch = saw[r]
        /\ token'[S!NextToken].from = None /\ token'[S!NextToken].stale = (saw[r] # epoch)
    BY <1>1, <1>2, CreateRows
  <1>5. /\ pc' \in [Requests -> S!Phases] /\ S!RequestsAreProper'
        /\ arg' \in [Requests -> Tokens \cup Links \cup {None}]
        /\ saw' \in [Requests -> 0 .. MaxEpoch]
        /\ \A q \in Requests, l \in Links : S!Confirms(q, l)' => q # r /\ S!Confirms(q, l)
    <2>1. \A t \in Tokens : token'[t].state = "none" => token[t].state = "none"
      BY <1>3, <1>4
    <2>2. QED
      BY <1>1, <1>2, <2>1, FinishRequest
  <1>6. S!TypeOK'
    BY <1>1, <1>2, <1>4, <1>5 DEF S!TypeOK
  <1>7. S!SuccessorsAreAlone'
    <2>1. \A t \in Tokens : token[t].from \in Tokens \cup {None}
      BY <1>1 DEF S!TokenRows
    <2>2. QED
      BY <1>3, <1>4, <2>1 DEF S!SessionsInv, S!SuccessorsAreAlone
  <1>8. S!ExpiredSessionsEndToo'
    BY <1>2, <1>4 DEF S!SessionsInv, S!ExpiredSessionsEndToo
  <1>9. S!LinksAreUsedOnce' /\ S!UsesAreCounted'
    BY <1>2, <1>5, SameLinks DEF S!links
  <1>10. QED
    BY <1>5, <1>6, <1>7, <1>8, <1>9 DEF S!SessionsInv

(* What a refresh reads. *)
LEMMA RefreshStep ==
  ASSUME S!Proper, S!SessionsInv, NEW r \in Requests, S!Refresh(r)
  PROVE  S!SessionsInv'
  <1>1. S!TypeOK /\ S!RequestsAreProper
    BY DEF S!SessionsInv
  <1>2. UNCHANGED <<disabled, epoch, owed, token, link, uses, raced, saw>>
    BY DEF S!Refresh, S!account, S!links
  <1>3. PICK t \in Tokens \ S!Unused :
           /\ arg' = [arg EXCEPT ![r] = t]
           /\ S!Goto(r, IF token[t].state = "live" /\ ~disabled THEN "claim" ELSE "reuse")
    BY DEF S!Refresh, S!About
  <1>4. token[t].state # "none" /\ pc'[r] \in {"claim", "reuse"}
        /\ pc' = [pc EXCEPT ![r] = pc'[r]] /\ pc' \in [Requests -> S!Phases]
        /\ arg' \in [Requests -> Tokens \cup Links \cup {None}] /\ arg'[r] = t
        /\ \A q \in Requests \ {r} : pc'[q] = pc[q] /\ arg'[q] = arg[q]
    BY <1>1, <1>3 DEF S!TypeOK, S!Goto, S!Phases, S!Unused
  <1>5. S!RequestsAreProper'
    BY <1>1, <1>2, <1>3, <1>4 DEF S!RequestsAreProper
  <1>6. \A q \in Requests, l \in Links : S!Confirms(q, l)' => S!Confirms(q, l)
    BY <1>4 DEF S!Confirms
  <1>7. S!TypeOK'
    BY <1>1, <1>2, <1>4 DEF S!TypeOK
  <1>8. QED
    BY <1>2, <1>5, <1>6, <1>7, SameTokens, SameLinks DEF S!SessionsInv, S!links

(* The conditional update: the token was not revoked, so it has no successor. *)
LEMMA ClaimStep ==
  ASSUME S!Proper, S!SessionsInv, NEW r \in Requests, S!Claim(r)
  PROVE  S!SessionsInv'
  <1>1. S!TypeOK /\ S!RequestsAreProper /\ token \in [Tokens -> S!TokenRows] /\ pc[r] = "claim"
    BY DEF S!SessionsInv, S!TypeOK, S!Claim
  <1>2. UNCHANGED <<disabled, epoch, owed, link, uses, raced>>
    BY DEF S!Claim, S!account, S!links
  <1> DEFINE old == arg[r]
             e == token[old].epoch
  <1>3. old \in Tokens /\ token[old].state # "none" /\ e \in 0 .. MaxEpoch /\ old # None
    BY <1>1 DEF S!RequestsAreProper, S!TokenRows, S!Proper
  <1>4. CASE /\ token[old].state \in {"live", "expired"} /\ S!Unused # {}
             /\ token' = [S!Create(token, e, old) EXCEPT ![old].state = "revoked"]
             /\ S!Finish(r)
    <2> DEFINE new == S!NextToken
    <2>1. new \in Tokens /\ token[new].state = "none" /\ new # old
      BY <1>3, <1>4, NextTokenIsUnused DEF S!Unused
    <2>2. /\ S!Create(token, e, old) \in [Tokens -> S!TokenRows]
          /\ \A t \in Tokens \ {new} : S!Create(token, e, old)[t] = token[t]
          /\ S!Create(token, e, old)[new].state = "live" /\ S!Create(token, e, old)[new].epoch = e
          /\ S!Create(token, e, old)[new].from = old
          /\ S!Create(token, e, old)[new].stale = token[old].stale
      BY <1>1, <1>3, <1>4, CreateRows
    <2> HIDE DEF new, old, e
    <2>3. /\ token' \in [Tokens -> S!TokenRows]
          /\ \A t \in Tokens \ {new, old} : token'[t] = token[t]
          /\ token'[new].state = "live" /\ token'[new].epoch = e /\ token'[new].from = old
          /\ token'[new].stale = token[old].stale
          /\ token'[old].state = "revoked" /\ token'[old].from = token[old].from
      <3> DEFINE made == S!Create(token, e, old)
                 row == [made[old] EXCEPT !.state = "revoked"]
      <3>1. row \in S!TokenRows /\ row.state = "revoked" /\ row.from = token[old].from
        BY <1>3, <2>1, <2>2 DEF S!TokenRows
      <3>2. token' = [made EXCEPT ![old] = row]
        BY <1>4
      <3> HIDE DEF made, row
      <3>3. QED
        BY <1>3, <2>1, <2>2, <3>1, <3>2 DEF made
    <2>4. /\ pc' \in [Requests -> S!Phases] /\ S!RequestsAreProper'
          /\ arg' \in [Requests -> Tokens \cup Links \cup {None}]
          /\ saw' \in [Requests -> 0 .. MaxEpoch]
          /\ \A q \in Requests, l \in Links : S!Confirms(q, l)' => q # r /\ S!Confirms(q, l)
      <3>1. \A t \in Tokens : token'[t].state = "none" => token[t].state = "none"
        BY <2>3
      <3>2. QED
        BY <1>1, <1>4, <3>1, FinishRequest
    <2>5. S!TypeOK'
      BY <1>1, <1>2, <2>3, <2>4 DEF S!TypeOK
    <2>6. S!SuccessorsAreAlone'
      <3>1. \A t \in Tokens : token[t].from \in Tokens \cup {None} /\ token[t].from # old
        BY <1>1, <1>3, <1>4 DEF S!TokenRows, S!SessionsInv, S!SuccessorsAreAlone
      <3>2. \A t \in Tokens : token[t].state = "revoked" => token'[t].state = "revoked"
        BY <2>1, <2>3
      <3>3. \A t \in Tokens \ {new} : token'[t].from = token[t].from
        BY <2>3
      <3>4. ASSUME NEW s \in Tokens, NEW u \in Tokens, token'[s].from # None
            PROVE  /\ token'[token'[s].from].state = "revoked"
                   /\ token'[s].from = token'[u].from => s = u
        BY <2>3, <3>1, <3>2, <3>3, <3>4 DEF S!SessionsInv, S!SuccessorsAreAlone
      <3>5. QED
        BY <3>4 DEF S!SuccessorsAreAlone
    <2>7. S!ExpiredSessionsEndToo'
      <3>1. e = epoch \/ token[old].stale \/ owed
        BY <1>3, <1>4 DEF S!SessionsInv, S!ExpiredSessionsEndToo, e
      <3>2. QED
        BY <1>2, <2>3, <3>1 DEF S!SessionsInv, S!ExpiredSessionsEndToo
    <2>8. S!LinksAreUsedOnce' /\ S!UsesAreCounted'
      BY <1>2, <2>4, SameLinks DEF S!links
    <2>9. QED
      BY <2>4, <2>5, <2>6, <2>7, <2>8 DEF S!SessionsInv
  <1>5. CASE S!Goto(r, "reuse") /\ UNCHANGED <<token, arg, saw>>
    <2>1. /\ pc' \in [Requests -> S!Phases] /\ S!RequestsAreProper'
          /\ \A q \in Requests, l \in Links : S!Confirms(q, l)' => S!Confirms(q, l)
      BY <1>1, <1>5, GotoRequest DEF S!Phases
    <2>2. S!TypeOK'
      BY <1>1, <1>2, <1>5, <2>1 DEF S!TypeOK
    <2>3. QED
      BY <1>2, <1>5, <2>1, <2>2, SameTokens, SameLinks DEF S!SessionsInv, S!links
  <1>6. QED
    BY <1>4, <1>5 DEF S!Claim

(* The requests that end the sessions. *)
LEMMA EndStep ==
  ASSUME S!Proper, S!SessionsInv, NEW r \in Requests, S!Reuse(r) \/ S!LogoutAll(r) \/ S!End(r)
  PROVE  S!SessionsInv'
  <1>1. S!TypeOK /\ S!RequestsAreProper
    BY DEF S!SessionsInv
  <1>2. /\ token' = S!AllRevoked /\ owed' = FALSE /\ S!Finish(r)
        /\ UNCHANGED <<disabled, link, uses, raced>>
    BY DEF S!Reuse, S!LogoutAll, S!End, S!links
  <1>3. epoch' \in 1 .. MaxEpoch
    BY <1>1, NewEpochIsOne DEF S!Reuse, S!LogoutAll, S!End, S!TypeOK
  <1>4. /\ token' \in [Tokens -> S!TokenRows]
        /\ S!SuccessorsAreAlone' /\ S!ExpiredSessionsEndToo'
        /\ \A t \in Tokens : token'[t].state = "none" => token[t].state = "none"
    BY <1>2, EndingStep
  <1>5. /\ pc' \in [Requests -> S!Phases] /\ S!RequestsAreProper'
        /\ arg' \in [Requests -> Tokens \cup Links \cup {None}]
        /\ saw' \in [Requests -> 0 .. MaxEpoch]
        /\ \A q \in Requests, l \in Links : S!Confirms(q, l)' => S!Confirms(q, l)
    BY <1>1, <1>2, <1>4, FinishRequest
  <1>6. S!TypeOK'
    BY <1>1, <1>2, <1>3, <1>4, <1>5 DEF S!TypeOK
  <1>7. S!LinksAreUsedOnce' /\ S!UsesAreCounted'
    BY <1>2, <1>5, SameLinks DEF S!links
  <1>8. QED
    BY <1>4, <1>5, <1>6, <1>7 DEF S!SessionsInv

LEMMA SessionsCrashStep ==
  ASSUME S!Proper, S!SessionsInv, NEW r \in Requests, S!Crash(r)
  PROVE  S!SessionsInv'
  <1>1. S!TypeOK /\ S!RequestsAreProper
    BY DEF S!SessionsInv
  <1>2. S!Finish(r) /\ UNCHANGED <<disabled, epoch, owed, token, link, uses, raced>>
    BY DEF S!Crash, S!account, S!links
  <1>3. /\ pc' \in [Requests -> S!Phases] /\ S!RequestsAreProper'
        /\ arg' \in [Requests -> Tokens \cup Links \cup {None}]
        /\ saw' \in [Requests -> 0 .. MaxEpoch]
        /\ \A q \in Requests, l \in Links : S!Confirms(q, l)' => S!Confirms(q, l)
    BY <1>1, <1>2, FinishRequest
  <1>4. S!TypeOK'
    BY <1>1, <1>2, <1>3 DEF S!TypeOK
  <1>5. QED
    BY <1>2, <1>3, <1>4, SameTokens, SameLinks DEF S!SessionsInv, S!links

(* A single token is revoked or expires. *)
LEMMA TokenStep ==
  ASSUME S!SessionsInv, NEW t \in Tokens, S!Logout(t) \/ S!TokenExpires(t)
  PROVE  S!SessionsInv'
  <1>1. S!TypeOK /\ token \in [Tokens -> S!TokenRows] /\ token[t].state = "live"
    BY DEF S!SessionsInv, S!TypeOK, S!Logout, S!TokenExpires
  <1>2. UNCHANGED <<disabled, epoch, owed, link, uses, raced, pc, arg, saw>>
    BY DEF S!Logout, S!TokenExpires, S!account, S!links
  <1>3. PICK state \in {"revoked", "expired"} : token' = [token EXCEPT ![t].state = state]
    BY DEF S!Logout, S!TokenExpires
  <1> DEFINE row == [token[t] EXCEPT !.state = state]
  <1>4. /\ row \in S!TokenRows /\ row.state = state /\ row.epoch = token[t].epoch
        /\ row.stale = token[t].stale /\ row.from = token[t].from
    BY <1>1 DEF S!TokenRows
  <1>5. token' = [token EXCEPT ![t] = row]
    BY <1>3
  <1> HIDE DEF row
  <1>6. /\ token' \in [Tokens -> S!TokenRows] /\ token'[t] = row
        /\ \A s \in Tokens \ {t} : token'[s] = token[s]
    BY <1>1, <1>4, <1>5
  <1>7. S!TypeOK'
    BY <1>1, <1>2, <1>6 DEF S!TypeOK
  <1>8. S!RequestsAreProper'
    BY <1>2, <1>4, <1>6 DEF S!SessionsInv, S!RequestsAreProper
  <1>9. S!SuccessorsAreAlone'
    <2>1. \A s \in Tokens : /\ token'[s].from = token[s].from
                            /\ token[s].from \in Tokens \cup {None}
                            /\ token[s].state = "revoked" => token'[s].state = "revoked"
      BY <1>1, <1>4, <1>6 DEF S!TokenRows
    <2>2. QED
      BY <2>1 DEF S!SessionsInv, S!SuccessorsAreAlone
  <1>10. S!ExpiredSessionsEndToo'
    BY <1>1, <1>2, <1>4, <1>6 DEF S!SessionsInv, S!ExpiredSessionsEndToo
  <1>11. S!LinksAreUsedOnce' /\ S!UsesAreCounted'
    BY <1>2, SameLinks DEF S!links, S!Confirms
  <1>12. QED
    BY <1>7, <1>8, <1>9, <1>10, <1>11 DEF S!SessionsInv

(* A link is issued or expires. *)
LEMMA LinkStep ==
  ASSUME S!SessionsInv, NEW l \in Links, S!IssueLink(l) \/ S!LinkExpires(l)
  PROVE  S!SessionsInv'
  <1>1. S!TypeOK /\ link \in [Links -> S!LinkRows] /\ link[l].state # "used"
    BY DEF S!SessionsInv, S!TypeOK, S!IssueLink, S!LinkExpires
  <1>2. UNCHANGED <<disabled, epoch, owed, token, uses, raced, pc, arg, saw>>
    BY DEF S!IssueLink, S!LinkExpires, S!account
  <1>3. \/ \E kind \in {"reset", "verify"} :
              link' = [link EXCEPT ![l] = [state |-> "open", kind |-> kind]]
        \/ link' = [link EXCEPT ![l] = [link[l] EXCEPT !.state = "expired"]]
    BY DEF S!IssueLink, S!LinkExpires
  <1>4. link' \in [Links -> S!LinkRows] /\ \A m \in Links \ {l} : link'[m] = link[m]
    <2>1. \A kind \in {"reset", "verify"} : [state |-> "open", kind |-> kind] \in S!LinkRows
      BY DEF S!LinkRows
    <2>2. [link[l] EXCEPT !.state = "expired"] \in S!LinkRows
      BY <1>1 DEF S!LinkRows
    <2>3. QED
      BY <1>1, <1>3, <2>1, <2>2
  <1>5. S!TypeOK' /\ S!RequestsAreProper'
    BY <1>1, <1>2, <1>4 DEF S!SessionsInv, S!TypeOK, S!RequestsAreProper
  <1>6. S!LinksAreUsedOnce'
    BY <1>2 DEF S!SessionsInv, S!LinksAreUsedOnce
  <1>7. S!UsesAreCounted'
    BY <1>1, <1>2, <1>4 DEF S!SessionsInv, S!UsesAreCounted, S!Confirms
  <1>8. QED
    BY <1>2, <1>5, <1>6, <1>7, SameTokens DEF S!SessionsInv

(* A request reads a link as unused: a second one makes it raced. *)
LEMMA ConfirmStep ==
  ASSUME S!SessionsInv, NEW r \in Requests, S!Confirm(r)
  PROVE  S!SessionsInv'
  <1>1. S!TypeOK /\ S!RequestsAreProper /\ pc[r] = "idle"
    BY DEF S!SessionsInv, S!Confirm
  <1>2. UNCHANGED <<disabled, epoch, owed, token, link, uses, saw>>
    BY DEF S!Confirm, S!account
  <1>3. PICK l \in Links :
           /\ link[l].state = "open"
           /\ arg' = [arg EXCEPT ![r] = l]
           /\ raced' = IF \E q \in Requests : pc[q] = "confirm" /\ arg[q] = l
                       THEN raced \cup {l} ELSE raced
    BY DEF S!Confirm, S!About
  <1>4. pc' = [pc EXCEPT ![r] = "confirm"]
    BY DEF S!Confirm, S!Goto
  <1>5. /\ pc' \in [Requests -> S!Phases] /\ arg' \in [Requests -> Tokens \cup Links \cup {None}]
        /\ pc'[r] = "confirm" /\ arg'[r] = l
        /\ \A q \in Requests \ {r} : pc'[q] = pc[q] /\ arg'[q] = arg[q]
    BY <1>1, <1>3, <1>4 DEF S!TypeOK, S!Phases
  <1>6. S!TypeOK'
    BY <1>1, <1>2, <1>3, <1>5 DEF S!TypeOK
  <1>7. S!RequestsAreProper'
    BY <1>1, <1>2, <1>5 DEF S!RequestsAreProper
  <1>8. /\ \A q \in Requests, m \in Links : S!Confirms(q, m)' <=> (S!Confirms(q, m) \/ (q = r /\ m = l))
        /\ raced \subseteq raced' /\ ((\E q \in Requests : S!Confirms(q, l)) => l \in raced')
    BY <1>1, <1>3, <1>5 DEF S!Confirms
  <1>9. uses[l] = 0
    BY <1>1, <1>3 DEF S!SessionsInv, S!UsesAreCounted, S!TypeOK
  <1>10. S!LinksAreUsedOnce'
    BY <1>2, <1>8 DEF S!SessionsInv, S!LinksAreUsedOnce
  <1>11. S!UsesAreCounted'
    <2>1. \A m \in Links : uses[m] > 0 => link[m].state = "used"
      BY DEF S!SessionsInv, S!UsesAreCounted
    <2>2. ASSUME NEW m \in Links, m \notin raced', NEW q \in Requests, S!Confirms(q, m)'
          PROVE  uses[m] = 0 /\ \A p \in Requests : S!Confirms(p, m)' => p = q
      <3>1. CASE m = l
        BY <1>8, <1>9, <2>2, <3>1
      <3>2. CASE m # l
        BY <1>8, <2>2, <3>2 DEF S!SessionsInv, S!UsesAreCounted
      <3>3. QED
        BY <3>1, <3>2
    <2>3. QED
      BY <1>2, <2>1, <2>2 DEF S!UsesAreCounted
  <1>12. QED
    BY <1>2, <1>6, <1>7, <1>10, <1>11, SameTokens DEF S!SessionsInv

(* The link is used by the one request about it, or is raced. *)
LEMMA ConsumeStep ==
  ASSUME S!Proper, S!SessionsInv, NEW r \in Requests, S!Consume(r)
  PROVE  S!SessionsInv'
  <1>1. /\ S!TypeOK /\ S!RequestsAreProper /\ pc[r] = "confirm"
        /\ link \in [Links -> S!LinkRows] /\ uses \in [Links -> Nat]
    BY DEF S!SessionsInv, S!TypeOK, S!Consume
  <1> DEFINE l == arg[r]
  <1>2. l \in Links /\ S!Confirms(r, l)
    BY <1>1 DEF S!RequestsAreProper, S!Confirms
  <1>3. /\ link' = [link EXCEPT ![l] = [link[l] EXCEPT !.state = "used"]]
        /\ uses' = [uses EXCEPT ![l] = uses[l] + 1]
        /\ S!Finish(r) /\ raced' = raced
    BY DEF S!Consume, S!UseLink
  <1>4. \/ UNCHANGED <<disabled, epoch, owed, token>>
        \/ /\ disabled' = FALSE /\ owed' = FALSE /\ S!NewEpoch /\ token' = S!AllRevoked
    BY DEF S!Consume
  <1> HIDE DEF l
  <1>5. [link[l] EXCEPT !.state = "used"] \in S!LinkRows
    BY <1>1, <1>2 DEF S!LinkRows
  <1>6. /\ link' \in [Links -> S!LinkRows] /\ uses' \in [Links -> Nat]
        /\ link'[l].state = "used" /\ uses'[l] = uses[l] + 1
        /\ \A m \in Links \ {l} : link'[m] = link[m] /\ uses'[m] = uses[m]
    BY <1>1, <1>2, <1>3, <1>5 DEF S!LinkRows
  <1>7. /\ token' \in [Tokens -> S!TokenRows]
        /\ S!SuccessorsAreAlone' /\ S!ExpiredSessionsEndToo'
        /\ \A t \in Tokens : token'[t].state = "none" => token[t].state = "none"
        /\ disabled' \in BOOLEAN /\ owed' \in BOOLEAN /\ epoch' \in 1 .. MaxEpoch
    BY <1>1, <1>4, EndingStep, SameTokens, NewEpochIsOne DEF S!TypeOK
  <1>8. /\ pc' \in [Requests -> S!Phases] /\ S!RequestsAreProper'
        /\ arg' \in [Requests -> Tokens \cup Links \cup {None}]
        /\ saw' \in [Requests -> 0 .. MaxEpoch]
        /\ \A q \in Requests, m \in Links : S!Confirms(q, m)' => q # r /\ S!Confirms(q, m)
    BY <1>1, <1>3, <1>7, FinishRequest
  <1>9. S!TypeOK'
    BY <1>1, <1>3, <1>6, <1>7, <1>8 DEF S!TypeOK
  <1>10. l \notin raced =>
           uses[l] = 0 /\ \A q \in Requests : S!Confirms(q, l) => q = r
    BY <1>2 DEF S!SessionsInv, S!UsesAreCounted
  <1>11. S!LinksAreUsedOnce'
    BY <1>1, <1>2, <1>3, <1>6, <1>10 DEF S!SessionsInv, S!LinksAreUsedOnce
  <1>12. S!UsesAreCounted'
    <2>1. \A m \in Links : uses'[m] > 0 => link'[m].state = "used"
      BY <1>6 DEF S!SessionsInv, S!UsesAreCounted
    <2>2. ASSUME NEW m \in Links, m \notin raced, NEW q \in Requests, S!Confirms(q, m)'
          PROVE  uses'[m] = 0 /\ \A p \in Requests : S!Confirms(p, m)' => p = q
      <3>1. S!Confirms(q, m) /\ q # r /\ m # l
        BY <1>8, <1>10, <2>2
      <3>2. QED
        BY <1>6, <1>8, <2>2, <3>1 DEF S!SessionsInv, S!UsesAreCounted
    <2>3. QED
      BY <1>3, <2>1, <2>2 DEF S!UsesAreCounted
  <1>13. QED
    BY <1>7, <1>8, <1>9, <1>11, <1>12 DEF S!SessionsInv

LEMMA NextSessionsInv ==
  ASSUME S!Proper
  PROVE  S!SessionsInv /\ [S!Next]_S!vars => S!SessionsInv'
  <1> SUFFICES ASSUME S!SessionsInv, [S!Next]_S!vars PROVE S!SessionsInv'
    OBVIOUS
  <1>1. ASSUME NEW r \in Requests, S!Step(r) PROVE S!SessionsInv'
    BY <1>1, SessionsReadingStep, IssueStep, RefreshStep, ClaimStep, EndStep, ConfirmStep, ConsumeStep,
       SessionsCrashStep DEF S!Step
  <1>2. ASSUME NEW t \in Tokens, S!Logout(t) \/ S!TokenExpires(t) PROVE S!SessionsInv'
    BY <1>2, TokenStep
  <1>3. ASSUME NEW l \in Links, S!IssueLink(l) \/ S!LinkExpires(l) PROVE S!SessionsInv'
    BY <1>3, LinkStep
  <1>4. CASE UNCHANGED S!vars
    <2>1. UNCHANGED <<token, epoch, owed, S!links>>
      BY <1>4 DEF S!vars, S!links
    <2>2. S!TypeOK' /\ S!RequestsAreProper'
      BY <1>4 DEF S!vars, S!SessionsInv, S!TypeOK, S!RequestsAreProper
    <2>3. \A q \in Requests, l \in Links : S!Confirms(q, l)' => S!Confirms(q, l)
      BY <1>4 DEF S!vars, S!Confirms
    <2>4. QED
      BY <2>1, <2>2, <2>3, SameTokens, SameLinks DEF S!SessionsInv
  <1>5. QED
    BY <1>1, <1>2, <1>3, <1>4 DEF S!Next

----------------------------------------------------------------------------
(* The session of a browser.                                               *)

LEMMA NextTokenIsUnissued ==
  ASSUME W!Proper, W!Unissued # {}
  PROVE  W!NextToken \in Tokens /\ token[W!NextToken].state = "none"
  <1>1. W!Unissued \in SUBSET Nat
    BY DEF W!Unissued, W!Proper
  <1>2. PICK t \in W!Unissued : \A s \in W!Unissued : t <= s
    BY <1>1, HasLeast
  <1>3. W!NextToken \in W!Unissued
    BY <1>2 DEF W!NextToken
  <1>4. QED
    BY <1>3 DEF W!Unissued

(* The rows of those who have nothing.                                        *)
LEMMA IdleRows ==
  ASSUME W!Proper
  PROVE  /\ W!NoToken \in W!TokenRows /\ W!NoToken.state = "none"
         /\ W!NoCookies \in W!CookieRows /\ W!NoCookies = [access |-> None, refresh |-> None]
         /\ W!NoCookies.access = None /\ W!NoCookies.refresh = None
         /\ W!Idle \in W!RequestRows
         /\ W!Idle = [kind |-> None, browser |-> None, phase |-> "idle", hand |-> W!NoCookies,
                      set |-> W!Keep, beside |-> FALSE]
         /\ W!Idle.kind = None /\ W!Idle.browser = None /\ W!Idle.phase = "idle"
         /\ W!Idle.hand = W!NoCookies /\ W!Idle.set = W!Keep
         /\ W!Keep \notin Tokens /\ W!Clear \notin Tokens /\ W!Keep # W!Clear
         /\ None \notin Tokens /\ None \notin Browsers /\ None \notin W!Kinds
  <1>1. W!NoToken \in W!TokenRows /\ W!NoToken.state = "none"
    BY DEF W!NoToken, W!TokenRows
  <1>2. /\ W!NoCookies \in W!CookieRows /\ W!NoCookies = [access |-> None, refresh |-> None]
        /\ W!NoCookies.access = None /\ W!NoCookies.refresh = None
    BY DEF W!NoCookies, W!CookieRows
  <1>3. W!Idle = [kind |-> None, browser |-> None, phase |-> "idle", hand |-> W!NoCookies,
                  set |-> W!Keep, beside |-> FALSE]
    BY DEF W!Idle
  <1>4. W!Idle \in W!RequestRows
    BY <1>2, <1>3 DEF W!RequestRows
  <1>5. /\ W!Keep \notin Tokens /\ W!Clear \notin Tokens /\ W!Keep # W!Clear
        /\ None \notin Tokens /\ None \notin Browsers /\ None \notin W!Kinds
    BY DEF W!Proper, W!Keep, W!Clear
  <1>6. QED
    BY <1>1, <1>2, <1>3, <1>4, <1>5

LEMMA InitWebInv ==
  ASSUME W!Proper
  PROVE  W!Init => W!WebInv
  <1> SUFFICES ASSUME W!Init PROVE W!WebInv
    OBVIOUS
  <1>1. PICK b \in Browsers :
          /\ token = [t \in Tokens |-> IF t = 1 THEN [state |-> "live", owner |-> b] ELSE W!NoToken]
          /\ jar = [c \in Browsers |-> IF c = b THEN [access |-> 1, refresh |-> 1] ELSE W!NoCookies]
          /\ stale = {} /\ req = [r \in Requests |-> W!Idle]
          /\ signedIn = {b} /\ signedOut = {} /\ spoilt = {}
    BY DEF W!Init
  <1>2. 1 \in Tokens
    BY DEF W!Proper
  <1>3. /\ token \in [Tokens -> W!TokenRows]
        /\ \A t \in Tokens : IF t = 1 THEN token[t].state = "live" /\ token[t].owner = b
                                      ELSE token[t].state = "none"
    <2>1. [state |-> "live", owner |-> b] \in W!TokenRows
      BY DEF W!TokenRows
    <2>2. QED
      BY <1>1, <2>1, IdleRows
  <1>4. /\ jar \in [Browsers -> W!CookieRows]
        /\ \A c \in Browsers : jar[c].access = jar[c].refresh /\ jar[c].refresh = IF c = b THEN 1 ELSE None
    <2>1. [access |-> 1, refresh |-> 1] \in W!CookieRows
      BY <1>2 DEF W!CookieRows
    <2>2. QED
      BY <1>1, <2>1, IdleRows
  <1>5. req \in [Requests -> W!RequestRows] /\ \A r \in Requests : req[r] = W!Idle
    BY <1>1, IdleRows
  <1>6. W!TypeOK
    BY <1>1, <1>3, <1>4, <1>5 DEF W!TypeOK
  <1>7. W!ProperIn(W!Idle)
    BY IdleRows DEF W!ProperIn, W!Kinds, W!Refreshing
  <1>8. W!RequestsAreProper
    BY <1>4, <1>5, <1>7 DEF W!RequestsAreProper
  <1>9. W!TokensAreHeldByOne /\ W!AnswersAreFresh /\ W!LogoutsAreHeard
    <2>1. \A t \in Tokens, c \in Browsers : W!Holds(c, t) => t = 1 /\ c = b
      BY <1>4, <1>5, IdleRows DEF W!Holds
    <2>2. QED
      BY <1>3, <1>5, <2>1, IdleRows DEF W!TokensAreHeldByOne, W!AnswersAreFresh, W!LogoutsAreHeard, W!Kinds
  <1>10. W!LiveTokensAreKept /\ W!SignedInGoOn
    BY <1>1, <1>2, <1>3, <1>4, <1>5, IdleRows DEF W!LiveTokensAreKept, W!SignedInGoOn, W!GoesOn, W!IsLive
  <1>11. W!LogoutIsFinal /\ W!SignedOutAreQuiet
    BY <1>1 DEF W!LogoutIsFinal, W!SignedOutAreQuiet
  <1>12. QED
    BY <1>6, <1>8, <1>9, <1>10, <1>11 DEF W!WebInv

(* A step of request r that leaves the cookies alone: r goes on with row q,   *)
(* and n is a new token, or none.  Tokens that stop working are the one that *)
(* r has, or every browser is spoilt.                                        *)
LEMMA WebMoves ==
  ASSUME W!Proper, W!WebInv,
         NEW r \in Requests, NEW q \in W!RequestRows, NEW n, NEW b \in Browsers,
         req[r].browser = b, req' = [req EXCEPT ![r] = q],
         UNCHANGED <<stale, jar, signedIn, signedOut>>,
         token' \in [Tokens -> W!TokenRows],
         spoilt' \in SUBSET Browsers, spoilt \subseteq spoilt',
         n \in Tokens => /\ token[n].state = "none" /\ token'[n].state = "live" /\ req[r].phase # "answer"
                         /\ token'[n].owner = None \/ (token'[n].owner = b /\ q.set = n),
         \A t \in Tokens \ {n} :
            /\ token'[t].state = "none" <=> token[t].state = "none"
            /\ token'[t].owner \in {token[t].owner, None}
            /\ token'[t].state = "live" => token[t].state = "live"
            /\ token[t].state = "live" =>
                 token'[t].state = "live" \/ t = req[r].hand.refresh \/ spoilt' = Browsers,
         W!ProperIn(q),
         \/ q = W!Idle /\ b \in spoilt'
         \/ /\ q.browser = b /\ q.kind = req[r].kind /\ q.beside = req[r].beside
            /\ req[r].phase # "answer" /\ q.phase # "logout",
         q.hand.refresh \in {req[r].hand.refresh, None, n},
         q.set \in {req[r].set, W!Keep, W!Clear, n},
         req[r].set \in Tokens => q.set = req[r].set \/ token'[req[r].set].owner = None,
         req[r].phase = "logout" => token'[req[r].hand.refresh].state # "live"
                                    \/ token'[req[r].hand.refresh].owner = None,
         b \notin spoilt' =>
            /\ q.set = W!Clear => q.kind = "logout"
            /\ req[r].set \in Tokens => q.set = req[r].set /\ token'[q.set].state = token[q.set].state
            /\ token[req[r].hand.refresh].state = "live" =>
                 \/ token'[req[r].hand.refresh].state = "live"
                 \/ q.set \in Tokens \/ (q.kind = "logout" /\ q.phase = "answer")
  PROVE  W!WebInv'
  <1>1. /\ token \in [Tokens -> W!TokenRows] /\ stale \subseteq Tokens \ W!Unissued
        /\ jar \in [Browsers -> W!CookieRows] /\ req \in [Requests -> W!RequestRows]
        /\ signedIn \in SUBSET Browsers /\ signedOut \in SUBSET Browsers
        /\ None \notin Tokens
    BY IdleRows DEF W!WebInv, W!TypeOK
  <1>2. /\ req'[r] = q /\ \A i \in Requests \ {r} : req'[i] = req[i]
        /\ req' \in [Requests -> W!RequestRows]
    BY <1>1
  <1>3. req[r].hand.refresh \in Tokens \cup {None} /\ req[r].set \in Tokens \cup {W!Keep, W!Clear}
    <2>1. req[r] \in W!RequestRows
      BY <1>1
    <2>2. req[r].hand \in W!CookieRows /\ req[r].set \in Tokens \cup {W!Keep, W!Clear}
      BY <2>1 DEF W!RequestRows
    <2>3. QED
      BY <2>2 DEF W!CookieRows
  <1>4. W!TypeOK'
    BY <1>1, <1>2 DEF W!TypeOK, W!Unissued
  <1>5. W!RequestsAreProper'
    <2>1. \A i \in Requests : W!ProperIn(req[i])'
      BY <1>2 DEF W!WebInv, W!RequestsAreProper, W!ProperIn
    <2>2. ASSUME NEW i \in Requests, NEW j \in Requests, i # j,
                 req'[i].browser = req'[j].browser, req'[i] # W!Idle
          PROVE  req'[i].beside
      BY <1>2, <2>2, IdleRows DEF W!WebInv, W!RequestsAreProper, W!ProperIn
    <2>3. QED
      BY <1>1, <2>1, <2>2 DEF W!WebInv, W!RequestsAreProper
  <1>6. ASSUME NEW c \in Browsers, NEW t \in Tokens, W!Holds(c, t)'
        PROVE  W!Holds(c, t) \/ (t = n /\ c = b)
    <2>1. CASE jar'[c].refresh = t
      BY <1>1, <2>1 DEF W!Holds
    <2>2. CASE jar'[c].refresh # t
      <3>1. PICK i \in Requests : req'[i].browser = c /\ t \in {req'[i].hand.refresh, req'[i].set}
        BY <1>6, <2>2 DEF W!Holds
      <3>2. CASE i # r
        BY <1>2, <3>1, <3>2 DEF W!Holds
      <3>3. CASE i = r
        BY <1>2, <1>3, <3>1, <3>3, IdleRows DEF W!Holds
      <3>4. QED
        BY <3>2, <3>3
    <2>3. QED
      BY <2>1, <2>2
  <1>7. \A c \in Browsers : ~(n \in Tokens /\ W!Holds(c, n))
    BY DEF W!WebInv, W!TokensAreHeldByOne
  <1>8. W!TokensAreHeldByOne'
    BY <1>6, <1>7 DEF W!WebInv, W!TokensAreHeldByOne
  <1>9. ASSUME NEW t \in Tokens, W!IsLive(t)', t # n
        PROVE  W!IsLive(t)
    BY <1>1, <1>9 DEF W!IsLive
  <1>10. ASSUME NEW t \in Tokens, W!IsLive(t)
         PROVE  W!IsLive(t)' \/ t = req[r].hand.refresh \/ spoilt' = Browsers
    BY <1>1, <1>10 DEF W!IsLive
  <1>11. ASSUME NEW t \in Tokens, NEW c \in Browsers, token'[t].owner = c, t # n
         PROVE  token[t].owner = c
    BY <1>11, IdleRows
  <1>12. n \in Tokens => /\ \A c \in Browsers : jar[c].refresh # n
                         /\ \A i \in Requests : req[i].browser \in Browsers =>
                              n \notin {req[i].hand.refresh, req[i].set}
    BY <1>7 DEF W!Holds
  <1>13. \A i \in Requests : req[i].set \in Tokens \/ req[i].hand.refresh \in Tokens => req[i].browser \in Browsers
    <2>1. \A i \in Requests : req[i] \in W!RequestRows
      BY <1>1
    <2>2. \A i \in Requests : req[i].browser \in Browsers \cup {None}
      BY <2>1 DEF W!RequestRows
    <2>3. \A i \in Requests : req[i].browser = None => req[i] = W!Idle
      BY DEF W!WebInv, W!RequestsAreProper, W!ProperIn
    <2>4. QED
      BY <2>2, <2>3, IdleRows
  <1>14. W!AnswersAreFresh'
    <2> SUFFICES ASSUME NEW i \in Requests, req'[i].set \in Tokens
                 PROVE  /\ \A c \in Browsers : jar'[c].refresh # req'[i].set
                        /\ \A j \in Requests \ {i} : req'[i].set \notin {req'[j].hand.refresh, req'[j].set}
                        /\ token'[req'[i].set].state = "live" \/ req'[i].browser \in spoilt'
      BY IdleRows DEF W!AnswersAreFresh, W!IsLive
    <2>1. CASE i # r
      <3>1. req'[i] = req[i] /\ req[i].set \in Tokens /\ req[i].set # n
        BY <1>2, <1>12, <1>13, <2>1
      <3>2. \A c \in Browsers : jar[c].refresh # req[i].set
        BY <3>1 DEF W!WebInv, W!AnswersAreFresh
      <3>3. \A j \in Requests \ {i} : req[i].set \notin {req[j].hand.refresh, req[j].set}
        BY <3>1 DEF W!WebInv, W!AnswersAreFresh
      <3>4. W!IsLive(req[i].set) \/ req[i].browser \in spoilt
        BY <3>1 DEF W!WebInv, W!AnswersAreFresh
      <3>5. req[i].set \notin {q.hand.refresh, q.set}
        BY <1>1, <2>1, <3>1, <3>3, IdleRows
      <3>6. W!IsLive(req[i].set)' \/ req[i].browser \in spoilt'
        BY <1>10, <1>13, <2>1, <3>1, <3>3, <3>4
      <3>7. QED
        BY <1>1, <1>2, <3>1, <3>2, <3>3, <3>5, <3>6 DEF W!IsLive
    <2>2. CASE i = r /\ q.set = n
      BY <1>1, <1>2, <1>12, <1>13, <2>2 DEF W!IsLive
    <2>3. CASE i = r /\ q.set # n
      <3>1. req[r].set \in Tokens /\ q.set = req[r].set
        BY <1>2, <2>3, IdleRows
      <3>2. \A c \in Browsers : jar[c].refresh # q.set
        BY <3>1 DEF W!WebInv, W!AnswersAreFresh
      <3>3. \A j \in Requests \ {r} : q.set \notin {req[j].hand.refresh, req[j].set}
        BY <3>1 DEF W!WebInv, W!AnswersAreFresh
      <3>4. q.browser = b
        BY <3>1, IdleRows
      <3>5. token'[q.set].state = "live" \/ b \in spoilt'
        <4>1. W!IsLive(q.set) \/ b \in spoilt
          BY <3>1 DEF W!WebInv, W!AnswersAreFresh
        <4>2. QED
          BY <3>1, <4>1 DEF W!IsLive
      <3>6. QED
        BY <1>2, <2>3, <3>2, <3>3, <3>4, <3>5
    <2>4. QED
      BY <2>1, <2>2, <2>3
  <1>15. q # W!Idle => q.browser = b
    OBVIOUS
  <1>16. W!LiveTokensAreKept'
    <2> SUFFICES ASSUME NEW t \in Tokens, NEW c \in Browsers,
                        W!IsLive(t)', token'[t].owner = c
                 PROVE  jar'[c].refresh = t \/ \E i \in Requests : req'[i].browser = c /\ req'[i].set = t
      BY DEF W!LiveTokensAreKept
    <2>1. CASE t = n
      BY <1>2, <1>15, <2>1, IdleRows
    <2>2. CASE t # n
      <3>1. jar[c].refresh = t \/ \E i \in Requests : req[i].browser = c /\ req[i].set = t
        BY <1>9, <1>11, <2>2 DEF W!WebInv, W!LiveTokensAreKept
      <3>2. req[r].set = t => q.set = t /\ q.browser = b
        BY <1>15, IdleRows
      <3>3. QED
        BY <1>2, <3>1, <3>2
    <2>3. QED
      BY <2>1, <2>2
  <1>17. W!LogoutsAreHeard'
    <2> SUFFICES ASSUME NEW i \in Requests, NEW c \in Browsers, NEW t \in Tokens,
                        req'[i].kind = "logout", req'[i].browser = c, ~req'[i].beside, jar'[c].refresh = t
                 PROVE  IF req'[i].phase = "logout" THEN req'[i].hand.refresh = t
                        ELSE ~(W!IsLive(t)' /\ token'[t].owner = c)
      BY DEF W!LogoutsAreHeard
    <2>1. t # n
      BY <1>12
    <2>2. CASE i # r
      <3>1. IF req[i].phase = "logout" THEN req[i].hand.refresh = t
            ELSE ~(W!IsLive(t) /\ token[t].owner = c)
        BY <1>2, <2>2 DEF W!WebInv, W!LogoutsAreHeard
      <3>2. QED
        BY <1>2, <1>9, <1>11, <2>1, <2>2, <3>1
    <2>3. CASE i = r
      <3>1. q # W!Idle /\ c = b
        BY <1>2, <1>15, <2>3, IdleRows
      <3>2. req[r].kind = "logout" /\ ~req[r].beside /\ req[r].phase # "answer" /\ q.phase # "logout"
        BY <1>2, <2>3, <3>1
      <3>3. req[r].phase = "logout"
        BY <3>2 DEF W!WebInv, W!RequestsAreProper, W!ProperIn
      <3>4. req[r].hand.refresh = t
        BY <3>1, <3>2, <3>3 DEF W!WebInv, W!LogoutsAreHeard
      <3>5. ~(token'[t].state = "live" /\ token'[t].owner = c)
        BY <3>3, <3>4, IdleRows
      <3>6. QED
        BY <1>2, <2>3, <3>2, <3>5 DEF W!IsLive
    <2>4. QED
      BY <2>2, <2>3
  <1>18. W!SignedInGoOn'
    <2> SUFFICES ASSUME NEW c \in Browsers, c \in signedIn, c \notin spoilt'
                 PROVE  W!GoesOn(c)'
      BY <1>1 DEF W!SignedInGoOn
    <2>1. W!GoesOn(c)
      BY DEF W!WebInv, W!SignedInGoOn
    <2>2. req'[r].browser = c => c = b /\ q # W!Idle /\ b \notin spoilt'
      BY <1>2, <1>15, IdleRows
    <2>3. \A i \in Requests : req'[i].browser = c /\ req'[i].set = W!Clear => req'[i].kind = "logout"
      BY <1>2, <2>1, <2>2 DEF W!GoesOn
    <2>4. \/ W!IsLive(jar[c].refresh)'
          \/ \E i \in Requests : /\ req'[i].browser = c
                                 /\ req'[i].set \in Tokens \/ (req'[i].kind = "logout" /\ req'[i].phase = "answer")
      <3>1. CASE W!IsLive(jar[c].refresh)
        <4>1. jar[c].refresh \in Tokens
          <5>1. jar[c] \in W!CookieRows
            BY <1>1
          <5>2. QED
            BY <3>1, <5>1 DEF W!IsLive, W!CookieRows
        <4>2. PICK t \in Tokens : t = jar[c].refresh
          BY <4>1
        <4>3. W!IsLive(t)' \/ (t = req[r].hand.refresh)
          BY <1>10, <3>1, <4>2
        <4>4. CASE W!IsLive(t)'
          BY <4>2, <4>4 DEF W!IsLive
        <4>5. CASE ~W!IsLive(t)' /\ t = req[r].hand.refresh
          <5>1. c = b
            <6>1. W!Holds(c, t) /\ W!Holds(b, t)
              BY <4>2, <4>5 DEF W!Holds
            <6>2. QED
              BY <6>1 DEF W!WebInv, W!TokensAreHeldByOne
          <5>2. q.set \in Tokens \/ (q.kind = "logout" /\ q.phase = "answer")
            BY <1>1, <3>1, <4>2, <4>5, <5>1 DEF W!IsLive
          <5>3. q.browser = c
            BY <1>15, <5>1
          <5>4. QED
            BY <1>2, <5>2, <5>3
        <4>6. QED
          BY <4>3, <4>4, <4>5
      <3>2. CASE \E i \in Requests : /\ req[i].browser = c
                                     /\ req[i].set \in Tokens \/ (req[i].kind = "logout" /\ req[i].phase = "answer")
        <4>1. PICK i \in Requests : /\ req[i].browser = c
                                    /\ req[i].set \in Tokens \/ (req[i].kind = "logout" /\ req[i].phase = "answer")
          BY <3>2
        <4>2. CASE i # r
          BY <1>2, <4>1, <4>2
        <4>3. CASE i = r
          <5>1. c = b /\ q.browser = b /\ req[r].phase # "answer"
            BY <1>15, <4>1, <4>3
          <5>2. req[r].set \in Tokens /\ q.set = req[r].set
            BY <4>1, <4>3, <5>1
          <5>3. QED
            BY <1>2, <5>1, <5>2
        <4>4. QED
          BY <4>2, <4>3
      <3>3. QED
        BY <2>1, <3>1, <3>2 DEF W!GoesOn
    <2>5. QED
      BY <2>1, <2>3, <2>4 DEF W!GoesOn
  <1>19. \A c \in signedOut : \A i \in Requests : req[i].browser = c =>
           req[i].phase = "answer" /\ req[i].set \in {W!Keep, W!Clear} /\ req[i].kind \notin {"login", "logout"}
    BY DEF W!WebInv, W!SignedOutAreQuiet
  <1>20. W!LogoutIsFinal'
    <2> SUFFICES ASSUME NEW c \in signedOut, NEW t \in Tokens, token'[t].owner = c
                 PROVE  ~W!IsLive(t)'
      BY DEF W!WebInv, W!LogoutIsFinal
    <2>1. c \in Browsers
      BY <1>1
    <2>2. t # n
      BY <1>19, <2>1, IdleRows
    <2>3. QED
      BY <1>9, <1>11, <2>1, <2>2 DEF W!WebInv, W!LogoutIsFinal
  <1>21. W!SignedOutAreQuiet'
    <2> SUFFICES ASSUME NEW c \in signedOut, NEW i \in Requests, req'[i].browser = c
                 PROVE  /\ req'[i].phase = "answer" /\ req'[i].set \in {W!Keep, W!Clear}
                        /\ req'[i].kind \notin {"login", "logout"}
      BY DEF W!SignedOutAreQuiet
    <2>1. i # r
      BY <1>1, <1>2, <1>15, <1>19, IdleRows
    <2>2. QED
      BY <1>2, <1>19, <2>1
  <1>22. QED
    BY <1>4, <1>5, <1>8, <1>14, <1>16, <1>17, <1>18, <1>20, <1>21 DEF W!WebInv

(* What the invariant says of one request.                                    *)
LEMMA WebRequestTypes ==
  ASSUME W!Proper, W!WebInv, NEW r \in Requests
  PROVE  /\ token \in [Tokens -> W!TokenRows] /\ \A t \in Tokens : token[t] \in W!TokenRows
         /\ \A t \in Tokens : token[t].state \in {"none", "live", "revoked"}
                              /\ token[t].owner \in Browsers \cup {None}
         /\ jar \in [Browsers -> W!CookieRows] /\ req \in [Requests -> W!RequestRows]
         /\ stale \subseteq Tokens /\ spoilt \in SUBSET Browsers
         /\ req[r] \in W!RequestRows /\ req[r].hand \in W!CookieRows
         /\ req[r].hand.refresh \in Tokens \cup {None} /\ req[r].set \in Tokens \cup {W!Keep, W!Clear}
         /\ req[r].kind \in W!Kinds \cup {None} /\ req[r].beside \in BOOLEAN
         /\ req[r].browser \in Browsers \cup {None}
         /\ req[r].browser \notin Browsers => req[r] = W!Idle
         /\ W!ProperIn(req[r])
  <1>1. /\ token \in [Tokens -> W!TokenRows] /\ jar \in [Browsers -> W!CookieRows]
        /\ req \in [Requests -> W!RequestRows] /\ stale \subseteq Tokens /\ spoilt \in SUBSET Browsers
        /\ W!ProperIn(req[r])
    BY DEF W!WebInv, W!TypeOK, W!RequestsAreProper
  <1>2. req[r] \in W!RequestRows
    BY <1>1
  <1>3. /\ req[r].hand \in W!CookieRows /\ req[r].set \in Tokens \cup {W!Keep, W!Clear}
        /\ req[r].kind \in W!Kinds \cup {None} /\ req[r].browser \in Browsers \cup {None}
        /\ req[r].beside \in BOOLEAN
    BY <1>2 DEF W!RequestRows
  <1>4. req[r].hand.refresh \in Tokens \cup {None}
    BY <1>3 DEF W!CookieRows
  <1>5. \A t \in Tokens : token[t] \in W!TokenRows
    BY <1>1
  <1>6. \A t \in Tokens : token[t].state \in {"none", "live", "revoked"}
                          /\ token[t].owner \in Browsers \cup {None}
    BY <1>5 DEF W!TokenRows
  <1>7. req[r].browser = None => req[r] = W!Idle
    BY <1>1 DEF W!ProperIn
  <1>8. QED
    BY <1>1, <1>2, <1>3, <1>4, <1>5, <1>6, <1>7

(* The row of a request whose answer is to come.                              *)
LEMMA EndedRow ==
  ASSUME W!Proper, W!WebInv, NEW r \in Requests, NEW set \in Tokens \cup {W!Keep, W!Clear},
         W!End(r, set)
  PROVE  \E q \in W!RequestRows :
            /\ req' = [req EXCEPT ![r] = q]
            /\ q.kind = req[r].kind /\ q.browser = req[r].browser /\ q.beside = req[r].beside
            /\ q.phase = "answer" /\ q.set = set /\ q.hand = W!NoCookies
  <1>1. PICK q : q = [req[r] EXCEPT !.phase = "answer", !.set = set, !.hand = W!NoCookies]
    OBVIOUS
  <1>2. req' = [req EXCEPT ![r] = q]
    BY <1>1, WebRequestTypes DEF W!End
  <1>3. q \in W!RequestRows
    BY <1>1, WebRequestTypes, IdleRows DEF W!RequestRows
  <1>4. /\ q.kind = req[r].kind /\ q.browser = req[r].browser /\ q.beside = req[r].beside
        /\ q.phase = "answer" /\ q.set = set /\ q.hand = W!NoCookies
    BY <1>1, WebRequestTypes DEF W!RequestRows
  <1>5. QED
    BY <1>2, <1>3, <1>4

(* How the tokens change.                                                     *)
LEMMA WebAllRevoked ==
  ASSUME W!Proper, W!WebInv
  PROVE  /\ W!AllRevoked \in [Tokens -> W!TokenRows]
         /\ \A t \in Tokens : /\ W!AllRevoked[t].state = "none" <=> token[t].state = "none"
                              /\ W!AllRevoked[t].state # "live"
                              /\ W!AllRevoked[t].owner = token[t].owner
  <1>1. \A t \in Tokens : token[t] \in W!TokenRows
    BY DEF W!WebInv, W!TypeOK
  <1>2. ASSUME NEW t \in Tokens
        PROVE  /\ W!AllRevoked[t] \in W!TokenRows
               /\ W!AllRevoked[t].state = "none" <=> token[t].state = "none"
               /\ W!AllRevoked[t].state # "live"
               /\ W!AllRevoked[t].owner = token[t].owner
    BY <1>1 DEF W!AllRevoked, W!TokenRows
  <1>3. W!AllRevoked = [t \in Tokens |-> W!AllRevoked[t]]
    BY DEF W!AllRevoked
  <1>4. QED
    BY <1>2, <1>3

LEMMA WebIssued ==
  ASSUME W!Proper, NEW tokens \in [Tokens -> W!TokenRows], NEW b \in Browsers \cup {None}, W!Unissued # {}
  PROVE  /\ W!Issued(tokens, b) \in [Tokens -> W!TokenRows]
         /\ W!Issued(tokens, b)[W!NextToken].state = "live" /\ W!Issued(tokens, b)[W!NextToken].owner = b
         /\ \A t \in Tokens \ {W!NextToken} : W!Issued(tokens, b)[t] = tokens[t]
  <1>1. [state |-> "live", owner |-> b] \in W!TokenRows
    BY DEF W!TokenRows
  <1>2. W!NextToken \in Tokens
    BY NextTokenIsUnissued
  <1>3. QED
    BY <1>1, <1>2 DEF W!Issued

LEMMA WebRotated ==
  ASSUME W!Proper, W!WebInv, NEW h \in Tokens, NEW b \in Browsers \cup {None}, W!Unissued # {}
  PROVE  /\ W!Rotated(h, b) \in [Tokens -> W!TokenRows]
         /\ W!IsLive(h) => /\ W!Rotated(h, b)[W!NextToken].state = "live"
                           /\ W!Rotated(h, b)[W!NextToken].owner = b
                           /\ W!Rotated(h, b)[h].state = "revoked" /\ W!Rotated(h, b)[h].owner = token[h].owner
                           /\ \A t \in Tokens \ {W!NextToken, h} : W!Rotated(h, b)[t] = token[t]
         /\ ~W!IsLive(h) => W!Rotated(h, b) = W!AllRevoked
  <1>1. CASE W!IsLive(h)
    <2>1. PICK row : row = [token[h] EXCEPT !.state = "revoked"]
      OBVIOUS
    <2>2. PICK tokens : tokens = [token EXCEPT ![h] = row]
      OBVIOUS
    <2>3. W!Rotated(h, b) = W!Issued(tokens, b)
      BY <1>1, <2>1, <2>2 DEF W!Rotated
    <2>4. token \in [Tokens -> W!TokenRows] /\ token[h] \in W!TokenRows
      BY DEF W!WebInv, W!TypeOK
    <2>5. row \in W!TokenRows /\ row.state = "revoked" /\ row.owner = token[h].owner
      BY <2>1, <2>4 DEF W!TokenRows
    <2>6. /\ tokens \in [Tokens -> W!TokenRows] /\ tokens[h] = row
          /\ \A t \in Tokens \ {h} : tokens[t] = token[t]
      BY <2>2, <2>4, <2>5
    <2>7. h # W!NextToken
      BY <1>1, NextTokenIsUnissued DEF W!IsLive
    <2>8. QED
      BY <1>1, <2>3, <2>5, <2>6, <2>7, WebIssued
  <1>2. CASE ~W!IsLive(h)
    BY <1>2, WebAllRevoked DEF W!Rotated
  <1>3. QED
    BY <1>1, <1>2

(* A page or an action that is rendered with a token, fresh or not.           *)
LEMMA RequireTokenStep ==
  ASSUME W!Proper, W!WebInv, NEW r \in Requests, W!RequireToken(r)
  PROVE  W!WebInv'
  <1>1. /\ req[r].phase = "render" /\ UNCHANGED <<token, stale, jar, signedIn, signedOut, spoilt>>
        /\ req[r].hand.refresh \in Tokens /\ req[r].hand.access = req[r].hand.refresh
        /\ req[r].set \in {W!Keep, req[r].hand.refresh}
        /\ req[r].kind \notin {"login", "logout"} /\ req[r].browser \in Browsers
    BY WebRequestTypes, IdleRows DEF W!RequireToken, W!ProperIn
  <1>2. ASSUME NEW q \in W!RequestRows, req' = [req EXCEPT ![r] = q], W!ProperIn(q),
               q.browser = req[r].browser, q.kind = req[r].kind, q.beside = req[r].beside,
               q.phase # "logout", q.hand.refresh \in {req[r].hand.refresh, None}, q.set = req[r].set
        PROVE  W!WebInv'
    <2>1. PICK b \in Browsers : b = req[r].browser
      BY <1>1
    <2>2. PICK n : n = None
      OBVIOUS
    <2>3. req[r].set # W!Clear
      BY <1>1, IdleRows
    <2>4. QED
      BY <1>1, <1>2, <2>1, <2>2, <2>3, WebRequestTypes, IdleRows, WebMoves
  <1>3. CASE W!IsFresh(req[r].hand.access)
    <2>1. W!End(r, req[r].set)
      BY <1>3 DEF W!RequireToken
    <2>2. PICK q \in W!RequestRows :
            /\ req' = [req EXCEPT ![r] = q]
            /\ q.kind = req[r].kind /\ q.browser = req[r].browser /\ q.beside = req[r].beside
            /\ q.phase = "answer" /\ q.set = req[r].set /\ q.hand = W!NoCookies
      BY <2>1, WebRequestTypes, EndedRow
    <2>3. W!ProperIn(q)
      BY <1>1, <2>2, WebRequestTypes, IdleRows DEF W!ProperIn, W!Refreshing
    <2>4. QED
      BY <1>2, <2>2, <2>3, IdleRows
  <1>4. CASE ~W!IsFresh(req[r].hand.access)
    <2>1. req' = [req EXCEPT ![r].phase = "render refresh"]
      BY <1>1, <1>4, IdleRows DEF W!RequireToken, W!Continue
    <2>2. PICK q : q = [req[r] EXCEPT !.phase = "render refresh"]
      OBVIOUS
    <2>3. req' = [req EXCEPT ![r] = q]
      BY <2>1, <2>2, WebRequestTypes
    <2>4. /\ q \in W!RequestRows /\ q.kind = req[r].kind /\ q.browser = req[r].browser
          /\ q.beside = req[r].beside /\ q.phase = "render refresh" /\ q.set = req[r].set
          /\ q.hand = req[r].hand
      BY <2>2, WebRequestTypes DEF W!RequestRows, W!Refreshing
    <2>5. req[r].set = W!Keep
      BY <1>1, <1>4, WebRequestTypes, IdleRows DEF W!ProperIn, W!IsFresh
    <2>6. W!ProperIn(q)
      BY <1>1, <2>4, <2>5, IdleRows DEF W!ProperIn, W!Refreshing
    <2>7. QED
      BY <1>2, <2>3, <2>4, <2>6
  <1>5. QED
    BY <1>3, <1>4

(* A request that has refreshed its token, as far as it knows.                *)
LEMMA RefreshedRow ==
  ASSUME W!Proper, W!WebInv, NEW r \in Requests, req[r].phase \in W!Refreshing,
         NEW set \in Tokens \cup {W!Keep, W!Clear}, set \notin stale, W!End(r, set)
  PROVE  \E q \in W!RequestRows :
            /\ req' = [req EXCEPT ![r] = q] /\ W!ProperIn(q)
            /\ q.kind = req[r].kind /\ q.browser = req[r].browser /\ q.beside = req[r].beside
            /\ q.phase = "answer" /\ q.set = set /\ q.hand = W!NoCookies
  <1>1. PICK q \in W!RequestRows :
            /\ req' = [req EXCEPT ![r] = q]
            /\ q.kind = req[r].kind /\ q.browser = req[r].browser /\ q.beside = req[r].beside
            /\ q.phase = "answer" /\ q.set = set /\ q.hand = W!NoCookies
    BY EndedRow
  <1>2. req[r].kind \notin {"login", "logout"} /\ req[r].browser # None
    BY WebRequestTypes, IdleRows DEF W!ProperIn, W!Refreshing
  <1>3. W!ProperIn(q)
    BY <1>1, <1>2, IdleRows DEF W!ProperIn, W!Refreshing
  <1>4. QED
    BY <1>1, <1>3

LEMMA RefreshTokenStep ==
  ASSUME W!Proper, W!WebInv, NEW r \in Requests, W!Refresh(r)
  PROVE  W!WebInv'
  <1>1. /\ req[r].phase \in W!Refreshing /\ W!Unissued # {}
        /\ UNCHANGED <<stale, jar, signedIn, signedOut>>
        /\ req[r].hand.refresh \in Tokens /\ req[r].set = W!Keep
        /\ req[r].kind \notin {"login", "logout"} /\ req[r].browser \in Browsers
        /\ req[r].phase \notin {"answer", "logout", "idle", "render"}
    BY WebRequestTypes, IdleRows DEF W!Refresh, W!ProperIn, W!Refreshing
  <1>2. PICK h \in Tokens : h = req[r].hand.refresh
    BY <1>1
  <1>3. PICK b \in Browsers : b = req[r].browser
    BY <1>1
  <1>4. PICK o \in Browsers \cup {None} : o = IF W!Unsaved(r) THEN None ELSE b
    OBVIOUS
  <1>5. token' = W!Rotated(h, o)
    BY <1>2, <1>3, <1>4 DEF W!Refresh
  <1>6. W!NextToken \in Tokens /\ token[W!NextToken].state = "none" /\ W!NextToken \notin stale
    BY <1>1, NextTokenIsUnissued DEF W!WebInv, W!TypeOK, W!Unissued
  <1>7. W!Keep \notin stale /\ W!Clear \notin stale
    BY WebRequestTypes, IdleRows
  <1>8. CASE ~W!IsLive(h)
    <2>1. W!End(r, W!Clear) \/ W!End(r, W!Keep)
      BY <1>1, <1>2, <1>8 DEF W!Refresh, W!Cleared
    <2>2. PICK q \in W!RequestRows :
            /\ req' = [req EXCEPT ![r] = q] /\ W!ProperIn(q)
            /\ q.kind = req[r].kind /\ q.browser = req[r].browser /\ q.beside = req[r].beside
            /\ q.phase = "answer" /\ q.set \in {W!Clear, W!Keep} /\ q.hand = W!NoCookies
      BY <1>1, <1>7, <2>1, RefreshedRow
    <2>3. spoilt' = Browsers /\ token' = W!AllRevoked
      <3>1. token' = W!AllRevoked
        BY <1>1, <1>5, <1>8, WebRotated
      <3>2. spoilt' = Browsers
        BY <1>2, <1>8 DEF W!Refresh
      <3>3. QED
        BY <3>1, <3>2
    <2>4. PICK n : n = None
      OBVIOUS
    <2>5. /\ n \notin Tokens /\ q.hand.refresh = None
          /\ token' \in [Tokens -> W!TokenRows]
          /\ spoilt' \in SUBSET Browsers /\ spoilt \subseteq spoilt'
          /\ \A t \in Tokens \ {n} :
               /\ token'[t].state = "none" <=> token[t].state = "none"
               /\ token'[t].owner \in {token[t].owner, None}
               /\ token'[t].state # "live"
          /\ req[r].set \notin Tokens /\ b \in spoilt'
      BY <1>1, <1>3, <2>2, <2>3, <2>4, WebRequestTypes, WebAllRevoked, IdleRows
    <2>6. QED
      BY <1>1, <1>3, <2>2, <2>3, <2>5, WebMoves
  <1>9. CASE W!IsLive(h)
    <2>1. /\ token' \in [Tokens -> W!TokenRows]
          /\ token'[W!NextToken].state = "live" /\ token'[W!NextToken].owner = o
          /\ token'[h].state = "revoked" /\ token'[h].owner = token[h].owner
          /\ \A t \in Tokens \ {W!NextToken, h} : token'[t] = token[t]
      BY <1>1, <1>5, <1>9, WebRotated
    <2>2. /\ spoilt' \in SUBSET Browsers /\ spoilt \subseteq spoilt'
          /\ W!Unsaved(r) => b \in spoilt'
      BY <1>2, <1>3, <1>9, WebRequestTypes DEF W!Refresh
    <2>3. PICK n : n = W!NextToken
      OBVIOUS
    <2>4. ASSUME NEW q \in W!RequestRows, req' = [req EXCEPT ![r] = q], W!ProperIn(q),
                 q.browser = req[r].browser, q.kind = req[r].kind, q.beside = req[r].beside,
                 q.phase # "logout", q.hand.refresh \in {n, None},
                 IF W!Unsaved(r) THEN q.set = W!Keep ELSE q.set = n
          PROVE  W!WebInv'
      <3>1. token[h].state = "live" /\ h # n
        BY <1>6, <1>9, <2>3 DEF W!IsLive
      <3>2. token'[n].owner = None \/ (token'[n].owner = b /\ q.set = n)
        BY <1>4, <2>1, <2>3, <2>4
      <3>3. \A t \in Tokens \ {n} :
              /\ token'[t].state = "none" <=> token[t].state = "none"
              /\ token'[t].owner \in {token[t].owner, None}
              /\ token'[t].state = "live" => token[t].state = "live"
              /\ token[t].state = "live" =>
                   token'[t].state = "live" \/ t = req[r].hand.refresh \/ spoilt' = Browsers
        BY <1>2, <2>1, <2>3, <3>1
      <3>4. req[r].set \notin Tokens /\ q.set \in {W!Keep, n}
        BY <1>1, <2>4, IdleRows
      <3>5. b \notin spoilt' => q.set \in Tokens /\ q.set # W!Clear
        BY <1>6, <2>2, <2>3, <2>4, IdleRows
      <3>6. n \in Tokens => /\ token[n].state = "none" /\ token'[n].state = "live" /\ req[r].phase # "answer"
                            /\ token'[n].owner = None \/ (token'[n].owner = b /\ q.set = n)
        BY <1>1, <1>6, <2>1, <2>3, <3>2
      <3>7. /\ q.hand.refresh \in {req[r].hand.refresh, None, n}
            /\ q.set \in {req[r].set, W!Keep, W!Clear, n}
            /\ req[r].set \in Tokens => q.set = req[r].set \/ token'[req[r].set].owner = None
        BY <2>4, <3>4
      <3>8. b \notin spoilt' =>
            /\ q.set = W!Clear => q.kind = "logout"
            /\ req[r].set \in Tokens => q.set = req[r].set /\ token'[q.set].state = token[q.set].state
            /\ token[req[r].hand.refresh].state = "live" =>
                 \/ token'[req[r].hand.refresh].state = "live"
                 \/ q.set \in Tokens \/ (q.kind = "logout" /\ q.phase = "answer")
        BY <3>4, <3>5
      <3>9. /\ q.browser = b /\ q.kind = req[r].kind /\ q.beside = req[r].beside
            /\ req[r].phase # "answer" /\ q.phase # "logout" /\ req[r].phase # "logout"
        BY <1>1, <1>3, <2>4
      <3>10. QED
        BY <1>1, <1>3, <2>1, <2>2, <2>4, <3>3, <3>6, <3>7, <3>8, <3>9, WebMoves
    <2>5. CASE req[r].phase = "middleware refresh"
      <3>1. PICK new : new = [access |-> W!NextToken, refresh |-> W!NextToken]
        OBVIOUS
      <3>2. PICK q : q = [req[r] EXCEPT !.phase = "render", !.hand = new, !.set = W!NextToken]
        OBVIOUS
      <3>3. req' = [req EXCEPT ![r] = q]
        <4>1. req' = [req EXCEPT ![r].phase = "render", ![r].hand = new, ![r].set = W!NextToken]
          BY <1>2, <1>9, <2>5, <3>1 DEF W!Refresh, W!Unsaved
        <4>2. QED
          BY <3>2, <4>1, WebRequestTypes
      <3>4. new \in W!CookieRows /\ new.access = W!NextToken /\ new.refresh = W!NextToken
        BY <1>6, <3>1 DEF W!CookieRows
      <3>5. /\ q \in W!RequestRows /\ q.kind = req[r].kind /\ q.browser = req[r].browser
            /\ q.beside = req[r].beside /\ q.phase = "render" /\ q.set = W!NextToken
            /\ q.hand = new
        BY <1>6, <3>2, <3>4, WebRequestTypes DEF W!RequestRows
      <3>6. W!ProperIn(q)
        BY <1>1, <1>6, <3>4, <3>5, IdleRows DEF W!ProperIn, W!Refreshing
      <3>7. ~W!Unsaved(r)
        BY <2>5 DEF W!Unsaved
      <3>8. QED
        BY <2>3, <2>4, <3>3, <3>4, <3>5, <3>6, <3>7
    <2>6. CASE req[r].phase # "middleware refresh"
      <3>1. W!End(r, IF W!Unsaved(r) THEN W!Keep ELSE W!NextToken)
        BY <1>1, <1>2, <1>9, <2>6 DEF W!Refresh
      <3>2. PICK q \in W!RequestRows :
              /\ req' = [req EXCEPT ![r] = q] /\ W!ProperIn(q)
              /\ q.kind = req[r].kind /\ q.browser = req[r].browser /\ q.beside = req[r].beside
              /\ q.phase = "answer" /\ q.hand = W!NoCookies
              /\ q.set = IF W!Unsaved(r) THEN W!Keep ELSE W!NextToken
        BY <1>1, <1>6, <1>7, <3>1, RefreshedRow
      <3>3. QED
        BY <2>3, <2>4, <3>2, IdleRows
    <2>7. QED
      BY <2>5, <2>6
  <1>10. QED
    BY <1>8, <1>9

LEMMA RefreshFailsStep ==
  ASSUME W!Proper, W!WebInv, NEW r \in Requests, W!RefreshFails(r)
  PROVE  W!WebInv'
  <1>1. /\ req[r].phase \in W!Refreshing /\ W!Unissued # {}
        /\ UNCHANGED <<stale, jar, signedIn, signedOut>>
        /\ req[r].hand.refresh \in Tokens /\ req[r].set = W!Keep
        /\ req[r].kind \notin {"login", "logout"} /\ req[r].browser \in Browsers
        /\ req[r].phase \notin {"answer", "logout", "idle", "render"}
    BY WebRequestTypes, IdleRows DEF W!RefreshFails, W!ProperIn, W!Refreshing
  <1>2. PICK h \in Tokens : h = req[r].hand.refresh
    BY <1>1
  <1>3. PICK b \in Browsers : b = req[r].browser
    BY <1>1
  <1>4. PICK set \in {W!Keep, W!Clear} : W!End(r, set)
    BY <1>1 DEF W!RefreshFails, W!Cleared, W!Refreshing
  <1>5. W!Keep \notin stale /\ W!Clear \notin stale
    BY WebRequestTypes, IdleRows
  <1>6. PICK q \in W!RequestRows :
          /\ req' = [req EXCEPT ![r] = q] /\ W!ProperIn(q)
          /\ q.kind = req[r].kind /\ q.browser = req[r].browser /\ q.beside = req[r].beside
          /\ q.phase = "answer" /\ q.set \in {W!Keep, W!Clear} /\ q.hand = W!NoCookies
    BY <1>1, <1>4, <1>5, RefreshedRow
  <1>7. /\ spoilt' \in SUBSET Browsers /\ spoilt \subseteq spoilt' /\ b \in spoilt'
        /\ ~W!IsLive(h) => spoilt' = Browsers
        /\ req[r].set \notin Tokens /\ q.hand.refresh = None
    BY <1>1, <1>2, <1>3, <1>6, WebRequestTypes, IdleRows DEF W!RefreshFails
  <1>8. ASSUME NEW n,
               token' \in [Tokens -> W!TokenRows],
               n \in Tokens => /\ token[n].state = "none" /\ token'[n].state = "live" /\ token'[n].owner = None,
               \A t \in Tokens \ {n} :
                  /\ token'[t].state = "none" <=> token[t].state = "none"
                  /\ token'[t].owner \in {token[t].owner, None}
                  /\ token'[t].state = "live" => token[t].state = "live"
                  /\ token[t].state = "live" =>
                       token'[t].state = "live" \/ t = req[r].hand.refresh \/ spoilt' = Browsers
        PROVE  W!WebInv'
    BY <1>1, <1>3, <1>6, <1>7, <1>8, WebMoves
  <1>9. PICK none : none = None
    OBVIOUS
  <1>10. CASE token' = token
    <2>1. none \notin Tokens
      BY <1>9, IdleRows
    <2>2. QED
      BY <1>8, <1>10, <2>1, WebRequestTypes
  <1>11. CASE token' = W!Rotated(h, None) /\ W!IsLive(h)
    <2>1. PICK n : n = W!NextToken
      OBVIOUS
    <2>2. /\ token' \in [Tokens -> W!TokenRows]
          /\ token'[n].state = "live" /\ token'[n].owner = None
          /\ token'[h].state = "revoked" /\ token'[h].owner = token[h].owner
          /\ \A t \in Tokens \ {n, h} : token'[t] = token[t]
      BY <1>1, <1>11, <2>1, WebRotated
    <2>3. token[n].state = "none" /\ token[h].state = "live"
      BY <1>1, <1>11, <2>1, NextTokenIsUnissued DEF W!IsLive
    <2>4. QED
      BY <1>2, <1>8, <2>2, <2>3
  <1>12. CASE token' = W!Rotated(h, None) /\ ~W!IsLive(h)
    <2>1. token' = W!AllRevoked /\ spoilt' = Browsers
      BY <1>1, <1>7, <1>12, WebRotated
    <2>2. none \notin Tokens
      BY <1>9, IdleRows
    <2>3. QED
      BY <1>8, <2>1, <2>2, WebAllRevoked
  <1>13. QED
    BY <1>2, <1>10, <1>11, <1>12 DEF W!RefreshFails

LEMMA LogoutStep ==
  ASSUME W!Proper, W!WebInv, NEW r \in Requests, W!Logout(r)
  PROVE  W!WebInv'
  <1>1. /\ req[r].phase = "logout" /\ W!End(r, W!Clear)
        /\ UNCHANGED <<stale, jar, signedIn, signedOut, spoilt>>
        /\ req[r].hand.refresh \in Tokens /\ req[r].set = W!Keep
        /\ req[r].kind = "logout" /\ req[r].browser \in Browsers
    BY WebRequestTypes, IdleRows DEF W!Logout, W!ProperIn
  <1>2. PICK h \in Tokens : h = req[r].hand.refresh
    BY <1>1
  <1>3. PICK b \in Browsers : b = req[r].browser
    BY <1>1
  <1>4. PICK q \in W!RequestRows :
          /\ req' = [req EXCEPT ![r] = q]
          /\ q.kind = req[r].kind /\ q.browser = req[r].browser /\ q.beside = req[r].beside
          /\ q.phase = "answer" /\ q.set = W!Clear /\ q.hand = W!NoCookies
    BY <1>1, EndedRow
  <1>5. W!ProperIn(q)
    BY <1>1, <1>4, IdleRows DEF W!ProperIn, W!Refreshing
  <1>6. /\ token' \in [Tokens -> W!TokenRows]
        /\ token'[h].state \in {token[h].state, "revoked"} /\ token'[h].owner \in {token[h].owner, None}
        /\ token'[h].state # "live" \/ token'[h].owner = None
        /\ token'[h].state = "none" <=> token[h].state = "none"
        /\ \A t \in Tokens \ {h} : token'[t] = token[t]
    <2>1. token[h] \in W!TokenRows /\ token \in [Tokens -> W!TokenRows]
      BY WebRequestTypes
    <2>2. CASE token' = [token EXCEPT ![h].state = IF @ = "live" THEN "revoked" ELSE @]
      <3>1. PICK row : row = [token[h] EXCEPT !.state = IF @ = "live" THEN "revoked" ELSE @]
        OBVIOUS
      <3>2. token' = [token EXCEPT ![h] = row]
        BY <2>1, <2>2, <3>1
      <3>3. /\ row \in W!TokenRows /\ row.owner = token[h].owner
            /\ row.state = IF token[h].state = "live" THEN "revoked" ELSE token[h].state
        BY <2>1, <3>1 DEF W!TokenRows
      <3>4. QED
        BY <2>1, <3>2, <3>3
    <2>3. CASE token' = [token EXCEPT ![h].owner = None]
      <3>1. PICK row : row = [token[h] EXCEPT !.owner = None]
        OBVIOUS
      <3>2. token' = [token EXCEPT ![h] = row]
        BY <2>1, <2>3, <3>1
      <3>3. row \in W!TokenRows /\ row.owner = None /\ row.state = token[h].state
        BY <2>1, <3>1 DEF W!TokenRows
      <3>4. QED
        BY <2>1, <3>2, <3>3
    <2>4. QED
      BY <1>2, <2>2, <2>3 DEF W!Logout
  <1>7. PICK n : n = None
    OBVIOUS
  <1>8. n \notin Tokens /\ req[r].set \notin Tokens /\ q.hand.refresh = None
    BY <1>1, <1>4, <1>7, IdleRows
  <1>9. \A t \in Tokens \ {n} :
            /\ token'[t].state = "none" <=> token[t].state = "none"
            /\ token'[t].owner \in {token[t].owner, None}
            /\ token'[t].state = "live" => token[t].state = "live"
            /\ token[t].state = "live" =>
                 token'[t].state = "live" \/ t = req[r].hand.refresh \/ spoilt' = Browsers
    BY <1>2, <1>6
  <1>10. spoilt' = spoilt /\ spoilt' \in SUBSET Browsers
    BY <1>1, WebRequestTypes
  <1>11. /\ q.browser = b /\ q.kind = req[r].kind /\ q.beside = req[r].beside
         /\ req[r].phase # "answer" /\ q.phase # "logout"
         /\ q.kind = "logout" /\ q.phase = "answer"
    BY <1>1, <1>3, <1>4
  <1>12. token'[req[r].hand.refresh].state # "live" \/ token'[req[r].hand.refresh].owner = None
    BY <1>2, <1>6
  <1>13. QED
    BY <1>1, <1>3, <1>4, <1>5, <1>6, <1>8, <1>9, <1>10, <1>11, <1>12, WebMoves

LEMMA WebLoginStep ==
  ASSUME W!Proper, W!WebInv, NEW r \in Requests, W!Login(r)
  PROVE  W!WebInv'
  <1>1. PICK n \in Tokens : n = W!NextToken
    BY NextTokenIsUnissued DEF W!Login
  <1>2. /\ req[r].phase = "login" /\ W!End(r, n)
        /\ UNCHANGED <<stale, jar, signedIn, signedOut, spoilt>>
        /\ req[r].set = W!Keep /\ req[r].set \notin Tokens
        /\ req[r].kind = "login" /\ req[r].browser \in Browsers
    BY <1>1, WebRequestTypes, IdleRows DEF W!Login, W!ProperIn
  <1>3. PICK b \in Browsers : b = req[r].browser
    BY <1>2
  <1>4. PICK q \in W!RequestRows :
          /\ req' = [req EXCEPT ![r] = q]
          /\ q.kind = req[r].kind /\ q.browser = req[r].browser /\ q.beside = req[r].beside
          /\ q.phase = "answer" /\ q.set = n /\ q.hand = W!NoCookies
    BY <1>2, EndedRow
  <1>5. token[n].state = "none" /\ n \notin stale /\ n # W!Clear
    BY <1>1, NextTokenIsUnissued, IdleRows DEF W!Login, W!WebInv, W!TypeOK, W!Unissued
  <1>6. W!ProperIn(q)
    BY <1>2, <1>4, <1>5, IdleRows DEF W!ProperIn, W!Refreshing
  <1>7. /\ token' \in [Tokens -> W!TokenRows] /\ token'[n].state = "live" /\ token'[n].owner = b
        /\ \A t \in Tokens \ {n} : token'[t] = token[t]
    BY <1>1, <1>3, WebRequestTypes, WebIssued DEF W!Login
  <1>8. spoilt' = spoilt /\ spoilt' \in SUBSET Browsers /\ q.hand.refresh = None
    BY <1>2, <1>4, WebRequestTypes, IdleRows
  <1>9. /\ q.browser = b /\ q.kind = req[r].kind /\ q.beside = req[r].beside
        /\ req[r].phase # "answer" /\ req[r].phase # "logout" /\ q.phase # "logout"
        /\ q.set \in Tokens /\ q.set # W!Clear
    BY <1>2, <1>3, <1>4, <1>5
  <1>10. \A t \in Tokens \ {n} :
            /\ token'[t].state = "none" <=> token[t].state = "none"
            /\ token'[t].owner \in {token[t].owner, None}
            /\ token'[t].state = "live" => token[t].state = "live"
            /\ token[t].state = "live" =>
                 token'[t].state = "live" \/ t = req[r].hand.refresh \/ spoilt' = Browsers
    BY <1>7
  <1>11. QED
    BY <1>2, <1>3, <1>4, <1>5, <1>6, <1>7, <1>8, <1>9, <1>10, WebMoves

(* The answer is lost.                                                        *)
LEMMA MissStep ==
  ASSUME W!Proper, W!WebInv, NEW r \in Requests, W!Miss(r)
  PROVE  W!WebInv'
  <1>1. /\ req[r].phase = "answer" /\ req' = [req EXCEPT ![r] = W!Idle]
        /\ UNCHANGED <<stale, jar, signedIn, signedOut>>
        /\ spoilt' = spoilt \cup {req[r].browser}
        /\ req[r].browser \in Browsers
    BY WebRequestTypes, IdleRows DEF W!Miss
  <1>2. PICK b \in Browsers : b = req[r].browser
    BY <1>1
  <1>3. PICK q \in W!RequestRows : q = W!Idle
    BY IdleRows
  <1>4. W!ProperIn(q)
    BY <1>3, WebRequestTypes, IdleRows DEF W!ProperIn, W!Kinds, W!Refreshing
  <1>5. /\ token' \in [Tokens -> W!TokenRows]
        /\ \A t \in Tokens : /\ token'[t].state = token[t].state
                             /\ token'[t].owner = IF t = req[r].set THEN None ELSE token[t].owner
    <2>1. \A t \in Tokens : /\ [token[t] EXCEPT !.owner = None] \in W!TokenRows
                            /\ [token[t] EXCEPT !.owner = None].state = token[t].state
                            /\ [token[t] EXCEPT !.owner = None].owner = None
      BY WebRequestTypes DEF W!TokenRows
    <2>2. token' = [t \in Tokens |-> IF t = req[r].set THEN [token[t] EXCEPT !.owner = None] ELSE token[t]]
      BY DEF W!Miss
    <2>3. QED
      BY <2>1, <2>2, WebRequestTypes
  <1>6. PICK n : n = None
    OBVIOUS
  <1>7. /\ n \notin Tokens /\ b \in spoilt' /\ spoilt' \in SUBSET Browsers /\ spoilt \subseteq spoilt'
        /\ q.hand.refresh = None /\ q.set = W!Keep
    BY <1>1, <1>2, <1>3, <1>6, WebRequestTypes, IdleRows
  <1>8. QED
    BY <1>1, <1>2, <1>3, <1>4, <1>5, <1>7, WebMoves

(* Every session of the user ends, or a token grows old, or nothing happens.  *)
LEMMA EndSessionsStep ==
  ASSUME W!Proper, W!WebInv, W!EndSessions
  PROVE  W!WebInv'
  <1>1. /\ token' = W!AllRevoked /\ spoilt' = Browsers
        /\ UNCHANGED <<stale, jar, req, signedIn, signedOut>>
    BY DEF W!EndSessions
  <1>2. /\ token' \in [Tokens -> W!TokenRows]
        /\ \A t \in Tokens : /\ token'[t].state = "none" <=> token[t].state = "none"
                             /\ token'[t].state # "live" /\ token'[t].owner = token[t].owner
    BY <1>1, WebAllRevoked
  <1>3. \A t : ~W!IsLive(t)' \/ t \notin Tokens
    BY <1>2 DEF W!IsLive
  <1>4. W!TypeOK'
    BY <1>1, <1>2 DEF W!WebInv, W!TypeOK, W!Unissued
  <1>5. W!RequestsAreProper'
    BY <1>1 DEF W!WebInv, W!RequestsAreProper, W!ProperIn
  <1>6. W!TokensAreHeldByOne'
    BY <1>1, <1>2 DEF W!WebInv, W!TokensAreHeldByOne, W!Holds
  <1>7. \A i \in Requests : req[i].set \in Tokens => req[i].browser \in Browsers
    BY WebRequestTypes, IdleRows
  <1>8. W!AnswersAreFresh'
    BY <1>1, <1>7 DEF W!WebInv, W!AnswersAreFresh
  <1>9. W!LiveTokensAreKept' /\ W!LogoutIsFinal'
    BY <1>1, <1>3 DEF W!LiveTokensAreKept, W!LogoutIsFinal, W!WebInv
  <1>10. W!LogoutsAreHeard'
    BY <1>1, <1>3 DEF W!LogoutsAreHeard, W!WebInv
  <1>11. W!SignedInGoOn' /\ W!SignedOutAreQuiet'
    BY <1>1 DEF W!SignedInGoOn, W!SignedOutAreQuiet, W!WebInv, W!TypeOK
  <1>12. QED
    BY <1>4, <1>5, <1>6, <1>8, <1>9, <1>10, <1>11 DEF W!WebInv

LEMMA AgeStep ==
  ASSUME W!Proper, W!WebInv, (\E t \in Tokens : W!Age(t)) \/ UNCHANGED W!vars
  PROVE  W!WebInv'
  <1>1. UNCHANGED <<token, jar, req, signedIn, signedOut, spoilt>>
    BY DEF W!Age, W!vars
  <1>2. \A i \in Requests : req[i].hand.access \in Tokens => req[i].browser \in Browsers
    BY WebRequestTypes, IdleRows
  <1>3. /\ stale' \subseteq Tokens \ W!Unissued
        /\ \A i \in Requests : req[i].set \in stale' => req[i].set \in stale
    <2>1. CASE UNCHANGED W!vars
      BY <2>1 DEF W!vars, W!WebInv, W!TypeOK
    <2>2. CASE \E t \in Tokens : W!Age(t)
      <3>1. PICK t \in Tokens : W!Age(t)
        BY <2>2
      <3>2. \E b \in Browsers : W!Holds(b, t)
        <4>1. CASE \E b \in Browsers : jar[b].access = t
          BY <4>1 DEF W!Holds, W!WebInv, W!RequestsAreProper
        <4>2. CASE \E i \in Requests : req[i].hand.access = t
          <5>1. PICK i \in Requests : req[i].hand.access = t
            BY <4>2
          <5>2. req[i].hand.refresh = t
            BY <5>1 DEF W!WebInv, W!RequestsAreProper, W!ProperIn
          <5>3. QED
            BY <1>2, <5>1, <5>2 DEF W!Holds
        <4>3. QED
          BY <3>1, <4>1, <4>2 DEF W!Age
      <3>3. token[t].state # "none"
        BY <3>2 DEF W!WebInv, W!TokensAreHeldByOne
      <3>4. QED
        BY <3>1, <3>3 DEF W!Age, W!Unissued, W!WebInv, W!TypeOK
    <2>3. QED
      BY <2>1, <2>2
  <1>4. W!TypeOK'
    BY <1>1, <1>3 DEF W!WebInv, W!TypeOK, W!Unissued
  <1>5. W!RequestsAreProper'
    BY <1>1, <1>3 DEF W!WebInv, W!RequestsAreProper, W!ProperIn
  <1>6. QED
    BY <1>1, <1>4, <1>5 DEF W!WebInv, W!TokensAreHeldByOne, W!Holds, W!AnswersAreFresh, W!LiveTokensAreKept,
       W!LogoutsAreHeard, W!SignedInGoOn, W!GoesOn, W!LogoutIsFinal, W!SignedOutAreQuiet, W!IsLive

(* A request is sent: what it may do is in its row, and the others of the     *)
(* browser have one beside them.                                             *)
LEMMA SentRequests ==
  ASSUME W!Proper, W!WebInv, NEW r \in Requests, W!Send(r)
  PROVE  \E b \in Browsers :
           /\ req' \in [Requests -> W!RequestRows]
           /\ req[r] = W!Idle /\ req'[r].browser = b /\ W!ProperIn(req'[r])
           /\ \A i \in Requests \ {r} : req[i].browser = b => req'[r].beside /\ req'[i].beside
           /\ \A i \in Requests \ {r} :
                /\ req[i].browser # b => req'[i] = req[i]
                /\ req'[i].kind = req[i].kind /\ req'[i].browser = req[i].browser
                /\ req'[i].phase = req[i].phase /\ req'[i].hand = req[i].hand /\ req'[i].set = req[i].set
                /\ ~req'[i].beside => ~req[i].beside
           /\ req'[r].hand \in {W!NoCookies, jar[b]}
           /\ req'[r].set = W!Keep \/ (req'[r].set = W!Clear /\ jar[b].refresh = None)
           /\ req'[r].kind = "logout" => req'[r].phase = "logout" /\ req'[r].hand = jar[b]
           /\ b \notin signedOut' \/ jar[b] # W!NoCookies \/
                (req'[r].phase = "answer" /\ req'[r].kind \notin {"login", "logout"})
           /\ signedOut' \subseteq signedOut
  <1>1. PICK b \in Browsers, k \in W!Kinds :
          /\ k = "login" => jar[b] = W!NoCookies
          /\ k = "logout" => jar[b] # W!NoCookies
          /\ \E phase \in W!First(k, jar[b]) :
              LET me == [W!Idle EXCEPT !.kind = k, !.browser = b, !.beside = W!UnderWay(b) # {}]
                  sent == CASE phase = "called" -> [me EXCEPT !.phase = "answer"]
                            [] phase = "no session" -> [me EXCEPT !.phase = "answer", !.set = W!Clear]
                            [] OTHER -> [me EXCEPT !.phase = phase, !.hand = jar[b]]
              IN  req' = [q \in Requests |->
                   IF q = r THEN sent
                   ELSE IF req[q].browser = b THEN [req[q] EXCEPT !.beside = TRUE] ELSE req[q]]
          /\ signedOut' = IF k = "login" THEN signedOut \ {b} ELSE signedOut
    BY Zenon DEF W!Send
  <1>2. PICK me : me = [W!Idle EXCEPT !.kind = k, !.browser = b, !.beside = W!UnderWay(b) # {}]
    OBVIOUS
  <1>3. PICK phase \in W!First(k, jar[b]) :
          LET sent == CASE phase = "called" -> [me EXCEPT !.phase = "answer"]
                        [] phase = "no session" -> [me EXCEPT !.phase = "answer", !.set = W!Clear]
                        [] OTHER -> [me EXCEPT !.phase = phase, !.hand = jar[b]]
          IN  req' = [q \in Requests |->
               IF q = r THEN sent
               ELSE IF req[q].browser = b THEN [req[q] EXCEPT !.beside = TRUE] ELSE req[q]]
    BY <1>1, <1>2, Zenon
  <1>4. PICK sent :
          sent = CASE phase = "called" -> [me EXCEPT !.phase = "answer"]
                   [] phase = "no session" -> [me EXCEPT !.phase = "answer", !.set = W!Clear]
                   [] OTHER -> [me EXCEPT !.phase = phase, !.hand = jar[b]]
    OBVIOUS
  <1>5. req' = [q \in Requests |->
               IF q = r THEN sent
               ELSE IF req[q].browser = b THEN [req[q] EXCEPT !.beside = TRUE] ELSE req[q]]
    BY <1>3, <1>4, Zenon
  <1>6. jar[b] \in W!CookieRows /\ jar[b].access = jar[b].refresh
    BY WebRequestTypes DEF W!WebInv, W!RequestsAreProper
  <1>7. /\ me \in W!RequestRows /\ me.kind = k /\ me.browser = b /\ me.phase = "idle"
        /\ me.hand = W!NoCookies /\ me.set = W!Keep /\ (W!UnderWay(b) # {} => me.beside)
    <2>1. (W!UnderWay(b) # {}) \in BOOLEAN
      OBVIOUS
    <2>2. \A f \in BOOLEAN : LET row == [W!Idle EXCEPT !.kind = k, !.browser = b, !.beside = f]
                             IN  /\ row \in W!RequestRows /\ row.kind = k /\ row.browser = b
                                 /\ row.phase = "idle" /\ row.hand = W!NoCookies /\ row.set = W!Keep
                                 /\ row.beside = f
      BY IdleRows DEF W!RequestRows
    <2>3. QED
      BY <1>2, <2>1, <2>2, Zenon
  <1>8. /\ phase \in {"login", "logout", "render", "middleware refresh", "no session", "called", "call refresh"}
        /\ phase = "no session" => jar[b].refresh = None /\ k \in {"page", "action"}
        /\ phase = "called" => k = "call"
        /\ phase = "login" => k = "login"
        /\ phase = "logout" <=> k = "logout"
        /\ k = "login" => phase = "login"
        /\ jar[b].refresh = None => phase \in {"login", "logout", "no session", "called"}
    BY <1>3, <1>6, IdleRows DEF W!First, W!IsFresh, W!Kinds
  <1>9. /\ sent \in W!RequestRows /\ sent.kind = k /\ sent.browser = b /\ sent.beside = me.beside
        /\ sent.phase = IF phase \in {"called", "no session"} THEN "answer" ELSE phase
        /\ sent.hand = IF phase \in {"called", "no session"} THEN W!NoCookies ELSE jar[b]
        /\ sent.set = IF phase = "no session" THEN W!Clear ELSE W!Keep
    <2>1. CASE phase = "called"
      BY <1>4, <1>7, <1>8, <2>1 DEF W!RequestRows
    <2>2. CASE phase = "no session"
      BY <1>4, <1>7, <1>8, <2>2 DEF W!RequestRows
    <2>3. CASE phase \notin {"called", "no session"}
      BY <1>4, <1>6, <1>7, <1>8, <2>3 DEF W!RequestRows, W!Refreshing
    <2>4. QED
      BY <2>1, <2>2, <2>3
  <1>10. /\ req' \in [Requests -> W!RequestRows] /\ req'[r] = sent
         /\ \A i \in Requests \ {r} :
              /\ req[i].browser # b => req'[i] = req[i]
              /\ req'[i].kind = req[i].kind /\ req'[i].browser = req[i].browser
              /\ req'[i].phase = req[i].phase /\ req'[i].hand = req[i].hand /\ req'[i].set = req[i].set
              /\ req[i].browser = b => req'[i].beside
              /\ ~req'[i].beside => ~req[i].beside
    <2>1. \A i \in Requests :
            LET row == [req[i] EXCEPT !.beside = TRUE]
            IN  /\ row \in W!RequestRows /\ row.kind = req[i].kind /\ row.browser = req[i].browser
                /\ row.phase = req[i].phase /\ row.hand = req[i].hand /\ row.set = req[i].set
                /\ row.beside
      BY WebRequestTypes DEF W!RequestRows
    <2>2. \A i \in Requests : req[i] \in W!RequestRows
      BY WebRequestTypes
    <2>3. QED
      BY <1>5, <1>9, <2>1, <2>2
  <1>11. req[r] = W!Idle
    BY DEF W!Send
  <1>12. W!ProperIn(sent)
    <2>1. /\ sent.hand.access = sent.hand.refresh /\ sent.set \notin Tokens
          /\ sent.phase \in {"render", "logout"} \cup W!Refreshing => sent.hand.refresh \in Tokens
      <3>1. sent.hand.access = sent.hand.refresh /\ sent.set \notin Tokens
        BY <1>6, <1>9, IdleRows
      <3>2. jar[b].refresh \in Tokens \cup {None}
        BY <1>6 DEF W!CookieRows
      <3>3. ASSUME sent.phase \in {"render", "logout"} \cup W!Refreshing PROVE sent.hand.refresh \in Tokens
        <4>1. phase \notin {"called", "no session"} /\ sent.hand = jar[b] /\ phase # "login"
          BY <1>8, <1>9, <3>3 DEF W!Refreshing
        <4>2. jar[b].refresh # None
          <5>1. CASE phase = "logout"
            <6>1. jar[b] # W!NoCookies
              BY <1>1, <1>8, <5>1
            <6>2. QED
              BY <1>6, <6>1, IdleRows DEF W!CookieRows
          <5>2. CASE phase # "logout"
            BY <1>8, <4>1, <5>2
          <5>3. QED
            BY <5>1, <5>2
        <4>3. QED
          BY <3>2, <4>1, <4>2
      <3>4. QED
        BY <3>1, <3>3
    <2>2. /\ sent.browser # None /\ sent.phase # "idle"
          /\ sent.kind = "login" => sent.phase = "login"
          /\ sent.kind = "logout" => sent.phase = "logout"
          /\ sent.phase \in {"login", "logout"} => sent.kind = sent.phase
      BY <1>8, <1>9, IdleRows
    <2>3. sent.phase \in {"login", "logout"} \cup W!Refreshing => sent.set = W!Keep
      BY <1>8, <1>9 DEF W!Refreshing
    <2>4. /\ sent.phase = "render" => sent.set = W!Keep
          /\ sent.phase = "answer" => sent.hand = W!NoCookies
      BY <1>8, <1>9
    <2>5. sent.set \notin stale
      BY <2>1, WebRequestTypes
    <2>6. QED
      BY <2>1, <2>2, <2>3, <2>4, <2>5 DEF W!ProperIn
  <1>13. \A i \in Requests \ {r} : req[i].browser = b => sent.beside
    BY <1>7, <1>9 DEF W!UnderWay
  <1>14. b \notin signedOut' \/ jar[b] # W!NoCookies \/
           (sent.phase = "answer" /\ sent.kind \notin {"login", "logout"})
    BY <1>1, <1>8, <1>9, IdleRows
  <1>15. sent.set = W!Keep \/ (sent.set = W!Clear /\ jar[b].refresh = None)
    BY <1>8, <1>9
  <1>16. sent.kind = "logout" => sent.phase = "logout" /\ sent.hand = jar[b]
    BY <1>8, <1>9
  <1>17. signedOut' \subseteq signedOut
    BY <1>1
  <1>18. sent.hand \in {W!NoCookies, jar[b]} /\ sent.browser = b
    BY <1>9
  <1>19. \A i \in Requests \ {r} : req[i].browser = b => req'[r].beside /\ req'[i].beside
    BY <1>10, <1>13
  <1>20. QED
    BY <1>10, <1>11, <1>12, <1>14, <1>15, <1>16, <1>17, <1>18, <1>19

LEMMA WebSendStep ==
  ASSUME W!Proper, W!WebInv, NEW r \in Requests, W!Send(r)
  PROVE  W!WebInv'
  <1>1. PICK b \in Browsers :
           /\ req' \in [Requests -> W!RequestRows]
           /\ req[r] = W!Idle /\ req'[r].browser = b /\ W!ProperIn(req'[r])
           /\ \A i \in Requests \ {r} : req[i].browser = b => req'[r].beside /\ req'[i].beside
           /\ \A i \in Requests \ {r} :
                /\ req[i].browser # b => req'[i] = req[i]
                /\ req'[i].kind = req[i].kind /\ req'[i].browser = req[i].browser
                /\ req'[i].phase = req[i].phase /\ req'[i].hand = req[i].hand /\ req'[i].set = req[i].set
                /\ ~req'[i].beside => ~req[i].beside
           /\ req'[r].hand \in {W!NoCookies, jar[b]}
           /\ req'[r].set = W!Keep \/ (req'[r].set = W!Clear /\ jar[b].refresh = None)
           /\ req'[r].kind = "logout" => req'[r].phase = "logout" /\ req'[r].hand = jar[b]
           /\ b \notin signedOut' \/ jar[b] # W!NoCookies \/
                (req'[r].phase = "answer" /\ req'[r].kind \notin {"login", "logout"})
           /\ signedOut' \subseteq signedOut
    BY SentRequests
  <1>2. UNCHANGED <<token, stale, jar, signedIn, spoilt>>
    BY DEF W!Send
  <1>3. req'[r].hand.refresh \in {None, jar[b].refresh} /\ req'[r].set \notin Tokens
    BY <1>1, IdleRows
  <1>4. W!TypeOK'
    BY <1>1, <1>2 DEF W!WebInv, W!TypeOK, W!Unissued
  <1>5. W!RequestsAreProper'
    <2>1. ASSUME NEW i \in Requests PROVE W!ProperIn(req[i])'
      <3>1. CASE i = r
        BY <1>1, <1>2, <3>1 DEF W!ProperIn
      <3>2. CASE i # r /\ req[i].browser # b
        BY <1>1, <1>2, <3>2 DEF W!ProperIn, W!WebInv, W!RequestsAreProper
      <3>3. CASE i # r /\ req[i].browser = b
        <4>1. W!ProperIn(req[i]) /\ req[i].phase # "idle" /\ b # None
          BY <3>3, WebRequestTypes, IdleRows DEF W!ProperIn
        <4>2. QED
          BY <1>1, <1>2, <3>3, <4>1 DEF W!ProperIn
      <3>4. QED
        BY <3>1, <3>2, <3>3
    <2>2. ASSUME NEW i \in Requests, NEW j \in Requests, i # j,
                 req'[i].browser = req'[j].browser, req'[i] # W!Idle
          PROVE  req'[i].beside
      <3>1. CASE i = r \/ j = r
        BY <1>1, <2>2, <3>1
      <3>2. CASE i # r /\ j # r /\ req[i].browser = b
        BY <1>1, <3>2
      <3>3. CASE i # r /\ j # r /\ req[i].browser # b
        BY <1>1, <2>2, <3>3 DEF W!WebInv, W!RequestsAreProper
      <3>4. QED
        BY <3>1, <3>2, <3>3
    <2>3. QED
      BY <1>2, <2>1, <2>2 DEF W!WebInv, W!RequestsAreProper
  <1>6. \A c \in Browsers, t \in Tokens : W!Holds(c, t)' => W!Holds(c, t)
    BY <1>1, <1>2, <1>3, IdleRows DEF W!Holds
  <1>7. W!TokensAreHeldByOne'
    BY <1>2, <1>6 DEF W!WebInv, W!TokensAreHeldByOne
  <1>8. W!AnswersAreFresh'
    <2> SUFFICES ASSUME NEW i \in Requests, req'[i].set \in Tokens
                 PROVE  /\ \A c \in Browsers : jar'[c].refresh # req'[i].set
                        /\ \A j \in Requests \ {i} : req'[i].set \notin {req'[j].hand.refresh, req'[j].set}
                        /\ W!IsLive(req[i].set) \/ req[i].browser \in spoilt
      BY <1>1, <1>2, <1>3 DEF W!AnswersAreFresh, W!IsLive
    <2>1. i # r /\ req'[i].set = req[i].set
      BY <1>1, <1>3
    <2>2. /\ \A c \in Browsers : jar[c].refresh # req[i].set
          /\ \A j \in Requests \ {i} : req[i].set \notin {req[j].hand.refresh, req[j].set}
          /\ W!IsLive(req[i].set) \/ req[i].browser \in spoilt
      BY <2>1 DEF W!WebInv, W!AnswersAreFresh
    <2>3. QED
      BY <1>1, <1>2, <1>3, <2>1, <2>2, IdleRows
  <1>9. W!LiveTokensAreKept'
    BY <1>1, <1>2, <1>3, IdleRows DEF W!WebInv, W!LiveTokensAreKept, W!IsLive
  <1>10. W!LogoutsAreHeard'
    BY <1>1, <1>2, IdleRows DEF W!WebInv, W!LogoutsAreHeard, W!IsLive
  <1>11. W!SignedInGoOn'
    <2> SUFFICES ASSUME NEW c \in Browsers, c \in signedIn, c \notin spoilt
                 PROVE  W!GoesOn(c)'
      BY <1>2 DEF W!SignedInGoOn, W!WebInv, W!TypeOK
    <2>1. W!GoesOn(c)
      BY DEF W!WebInv, W!SignedInGoOn
    <2>2. QED
      BY <1>1, <1>2, <2>1, IdleRows DEF W!GoesOn, W!IsLive
  <1>12. W!LogoutIsFinal'
    BY <1>1, <1>2 DEF W!WebInv, W!LogoutIsFinal, W!IsLive
  <1>13. W!SignedOutAreQuiet'
    <2> SUFFICES ASSUME NEW c \in signedOut', NEW i \in Requests, req'[i].browser = c
                 PROVE  /\ req'[i].phase = "answer" /\ req'[i].set \in {W!Keep, W!Clear}
                        /\ req'[i].kind \notin {"login", "logout"}
      BY DEF W!SignedOutAreQuiet
    <2>1. CASE i = r
      BY <1>1, <2>1 DEF W!WebInv, W!LogoutIsFinal
    <2>2. CASE i # r
      BY <1>1, <2>2 DEF W!WebInv, W!SignedOutAreQuiet
    <2>3. QED
      BY <2>1, <2>2
  <1>14. QED
    BY <1>4, <1>5, <1>7, <1>8, <1>9, <1>10, <1>11, <1>12, <1>13 DEF W!WebInv

(* An answer comes: what the browser then holds, and who is its owner.        *)
LEMMA LandedAnswer ==
  ASSUME W!Proper, W!WebInv, NEW r \in Requests, W!Land(r)
  PROVE  \E b \in Browsers :
           /\ req[r].phase = "answer" /\ req[r].browser = b
           /\ req' = [req EXCEPT ![r] = W!Idle] /\ stale' = stale
           /\ jar' \in [Browsers -> W!CookieRows] /\ jar'[b].access = jar'[b].refresh
           /\ \A c \in Browsers \ {b} : jar'[c] = jar[c]
           /\ req[r].set = W!Keep => jar'[b] = jar[b]
           /\ req[r].set = W!Clear => jar'[b] = W!NoCookies
           /\ req[r].set \in Tokens => jar'[b].refresh = req[r].set
           /\ token' \in [Tokens -> W!TokenRows]
           /\ \A t \in Tokens : /\ token'[t].state = token[t].state
                                /\ token'[t].owner \in {token[t].owner, None}
                                /\ t = jar[b].refresh /\ t # jar'[b].refresh =>
                                     token'[t].owner = None \/ (req[r].kind = "logout" /\ ~req[r].beside)
           /\ signedIn' = IF req[r].kind = "login" THEN signedIn \cup {b}
                          ELSE IF req[r].kind = "logout" THEN signedIn \ {b} ELSE signedIn
           /\ signedOut' = IF req[r].kind = "logout" /\ ~req[r].beside THEN signedOut \cup {b} ELSE signedOut
           /\ spoilt' = IF W!Quiet(b) /\ W!IsLive(jar'[b].refresh) THEN spoilt \ {b}
                        ELSE IF req[r].kind = "login" /\ req[r].beside THEN spoilt \cup {b} ELSE spoilt
  <1>1. req[r].phase = "answer" /\ req[r].browser \in Browsers
    BY WebRequestTypes, IdleRows DEF W!Land
  <1>2. PICK b \in Browsers : b = req[r].browser
    BY <1>1
  <1>3. PICK set \in Tokens \cup {W!Keep, W!Clear} : set = req[r].set
    BY WebRequestTypes
  <1>4. PICK new : new = W!Cookies(set, jar[b])
    OBVIOUS
  <1>5. /\ req' = [req EXCEPT ![r] = W!Idle] /\ stale' = stale
        /\ jar' = [jar EXCEPT ![b] = new]
        /\ token' = IF req[r].kind = "logout" /\ ~req[r].beside THEN token
                    ELSE W!Forgotten(jar[b].refresh, jar'[b].refresh)
        /\ signedIn' = IF req[r].kind = "login" THEN signedIn \cup {b}
                       ELSE IF req[r].kind = "logout" THEN signedIn \ {b} ELSE signedIn
        /\ signedOut' = IF req[r].kind = "logout" /\ ~req[r].beside THEN signedOut \cup {b} ELSE signedOut
        /\ spoilt' = IF W!Quiet(b) /\ W!IsLive(jar'[b].refresh) THEN spoilt \ {b}
                     ELSE IF req[r].kind = "login" /\ req[r].beside THEN spoilt \cup {b} ELSE spoilt
    BY <1>2, <1>3, <1>4 DEF W!Land
  <1>6. /\ jar \in [Browsers -> W!CookieRows] /\ jar[b] \in W!CookieRows /\ jar[b].access = jar[b].refresh
    BY WebRequestTypes DEF W!WebInv, W!RequestsAreProper
  <1>7. /\ new \in W!CookieRows /\ new.access = new.refresh
        /\ set = W!Keep => new = jar[b]
        /\ set = W!Clear => new = W!NoCookies
        /\ set \in Tokens => new.refresh = set
    BY <1>4, <1>6, IdleRows DEF W!Cookies, W!CookieRows
  <1>8. jar'[b] = new /\ jar' \in [Browsers -> W!CookieRows] /\ \A c \in Browsers \ {b} : jar'[c] = jar[c]
    BY <1>5, <1>6, <1>7
  <1>9. PICK h : h = jar[b].refresh
    OBVIOUS
  <1>10. PICK l : l = new.refresh
    OBVIOUS
  <1>11. W!Forgotten(jar[b].refresh, jar'[b].refresh) =
           [t \in Tokens |-> IF t = h /\ t # l THEN [token[t] EXCEPT !.owner = None] ELSE token[t]]
    BY <1>8, <1>9, <1>10 DEF W!Forgotten
  <1>12. \A t \in Tokens : /\ [token[t] EXCEPT !.owner = None] \in W!TokenRows
                           /\ [token[t] EXCEPT !.owner = None].state = token[t].state
                           /\ [token[t] EXCEPT !.owner = None].owner = None
    BY WebRequestTypes DEF W!TokenRows
  <1>13. /\ token' \in [Tokens -> W!TokenRows]
         /\ \A t \in Tokens : /\ token'[t].state = token[t].state
                              /\ token'[t].owner \in {token[t].owner, None}
                              /\ t = h /\ t # l =>
                                   token'[t].owner = None \/ (req[r].kind = "logout" /\ ~req[r].beside)
    <2>1. CASE req[r].kind = "logout" /\ ~req[r].beside
      BY <1>5, <2>1, WebRequestTypes
    <2>2. CASE ~(req[r].kind = "logout" /\ ~req[r].beside)
      <3>1. token' = [t \in Tokens |-> IF t = h /\ t # l THEN [token[t] EXCEPT !.owner = None] ELSE token[t]]
        BY <1>5, <1>11, <2>2
      <3>2. \A t \in Tokens : token[t] \in W!TokenRows
        BY WebRequestTypes
      <3>3. \A t \in Tokens : token'[t] = IF t = h /\ t # l THEN [token[t] EXCEPT !.owner = None] ELSE token[t]
        BY <3>1
      <3>4. token' \in [Tokens -> W!TokenRows]
        BY <1>12, <3>1, <3>2
      <3>5. QED
        BY <1>12, <3>3, <3>4
    <2>3. QED
      BY <2>1, <2>2
  <1>14. QED
    BY <1>1, <1>2, <1>3, <1>5, <1>7, <1>8, <1>9, <1>10, <1>13

LEMMA LandStep ==
  ASSUME W!Proper, W!WebInv, NEW r \in Requests, W!Land(r)
  PROVE  W!WebInv'
  <1>1. PICK b \in Browsers :
           /\ req[r].phase = "answer" /\ req[r].browser = b
           /\ req' = [req EXCEPT ![r] = W!Idle] /\ stale' = stale
           /\ jar' \in [Browsers -> W!CookieRows] /\ jar'[b].access = jar'[b].refresh
           /\ \A c \in Browsers \ {b} : jar'[c] = jar[c]
           /\ req[r].set = W!Keep => jar'[b] = jar[b]
           /\ req[r].set = W!Clear => jar'[b] = W!NoCookies
           /\ req[r].set \in Tokens => jar'[b].refresh = req[r].set
           /\ token' \in [Tokens -> W!TokenRows]
           /\ \A t \in Tokens : /\ token'[t].state = token[t].state
                                /\ token'[t].owner \in {token[t].owner, None}
                                /\ t = jar[b].refresh /\ t # jar'[b].refresh =>
                                     token'[t].owner = None \/ (req[r].kind = "logout" /\ ~req[r].beside)
           /\ signedIn' = IF req[r].kind = "login" THEN signedIn \cup {b}
                          ELSE IF req[r].kind = "logout" THEN signedIn \ {b} ELSE signedIn
           /\ signedOut' = IF req[r].kind = "logout" /\ ~req[r].beside THEN signedOut \cup {b} ELSE signedOut
           /\ spoilt' = IF W!Quiet(b) /\ W!IsLive(jar'[b].refresh) THEN spoilt \ {b}
                        ELSE IF req[r].kind = "login" /\ req[r].beside THEN spoilt \cup {b} ELSE spoilt
    BY LandedAnswer
  <1>2. /\ req'[r] = W!Idle /\ \A i \in Requests \ {r} : req'[i] = req[i]
        /\ req' \in [Requests -> W!RequestRows]
    BY <1>1, WebRequestTypes, IdleRows
  <1>3. /\ signedIn \in SUBSET Browsers /\ signedOut \in SUBSET Browsers /\ spoilt \in SUBSET Browsers
        /\ req[r].set \in Tokens \cup {W!Keep, W!Clear}
        /\ \A i \in Requests : W!ProperIn(req[i])
        /\ \A c \in Browsers : jar[c].access = jar[c].refresh
    BY WebRequestTypes DEF W!WebInv, W!TypeOK, W!RequestsAreProper
  <1>4. \A i \in Requests \ {r} : req[i].browser = b => req[r].beside /\ req[i].beside
    BY <1>1, IdleRows DEF W!WebInv, W!RequestsAreProper
  <1>5. None \notin Tokens /\ None \notin Browsers
    BY IdleRows
  <1>6. \A t \in Tokens : W!IsLive(t)' <=> W!IsLive(t)
    BY <1>1 DEF W!IsLive
  <1>7. W!TypeOK'
    BY <1>1, <1>2, <1>3 DEF W!WebInv, W!TypeOK, W!Unissued
  <1>8. W!RequestsAreProper'
    <2>1. W!ProperIn(W!Idle)
      BY IdleRows, WebRequestTypes DEF W!ProperIn, W!Kinds, W!Refreshing
    <2>2. \A i \in Requests : W!ProperIn(req[i])'
      BY <1>1, <1>2, <1>3, <2>1 DEF W!ProperIn
    <2>3. ASSUME NEW i \in Requests, NEW j \in Requests, i # j,
                 req'[i].browser = req'[j].browser, req'[i] # W!Idle
          PROVE  req'[i].beside
      BY <1>2, <1>3, <2>3, IdleRows DEF W!ProperIn, W!WebInv, W!RequestsAreProper
    <2>4. \A c \in Browsers : jar'[c].access = jar'[c].refresh
      BY <1>1, <1>3
    <2>5. QED
      BY <2>2, <2>3, <2>4 DEF W!RequestsAreProper
  <1>9. \A c \in Browsers, t \in Tokens : W!Holds(c, t)' => W!Holds(c, t)
    <2> SUFFICES ASSUME NEW c \in Browsers, NEW t \in Tokens, W!Holds(c, t)'
                 PROVE  W!Holds(c, t)
      OBVIOUS
    <2>1. CASE \E i \in Requests : req'[i].browser = c /\ t \in {req'[i].hand.refresh, req'[i].set}
      BY <1>2, <2>1, IdleRows DEF W!Holds
    <2>2. CASE jar'[c].refresh = t
      BY <1>1, <1>3, <2>2, IdleRows DEF W!Holds
    <2>3. QED
      BY <2>1, <2>2 DEF W!Holds
  <1>10. W!TokensAreHeldByOne'
    BY <1>1, <1>9 DEF W!WebInv, W!TokensAreHeldByOne
  <1>11. W!AnswersAreFresh'
    <2> SUFFICES ASSUME NEW i \in Requests, req'[i].set \in Tokens
                 PROVE  /\ \A c \in Browsers : jar'[c].refresh # req'[i].set
                        /\ \A j \in Requests \ {i} : req'[i].set \notin {req'[j].hand.refresh, req'[j].set}
                        /\ W!IsLive(req[i].set) \/ req[i].browser \in spoilt'
      BY <1>2, <1>6, IdleRows DEF W!AnswersAreFresh, W!IsLive
    <2>1. i # r /\ req'[i] = req[i]
      BY <1>2, IdleRows
    <2>2. /\ \A c \in Browsers : jar[c].refresh # req[i].set
          /\ \A j \in Requests \ {i} : req[i].set \notin {req[j].hand.refresh, req[j].set}
          /\ W!IsLive(req[i].set) \/ req[i].browser \in spoilt
      BY <2>1 DEF W!WebInv, W!AnswersAreFresh
    <2>3. \A c \in Browsers : jar'[c].refresh # req[i].set
      BY <1>1, <1>3, <2>1, <2>2, IdleRows
    <2>4. W!IsLive(req[i].set) \/ req[i].browser \in spoilt'
      BY <1>1, <2>1, <2>2 DEF W!Quiet
    <2>5. QED
      BY <1>2, <2>1, <2>2, <2>3, <2>4, IdleRows
  <1>12. W!LiveTokensAreKept'
    <2> SUFFICES ASSUME NEW t \in Tokens, NEW c \in Browsers, W!IsLive(t), token'[t].owner = c
                 PROVE  jar'[c].refresh = t \/ \E i \in Requests : req'[i].browser = c /\ req'[i].set = t
      BY <1>6 DEF W!LiveTokensAreKept
    <2>1. token[t].owner = c
      BY <1>1, IdleRows
    <2>2. CASE jar[c].refresh = t
      <3>1. CASE c = b /\ jar'[b].refresh # t
        <4>1. req[r].kind = "logout" /\ ~req[r].beside
          BY <1>1, <2>2, <3>1, IdleRows
        <4>2. QED
          BY <1>1, <2>1, <2>2, <3>1, <4>1 DEF W!WebInv, W!LogoutsAreHeard
      <3>2. QED
        BY <1>1, <2>2, <3>1
    <2>3. CASE \E i \in Requests : req[i].browser = c /\ req[i].set = t
      BY <1>1, <1>2, <2>3
    <2>4. QED
      BY <2>1, <2>2, <2>3 DEF W!WebInv, W!LiveTokensAreKept
  <1>13. W!LogoutsAreHeard'
    <2> SUFFICES ASSUME NEW i \in Requests, NEW c \in Browsers, NEW t \in Tokens,
                        req'[i].kind = "logout", req'[i].browser = c, ~req'[i].beside, jar'[c].refresh = t
                 PROVE  IF req'[i].phase = "logout" THEN req'[i].hand.refresh = t
                        ELSE ~(W!IsLive(t) /\ token'[t].owner = c)
      BY <1>6 DEF W!LogoutsAreHeard
    <2>1. i # r /\ req'[i] = req[i] /\ c # b
      BY <1>2, <1>4, IdleRows
    <2>2. IF req[i].phase = "logout" THEN req[i].hand.refresh = t ELSE ~(W!IsLive(t) /\ token[t].owner = c)
      BY <1>1, <2>1 DEF W!WebInv, W!LogoutsAreHeard
    <2>3. token'[t].owner = c => token[t].owner = c
      BY <1>1, IdleRows
    <2>4. QED
      BY <2>1, <2>2, <2>3
  <1>14. W!SignedInGoOn'
    <2> SUFFICES ASSUME NEW c \in Browsers, c \in signedIn', c \notin spoilt'
                 PROVE  W!GoesOn(c)'
      BY <1>1, <1>3 DEF W!SignedInGoOn
    <2>1. CASE c # b
      <3>1. W!GoesOn(c)
        BY <1>1, <2>1 DEF W!WebInv, W!SignedInGoOn
      <3>2. jar'[c] = jar[c] /\ \A i \in Requests : req'[i].browser = c <=> req[i].browser = c
        BY <1>1, <1>2, <2>1, IdleRows
      <3>3. \A i \in Requests : req[i].browser = c => req'[i] = req[i]
        BY <1>1, <1>2, <2>1
      <3>4. W!IsLive(jar[c].refresh) => W!IsLive(jar[c].refresh)'
        <4>1. jar[c] \in W!CookieRows
          BY WebRequestTypes
        <4>2. QED
          BY <1>6, <3>2, <4>1 DEF W!IsLive, W!CookieRows
      <3>5. QED
        BY <3>1, <3>2, <3>3, <3>4 DEF W!GoesOn
    <2>2. CASE c = b /\ W!Quiet(b) /\ W!IsLive(jar'[b].refresh)
      <3>1. jar'[b].refresh \in Tokens
        <4>1. jar'[b] \in W!CookieRows
          BY <1>1
        <4>2. QED
          BY <2>2, <4>1 DEF W!IsLive, W!CookieRows
      <3>2. W!IsLive(jar[b].refresh)'
        BY <1>1, <2>2, <3>1 DEF W!IsLive
      <3>3. QED
        BY <1>5, <2>2, <3>1, <3>2 DEF W!GoesOn, W!Quiet
    <2>3. CASE c = b /\ ~(W!Quiet(b) /\ W!IsLive(jar'[b].refresh))
      <3>1. b \notin spoilt /\ ~(req[r].kind = "login" /\ req[r].beside) /\ req[r].kind # "logout"
        BY <1>1, <2>3
      <3>2. req[r].set \in Tokens => W!IsLive(req[r].set) /\ jar'[b].refresh = req[r].set
        BY <1>1, <3>1 DEF W!WebInv, W!AnswersAreFresh
      <3>3. req[r].kind # "login"
        <4>1. SUFFICES ASSUME req[r].kind = "login" PROVE FALSE
          OBVIOUS
        <4>2. req[r].set \in Tokens
          BY <1>1, <1>3, <4>1 DEF W!ProperIn
        <4>3. W!Quiet(b)
          BY <1>1, <1>2, <1>4, <1>5, <3>1, <4>1, IdleRows DEF W!Quiet
        <4>4. QED
          BY <2>3, <3>2, <4>2, <4>3
      <3>4. W!GoesOn(b)
        BY <1>1, <2>3, <3>1, <3>3 DEF W!WebInv, W!SignedInGoOn
      <3>5. req[r].set # W!Clear
        BY <1>1, <3>1, <3>4 DEF W!GoesOn
      <3>6. \A i \in Requests : req'[i].browser = b /\ req'[i].set = W!Clear => req'[i].kind = "logout"
        BY <1>2, <1>5, <3>4, IdleRows DEF W!GoesOn
      <3>7. CASE req[r].set \in Tokens
        <4>1. W!IsLive(jar[b].refresh)'
          BY <1>1, <3>2, <3>7 DEF W!IsLive
        <4>2. QED
          BY <1>5, <2>3, <3>2, <3>6, <3>7, <4>1 DEF W!GoesOn
      <3>8. CASE req[r].set = W!Keep
        <4>1. jar'[b] = jar[b] /\ req[r].set \notin Tokens
          BY <1>1, <3>8, IdleRows
        <4>2. W!IsLive(jar[b].refresh) => W!IsLive(jar[b].refresh)'
          <5>1. jar[b] \in W!CookieRows
            BY WebRequestTypes
          <5>2. QED
            BY <1>6, <4>1, <5>1 DEF W!IsLive, W!CookieRows
        <4>3. ASSUME NEW i \in Requests, req[i].browser = b,
                     req[i].set \in Tokens \/ (req[i].kind = "logout" /\ req[i].phase = "answer")
              PROVE  req'[i] = req[i]
          BY <1>2, <3>1, <4>1, <4>3
        <4>4. QED
          BY <2>3, <3>4, <3>6, <4>1, <4>2, <4>3 DEF W!GoesOn
      <3>9. QED
        BY <1>3, <3>5, <3>7, <3>8
    <2>4. QED
      BY <2>1, <2>2, <2>3
  <1>15. W!LogoutIsFinal'
    <2> SUFFICES ASSUME NEW c \in signedOut'
                 PROVE  /\ jar'[c] = W!NoCookies
                        /\ \A t \in Tokens : token'[t].owner = c => ~W!IsLive(t)
      BY <1>6 DEF W!LogoutIsFinal
    <2>1. \A t \in Tokens : token'[t].owner = c /\ c \in Browsers => token[t].owner = c
      BY <1>1, <1>5
    <2>2. c \in Browsers
      BY <1>1, <1>3
    <2>3. CASE c \in signedOut
      <3>1. jar[c] = W!NoCookies /\ \A t \in Tokens : token[t].owner = c => ~W!IsLive(t)
        BY <2>3 DEF W!WebInv, W!LogoutIsFinal
      <3>2. c = b => req[r].set \in {W!Keep, W!Clear}
        BY <1>1, <2>3 DEF W!WebInv, W!SignedOutAreQuiet
      <3>3. QED
        BY <1>1, <2>1, <2>2, <3>1, <3>2
    <2>4. CASE c \notin signedOut
      <3>1. c = b /\ req[r].kind = "logout" /\ ~req[r].beside
        BY <1>1, <2>4
      <3>2. req[r].set = W!Clear
        BY <1>1, <1>3, <3>1 DEF W!ProperIn
      <3>3. ASSUME NEW t \in Tokens, token'[t].owner = c, W!IsLive(t) PROVE FALSE
        <4>1. token[t].owner = b
          BY <2>1, <2>2, <3>1, <3>3
        <4>2. CASE jar[b].refresh = t
          BY <1>1, <3>1, <3>3, <4>1, <4>2 DEF W!WebInv, W!LogoutsAreHeard
        <4>3. CASE \E i \in Requests : req[i].browser = b /\ req[i].set = t
          BY <1>4, <3>1, <3>2, <4>3, IdleRows
        <4>4. QED
          BY <3>3, <4>1, <4>2, <4>3 DEF W!WebInv, W!LiveTokensAreKept
      <3>4. QED
        BY <1>1, <3>1, <3>2, <3>3
    <2>5. QED
      BY <2>3, <2>4
  <1>16. W!SignedOutAreQuiet'
    <2> SUFFICES ASSUME NEW c \in signedOut', NEW i \in Requests, req'[i].browser = c
                 PROVE  /\ req'[i].phase = "answer" /\ req'[i].set \in {W!Keep, W!Clear}
                        /\ req'[i].kind \notin {"login", "logout"}
      BY DEF W!SignedOutAreQuiet
    <2>1. c \in Browsers
      BY <1>1, <1>3
    <2>2. i # r /\ req'[i] = req[i]
      BY <1>2, <1>5, <2>1, IdleRows
    <2>3. c \in signedOut
      BY <1>1, <1>4, <2>2
    <2>4. QED
      BY <2>2, <2>3 DEF W!WebInv, W!SignedOutAreQuiet
  <1>17. QED
    BY <1>7, <1>8, <1>10, <1>11, <1>12, <1>13, <1>14, <1>15, <1>16 DEF W!WebInv

(* Each step keeps the inductive invariant: whose the tokens  *)
(* are, and what the requests under way will do to the cookies               *)
(* (middleware.ts, lib/auth.ts, rotateRefreshToken).                         *)
LEMMA WebSteps ==
  ASSUME W!Proper
  PROVE  W!WebInv /\ [W!Next]_W!vars => W!WebInv'
  <1> SUFFICES ASSUME W!WebInv, [W!Next]_W!vars PROVE W!WebInv'
    OBVIOUS
  <1>1. ASSUME NEW r \in Requests,
               \/ W!Send(r) \/ W!Land(r) \/ W!Miss(r) \/ W!RequireToken(r) \/ W!Refresh(r)
               \/ W!RefreshFails(r) \/ W!Logout(r) \/ W!Login(r)
        PROVE  W!WebInv'
    BY <1>1, WebSendStep, LandStep, MissStep, RequireTokenStep, RefreshTokenStep, RefreshFailsStep,
       LogoutStep, WebLoginStep
  <1>2. QED
    BY <1>1, EndSessionsStep, AgeStep DEF W!Next

----------------------------------------------------------------------------
(* The lock on logins.                                                     *)

LEMMA KeysHaveLimits ==
  ASSUME L!Proper
  PROVE  \A k \in L!Keys : L!Limit(k) \in Nat
  BY DEF L!Proper, L!Limit

LEMMA InitLockInv ==
  ASSUME L!Proper
  PROVE  L!Init => L!LockInv
  <1> SUFFICES ASSUME L!Init PROVE L!LockInv
    OBVIOUS
  <1>1. L!TypeOK
    BY KeysHaveLimits DEF L!Init, L!TypeOK, L!Phases
  <1>2. L!TriesAreLimited
    BY DEF L!Init, L!TriesAreLimited
  <1>3. QED
    BY <1>1, <1>2 DEF L!LockInv

(* How many requests try a password, and what a request's leaving does to it. *)
LEMMA TryingIsCounted ==
  ASSUME L!Proper, NEW k
  PROVE  /\ Cardinality(L!Trying(k)) \in Nat
         /\ \A r \in Requests : L!Trying(k) \subseteq Requests \ {r} =>
              Cardinality(L!Trying(k)) <= Cardinality(Requests) - 1
  <1> DEFINE Those == L!Trying(k)
  <1>1. IsFiniteSet(Those) /\ Those \subseteq Requests
    <2>1. Those \subseteq Requests
      BY DEF L!Trying
    <2>2. QED
      BY <2>1, FS_Subset, SameSets DEF L!Proper
  <1> HIDE DEF Those
  <1>2. Cardinality(Those) \in Nat /\ Cardinality(Requests) \in Nat
    BY <1>1, FS_CardinalityType, SameSets DEF L!Proper
  <1>3. ASSUME NEW r \in Requests, Those \subseteq Requests \ {r}
        PROVE  Cardinality(Those) <= Cardinality(Requests) - 1
    <2>1. IsFiniteSet(Requests \ {r}) /\ Cardinality(Requests \ {r}) = Cardinality(Requests) - 1
      BY FS_RemoveElement, SameSets DEF L!Proper
    <2>2. QED
      BY <1>3, <2>1, FS_Subset
  <1>4. QED
    BY <1>2, <1>3 DEF Those

(* A step that tries no password and sets no lock, or ends one. *)
LEMMA QuietStep ==
  ASSUME L!Proper, L!LockInv, \A k \in locked' : L!Trying(k)' \subseteq L!Trying(k),
         locked' \subseteq locked,
         \A k \in L!Keys : late'[k] = IF k \in locked /\ k \notin locked' THEN 0 ELSE late[k]
  PROVE  L!TriesAreLimited'
  <1> SUFFICES ASSUME NEW k \in L!Keys
               PROVE  IF k \in locked' THEN late'[k] + Cardinality(L!Trying(k)') <= Cardinality(Requests) - 1
                                       ELSE late'[k] = 0
    BY SameSizes DEF L!TriesAreLimited
  <1>1. IF k \in locked THEN late[k] + Cardinality(L!Trying(k)) <= Cardinality(Requests) - 1
                        ELSE late[k] = 0
    BY SameSizes DEF L!LockInv, L!TriesAreLimited
  <1>2. CASE k \in locked'
    <2>1. late'[k] = late[k] /\ k \in locked /\ late[k] \in Nat
      BY <1>2 DEF L!LockInv, L!TypeOK
    <2>2. IsFiniteSet(L!Trying(k))
      <3>1. L!Trying(k) \subseteq Requests
        BY DEF L!Trying
      <3>2. QED
        BY <3>1, FS_Subset, SameSets DEF L!Proper
    <2>3. Cardinality(L!Trying(k)') <= Cardinality(L!Trying(k)) /\ IsFiniteSet(L!Trying(k)')
      BY <1>2, <2>2, FS_Subset
    <2>4. Cardinality(L!Trying(k)') \in Nat /\ Cardinality(L!Trying(k)) \in Nat /\ Cardinality(Requests) \in Nat
      BY <2>2, <2>3, FS_CardinalityType, SameSets DEF L!Proper
    <2>5. QED
      BY <1>1, <1>2, <2>1, <2>3, <2>4
  <1>3. CASE k \notin locked'
    BY <1>1, <1>3
  <1>4. QED
    BY <1>2, <1>3

(* How a step changes one request. *)
LEMMA OneRequestMoves ==
  ASSUME L!LockInv, NEW r \in Requests, NEW phase \in L!Phases, NEW keys \in SUBSET L!Keys,
         NEW counted \in SUBSET L!Keys,
         pc' = [pc EXCEPT ![r] = phase], login' = [login EXCEPT ![r] = keys],
         counts' = [counts EXCEPT ![r] = counted],
         phase = "idle" <=> keys = {}
  PROVE  /\ pc' \in [Requests -> L!Phases] /\ login' \in [Requests -> SUBSET L!Keys]
         /\ counts' \in [Requests -> SUBSET L!Keys]
         /\ \A q \in Requests : pc'[q] = "idle" <=> login'[q] = {}
         /\ \A k \in L!Keys : k \notin keys \/ phase # "password" => L!Trying(k)' = L!Trying(k) \ {r}
         /\ \A k \in L!Keys : L!Trying(k)' \subseteq L!Trying(k) \cup {r}
  BY DEF L!LockInv, L!TypeOK, L!Trying

LEMMA LockLoginStep ==
  ASSUME L!Proper, L!LockInv, NEW r \in Requests, L!Login(r)
  PROVE  L!LockInv'
  <1>1. PICK keys \in SUBSET L!Keys, counted \in SUBSET L!Keys :
           /\ keys # {} /\ keys \cap locked = {}
           /\ login' = [login EXCEPT ![r] = keys] /\ counts' = [counts EXCEPT ![r] = counted]
    <2>1. PICK ip \in Ips, email \in Emails, scope \in L!Scopes :
             /\ {ip, <<email, scope>>} \cap locked = {}
             /\ login' = [login EXCEPT ![r] = {ip, <<email, scope>>}]
             /\ counts' = [counts EXCEPT ![r] = {ip, <<email, L!ScopeCounted(email, scope)>>}]
      BY DEF L!Login
    <2>2. L!ScopeCounted(email, scope) \in L!Scopes
      <3>1. TenantsOf[email] # {} => (CHOOSE t \in Tenants : t \in TenantsOf[email]) \in Tenants
        BY DEF L!Proper
      <3>2. QED
        BY <3>1 DEF L!ScopeCounted, L!Scopes
    <2>3. /\ {ip, <<email, scope>>} \in SUBSET L!Keys /\ {ip, <<email, scope>>} # {}
          /\ {ip, <<email, L!ScopeCounted(email, scope)>>} \in SUBSET L!Keys
      BY <2>2 DEF L!Keys
    <2>4. QED
      BY <2>1, <2>3
  <1>2. pc' = [pc EXCEPT ![r] = "password"] /\ fails' = fails /\ locked' = locked /\ late' = late
    BY DEF L!Login, L!Goto
  <1>3. /\ pc' \in [Requests -> L!Phases] /\ login' \in [Requests -> SUBSET L!Keys]
        /\ counts' \in [Requests -> SUBSET L!Keys]
        /\ \A q \in Requests : pc'[q] = "idle" <=> login'[q] = {}
        /\ \A k \in L!Keys : k \notin keys \/ "password" # "password" => L!Trying(k)' = L!Trying(k) \ {r}
    BY <1>1, <1>2, OneRequestMoves DEF L!Phases
  <1>4. \A k \in locked' : L!Trying(k)' \subseteq L!Trying(k)
    BY <1>1, <1>2, <1>3 DEF L!LockInv, L!TypeOK
  <1>5. L!TriesAreLimited'
    BY <1>2, <1>4, QuietStep
  <1>6. QED
    BY <1>2, <1>3, <1>5 DEF L!LockInv, L!TypeOK

LEMMA SucceedStep ==
  ASSUME L!Proper, L!LockInv, NEW r \in Requests, L!Succeed(r)
  PROVE  L!LockInv'
  <1>1. pc' = [pc EXCEPT ![r] = "unlock"] /\ fails' = fails /\ locked' = locked /\ late' = late
    BY DEF L!Succeed, L!Goto
  <1>2. PICK keys \in SUBSET L!Keys, counted \in SUBSET L!Keys :
           /\ keys # {} /\ login' = [login EXCEPT ![r] = keys]
           /\ counts' = [counts EXCEPT ![r] = counted]
    BY DEF L!Succeed, L!LockInv, L!TypeOK
  <1>3. "unlock" \in L!Phases
    BY DEF L!Phases
  <1>4. /\ pc' \in [Requests -> L!Phases] /\ login' \in [Requests -> SUBSET L!Keys]
        /\ counts' \in [Requests -> SUBSET L!Keys]
        /\ \A q \in Requests : pc'[q] = "idle" <=> login'[q] = {}
        /\ \A k \in L!Keys : k \notin keys \/ "unlock" # "password" => L!Trying(k)' = L!Trying(k) \ {r}
    BY <1>1, <1>2, <1>3, OneRequestMoves
  <1>5. \A k \in locked' : L!Trying(k)' \subseteq L!Trying(k)
    BY <1>1, <1>4 DEF L!LockInv, L!TypeOK
  <1>6. L!TriesAreLimited'
    BY <1>1, <1>5, QuietStep
  <1>7. QED
    BY <1>1, <1>4, <1>6 DEF L!LockInv, L!TypeOK

LEMMA FinishMoves ==
  ASSUME L!LockInv, NEW r \in Requests, L!Finish(r)
  PROVE  /\ pc' \in [Requests -> L!Phases] /\ login' \in [Requests -> SUBSET L!Keys]
         /\ counts' \in [Requests -> SUBSET L!Keys]
         /\ \A q \in Requests : pc'[q] = "idle" <=> login'[q] = {}
         /\ \A k \in L!Keys : L!Trying(k)' = L!Trying(k) \ {r}
  <1>1. /\ pc' = [pc EXCEPT ![r] = "idle"] /\ login' = [login EXCEPT ![r] = {}]
        /\ counts' = [counts EXCEPT ![r] = {}]
    BY DEF L!Finish, L!Goto
  <1>2. "idle" \in L!Phases /\ {} \in SUBSET L!Keys
    BY DEF L!Phases
  <1>3. QED
    BY <1>1, <1>2, OneRequestMoves

LEMMA LockCrashStep ==
  ASSUME L!Proper, L!LockInv, NEW r \in Requests, L!Crash(r)
  PROVE  L!LockInv'
  <1>1. fails' = fails /\ locked' = locked /\ late' = late
    BY DEF L!Crash
  <1>2. /\ pc' \in [Requests -> L!Phases] /\ login' \in [Requests -> SUBSET L!Keys]
        /\ counts' \in [Requests -> SUBSET L!Keys]
        /\ \A q \in Requests : pc'[q] = "idle" <=> login'[q] = {}
        /\ \A k \in L!Keys : L!Trying(k)' = L!Trying(k) \ {r}
    BY FinishMoves DEF L!Crash
  <1>3. \A k \in locked' : L!Trying(k)' \subseteq L!Trying(k)
    BY <1>1, <1>2 DEF L!LockInv, L!TypeOK
  <1>4. L!TriesAreLimited'
    BY <1>1, <1>3, QuietStep
  <1>5. QED
    BY <1>1, <1>2, <1>4 DEF L!LockInv, L!TypeOK

(* A password more has been tried, and one request fewer is trying one. *)
LEMMA FailStep ==
  ASSUME L!Proper, L!LockInv, NEW r \in Requests, L!Fail(r)
  PROVE  L!LockInv'
  <1>1. /\ fails \in [L!Keys -> Nat] /\ \A k \in L!Keys : fails[k] <= L!Limit(k)
        /\ late \in [L!Keys -> Nat] /\ locked \subseteq L!Keys
        /\ pc[r] = "password" /\ login[r] # {} /\ login[r] \in SUBSET L!Keys
        /\ login \in [Requests -> SUBSET L!Keys] /\ counts \in [Requests -> SUBSET L!Keys]
    BY DEF L!LockInv, L!TypeOK, L!Fail
  <1>2. /\ fails' = [k \in L!Keys |->
                        IF k \in counts[r] /\ fails[k] < L!Limit(k) THEN fails[k] + 1 ELSE fails[k]]
        /\ late' = [k \in L!Keys |-> IF k \in login[r] \cap locked THEN late[k] + 1 ELSE late[k]]
        /\ locked' = locked
    BY DEF L!Fail
  <1>3. fails' \in [L!Keys -> Nat] /\ \A k \in L!Keys : fails'[k] <= L!Limit(k)
    BY <1>1, <1>2, KeysHaveLimits
  <1>4. late' \in [L!Keys -> Nat]
    BY <1>1, <1>2
  <1>5. /\ pc' \in [Requests -> L!Phases] /\ login' \in [Requests -> SUBSET L!Keys]
        /\ counts' \in [Requests -> SUBSET L!Keys]
        /\ \A q \in Requests : pc'[q] = "idle" <=> login'[q] = {}
        /\ \A k \in L!Keys : L!Trying(k)' = L!Trying(k) \ {r}
    <2>1. CASE L!Finish(r)
      BY <2>1, FinishMoves
    <2>2. CASE L!Goto(r, "lock") /\ UNCHANGED <<login, counts>>
      <3>1. PICK keys \in SUBSET L!Keys, counted \in SUBSET L!Keys :
               /\ keys # {} /\ pc' = [pc EXCEPT ![r] = "lock"] /\ login' = [login EXCEPT ![r] = keys]
               /\ counts' = [counts EXCEPT ![r] = counted]
        BY <1>1, <2>2 DEF L!Goto
      <3>2. QED
        BY <3>1, OneRequestMoves DEF L!Phases
    <2>3. QED
      BY <2>1, <2>2 DEF L!Fail
  <1>6. L!TriesAreLimited'
    <2> SUFFICES ASSUME NEW k \in L!Keys
                 PROVE  IF k \in locked' THEN late'[k] + Cardinality(L!Trying(k)') <= Cardinality(Requests) - 1
                                         ELSE late'[k] = 0
      BY SameSizes DEF L!TriesAreLimited
    <2>1. IF k \in locked THEN late[k] + Cardinality(L!Trying(k)) <= Cardinality(Requests) - 1
                          ELSE late[k] = 0
      BY SameSizes DEF L!LockInv, L!TriesAreLimited
    <2>2. IsFiniteSet(L!Trying(k)) /\ (r \in L!Trying(k) <=> k \in login[r])
      <3>1. L!Trying(k) \subseteq Requests /\ (r \in L!Trying(k) <=> k \in login[r])
        BY <1>1 DEF L!Trying
      <3>2. QED
        BY <3>1, FS_Subset, SameSets DEF L!Proper
    <2>3. /\ Cardinality(L!Trying(k)) \in Nat /\ Cardinality(Requests) \in Nat
          /\ Cardinality(L!Trying(k) \ {r}) = IF k \in login[r] THEN Cardinality(L!Trying(k)) - 1
                                                              ELSE Cardinality(L!Trying(k))
      BY <2>2, FS_CardinalityType, FS_RemoveElement, SameSets DEF L!Proper
    <2>4. Cardinality(L!Trying(k)') = Cardinality(L!Trying(k) \ {r})
      BY <1>5
    <2>5. late'[k] = IF k \in login[r] /\ k \in locked THEN late[k] + 1 ELSE late[k]
      BY <1>2
    <2>6. late[k] \in Nat
      BY <1>1
    <2> HIDE DEF L!Trying
    <2>7. QED
      BY <1>2, <2>1, <2>3, <2>4, <2>5, <2>6
  <1>7. QED
    BY <1>1, <1>2, <1>3, <1>4, <1>5, <1>6 DEF L!LockInv, L!TypeOK

(* The request that sets a lock is trying no password. *)
LEMMA LockStep ==
  ASSUME L!Proper, L!LockInv, NEW r \in Requests, L!Lock(r)
  PROVE  L!LockInv'
  <1>1. /\ counts[r] \in SUBSET L!Keys /\ pc[r] = "lock" /\ locked \subseteq L!Keys /\ late \in [L!Keys -> Nat]
        /\ fails' = fails /\ locked' = locked \cup counts[r] /\ late' = late
    BY DEF L!Lock, L!LockInv, L!TypeOK
  <1>2. /\ pc' \in [Requests -> L!Phases] /\ login' \in [Requests -> SUBSET L!Keys]
        /\ counts' \in [Requests -> SUBSET L!Keys]
        /\ \A q \in Requests : pc'[q] = "idle" <=> login'[q] = {}
        /\ \A k \in L!Keys : L!Trying(k)' = L!Trying(k) \ {r}
    BY FinishMoves DEF L!Lock
  <1>3. \A k \in L!Keys : r \notin L!Trying(k)
    BY <1>1 DEF L!Trying
  <1>4. L!TriesAreLimited'
    <2> SUFFICES ASSUME NEW k \in L!Keys
                 PROVE  IF k \in locked' THEN late'[k] + Cardinality(L!Trying(k)') <= Cardinality(Requests) - 1
                                         ELSE late'[k] = 0
      BY SameSizes DEF L!TriesAreLimited
    <2>1. IF k \in locked THEN late[k] + Cardinality(L!Trying(k)) <= Cardinality(Requests) - 1
                          ELSE late[k] = 0
      BY SameSizes DEF L!LockInv, L!TriesAreLimited
    <2>2. L!Trying(k)' = L!Trying(k)
      BY <1>2, <1>3
    <2>3. L!Trying(k) \subseteq Requests \ {r}
      BY <1>3 DEF L!Trying
    <2>4. /\ Cardinality(L!Trying(k)) \in Nat
          /\ Cardinality(L!Trying(k)) <= Cardinality(Requests) - 1
      BY <2>3, TryingIsCounted
    <2>5. Cardinality(Requests) \in Nat
      BY FS_CardinalityType, SameSets DEF L!Proper
    <2>6. QED
      BY <1>1, <2>1, <2>2, <2>4, <2>5
  <1>5. locked' \subseteq L!Keys
    BY <1>1
  <1>6. QED
    BY <1>1, <1>2, <1>4, <1>5 DEF L!LockInv, L!TypeOK

LEMMA UnlockStep ==
  ASSUME L!Proper, L!LockInv, NEW r \in Requests, L!Unlock(r)
  PROVE  L!LockInv'
  <1>1. /\ fails \in [L!Keys -> Nat] /\ (\A k \in L!Keys : fails[k] <= L!Limit(k))
        /\ late \in [L!Keys -> Nat] /\ locked \subseteq L!Keys
        /\ \A k \in L!Keys : k \notin locked => late[k] = 0
    BY DEF L!LockInv, L!TypeOK, L!TriesAreLimited
  <1>2. /\ locked' = locked \ counts[r]
        /\ fails' = [k \in L!Keys |-> IF k \in counts[r] THEN 0 ELSE fails[k]]
        /\ late' = [k \in L!Keys |-> IF k \in counts[r] THEN 0 ELSE late[k]]
    BY DEF L!Unlock
  <1>3. fails' \in [L!Keys -> Nat] /\ (\A k \in L!Keys : fails'[k] <= L!Limit(k)) /\ late' \in [L!Keys -> Nat]
    BY <1>1, <1>2, KeysHaveLimits
  <1>4. /\ pc' \in [Requests -> L!Phases] /\ login' \in [Requests -> SUBSET L!Keys]
        /\ counts' \in [Requests -> SUBSET L!Keys]
        /\ \A q \in Requests : pc'[q] = "idle" <=> login'[q] = {}
        /\ \A k \in L!Keys : L!Trying(k)' = L!Trying(k) \ {r}
    BY FinishMoves DEF L!Unlock
  <1>5. \A k \in locked' : L!Trying(k)' \subseteq L!Trying(k)
    BY <1>1, <1>2, <1>4
  <1>6. L!TriesAreLimited'
    BY <1>1, <1>2, <1>5, QuietStep
  <1>7. QED
    BY <1>1, <1>2, <1>3, <1>4, <1>6 DEF L!LockInv, L!TypeOK

LEMMA KeyEndsStep ==
  ASSUME L!Proper, L!LockInv, NEW k \in L!Keys, L!CounterEnds(k) \/ L!LockEnds(k)
  PROVE  L!LockInv'
  <1>1. /\ fails \in [L!Keys -> Nat] /\ (\A l \in L!Keys : fails[l] <= L!Limit(l))
        /\ late \in [L!Keys -> Nat] /\ locked \subseteq L!Keys
    BY DEF L!LockInv, L!TypeOK
  <1>2. /\ pc' = pc /\ login' = login /\ counts' = counts /\ locked' \subseteq locked
        /\ \A l \in L!Keys : late'[l] = IF l \in locked /\ l \notin locked' THEN 0 ELSE late[l]
        /\ late' \in [L!Keys -> Nat]
        /\ fails' \in [L!Keys -> Nat] /\ \A l \in L!Keys : fails'[l] <= L!Limit(l)
    BY <1>1, KeysHaveLimits DEF L!CounterEnds, L!LockEnds
  <1>3. \A l \in locked' : L!Trying(l)' \subseteq L!Trying(l)
    BY <1>2 DEF L!Trying
  <1>4. L!TriesAreLimited'
    BY <1>2, <1>3, QuietStep
  <1>5. QED
    BY <1>1, <1>2, <1>4 DEF L!LockInv, L!TypeOK

(* Each step keeps the inductive invariant: while an address  *)
(* or an email is locked, the passwords tried for it and those about to be    *)
(* are not more than the requests there are but for the one that locked it    *)
(* (getLoginLockState, lockLogin).                                            *)
LEMMA LockSteps ==
  ASSUME L!Proper
  PROVE  L!LockInv /\ [L!Next]_L!vars => L!LockInv'
  <1> SUFFICES ASSUME L!LockInv, [L!Next]_L!vars PROVE L!LockInv'
    OBVIOUS
  <1>1. CASE UNCHANGED L!vars
    BY <1>1 DEF L!vars, L!LockInv, L!TypeOK, L!TriesAreLimited, L!Trying
  <1>2. CASE L!Next
    BY <1>2, LockLoginStep, SucceedStep, FailStep, LockStep, UnlockStep, LockCrashStep, KeyEndsStep DEF L!Next
  <1>3. QED
    BY <1>1, <1>2

----------------------------------------------------------------------------
(* The team of a tenant.                                                   *)

LEMMA NextInviteIsUnused ==
  ASSUME T!Proper, T!Unused # {}
  PROVE  T!NextInvite \in T!Unused
  <1>1. T!Unused \in SUBSET Nat
    BY DEF T!Unused, T!Proper
  <1>2. QED
    BY <1>1, HasLeast DEF T!NextInvite

LEMMA TeamNoRequestIsProper ==
  T!NoRequest \in T!RequestRows /\ T!ProperIn("idle", T!NoRequest)
  BY DEF T!NoRequest, T!RequestRows, T!ProperIn

LEMMA InitTeamInv ==
  ASSUME T!Proper
  PROVE  T!Init => T!TeamInv
  <1> SUFFICES ASSUME T!Init PROVE T!TeamInv
    OBVIOUS
  <1>1. PICK others \in [Users -> Roles \cup {None}], u \in Users :
           role = [others EXCEPT ![u] = "owner"]
    BY DEF T!Init
  <1>2. role \in [Users -> Roles \cup {None}] /\ role[u] = "owner"
    BY <1>1 DEF T!Proper
  <1>3. T!NoInvite \in T!InviteRows
    BY DEF T!NoInvite, T!InviteRows
  <1>4. T!TypeOK
    BY <1>2, <1>3, TeamNoRequestIsProper DEF T!Init, T!TypeOK, T!Phases
  <1>5. u \in T!ActiveOwners
    BY <1>2 DEF T!Init, T!ActiveOwners
  <1>6. QED
    BY <1>4, <1>5, TeamNoRequestIsProper
    DEF T!Init, T!TeamInv, T!RequestsAreProper, T!InvitesAreProper, T!NoInvite, T!LastOwnerIsProtected,
        T!WritesAreDecided, T!InviteIsUsedOnce, T!AnswersAreCounted

(* A request goes on to another phase, with what it is about, and the         *)
(* accounts stay as they are.                                                 *)
LEMMA RequestGoesOn ==
  ASSUME T!TeamInv, NEW r \in Requests, NEW phase \in T!Phases, NEW row \in T!RequestRows,
         T!Goto(r, phase), req' = [req EXCEPT ![r] = row], T!ProperIn(phase, row),
         IF phase = "idle" THEN stale' = stale \ {r} ELSE stale' = stale,
         UNCHANGED T!accounts, UNCHANGED excused,
         \A i \in Invites : invite[i].state # "none" => invite'[i].state # "none",
         phase = "write" /\ r \notin stale => T!LeavesAnOwner(row)
  PROVE  /\ pc' \in [Requests -> T!Phases] /\ req' \in [Requests -> T!RequestRows]
         /\ stale' \subseteq {q \in Requests : pc'[q] # "idle"}
         /\ T!RequestsAreProper' /\ T!LastOwnerIsProtected' /\ T!WritesAreDecided'
  <1>1. /\ pc \in [Requests -> T!Phases] /\ req \in [Requests -> T!RequestRows]
        /\ stale \subseteq {q \in Requests : pc[q] # "idle"}
    BY DEF T!TeamInv, T!TypeOK
  <1>2. /\ pc' \in [Requests -> T!Phases] /\ req' \in [Requests -> T!RequestRows]
        /\ pc'[r] = phase /\ req'[r] = row
        /\ \A q \in Requests \ {r} : pc'[q] = pc[q] /\ req'[q] = req[q]
    BY <1>1 DEF T!Goto
  <1>3. role' = role /\ T!ActiveOwners' = T!ActiveOwners
    BY DEF T!accounts, T!ActiveOwners
  <1>4. stale' \subseteq {q \in Requests : pc'[q] # "idle"}
    BY <1>1, <1>2
  <1>5. T!RequestsAreProper'
    BY <1>2, <1>3 DEF T!TeamInv, T!RequestsAreProper, T!ProperIn
  <1>6. T!LastOwnerIsProtected'
    BY <1>3 DEF T!TeamInv, T!LastOwnerIsProtected
  <1>7. T!WritesAreDecided'
    BY <1>1, <1>2, <1>3 DEF T!TeamInv, T!WritesAreDecided, T!LeavesAnOwner
  <1>8. QED
    BY <1>2, <1>4, <1>5, <1>6, <1>7

LEMMA RequestEnds ==
  ASSUME T!TeamInv, NEW r \in Requests, T!Finish(r), UNCHANGED T!accounts, UNCHANGED excused,
         \A i \in Invites : invite[i].state # "none" => invite'[i].state # "none"
  PROVE  /\ pc' \in [Requests -> T!Phases] /\ req' \in [Requests -> T!RequestRows]
         /\ stale' \subseteq {q \in Requests : pc'[q] # "idle"}
         /\ T!RequestsAreProper' /\ T!LastOwnerIsProtected' /\ T!WritesAreDecided'
  BY TeamNoRequestIsProper, RequestGoesOn DEF T!Finish, T!Phases

(* Steps that leave the accounts and the invitations as they are. *)
LEMMA TeamReadingStep ==
  ASSUME T!TeamInv, UNCHANGED <<T!accounts, invite, answers, excused>>,
         pc' \in [Requests -> T!Phases], req' \in [Requests -> T!RequestRows],
         stale' \subseteq {q \in Requests : pc'[q] # "idle"},
         T!RequestsAreProper', T!LastOwnerIsProtected', T!WritesAreDecided'
  PROVE  T!TeamInv'
  <1>1. T!TypeOK'
    BY DEF T!TeamInv, T!TypeOK, T!accounts
  <1>2. T!InvitesAreProper' /\ T!InviteIsUsedOnce' /\ T!AnswersAreCounted'
    BY DEF T!TeamInv, T!InvitesAreProper, T!InviteIsUsedOnce, T!AnswersAreCounted
  <1>3. QED
    BY <1>1, <1>2 DEF T!TeamInv

(* A request goes on and leaves all else as it is. *)
LEMMA ReadingOn ==
  ASSUME T!TeamInv, NEW r \in Requests, NEW phase \in T!Phases \ {"idle"}, NEW row \in T!RequestRows,
         T!Goto(r, phase), req' = [req EXCEPT ![r] = row], T!ProperIn(phase, row),
         UNCHANGED <<T!accounts, invite, stale, answers, excused>>,
         phase = "write" /\ r \notin stale => T!LeavesAnOwner(row)
  PROVE  T!TeamInv'
  <1>1. stale' = stale /\ phase \in T!Phases /\ phase # "idle"
    OBVIOUS
  <1>2. /\ pc' \in [Requests -> T!Phases] /\ req' \in [Requests -> T!RequestRows]
        /\ stale' \subseteq {q \in Requests : pc'[q] # "idle"}
        /\ T!RequestsAreProper' /\ T!LastOwnerIsProtected' /\ T!WritesAreDecided'
    BY <1>1, RequestGoesOn
  <1>3. QED
    BY <1>2, TeamReadingStep

LEMMA ReadingEnds ==
  ASSUME T!TeamInv, NEW r \in Requests, T!Finish(r), UNCHANGED <<T!accounts, invite, answers, excused>>
  PROVE  T!TeamInv'
  BY RequestEnds, TeamReadingStep

LEMMA ManageStep ==
  ASSUME T!Proper, T!TeamInv, NEW r \in Requests, T!Manage(r)
  PROVE  T!TeamInv'
  <1>1. PICK actor \in Users, target \in Users, op \in {"role", "disable"}, to \in Roles \cup {None} :
           /\ T!Manager(actor)
           /\ to = "owner" => role[actor] = "owner"
           /\ op = "disable" <=> to = None
           /\ op = "disable" => ~(actor = target /\ role[actor] = "owner")
           /\ req' = [req EXCEPT ![r] = [T!NoRequest EXCEPT !.op = op, !.byOwner = (role[actor] = "owner"),
                                          !.target = target, !.role = to]]
    BY Zenon DEF T!Manage
  <1> DEFINE row == [T!NoRequest EXCEPT !.op = op, !.byOwner = (role[actor] = "owner"),
                                      !.target = target, !.role = to]
  <1>2. row \in T!RequestRows
    BY DEF T!NoRequest, T!RequestRows
  <1>3. T!ProperIn("target", row)
    BY <1>1 DEF T!NoRequest, T!ProperIn
  <1>4. /\ req' = [req EXCEPT ![r] = row] /\ T!Goto(r, "target")
        /\ UNCHANGED <<T!accounts, invite, stale, answers, excused>>
    BY <1>1 DEF T!Manage
  <1> HIDE DEF row
  <1>5. QED
    BY <1>2, <1>3, <1>4, ReadingOn DEF T!Phases

LEMMA ReadTargetStep ==
  ASSUME T!Proper, T!TeamInv, NEW r \in Requests, T!ReadTarget(r)
  PROVE  T!TeamInv'
  <1>1. CASE T!Finish(r)
    BY <1>1, ReadingEnds DEF T!ReadTarget
  <1>2. CASE ~T!Finish(r)
    <2> DEFINE phase == IF req[r].target \in T!ActiveOwners /\ req[r].role # "owner"
                        THEN "count" ELSE "write"
               row == [req[r] EXCEPT !.byOwner = FALSE]
    <2>1. req[r] \in T!RequestRows /\ T!ProperIn("target", req[r]) /\ req \in [Requests -> T!RequestRows]
      BY DEF T!ReadTarget, T!TeamInv, T!TypeOK, T!RequestsAreProper
    <2>2. /\ role[req[r].target] # None
          /\ T!Goto(r, phase) /\ req' = [req EXCEPT ![r].byOwner = FALSE]
          /\ UNCHANGED <<T!accounts, invite, stale, answers, excused>>
      BY <1>2 DEF T!ReadTarget
    <2>3. /\ row \in T!RequestRows
          /\ row.target = req[r].target /\ row.role = req[r].role /\ row.op = req[r].op
      BY <2>1 DEF T!RequestRows
    <2>4. req' = [req EXCEPT ![r] = row]
      BY <2>1, <2>2
    <2>5. T!ProperIn(phase, row)
      BY <2>1, <2>2, <2>3 DEF T!ProperIn
    <2>6. phase = "write" => T!LeavesAnOwner(row)
      BY <2>3 DEF T!LeavesAnOwner
    <2>7. phase \in T!Phases \ {"idle"}
      BY DEF T!Phases
    <2> HIDE DEF row, phase
    <2>8. QED
      BY <2>2, <2>3, <2>4, <2>5, <2>6, <2>7, ReadingOn
  <1>3. QED
    BY <1>1, <1>2

(* Two active owners: each can go. *)
LEMMA AnotherOwner ==
  ASSUME T!Proper, Cardinality(T!ActiveOwners) > 1, NEW u
  PROVE  T!ActiveOwners \ {u} # {}
  <1> DEFINE Those == T!ActiveOwners
  <1>1. IsFiniteSet(Those)
    <2>1. Those \subseteq Users
      BY DEF T!ActiveOwners
    <2>2. QED
      BY <2>1, FS_Subset, SameSets DEF T!Proper
  <1> HIDE DEF Those
  <1>2. SUFFICES ASSUME Those \ {u} = {} PROVE FALSE
    BY DEF Those
  <1>3. Those \subseteq {u}
    BY <1>2
  <1>4. Cardinality({u}) = 1 /\ IsFiniteSet({u})
    BY FS_Singleton
  <1>5. Cardinality(Those) <= 1
    BY <1>3, <1>4, FS_Subset
  <1>6. Cardinality(Those) \in Nat
    BY <1>1, FS_CardinalityType
  <1>7. Cardinality(Those) > 1
    BY DEF Those
  <1>8. QED
    BY <1>5, <1>6, <1>7

LEMMA CountStep ==
  ASSUME T!Proper, T!TeamInv, NEW r \in Requests, T!Count(r)
  PROVE  T!TeamInv'
  <1>1. CASE T!Finish(r)
    BY <1>1, ReadingEnds DEF T!Count
  <1>2. CASE ~T!Finish(r)
    <2>1. req[r] \in T!RequestRows /\ T!ProperIn("count", req[r]) /\ req \in [Requests -> T!RequestRows]
      BY DEF T!Count, T!TeamInv, T!TypeOK, T!RequestsAreProper
    <2>2. /\ ~(Cardinality(T!ActiveOwners) <= 1) /\ T!Goto(r, "write") /\ req' = req
          /\ UNCHANGED <<T!accounts, invite, stale, answers, excused>>
      BY <1>2, SameSizes DEF T!Count
    <2>3. Cardinality(T!ActiveOwners) \in Nat
      <3>1. T!ActiveOwners \subseteq Users
        BY DEF T!ActiveOwners
      <3>2. QED
        BY <3>1, FS_Subset, FS_CardinalityType, SameSets DEF T!Proper
    <2>4. T!LeavesAnOwner(req[r])
      BY <2>2, <2>3, AnotherOwner DEF T!LeavesAnOwner
    <2>5. req' = [req EXCEPT ![r] = req[r]]
      BY <2>1, <2>2
    <2>6. T!ProperIn("write", req[r])
      BY <2>1 DEF T!ProperIn
    <2>7. QED
      BY <2>1, <2>2, <2>4, <2>5, <2>6, ReadingOn DEF T!Phases
  <1>3. QED
    BY <1>1, <1>2

LEMMA InviteStep ==
  ASSUME T!Proper, T!TeamInv, NEW r \in Requests, T!Invite(r)
  PROVE  T!TeamInv'
  <1>1. UNCHANGED <<T!accounts, invite, stale, answers, excused>>
    BY DEF T!Invite
  <1>2. \A i \in Invites : invite[i] \in T!InviteRows
    BY DEF T!TeamInv, T!TypeOK
  <1>3. PICK user \in Users :
           \/ \E to \in Roles :
                /\ T!Goto(r, "send")
                /\ req' = [req EXCEPT ![r] = [T!NoRequest EXCEPT !.target = user, !.role = to]]
           \/ \E i \in Invites :
                /\ invite[i].state = "open"
                /\ T!Goto(r, "renew")
                /\ req' = [req EXCEPT ![r] = [T!NoRequest EXCEPT !.target = user, !.invite = i,
                                               !.role = invite[i].role]]
    BY DEF T!Invite, T!Proper
  <1>4. ASSUME NEW to \in Roles, T!Goto(r, "send"),
               req' = [req EXCEPT ![r] = [T!NoRequest EXCEPT !.target = user, !.role = to]]
        PROVE  T!TeamInv'
    <2> DEFINE row == [T!NoRequest EXCEPT !.target = user, !.role = to]
    <2>1. row \in T!RequestRows /\ T!ProperIn("send", row)
      BY DEF T!NoRequest, T!RequestRows, T!ProperIn
    <2>2. req' = [req EXCEPT ![r] = row]
      BY <1>4
    <2> HIDE DEF row
    <2>3. QED
      BY <1>1, <1>4, <2>1, <2>2, ReadingOn DEF T!Phases
  <1>5. ASSUME NEW i \in Invites, invite[i].state = "open", T!Goto(r, "renew"),
               req' = [req EXCEPT ![r] = [T!NoRequest EXCEPT !.target = user, !.invite = i,
                                               !.role = invite[i].role]]
        PROVE  T!TeamInv'
    <2> DEFINE row == [T!NoRequest EXCEPT !.target = user, !.invite = i, !.role = invite[i].role]
    <2>1. invite[i].role \in Roles
      BY <1>5 DEF T!TeamInv, T!InvitesAreProper
    <2>2. row \in T!RequestRows /\ T!ProperIn("renew", row)
      BY <1>5, <2>1 DEF T!NoRequest, T!RequestRows, T!ProperIn
    <2>3. req' = [req EXCEPT ![r] = row]
      BY <1>5
    <2> HIDE DEF row
    <2>4. QED
      BY <1>1, <1>5, <2>2, <2>3, ReadingOn DEF T!Phases
  <1>6. QED
    BY <1>3, <1>4, <1>5

LEMMA ReadInviteStep ==
  ASSUME T!Proper, T!TeamInv, NEW r \in Requests, T!ReadInvite(r)
  PROVE  T!TeamInv'
  <1>1. PICK i \in Invites :
           /\ invite[i].state = "open"
           /\ req' = [req EXCEPT ![r] = [T!NoRequest EXCEPT !.target = invite[i].user, !.invite = i,
                                          !.role = invite[i].role]]
    BY DEF T!ReadInvite
  <1> DEFINE row == [T!NoRequest EXCEPT !.target = invite[i].user, !.invite = i,
                                      !.role = invite[i].role]
  <1>2. invite[i].user \in Users /\ invite[i].role \in Roles
    BY <1>1 DEF T!TeamInv, T!InvitesAreProper
  <1>3. row \in T!RequestRows /\ T!ProperIn("accept", row)
    BY <1>1, <1>2 DEF T!NoRequest, T!RequestRows, T!ProperIn
  <1>4. req' = [req EXCEPT ![r] = row]
    BY <1>1
  <1> HIDE DEF row
  <1>5. QED
    BY <1>3, <1>4, ReadingOn DEF T!ReadInvite, T!Phases

LEMMA BeginAcceptStep ==
  ASSUME T!Proper, T!TeamInv, NEW r \in Requests, T!BeginAccept(r)
  PROVE  T!TeamInv'
  <1>1. CASE T!Finish(r)
    BY <1>1, ReadingEnds DEF T!BeginAccept
  <1>2. CASE ~T!Finish(r)
    <2> DEFINE row == [req[r] EXCEPT !.known = (role[req[r].target] # None)]
    <2>1. req[r] \in T!RequestRows /\ T!ProperIn("accept", req[r]) /\ req \in [Requests -> T!RequestRows]
      BY DEF T!BeginAccept, T!TeamInv, T!TypeOK, T!RequestsAreProper
    <2>2. row \in T!RequestRows /\ T!ProperIn("commit", row)
      BY <2>1 DEF T!RequestRows, T!ProperIn
    <2>3. /\ T!Goto(r, "commit") /\ req' = [req EXCEPT ![r].known = (role[req[r].target] # None)]
          /\ UNCHANGED <<T!accounts, invite, stale, answers, excused>>
      BY <1>2 DEF T!BeginAccept
    <2>4. req' = [req EXCEPT ![r] = row]
      BY <2>1, <2>3
    <2> HIDE DEF row
    <2>5. QED
      BY <2>2, <2>3, <2>4, ReadingOn DEF T!Phases
  <1>3. QED
    BY <1>1, <1>2

(* How a step changes the invitations: those that were accepted stay so, and  *)
(* none is answered that was not made.                                        *)
LEMMA InviteRow ==
  ASSUME T!TeamInv, NEW i \in Invites, NEW state \in {"open", "expired", "accepted"},
         invite[i].state # "none"
  PROVE  LET row == [invite[i] EXCEPT !.state = state]
         IN  /\ row \in T!InviteRows /\ row.state = state
             /\ row.user \in Users /\ row.role \in Roles
  <1>1. invite[i] \in T!InviteRows
    BY DEF T!TeamInv, T!TypeOK
  <1>2. invite[i].user \in Users /\ invite[i].role \in Roles
    BY DEF T!TeamInv, T!InvitesAreProper
  <1>3. QED
    BY <1>1, <1>2 DEF T!InviteRows

LEMMA OpenRow ==
  ASSUME T!TeamInv, NEW r \in Requests, pc[r] \in {"send", "renew"}
  PROVE  /\ T!Open(r) \in T!InviteRows /\ T!Open(r).state = "open"
         /\ T!Open(r).user \in Users /\ T!Open(r).role \in Roles
  <1>1. req[r].target \in Users /\ req[r].role \in Roles
    BY DEF T!TeamInv, T!RequestsAreProper, T!ProperIn
  <1>2. QED
    BY <1>1 DEF T!Open, T!InviteRows

(* Steps that leave the accounts and the answers as they are. *)
LEMMA InvitingStep ==
  ASSUME T!TeamInv, UNCHANGED <<T!accounts, answers, excused>>,
         pc' \in [Requests -> T!Phases], req' \in [Requests -> T!RequestRows],
         stale' \subseteq {q \in Requests : pc'[q] # "idle"},
         T!RequestsAreProper', T!LastOwnerIsProtected', T!WritesAreDecided',
         invite' \in [Invites -> T!InviteRows],
         \A i \in Invites : \/ invite'[i] = invite[i]
                            \/ /\ invite'[i].state # "none" /\ invite[i].state # "accepted"
                               /\ invite'[i].user \in Users /\ invite'[i].role \in Roles
  PROVE  T!TeamInv'
  <1>1. T!TypeOK'
    BY DEF T!TeamInv, T!TypeOK, T!accounts
  <1>2. T!InvitesAreProper'
    BY DEF T!TeamInv, T!InvitesAreProper
  <1>3. T!InviteIsUsedOnce' /\ T!AnswersAreCounted'
    BY DEF T!TeamInv, T!InviteIsUsedOnce, T!AnswersAreCounted
  <1>4. QED
    BY <1>1, <1>2, <1>3 DEF T!TeamInv

LEMMA TeamSendStep ==
  ASSUME T!Proper, T!TeamInv, NEW r \in Requests, T!Send(r)
  PROVE  T!TeamInv'
  <1>1. T!NextInvite \in Invites /\ invite[T!NextInvite].state = "none"
    BY NextInviteIsUnused DEF T!Send, T!Unused
  <1>2. invite \in [Invites -> T!InviteRows]
    BY DEF T!TeamInv, T!TypeOK
  <1>3. invite' = [invite EXCEPT ![T!NextInvite] = T!Open(r)] /\ pc[r] = "send"
    BY DEF T!Send
  <1>4. /\ T!Open(r) \in T!InviteRows /\ T!Open(r).state = "open"
        /\ T!Open(r).user \in Users /\ T!Open(r).role \in Roles
    BY <1>3, OpenRow
  <1>5. /\ invite' \in [Invites -> T!InviteRows]
        /\ \A i \in Invites : \/ invite'[i] = invite[i]
                              \/ /\ invite'[i].state # "none" /\ invite[i].state # "accepted"
                                 /\ invite'[i].user \in Users /\ invite'[i].role \in Roles
    BY <1>1, <1>2, <1>3, <1>4
  <1>6. \A i \in Invites : invite[i].state # "none" => invite'[i].state # "none"
    BY <1>5
  <1>7. QED
    BY <1>5, <1>6, RequestEnds, InvitingStep DEF T!Send

LEMMA ResendStep ==
  ASSUME T!Proper, T!TeamInv, NEW r \in Requests, T!Resend(r)
  PROVE  T!TeamInv'
  <1> DEFINE old == req[r].invite
             state == IF invite[old].state = "open" THEN "expired" ELSE invite[old].state
             row == [invite[old] EXCEPT !.state = state]
  <1>1. T!NextInvite \in Invites /\ invite[T!NextInvite].state = "none"
    BY NextInviteIsUnused DEF T!Resend, T!Unused
  <1>2. invite \in [Invites -> T!InviteRows]
    BY DEF T!TeamInv, T!TypeOK
  <1>3. pc[r] = "renew" /\ old \in Invites
    BY DEF T!Resend, T!TeamInv, T!RequestsAreProper, T!ProperIn
  <1>4. invite' = [invite EXCEPT ![old].state = state, ![T!NextInvite] = T!Open(r)]
    BY DEF T!Resend
  <1>5. /\ T!Open(r) \in T!InviteRows /\ T!Open(r).state = "open"
        /\ T!Open(r).user \in Users /\ T!Open(r).role \in Roles
    BY <1>3, OpenRow
  <1>6. /\ row \in T!InviteRows
        /\ \/ row = invite[old]
           \/ /\ row.state # "none" /\ invite[old].state # "accepted"
              /\ row.user \in Users /\ row.role \in Roles
    <2>1. CASE invite[old].state = "open"
      BY <1>3, <2>1, InviteRow
    <2>2. CASE invite[old].state # "open"
      <3>1. row = invite[old]
        BY <1>2, <1>3, <2>2 DEF T!InviteRows
      <3>2. QED
        BY <1>2, <1>3, <3>1
    <2>3. QED
      BY <2>1, <2>2
  <1>7. invite' = [invite EXCEPT ![old] = row, ![T!NextInvite] = T!Open(r)]
    BY <1>1, <1>2, <1>3, <1>4
  <1> HIDE DEF row, old
  <1>8. /\ invite' \in [Invites -> T!InviteRows]
        /\ \A i \in Invites : \/ invite'[i] = invite[i]
                              \/ /\ invite'[i].state # "none" /\ invite[i].state # "accepted"
                                 /\ invite'[i].user \in Users /\ invite'[i].role \in Roles
    BY <1>1, <1>2, <1>3, <1>5, <1>6, <1>7
  <1>9. \A i \in Invites : invite[i].state # "none" => invite'[i].state # "none"
    BY <1>8
  <1>10. QED
    BY <1>8, <1>9, RequestEnds, InvitingStep DEF T!Resend

LEMMA InviteExpiresStep ==
  ASSUME T!Proper, T!TeamInv, NEW i \in Invites, T!InviteExpires(i)
  PROVE  T!TeamInv'
  <1> DEFINE row == [invite[i] EXCEPT !.state = "expired"]
  <1>1. invite \in [Invites -> T!InviteRows] /\ invite[i].state = "open"
    BY DEF T!TeamInv, T!TypeOK, T!InviteExpires
  <1>2. row \in T!InviteRows /\ row.state = "expired" /\ row.user \in Users /\ row.role \in Roles
    BY <1>1, InviteRow
  <1>3. invite' = [invite EXCEPT ![i] = row]
    BY <1>1 DEF T!InviteExpires
  <1> HIDE DEF row
  <1>4. /\ invite' \in [Invites -> T!InviteRows]
        /\ \A j \in Invites : \/ invite'[j] = invite[j]
                              \/ /\ invite'[j].state # "none" /\ invite[j].state # "accepted"
                                 /\ invite'[j].user \in Users /\ invite'[j].role \in Roles
    BY <1>1, <1>2, <1>3
  <1>5. /\ pc' = pc /\ req' = req /\ stale' = stale /\ role' = role /\ disabled' = disabled
        /\ excused' = excused /\ answers' = answers
        /\ \A j \in Invites : invite[j].state # "none" => invite'[j].state # "none"
    BY <1>1, <1>2, <1>3 DEF T!InviteExpires, T!accounts
  <1>6. T!ActiveOwners' = T!ActiveOwners
    BY <1>5 DEF T!ActiveOwners
  <1>7. T!RequestsAreProper' /\ T!LastOwnerIsProtected' /\ T!WritesAreDecided'
    BY <1>5, <1>6 DEF T!TeamInv, T!RequestsAreProper, T!ProperIn, T!LastOwnerIsProtected,
                      T!WritesAreDecided, T!LeavesAnOwner
  <1>8. /\ pc' \in [Requests -> T!Phases] /\ req' \in [Requests -> T!RequestRows]
        /\ stale' \subseteq {q \in Requests : pc'[q] # "idle"}
    BY <1>5 DEF T!TeamInv, T!TypeOK
  <1>9. QED
    BY <1>4, <1>5, <1>7, <1>8, InvitingStep DEF T!accounts

(* A request changes an account and is over: what others have read is stale. *)
LEMMA ChangingStep ==
  ASSUME T!TeamInv, NEW r \in Requests, T!Goto(r, "idle"), req' = [req EXCEPT ![r] = T!NoRequest],
         T!Overtake(r), \A u \in Users : role[u] # None => role'[u] # None,
         \A i \in Invites : invite[i].state # "none" => invite'[i].state # "none"
  PROVE  /\ pc' \in [Requests -> T!Phases] /\ req' \in [Requests -> T!RequestRows]
         /\ stale' \subseteq {q \in Requests : pc'[q] # "idle"}
         /\ T!RequestsAreProper' /\ T!WritesAreDecided'
  <1>1. /\ pc \in [Requests -> T!Phases] /\ req \in [Requests -> T!RequestRows]
        /\ stale \subseteq {q \in Requests : pc[q] # "idle"}
    BY DEF T!TeamInv, T!TypeOK
  <1>2. "idle" \in T!Phases /\ T!NoRequest \in T!RequestRows /\ pc' = [pc EXCEPT ![r] = "idle"]
    BY TeamNoRequestIsProper DEF T!Phases, T!Goto
  <1>3. /\ pc' \in [Requests -> T!Phases] /\ req' \in [Requests -> T!RequestRows]
        /\ pc'[r] = "idle" /\ req'[r] = T!NoRequest
        /\ \A q \in Requests \ {r} : pc'[q] = pc[q] /\ req'[q] = req[q]
    BY <1>1, <1>2
  <1>4. stale' = (stale \cup {q \in Requests : pc[q] \in {"count", "write"}}) \ {r}
    BY DEF T!Overtake
  <1>5. stale' \subseteq {q \in Requests : pc'[q] # "idle"}
    BY <1>1, <1>3, <1>4
  <1>6. T!RequestsAreProper'
    BY <1>3 DEF T!TeamInv, T!RequestsAreProper, T!ProperIn
  <1>7. T!WritesAreDecided'
    BY <1>3, <1>4 DEF T!WritesAreDecided
  <1>8. QED
    BY <1>3, <1>5, <1>6, <1>7

LEMMA WriteStep ==
  ASSUME T!Proper, T!TeamInv, NEW r \in Requests, T!Write(r)
  PROVE  T!TeamInv'
  <1> DEFINE u == req[r].target
             to == req[r].role
  <1>1. /\ u \in Users /\ role[u] # None /\ to \in Roles \cup {None}
        /\ req[r].op = IF to = None THEN "disable" ELSE "role"
    <2>1. req[r] \in T!RequestRows /\ T!ProperIn("write", req[r])
      BY DEF T!Write, T!TeamInv, T!TypeOK, T!RequestsAreProper
    <2>2. QED
      BY <2>1 DEF T!ProperIn, T!RequestRows
  <1>2. /\ role \in [Users -> Roles \cup {None}] /\ disabled \subseteq {v \in Users : role[v] # None}
        /\ excused \in BOOLEAN
    BY DEF T!TeamInv, T!TypeOK
  <1>3. IF to # None THEN role' = [role EXCEPT ![u] = to] /\ disabled' = disabled
                     ELSE disabled' = disabled \cup {u} /\ role' = role
    BY <1>1 DEF T!Write
  <1>4. excused' = (excused \/ r \in stale) /\ invite' = invite /\ answers' = answers
    BY DEF T!Write
  <1>5. None \notin Roles /\ "owner" \in Roles
    BY DEF T!Proper
  <1> HIDE DEF u, to
  <1>6. /\ role' \in [Users -> Roles \cup {None}] /\ disabled' \subseteq {v \in Users : role'[v] # None}
        /\ \A v \in Users : role[v] # None => role'[v] # None
    BY <1>1, <1>2, <1>3
  <1>7. T!LastOwnerIsProtected'
    <2> SUFFICES ASSUME ~excused, r \notin stale PROVE T!ActiveOwners' # {}
      BY <1>2, <1>4 DEF T!LastOwnerIsProtected
    <2>1. T!ActiveOwners # {} /\ (to = "owner" \/ u \notin T!ActiveOwners \/ T!ActiveOwners \ {u} # {})
      BY DEF T!TeamInv, T!LastOwnerIsProtected, T!WritesAreDecided, T!LeavesAnOwner, T!Write, u, to
    <2>2. \A v \in T!ActiveOwners \ {u} : v \in T!ActiveOwners'
      BY <1>2, <1>3 DEF T!ActiveOwners
    <2>3. to = "owner" /\ u \in T!ActiveOwners => u \in T!ActiveOwners'
      BY <1>1, <1>2, <1>3, <1>5 DEF T!ActiveOwners
    <2>4. QED
      BY <2>1, <2>2, <2>3
  <1>8. /\ pc' \in [Requests -> T!Phases] /\ req' \in [Requests -> T!RequestRows]
        /\ stale' \subseteq {q \in Requests : pc'[q] # "idle"}
        /\ T!RequestsAreProper' /\ T!WritesAreDecided'
    BY <1>6, ChangingStep DEF T!Write
  <1>9. T!TypeOK'
    BY <1>4, <1>6, <1>8, <1>2 DEF T!TypeOK, T!TeamInv
  <1>10. T!InvitesAreProper' /\ T!InviteIsUsedOnce' /\ T!AnswersAreCounted'
    BY <1>4 DEF T!TeamInv, T!InvitesAreProper, T!InviteIsUsedOnce, T!AnswersAreCounted
  <1>11. QED
    BY <1>7, <1>8, <1>9, <1>10 DEF T!TeamInv

(* What the answer to an invitation changes in it. *)
LEMMA AnsweringStep ==
  ASSUME T!TeamInv, NEW i \in Invites,
         IF invite[i].state # "accepted"
         THEN /\ invite' = [invite EXCEPT ![i].state = "accepted"]
              /\ answers' = [answers EXCEPT ![i] = @ + 1]
         ELSE UNCHANGED <<invite, answers>>,
         invite[i].state # "none"
  PROVE  /\ invite' \in [Invites -> T!InviteRows] /\ answers' \in [Invites -> Nat]
         /\ T!InvitesAreProper' /\ T!InviteIsUsedOnce' /\ T!AnswersAreCounted'
         /\ \A j \in Invites : invite[j].state # "none" => invite'[j].state # "none"
  <1>1. invite \in [Invites -> T!InviteRows] /\ answers \in [Invites -> Nat]
    BY DEF T!TeamInv, T!TypeOK
  <1>2. CASE invite[i].state = "accepted"
    BY <1>1, <1>2 DEF T!TeamInv, T!InvitesAreProper, T!InviteIsUsedOnce, T!AnswersAreCounted
  <1>3. CASE invite[i].state # "accepted"
    <2> DEFINE row == [invite[i] EXCEPT !.state = "accepted"]
    <2>1. /\ row \in T!InviteRows /\ row.state = "accepted"
          /\ row.user \in Users /\ row.role \in Roles
      BY InviteRow
    <2>2. invite' = [invite EXCEPT ![i] = row]
      BY <1>1, <1>3
    <2>3. answers[i] = 0 /\ answers' = [answers EXCEPT ![i] = answers[i] + 1]
      <3>1. answers[i] \in Nat /\ ~(answers[i] > 0)
        BY <1>1, <1>3 DEF T!TeamInv, T!AnswersAreCounted
      <3>2. QED
        BY <3>1, <1>1, <1>3
    <2> HIDE DEF row
    <2>4. invite' \in [Invites -> T!InviteRows] /\ answers' \in [Invites -> Nat]
      BY <1>1, <2>1, <2>2, <2>3
    <2>5. \A j \in Invites : /\ j = i => invite'[j] = row /\ answers'[j] = 1
                             /\ j # i => invite'[j] = invite[j] /\ answers'[j] = answers[j]
      BY <1>1, <2>2, <2>3
    <2>6. T!InvitesAreProper'
      BY <2>1, <2>5 DEF T!TeamInv, T!InvitesAreProper
    <2>7. T!InviteIsUsedOnce' /\ T!AnswersAreCounted'
      BY <2>1, <2>5 DEF T!TeamInv, T!InviteIsUsedOnce, T!AnswersAreCounted
    <2>8. QED
      BY <2>1, <2>4, <2>5, <2>6, <2>7
  <1>4. QED
    BY <1>2, <1>3

(* The account that accepts gets the role, and is enabled. *)
LEMMA JoinStep ==
  ASSUME T!Proper, T!TeamInv, NEW r \in Requests, pc[r] = "commit", T!Join(r),
         \A i \in Invites : invite[i].state # "none" => invite'[i].state # "none"
  PROVE  /\ role' \in [Users -> Roles \cup {None}]
         /\ disabled' \subseteq {v \in Users : role'[v] # None} /\ excused' \in BOOLEAN
         /\ pc' \in [Requests -> T!Phases] /\ req' \in [Requests -> T!RequestRows]
         /\ stale' \subseteq {q \in Requests : pc'[q] # "idle"}
         /\ T!RequestsAreProper' /\ T!LastOwnerIsProtected' /\ T!WritesAreDecided'
  <1> DEFINE u == req[r].target
             to == req[r].role
  <1>1. u \in Users /\ to \in Roles
    BY DEF T!TeamInv, T!RequestsAreProper, T!ProperIn
  <1>2. /\ role \in [Users -> Roles \cup {None}] /\ disabled \subseteq {v \in Users : role[v] # None}
        /\ excused \in BOOLEAN
    BY DEF T!TeamInv, T!TypeOK
  <1>3. /\ role' = [role EXCEPT ![u] = to] /\ disabled' = disabled \ {u}
        /\ excused' = (excused \/ (u \in T!ActiveOwners /\ to # "owner"))
    BY DEF T!Join
  <1>4. None \notin Roles
    BY DEF T!Proper
  <1> HIDE DEF u, to
  <1>5. /\ role' \in [Users -> Roles \cup {None}]
        /\ disabled' \subseteq {v \in Users : role'[v] # None}
        /\ \A v \in Users : role[v] # None => role'[v] # None
    BY <1>1, <1>2, <1>3, <1>4
  <1>6. excused' \in BOOLEAN
    BY <1>2, <1>3
  <1>7. T!LastOwnerIsProtected'
    <2> SUFFICES ASSUME ~excused, u \in T!ActiveOwners => to = "owner" PROVE T!ActiveOwners' # {}
      BY <1>2, <1>3 DEF T!LastOwnerIsProtected
    <2>1. PICK v \in T!ActiveOwners : TRUE
      BY DEF T!TeamInv, T!LastOwnerIsProtected
    <2>2. v \in T!ActiveOwners'
      BY <1>1, <1>2, <1>3, <2>1 DEF T!ActiveOwners
    <2>3. QED
      BY <2>2
  <1>8. /\ pc' \in [Requests -> T!Phases] /\ req' \in [Requests -> T!RequestRows]
        /\ stale' \subseteq {q \in Requests : pc'[q] # "idle"}
        /\ T!RequestsAreProper' /\ T!WritesAreDecided'
    BY <1>5, ChangingStep DEF T!Join
  <1>9. QED
    BY <1>5, <1>6, <1>7, <1>8

LEMMA AcceptStep ==
  ASSUME T!Proper, T!TeamInv, NEW r \in Requests, T!Accept(r)
  PROVE  T!TeamInv'
  <1>1. CASE T!Finish(r) /\ UNCHANGED <<T!accounts, invite, answers, excused>>
    BY <1>1, ReadingEnds
  <1>2. CASE /\ T!Join(r)
             /\ IF invite[req[r].invite].state # "accepted"
                THEN /\ invite' = [invite EXCEPT ![req[r].invite].state = "accepted"]
                     /\ answers' = [answers EXCEPT ![req[r].invite] = @ + 1]
                ELSE UNCHANGED <<invite, answers>>
    <2>1. pc[r] = "commit" /\ req[r].invite \in Invites /\ invite[req[r].invite].state # "none"
      BY DEF T!Accept, T!TeamInv, T!RequestsAreProper, T!ProperIn
    <2>2. /\ invite' \in [Invites -> T!InviteRows] /\ answers' \in [Invites -> Nat]
          /\ T!InvitesAreProper' /\ T!InviteIsUsedOnce' /\ T!AnswersAreCounted'
          /\ \A j \in Invites : invite[j].state # "none" => invite'[j].state # "none"
      BY <1>2, <2>1, AnsweringStep
    <2>3. /\ role' \in [Users -> Roles \cup {None}]
          /\ disabled' \subseteq {v \in Users : role'[v] # None} /\ excused' \in BOOLEAN
          /\ pc' \in [Requests -> T!Phases] /\ req' \in [Requests -> T!RequestRows]
          /\ stale' \subseteq {q \in Requests : pc'[q] # "idle"}
          /\ T!RequestsAreProper' /\ T!LastOwnerIsProtected' /\ T!WritesAreDecided'
      BY <1>2, <2>1, <2>2, JoinStep
    <2>4. T!TypeOK'
      BY <2>2, <2>3 DEF T!TypeOK
    <2>5. QED
      BY <2>2, <2>3, <2>4 DEF T!TeamInv
  <1>3. QED
    BY <1>1, <1>2 DEF T!Accept

LEMMA NextTeamInv ==
  ASSUME T!Proper, T!TeamInv, [T!Next]_T!vars
  PROVE  T!TeamInv'
  <1>1. CASE UNCHANGED T!vars
    <2>1. /\ role' = role /\ disabled' = disabled /\ invite' = invite /\ pc' = pc /\ req' = req
          /\ stale' = stale /\ answers' = answers /\ excused' = excused
      BY <1>1 DEF T!vars
    <2>2. T!ActiveOwners' = T!ActiveOwners
      BY <2>1 DEF T!ActiveOwners
    <2>3. T!TypeOK' /\ T!InviteIsUsedOnce' /\ T!AnswersAreCounted' /\ T!InvitesAreProper'
      BY <2>1 DEF T!TeamInv, T!TypeOK, T!InviteIsUsedOnce, T!AnswersAreCounted, T!InvitesAreProper
    <2>4. T!RequestsAreProper' /\ T!LastOwnerIsProtected' /\ T!WritesAreDecided'
      BY <2>1, <2>2 DEF T!TeamInv, T!RequestsAreProper, T!ProperIn, T!LastOwnerIsProtected,
                        T!WritesAreDecided, T!LeavesAnOwner
    <2>5. QED
      BY <2>3, <2>4 DEF T!TeamInv
  <1>2. ASSUME NEW r \in Requests, T!Crash(r) PROVE T!TeamInv'
    BY <1>2, ReadingEnds DEF T!Crash
  <1>3. ASSUME NEW r \in Requests,
               T!Manage(r) \/ T!ReadTarget(r) \/ T!Count(r) \/ T!Write(r) \/ T!Invite(r) \/ T!Send(r) \/ T!Resend(r)
                 \/ T!ReadInvite(r) \/ T!BeginAccept(r) \/ T!Accept(r)
        PROVE  T!TeamInv'
    BY <1>3, ManageStep, ReadTargetStep, CountStep, WriteStep, InviteStep, TeamSendStep, ResendStep,
       ReadInviteStep, BeginAcceptStep, AcceptStep
  <1>4. QED
    BY <1>1, <1>2, <1>3, InviteExpiresStep DEF T!Next

----------------------------------------------------------------------------
(* The sources of a tenant and its plan.                                   *)

LEMMA InitSourcesInv ==
  ASSUME O!Proper
  PROVE  O!Init => O!SourcesInv
  <1> SUFFICES ASSUME O!Init PROVE O!SourcesInv
    OBVIOUS
  <1>1. O!NoTrial \in O!TrialRows /\ O!NoTrial.started = 0 /\ O!NoTrial.status = "none"
    BY DEF O!Proper, O!NoTrial, O!TrialRows
  <1>2. O!NoRequest \in O!RequestRows /\ O!NoRequest.op = None
    BY <1>1 DEF O!NoRequest, O!RequestRows, O!Proper
  <1>3. O!TypeOK
    BY <1>1, <1>2 DEF O!Init, O!TypeOK, O!Phases, O!Proper
  <1>4. O!IsTrial(trial)
    BY <1>1 DEF O!Init, O!IsTrial
  <1>5. O!RequestsAreProper
    BY <1>2 DEF O!Init, O!RequestsAreProper, O!ProperIn, O!Proper
  <1>6. O!DecisionsHold
    BY DEF O!Init, O!DecisionsHold
  <1>7. QED
    BY <1>3, <1>4, <1>5, <1>6 DEF O!SourcesInv

(* A step of request r, which goes to a phase with a new row.  The others     *)
(* are overtaken when there is a new source; the tenant is on the free plan   *)
(* after it only if it was before.                                           *)
LEMMA SourceRequestMoves ==
  ASSUME O!Proper, O!SourcesInv,
         NEW r \in Requests, NEW ph \in O!Phases, NEW q \in O!RequestRows,
         pc' = [pc EXCEPT ![r] = ph], req' = [req EXCEPT ![r] = q],
         now' = now, plan' = plan,
         trial' \in O!TrialRows, O!IsTrial(trial'), trial.started # 0 => trial'.started # 0,
         O!Free' => O!Free,
         active' \subseteq Workflows \cup Hooks, gone' \subseteq Hooks \ active',
         versions' \in [Workflows -> Nat], guards' \in [Workflows -> Nat],
         stale \ {r} \subseteq stale',
         active' = active \/ O!Overtaken \ {r} \subseteq stale',
         ph = "idle" => q = O!NoRequest,
         ph = "sync" => O!IsTrial(q.row) /\ (q.row.started # 0 => trial'.started # 0),
         q.op = "register" => q.source \in Workflows,
         ph \in {"existing", "version", "guard"} => q.op = "register",
         ph = "start" => q.at # 0,
         ph \in {"count", "create"} => q.op \in {"create", "register"},
         r \notin stale' /\ O!Free' =>
            /\ ph \in {"sync", "existing", "count", "create"} => q.free
            /\ ph = "create" => active' = {} \/ (q.op = "register" /\ q.source \in active')
  PROVE  O!SourcesInv'
  <1>1. /\ pc \in [Requests -> O!Phases] /\ req \in [Requests -> O!RequestRows]
        /\ now \in 1 .. MaxNow /\ plan \in {"free", "pro"}
    BY DEF O!SourcesInv, O!TypeOK
  <1>2. /\ pc'[r] = ph /\ req'[r] = q
        /\ \A i \in Requests \ {r} : pc'[i] = pc[i] /\ req'[i] = req[i]
        /\ pc' \in [Requests -> O!Phases] /\ req' \in [Requests -> O!RequestRows]
    BY <1>1
  <1>3. O!TypeOK'
    BY <1>1, <1>2 DEF O!TypeOK
  <1>4. O!RequestsAreProper'
    <2>1. \A i \in Requests : O!ProperIn(pc[i], req[i])
      BY DEF O!SourcesInv, O!RequestsAreProper
    <2>2. O!ProperIn(pc[r], req[r])'
      BY <1>2 DEF O!ProperIn, O!IsTrial
    <2>3. \A i \in Requests \ {r} : O!ProperIn(pc[i], req[i])'
      BY <1>2, <2>1 DEF O!ProperIn
    <2>4. QED
      BY <2>2, <2>3 DEF O!RequestsAreProper
  <1>5. O!DecisionsHold'
    <2> SUFFICES ASSUME NEW i \in Requests, i \notin stale', O!Free'
                 PROVE  /\ pc'[i] \in {"sync", "existing", "count", "create"} => req'[i].free
                        /\ pc'[i] = "create" =>
                             active' = {} \/ (req'[i].op = "register" /\ req'[i].source \in active')
      BY DEF O!DecisionsHold
    <2>1. CASE i = r
      BY <1>2, <2>1
    <2>2. CASE i # r
      BY <1>2, <2>2 DEF O!SourcesInv, O!DecisionsHold, O!Overtaken
    <2>3. QED
      BY <2>1, <2>2
  <1>6. QED
    BY <1>3, <1>4, <1>5 DEF O!SourcesInv, O!IsTrial

(* What the invariant says of one request.                                    *)
LEMMA SourceRequestTypes ==
  ASSUME O!Proper, O!SourcesInv, NEW r \in Requests
  PROVE  /\ pc \in [Requests -> O!Phases] /\ req \in [Requests -> O!RequestRows]
         /\ req[r] \in O!RequestRows /\ req[r].row \in O!TrialRows
         /\ req[r].op \in {None, "create", "register", "read"}
         /\ req[r].source \in Workflows \cup Hooks \cup {None}
         /\ trial \in O!TrialRows /\ O!IsTrial(trial)
         /\ active \subseteq Workflows \cup Hooks /\ gone \subseteq Hooks \ active
         /\ versions \in [Workflows -> Nat] /\ guards \in [Workflows -> Nat]
         /\ O!ProperIn(pc[r], req[r])
         /\ O!NoRequest \in O!RequestRows /\ O!NoRequest.op = None
         /\ O!NoTrial \in O!TrialRows
  <1>1. /\ pc \in [Requests -> O!Phases] /\ req \in [Requests -> O!RequestRows]
        /\ trial \in O!TrialRows /\ O!IsTrial(trial) /\ O!ProperIn(pc[r], req[r])
        /\ active \subseteq Workflows \cup Hooks /\ gone \subseteq Hooks \ active
        /\ versions \in [Workflows -> Nat] /\ guards \in [Workflows -> Nat]
    BY DEF O!SourcesInv, O!TypeOK, O!RequestsAreProper
  <1>2. O!NoTrial \in O!TrialRows
    BY DEF O!Proper, O!NoTrial, O!TrialRows
  <1>3. O!NoRequest \in O!RequestRows /\ O!NoRequest.op = None
    BY <1>2 DEF O!NoRequest, O!RequestRows, O!Proper
  <1>4. req[r] \in O!RequestRows
    BY <1>1
  <1>5. /\ req[r].row \in O!TrialRows /\ req[r].op \in {None, "create", "register", "read"}
        /\ req[r].source \in Workflows \cup Hooks \cup {None}
    BY <1>4 DEF O!RequestRows
  <1>6. QED
    BY <1>1, <1>2, <1>3, <1>4, <1>5

(* A request that ends leaves everything else as it is.                       *)
LEMMA SourceRequestEnds ==
  ASSUME O!Proper, O!SourcesInv, NEW r \in Requests, O!Finish(r),
         now' = now, plan' = plan, active' = active, gone' = gone,
         versions' = versions, guards' = guards,
         trial' \in O!TrialRows, O!IsTrial(trial'), trial.started # 0 => trial'.started # 0,
         O!Free' => O!Free
  PROVE  O!SourcesInv'
  <1> DEFINE ph == "idle"
  <1> DEFINE q == O!NoRequest
  <1>1. /\ pc' = [pc EXCEPT ![r] = ph] /\ req' = [req EXCEPT ![r] = q] /\ stale' = stale \ {r}
    BY DEF O!Finish, O!Goto
  <1>2. ph \in O!Phases /\ q \in O!RequestRows /\ q.op \notin {"create", "register"}
    BY SourceRequestTypes DEF O!Phases, O!Proper
  <1>3. QED
    BY <1>1, <1>2, SourceRequestTypes, SourceRequestMoves

(* The access of a request, and the row it reads.                             *)
LEMMA SourceAccessStep ==
  ASSUME O!Proper, O!SourcesInv, NEW r \in Requests, O!Access(r)
  PROVE  O!SourcesInv'
  <1>1. PICK op \in {"create", "register", "read"}, s \in Workflows \cup Hooks \cup {None}, at \in 1 .. now :
          /\ op = "register" => s \in Workflows
          /\ req' = [req EXCEPT ![r] = [O!NoRequest EXCEPT !.op = op, !.source = s, !.at = at,
                                         !.free = O!FreeAt(at), !.row = trial]]
          /\ stale' = IF at = now THEN stale ELSE stale \cup {r}
    BY DEF O!Access
  <1>2. PICK q : q = [O!NoRequest EXCEPT !.op = op, !.source = s, !.at = at, !.free = O!FreeAt(at),
                                         !.row = trial]
    OBVIOUS
  <1>3. q = [op |-> op, source |-> s, at |-> at, free |-> O!FreeAt(at), row |-> trial, found |-> FALSE]
    BY <1>2 DEF O!NoRequest
  <1>4. O!FreeAt(at) \in BOOLEAN /\ at \in 0 .. MaxNow
    BY DEF O!FreeAt, O!SourcesInv, O!TypeOK, O!Proper
  <1>5. q \in O!RequestRows
    BY <1>3, <1>4, SourceRequestTypes DEF O!RequestRows
  <1>6. q.op = op /\ q.source = s /\ q.row = trial /\ (q.free <=> O!FreeAt(at))
    BY <1>3
  <1>7. /\ pc' = [pc EXCEPT ![r] = "sync"] /\ req' = [req EXCEPT ![r] = q]
        /\ UNCHANGED <<now, plan, trial, active, gone, versions, guards>>
    BY <1>1, <1>2 DEF O!Access, O!Goto, O!tenant, O!sources
  <1>8. O!Free' <=> O!Free
    BY <1>7 DEF O!Free, O!FreeAt, O!Status
  <1>9. "sync" \in O!Phases
    BY DEF O!Phases
  <1>10. r \notin stale' /\ O!Free' => q.free
    BY <1>1, <1>6, <1>8 DEF O!Free
  <1>11. stale \ {r} \subseteq stale'
    BY <1>1
  <1>12. QED
    BY <1>1, <1>5, <1>6, <1>7, <1>8, <1>9, <1>10, <1>11, SourceRequestTypes, SourceRequestMoves

(* The status that is written to the row of the trial: it never makes a trial *)
(* that started one that did not.                                            *)
LEMMA SyncedTrial ==
  ASSUME O!Proper, O!SourcesInv, NEW r \in Requests, O!Sync(r)
  PROVE  /\ trial' \in O!TrialRows /\ O!IsTrial(trial')
         /\ trial' = [trial EXCEPT !.status = trial'.status]
         /\ trial.started = 0 => trial' = trial
         /\ trial'.started = trial.started /\ trial'.ends = trial.ends
         /\ O!Free' <=> O!Free
  <1>1. PICK status : status = O!Status(req[r].row, req[r].at)
    OBVIOUS
  <1>2. /\ trial' = IF req[r].row.status # status THEN [trial EXCEPT !.status = status] ELSE trial
        /\ now' = now /\ plan' = plan /\ pc[r] = "sync"
    BY <1>1 DEF O!Sync
  <1>3. /\ status \in {"none", "active", "expired"}
        /\ status = "none" <=> req[r].row.started = 0
    BY <1>1 DEF O!Status
  <1>4. /\ O!IsTrial(req[r].row) /\ (req[r].row.started # 0 => trial.started # 0)
        /\ trial \in O!TrialRows /\ O!IsTrial(trial)
    BY <1>2, SourceRequestTypes DEF O!ProperIn
  <1>5. QED
    BY <1>2, <1>3, <1>4 DEF O!IsTrial, O!TrialRows, O!Free, O!FreeAt, O!Status

LEMMA SourceSyncStep ==
  ASSUME O!Proper, O!SourcesInv, NEW r \in Requests, O!Sync(r)
  PROVE  O!SourcesInv'
  <1>1. /\ pc[r] = "sync" /\ O!AfterSync(r)
        /\ UNCHANGED <<now, plan, active, gone, versions, guards>>
    BY DEF O!Sync, O!sources
  <1>2. CASE req[r].op \in {"create", "register"}
    <2>1. PICK q : q = [req[r] EXCEPT !.at = 0, !.row = O!NoTrial]
      OBVIOUS
    <2>2. PICK ph : ph = IF req[r].op = "create" THEN "count" ELSE "existing"
      OBVIOUS
    <2>3. pc' = [pc EXCEPT ![r] = ph] /\ req' = [req EXCEPT ![r] = q] /\ stale' = stale
      BY <1>1, <1>2, <2>1, <2>2, SourceRequestTypes DEF O!AfterSync, O!Forget, O!Goto
    <2>4. /\ q \in O!RequestRows /\ q.op = req[r].op /\ q.source = req[r].source
          /\ q.free = req[r].free
      <3>1. 0 \in 0 .. MaxNow
        BY DEF O!Proper
      <3>2. QED
        BY <2>1, <3>1, SourceRequestTypes DEF O!RequestRows
    <2>5. /\ ph \in O!Phases /\ ph \notin {"idle", "sync", "version", "guard", "create", "start"}
          /\ ph = "existing" => q.op = "register"
      BY <1>2, <2>2, <2>4 DEF O!Phases
    <2>6. r \notin stale' /\ O!Free' => q.free
      BY <1>1, <2>3, <2>4, SyncedTrial DEF O!SourcesInv, O!DecisionsHold
    <2>7. QED
      BY <1>1, <1>2, <2>3, <2>4, <2>5, <2>6, SyncedTrial, SourceRequestTypes, SourceRequestMoves
        DEF O!ProperIn
  <1>3. CASE req[r].op \notin {"create", "register"}
    BY <1>1, <1>3, SyncedTrial, SourceRequestEnds DEF O!AfterSync
  <1>4. QED
    BY <1>2, <1>3

(* The checks before a source is created.                                     *)
LEMMA SourceCheckStep ==
  ASSUME O!Proper, O!SourcesInv, NEW r \in Requests, O!Existing(r) \/ O!Count(r)
  PROVE  O!SourcesInv'
  <1>1. UNCHANGED <<now, plan, trial, active, gone, versions, guards>> /\ pc[r] \in {"existing", "count"}
    BY DEF O!Existing, O!Count, O!tenant, O!sources
  <1>2. O!Free' <=> O!Free
    BY <1>1 DEF O!Free, O!FreeAt, O!Status
  <1>3. r \notin stale /\ O!Free => req[r].free
    BY <1>1 DEF O!SourcesInv, O!DecisionsHold
  <1>4. ASSUME NEW ph \in {"count", "create"}, pc' = [pc EXCEPT ![r] = ph], req' = req, stale' = stale,
               ph = "create" /\ req[r].free =>
                 active = {} \/ (req[r].op = "register" /\ req[r].source \in active)
        PROVE  O!SourcesInv'
    <2>1. req' = [req EXCEPT ![r] = req[r]]
      BY <1>4, SourceRequestTypes
    <2>2. ph \in O!Phases
      BY DEF O!Phases
    <2>3. PICK q : q = req[r]
      OBVIOUS
    <2>4. /\ req' = [req EXCEPT ![r] = q] /\ q \in O!RequestRows
          /\ q.op = "register" => q.source \in Workflows
      BY <2>1, <2>3, SourceRequestTypes DEF O!ProperIn
    <2>5. q.op \in {"create", "register"}
      BY <1>1, <2>3, SourceRequestTypes DEF O!ProperIn
    <2>6. r \notin stale' /\ O!Free' =>
             q.free /\ (ph = "create" => active' = {} \/ (q.op = "register" /\ q.source \in active'))
      BY <1>1, <1>2, <1>3, <1>4, <2>3
    <2>7. /\ trial' \in O!TrialRows /\ O!IsTrial(trial') /\ trial'.started = trial.started
          /\ active' \subseteq Workflows \cup Hooks /\ gone' \subseteq Hooks \ active'
          /\ versions' \in [Workflows -> Nat] /\ guards' \in [Workflows -> Nat]
      BY <1>1, SourceRequestTypes
    <2>8. QED
      BY <1>1, <1>2, <1>4, <2>2, <2>4, <2>5, <2>6, <2>7, SourceRequestMoves
  <1>5. CASE O!Existing(r)
    <2>1. pc[r] = "existing" /\ req[r].op = "register"
      BY <1>5, SourceRequestTypes DEF O!Existing, O!ProperIn
    <2>2. QED
      BY <1>4, <1>5, <2>1 DEF O!Existing, O!Goto
  <1>6. CASE O!Count(r)
    <2>1. CASE req[r].free /\ active # {}
      BY <1>1, <1>2, <1>6, <2>1, SourceRequestTypes, SourceRequestEnds DEF O!Count
    <2>2. CASE ~(req[r].free /\ active # {})
      BY <1>4, <1>6, <2>2 DEF O!Count, O!Goto
    <2>3. QED
      BY <2>1, <2>2
  <1>7. QED
    BY <1>5, <1>6

(* A new source, or a registered one.                                         *)
LEMMA SourceCreateStep ==
  ASSUME O!Proper, O!SourcesInv, NEW r \in Requests, O!CreateWorkflow(r) \/ O!CreateIntegration(r)
  PROVE  O!SourcesInv'
  <1>1. PICK s \in (Workflows \cup Hooks) \ (active \cup gone) :
          /\ active' = active \cup {s}
          /\ s \in Hooks => /\ O!Goto(r, "idle") /\ req' = [req EXCEPT ![r] = O!NoRequest]
                            /\ versions' = versions
          /\ s \notin Hooks => /\ versions' = [versions EXCEPT ![s] = 1]
                               /\ O!Goto(r, "trial") /\ req' = req
    <2>1. Workflows \cap Hooks = {} /\ gone \in SUBSET Hooks
      BY SourceRequestTypes DEF O!Proper
    <2>2. CASE O!CreateWorkflow(r)
      BY <2>1, <2>2 DEF O!CreateWorkflow
    <2>3. CASE O!CreateIntegration(r)
      BY <2>1, <2>3 DEF O!CreateIntegration
    <2>4. QED
      BY <2>2, <2>3
  <1>2. /\ stale' = (stale \cup O!Overtaken) \ {r} /\ UNCHANGED <<now, plan, trial, gone, guards>>
        /\ req[r].op = "create"
    BY DEF O!CreateWorkflow, O!CreateIntegration, O!tenant
  <1>3. PICK ph : ph = IF s \in Hooks THEN "idle" ELSE "trial"
    OBVIOUS
  <1>4. PICK q : q = IF s \in Hooks THEN O!NoRequest ELSE req[r]
    OBVIOUS
  <1>5. pc' = [pc EXCEPT ![r] = ph] /\ req' = [req EXCEPT ![r] = q]
    BY <1>1, <1>3, <1>4, SourceRequestTypes DEF O!Goto
  <1>6. ph \in O!Phases \ {"sync", "existing", "count", "create", "version", "guard", "start"}
    BY <1>3 DEF O!Phases
  <1>7. q \in O!RequestRows /\ q.op # "register" /\ (ph = "idle" => q = O!NoRequest)
    BY <1>2, <1>3, <1>4, SourceRequestTypes DEF O!Proper
  <1>8. versions' \in [Workflows -> Nat] /\ gone' \subseteq Hooks \ active'
        /\ active' \subseteq Workflows \cup Hooks
    BY <1>1, <1>2, SourceRequestTypes
  <1>9. O!Free' <=> O!Free
    BY <1>2 DEF O!Free, O!FreeAt, O!Status
  <1>10. QED
    BY <1>2, <1>5, <1>6, <1>7, <1>8, <1>9, SourceRequestTypes, SourceRequestMoves

(* What a registration has found is noted with it. *)
LEMMA FoundRows ==
  ASSUME NEW row \in O!RequestRows, NEW n
  PROVE  /\ [row EXCEPT !.found = (n > 0)] \in O!RequestRows
         /\ [row EXCEPT !.found = (n > 0)].op = row.op
         /\ [row EXCEPT !.found = (n > 0)].source = row.source
  <1>1. (n > 0) \in BOOLEAN
    OBVIOUS
  <1>2. \A f \in BOOLEAN : /\ [row EXCEPT !.found = f] \in O!RequestRows
                           /\ [row EXCEPT !.found = f].op = row.op
                           /\ [row EXCEPT !.found = f].source = row.source
    BY DEF O!RequestRows
  <1>3. QED
    BY <1>1, <1>2, Zenon

LEMMA SourceUpsertStep ==
  ASSUME O!Proper, O!SourcesInv, NEW r \in Requests, O!Upsert(r)
  PROVE  O!SourcesInv'
  <1>1. PICK q : q = [req[r] EXCEPT !.found = (versions[req[r].source] > 0)]
    OBVIOUS
  <1>2. /\ pc' = [pc EXCEPT ![r] = "version"] /\ req' = [req EXCEPT ![r] = q]
        /\ active' = active \cup {req[r].source}
        /\ stale' = (IF req[r].source \in active THEN stale ELSE stale \cup O!Overtaken) \ {r}
        /\ UNCHANGED <<now, plan, trial, gone, versions, guards>>
    BY <1>1, Zenon DEF O!Upsert, O!Goto, O!tenant
  <1>3. req[r].op = "register" /\ req[r].source \in Workflows
    BY SourceRequestTypes DEF O!Upsert, O!ProperIn
  <1>4. q \in O!RequestRows /\ q.op = "register" /\ q.source = req[r].source
    BY <1>1, <1>3, SourceRequestTypes, FoundRows
  <1>5. gone' \subseteq Hooks \ active' /\ active' \subseteq Workflows \cup Hooks
    BY <1>2, <1>3, SourceRequestTypes DEF O!Proper
  <1>6. active' = active \/ O!Overtaken \ {r} \subseteq stale'
    BY <1>2
  <1>7. O!Free' <=> O!Free
    BY <1>2 DEF O!Free, O!FreeAt, O!Status
  <1>8. "version" \in O!Phases
    BY DEF O!Phases
  <1>9. stale \ {r} \subseteq stale'
    BY <1>2
  <1>10. QED
    BY <1>2, <1>3, <1>4, <1>5, <1>6, <1>7, <1>8, <1>9, SourceRequestTypes, SourceRequestMoves

(* What a registration adds to a workflow.                                    *)
LEMMA SourceVersionStep ==
  ASSUME O!Proper, O!SourcesInv, NEW r \in Requests, O!Version(r) \/ O!Guard(r)
  PROVE  O!SourcesInv'
  <1>1. UNCHANGED <<now, plan, trial, active, gone, stale>>
    BY DEF O!Version, O!Guard, O!tenant
  <1>2. req[r].op = "register" /\ req[r].source \in Workflows
    BY SourceRequestTypes DEF O!Version, O!Guard, O!ProperIn
  <1>3. versions' \in [Workflows -> Nat] /\ guards' \in [Workflows -> Nat]
    BY <1>2, SourceRequestTypes DEF O!Version, O!Guard
  <1>4. O!Free' <=> O!Free
    BY <1>1 DEF O!Free, O!FreeAt, O!Status
  <1>5. ASSUME NEW ph \in {"guard", "trial"}, NEW q \in O!RequestRows,
               q.op = "register", q.source = req[r].source,
               pc' = [pc EXCEPT ![r] = ph], req' = [req EXCEPT ![r] = q]
        PROVE  O!SourcesInv'
    <2>1. ph \in O!Phases
      BY DEF O!Phases
    <2>2. QED
      BY <1>1, <1>2, <1>3, <1>4, <1>5, <2>1, SourceRequestTypes, SourceRequestMoves
  <1>6. CASE O!Version(r)
    <2>1. PICK q : q = [req[r] EXCEPT !.found = (guards[req[r].source] > 0)]
      OBVIOUS
    <2>2. pc' = [pc EXCEPT ![r] = "guard"] /\ req' = [req EXCEPT ![r] = q]
      BY <1>6, <2>1, Zenon DEF O!Version, O!Goto
    <2>3. q \in O!RequestRows /\ q.op = "register" /\ q.source = req[r].source
      BY <1>2, <2>1, SourceRequestTypes, FoundRows
    <2>4. QED
      BY <1>5, <2>2, <2>3
  <1>7. CASE O!Guard(r)
    <2>1. pc' = [pc EXCEPT ![r] = "trial"] /\ req' = [req EXCEPT ![r] = req[r]]
      BY <1>7, SourceRequestTypes DEF O!Guard, O!Goto
    <2>2. QED
      BY <1>2, <1>5, <2>1, SourceRequestTypes
  <1>8. QED
    BY <1>6, <1>7

(* An integration is deactivated: who registers a workflow still finds it.    *)
LEMMA SourceDeactivateStep ==
  ASSUME O!Proper, O!SourcesInv, NEW g \in Hooks, O!Deactivate(g)
  PROVE  O!SourcesInv'
  <1>1. /\ g \in active /\ active' = active \ {g} /\ gone' = gone \cup {g}
        /\ UNCHANGED <<now, plan, trial, versions, guards, pc, req, stale>>
    BY DEF O!Deactivate, O!tenant
  <1>2. O!TypeOK'
    BY <1>1 DEF O!SourcesInv, O!TypeOK
  <1>3. O!RequestsAreProper'
    BY <1>1 DEF O!SourcesInv, O!RequestsAreProper, O!ProperIn
  <1>4. O!Free' <=> O!Free
    BY <1>1 DEF O!Free, O!FreeAt, O!Status
  <1>5. O!DecisionsHold'
    <2>1. \A r \in Requests : req[r].op = "register" => req[r].source # g
      BY DEF O!SourcesInv, O!RequestsAreProper, O!ProperIn, O!Proper
    <2>2. QED
      BY <1>1, <1>4, <2>1 DEF O!SourcesInv, O!DecisionsHold
  <1>6. QED
    BY <1>1, <1>2, <1>3, <1>5 DEF O!SourcesInv, O!IsTrial

(* The start of the trial: the tenant is on the free plan after it only if it *)
(* was before.                                                               *)
LEMMA SourceReadTrialStep ==
  ASSUME O!Proper, O!SourcesInv, NEW r \in Requests, O!ReadTrial(r)
  PROVE  O!SourcesInv'
  <1>1. UNCHANGED <<now, plan, trial, active, gone, versions, guards>>
    BY DEF O!ReadTrial, O!tenant, O!sources
  <1>2. O!Free' <=> O!Free
    BY <1>1 DEF O!Free, O!FreeAt, O!Status
  <1>3. CASE O!Finish(r)
    BY <1>1, <1>2, <1>3, SourceRequestTypes, SourceRequestEnds
  <1>4. ASSUME NEW at \in 1 .. now, O!Goto(r, "start"), UNCHANGED stale,
               req' = [req EXCEPT ![r] = [O!NoRequest EXCEPT !.at = at]]
        PROVE  O!SourcesInv'
    <2>1. PICK q : q = [O!NoRequest EXCEPT !.at = at]
      OBVIOUS
    <2>2. q \in O!RequestRows /\ q.op # "register" /\ q.op \notin {"create"} /\ q.at # 0
      <3>1. at \in 0 .. MaxNow /\ at # 0
        BY DEF O!SourcesInv, O!TypeOK, O!Proper
      <3>2. q.op = None /\ q.at = at
        BY <2>1 DEF O!NoRequest
      <3>3. q \in O!RequestRows
        BY <2>1, <3>1, SourceRequestTypes DEF O!RequestRows
      <3>4. QED
        BY <3>1, <3>2, <3>3 DEF O!Proper
    <2>3. "start" \in O!Phases
      BY DEF O!Phases
    <2>4. QED
      BY <1>1, <1>2, <1>4, <2>1, <2>2, <2>3, SourceRequestTypes, SourceRequestMoves DEF O!Goto
  <1>5. QED
    BY <1>3, <1>4 DEF O!ReadTrial

LEMMA StartedTrial ==
  ASSUME O!Proper, O!SourcesInv, NEW r \in Requests, O!Start(r)
  PROVE  /\ trial' \in O!TrialRows /\ O!IsTrial(trial')
         /\ trial.started # 0 => trial' = trial
         /\ trial' # trial => plan = "free"
         /\ O!Free' => O!Free
  <1>1. PICK source \in {"manual", "auto"} :
          trial' = IF trial.started = 0 /\ plan = "free" THEN O!Started(req[r].at, source) ELSE trial
    BY DEF O!Start
  <1>2. UNCHANGED <<now, plan>> /\ now \in 1 .. MaxNow /\ MaxNow \in Nat /\ Trial \in Nat
    BY DEF O!Start, O!SourcesInv, O!TypeOK, O!Proper
  <1>3. O!Started(req[r].at, source) \in O!TrialRows /\ O!IsTrial(O!Started(req[r].at, source))
    <2>1. req[r].at \in 0 .. MaxNow /\ req[r].at # 0
      BY SourceRequestTypes DEF O!Start, O!ProperIn, O!RequestRows
    <2>2. QED
      BY <1>2, <2>1 DEF O!Started, O!TrialRows, O!IsTrial
  <1>4. O!Free' => O!Free
    BY <1>1, <1>2 DEF O!Free, O!FreeAt, O!Status
  <1>5. QED
    BY <1>1, <1>3, <1>4, SourceRequestTypes

LEMMA SourceStartStep ==
  ASSUME O!Proper, O!SourcesInv, NEW r \in Requests, O!Start(r)
  PROVE  O!SourcesInv'
  <1>1. O!Finish(r) /\ UNCHANGED <<now, plan, active, gone, versions, guards>>
    BY DEF O!Start, O!sources
  <1>2. QED
    BY <1>1, StartedTrial, SourceRequestEnds

LEMMA SourceCrashStep ==
  ASSUME O!Proper, O!SourcesInv, NEW r \in Requests, O!Crash(r)
  PROVE  O!SourcesInv'
  <1>1. O!Finish(r) /\ UNCHANGED <<now, plan, trial, active, gone, versions, guards>>
    BY DEF O!Crash, O!tenant, O!sources
  <1>2. O!Free' <=> O!Free
    BY <1>1 DEF O!Free, O!FreeAt, O!Status
  <1>3. QED
    BY <1>1, <1>2, SourceRequestTypes, SourceRequestEnds

(* The clock, the billing, or nothing at all: whoever decides is overtaken.   *)
LEMMA SourceEnvironmentStep ==
  ASSUME O!Proper, O!SourcesInv, O!Tick \/ O!ChangePlan \/ UNCHANGED O!vars
  PROVE  O!SourcesInv'
  <1>1. /\ UNCHANGED <<trial, active, gone, versions, guards, pc, req>>
        /\ (stale' = stale /\ now' = now /\ plan' = plan) \/ stale' = stale \cup O!Overtaken
    BY DEF O!Tick, O!ChangePlan, O!vars, O!tenant, O!sources
  <1>2. now' \in 1 .. MaxNow /\ plan' \in {"free", "pro"}
    BY DEF O!Tick, O!ChangePlan, O!vars, O!tenant, O!SourcesInv, O!TypeOK, O!Proper
  <1>3. O!TypeOK'
    BY <1>1, <1>2 DEF O!SourcesInv, O!TypeOK
  <1>4. O!RequestsAreProper'
    BY <1>1 DEF O!SourcesInv, O!RequestsAreProper, O!ProperIn
  <1>5. O!DecisionsHold'
    <2>1. CASE stale' = stale /\ now' = now /\ plan' = plan
      BY <1>1, <2>1 DEF O!SourcesInv, O!DecisionsHold, O!Free, O!FreeAt, O!Status
    <2>2. CASE stale' = stale \cup O!Overtaken
      BY <1>1, <2>2 DEF O!DecisionsHold, O!Overtaken
    <2>3. QED
      BY <1>1, <2>1, <2>2
  <1>6. QED
    BY <1>1, <1>3, <1>4, <1>5 DEF O!SourcesInv, O!IsTrial

(* Each step keeps the inductive invariant: what the requests *)
(* that decide about a new source know of the tenant's plan and sources      *)
(* (entitlement-guard-service.ts), and that a trial has a status exactly     *)
(* when it started.                                                          *)
LEMMA SourcesSteps ==
  ASSUME O!Proper
  PROVE  O!SourcesInv /\ [O!Next]_O!vars => O!SourcesInv'
  <1> SUFFICES ASSUME O!SourcesInv, [O!Next]_O!vars PROVE O!SourcesInv'
    OBVIOUS
  <1>1. ASSUME NEW r \in Requests,
               \/ O!Access(r) \/ O!Sync(r) \/ O!Existing(r) \/ O!Count(r)
               \/ O!CreateWorkflow(r) \/ O!CreateIntegration(r) \/ O!Upsert(r) \/ O!Version(r) \/ O!Guard(r) \/ O!ReadTrial(r) \/ O!Start(r)
               \/ O!Crash(r)
        PROVE  O!SourcesInv'
    BY <1>1, SourceAccessStep, SourceSyncStep, SourceCheckStep, SourceCreateStep, SourceUpsertStep,
       SourceVersionStep, SourceReadTrialStep, SourceStartStep, SourceCrashStep
  <1>2. QED
    BY <1>1, SourceDeactivateStep, SourceEnvironmentStep DEF O!Next

----------------------------------------------------------------------------
(* The control plane.                                                      *)

LEMMA NextKeyIsUnissued ==
  ASSUME C!Proper, C!Unissued # {}
  PROVE  C!NextKey \in ApiKeys /\ key[C!NextKey].tenant = None
  <1>1. C!Unissued \in SUBSET Nat
    BY DEF C!Unissued, C!Proper
  <1>2. C!NextKey \in C!Unissued
    BY <1>1, HasLeast DEF C!NextKey
  <1>3. QED
    BY <1>2 DEF C!Unissued

LEMMA PlaneNoRequestIsProper ==
  C!NoRequest \in C!RequestRows /\ C!ProperIn("idle", C!NoRequest)
  BY DEF C!NoRequest, C!RequestRows, C!ProperIn

LEMMA InitPlaneInv ==
  ASSUME C!Proper
  PROVE  C!Init => C!PlaneInv
  <1> SUFFICES ASSUME C!Init PROVE C!PlaneInv
    OBVIOUS
  <1>1. /\ C!NoKey \in C!KeyRows /\ C!NoKey.tenant = None /\ C!NoKey.from = None
        /\ C!NoChannel \in C!ChannelRows /\ C!NoChannel.tenant = None
        /\ C!NoPolicy \in C!PolicyRows /\ C!NoPolicy.tenant = None /\ ~C!NoPolicy.deleted
    BY DEF C!NoKey, C!KeyRows, C!NoChannel, C!ChannelRows, C!NoPolicy, C!PolicyRows
  <1>2. C!TypeOK
    BY <1>1, PlaneNoRequestIsProper DEF C!Init, C!TypeOK, C!Phases
  <1>3. C!RequestsAreProper
    BY PlaneNoRequestIsProper DEF C!Init, C!RequestsAreProper
  <1>4. C!PoliciesStayInTenant /\ C!RotatedKeysAreRevoked /\ C!EmptyRowsAreEmpty
    BY <1>1 DEF C!Init, C!PoliciesStayInTenant, C!RotatedKeysAreRevoked, C!EmptyRowsAreEmpty
  <1>5. QED
    BY <1>2, <1>3, <1>4 DEF C!PlaneInv

(* What a request knows stays true when a step takes no key, channel or       *)
(* policy away from a tenant, other than by deleting the policy.              *)
LEMMA KnowledgeStays ==
  ASSUME C!Proper, NEW phase, NEW q, C!ProperIn(phase, q),
         \A k \in ApiKeys : key[k].tenant # None =>
            key'[k].tenant = key[k].tenant /\ (key[k].revoked => key'[k].revoked),
         \A c \in Channels : channel[c].tenant # None => channel'[c].tenant = channel[c].tenant,
         \A p \in Policies :
            /\ policy[p].deleted => policy'[p].deleted
            /\ policy[p].tenant # None => policy'[p].deleted \/ policy'[p].tenant = policy[p].tenant
  PROVE  C!ProperIn(phase, q)'
  <1>1. phase # "idle" => q.tenant \in Tenants /\ q.tenant # None
    BY DEF C!Proper, C!ProperIn
  <1>2. ASSUME phase # "idle", NEW cs \in SUBSET Channels, C!ChannelsAreOf(cs, q.tenant)
        PROVE  C!ChannelsAreOf(cs, q.tenant)'
    BY <1>1, <1>2 DEF C!ChannelsAreOf
  <1>3. ASSUME C!WorkflowIsOf(q.workflow, q.tenant) PROVE C!WorkflowIsOf(q.workflow, q.tenant)'
    BY <1>3 DEF C!WorkflowIsOf
  <1>4. CASE phase \in {"revoke", "rotate"}
    BY <1>1, <1>4 DEF C!ProperIn
  <1>5. CASE phase = "channel"
    BY <1>1, <1>5 DEF C!ProperIn
  <1>6. CASE phase = "policy"
    BY <1>1, <1>2, <1>3, <1>6 DEF C!ProperIn, C!OfTenant
  <1>7. CASE phase = "patch"
    <2>1. q.of \in Policies /\ (policy[q.of].deleted \/ policy[q.of].tenant = q.tenant)
      BY <1>7 DEF C!ProperIn
    <2>2. policy'[q.of].deleted \/ policy'[q.of].tenant = q.tenant
      BY <1>1, <1>7, <2>1
    <2>3. /\ C!WorkflowIsOf(q.workflow, q.tenant)
          /\ q.channels # None => q.channels \subseteq Channels /\ C!ChannelsAreOf(q.channels, q.tenant)
      BY <1>7 DEF C!ProperIn
    <2>4. QED
      BY <1>1, <1>2, <1>3, <1>7, <2>1, <2>2, <2>3 DEF C!ProperIn
  <1>8. CASE phase \notin {"revoke", "rotate", "channel", "policy", "patch"}
    BY <1>8 DEF C!ProperIn
  <1>9. QED
    BY <1>4, <1>5, <1>6, <1>7, <1>8

(* A request moves on with what it knows, and nothing it or others know is    *)
(* undone.                                                                    *)
LEMMA RequestMoves ==
  ASSUME C!Proper, C!PlaneInv, NEW r \in Requests, NEW phase \in C!Phases, NEW row \in C!RequestRows,
         pc' = [pc EXCEPT ![r] = phase], req' = [req EXCEPT ![r] = row], C!ProperIn(phase, row)',
         \A k \in ApiKeys : key[k].tenant # None =>
            key'[k].tenant = key[k].tenant /\ (key[k].revoked => key'[k].revoked),
         \A c \in Channels : channel[c].tenant # None => channel'[c].tenant = channel[c].tenant,
         \A p \in Policies :
            /\ policy[p].deleted => policy'[p].deleted
            /\ policy[p].tenant # None => policy'[p].deleted \/ policy'[p].tenant = policy[p].tenant
  PROVE  /\ pc' \in [Requests -> C!Phases] /\ req' \in [Requests -> C!RequestRows]
         /\ C!RequestsAreProper'
  <1>1. pc \in [Requests -> C!Phases] /\ req \in [Requests -> C!RequestRows]
    BY DEF C!PlaneInv, C!TypeOK
  <1>2. /\ pc' \in [Requests -> C!Phases] /\ req' \in [Requests -> C!RequestRows]
        /\ pc'[r] = phase /\ req'[r] = row
        /\ \A q \in Requests \ {r} : pc'[q] = pc[q] /\ req'[q] = req[q]
    BY <1>1
  <1>3. ASSUME NEW q \in Requests PROVE C!ProperIn(pc[q], req[q])'
    <2>1. PICK p, w : p = pc[q] /\ w = req[q]
      OBVIOUS
    <2>2. C!ProperIn(p, w)'
      BY <2>1, KnowledgeStays DEF C!PlaneInv, C!RequestsAreProper
    <2>3. CASE q # r
      BY <1>2, <2>1, <2>2, <2>3
    <2>4. CASE q = r
      BY <1>2, <2>4
    <2>5. QED
      BY <2>3, <2>4
  <1>4. QED
    BY <1>2, <1>3 DEF C!RequestsAreProper

(* A request that only reads. *)
LEMMA BeginStep ==
  ASSUME C!Proper, C!PlaneInv, NEW r \in Requests, NEW phase \in C!Phases, NEW row \in C!RequestRows,
         pc' = [pc EXCEPT ![r] = phase], req' = [req EXCEPT ![r] = row], C!ProperIn(phase, row),
         UNCHANGED <<key, channel, policy>>
  PROVE  C!PlaneInv'
  <1>1. key' = key /\ channel' = channel /\ policy' = policy
    OBVIOUS
  <1>2. C!ProperIn(phase, row)'
    BY <1>1, KnowledgeStays
  <1>3. /\ pc' \in [Requests -> C!Phases] /\ req' \in [Requests -> C!RequestRows]
        /\ C!RequestsAreProper'
    BY <1>1, <1>2, RequestMoves
  <1>4. C!TypeOK'
    BY <1>1, <1>3 DEF C!PlaneInv, C!TypeOK
  <1>5. C!PoliciesStayInTenant' /\ C!RotatedKeysAreRevoked' /\ C!EmptyRowsAreEmpty'
    BY <1>1 DEF C!PlaneInv, C!PoliciesStayInTenant, C!RotatedKeysAreRevoked, C!EmptyRowsAreEmpty,
                C!OfTenant, C!WorkflowIsOf, C!ChannelsAreOf
  <1>6. QED
    BY <1>3, <1>4, <1>5 DEF C!PlaneInv

LEMMA ReadKeyStep ==
  ASSUME C!Proper, C!PlaneInv, NEW r \in Requests, C!ReadKey(r)
  PROVE  C!PlaneInv'
  <1>1. PICK t \in Tenants, k \in ApiKeys, phase \in {"revoke", "rotate"} :
           /\ key[k].tenant = t
           /\ C!Begin(r, phase, [C!NoRequest EXCEPT !.tenant = t, !.of = k, !.live = ~key[k].revoked])
    BY DEF C!ReadKey
  <1> DEFINE row == [C!NoRequest EXCEPT !.tenant = t, !.of = k, !.live = ~key[k].revoked]
  <1>2. key[k] \in C!KeyRows
    BY DEF C!PlaneInv, C!TypeOK
  <1>3. row \in C!RequestRows
    BY DEF C!NoRequest, C!RequestRows
  <1>4. C!ProperIn(phase, row)
    BY <1>1, <1>2 DEF C!ProperIn, C!NoRequest, C!KeyRows
  <1>5. pc' = [pc EXCEPT ![r] = phase] /\ req' = [req EXCEPT ![r] = row]
    BY <1>1 DEF C!Begin
  <1> HIDE DEF row
  <1>6. QED
    BY <1>3, <1>4, <1>5, BeginStep DEF C!ReadKey, C!Phases

LEMMA ReadChannelStep ==
  ASSUME C!Proper, C!PlaneInv, NEW r \in Requests, C!ReadChannel(r)
  PROVE  C!PlaneInv'
  <1>1. PICK t \in Tenants, c \in Channels :
           /\ channel[c].tenant = t
           /\ C!Begin(r, "channel", [C!NoRequest EXCEPT !.tenant = t, !.of = c])
    BY DEF C!ReadChannel
  <1> DEFINE row == [C!NoRequest EXCEPT !.tenant = t, !.of = c]
  <1>2. row \in C!RequestRows /\ C!ProperIn("channel", row)
    BY <1>1 DEF C!NoRequest, C!RequestRows, C!ProperIn
  <1>3. pc' = [pc EXCEPT ![r] = "channel"] /\ req' = [req EXCEPT ![r] = row]
    BY <1>1 DEF C!Begin
  <1> HIDE DEF row
  <1>4. QED
    BY <1>2, <1>3, BeginStep DEF C!ReadChannel, C!Phases

LEMMA CheckPolicyStep ==
  ASSUME C!Proper, C!PlaneInv, NEW r \in Requests, C!CheckPolicy(r)
  PROVE  C!PlaneInv'
  <1>1. PICK t \in Tenants, w \in Workflows \cup {None}, cs \in SUBSET Channels :
           /\ C!OwnWorkflow(t, w) /\ C!OwnChannels(t, cs)
           /\ C!Begin(r, "policy", [C!NoRequest EXCEPT !.tenant = t, !.workflow = w, !.channels = cs])
    BY DEF C!CheckPolicy
  <1> DEFINE row == [C!NoRequest EXCEPT !.tenant = t, !.workflow = w, !.channels = cs]
  <1>2. row \in C!RequestRows /\ C!ProperIn("policy", row)
    BY <1>1 DEF C!NoRequest, C!RequestRows, C!ProperIn, C!OfTenant, C!OwnWorkflow, C!OwnChannels,
                C!WorkflowIsOf, C!ChannelsAreOf
  <1>3. pc' = [pc EXCEPT ![r] = "policy"] /\ req' = [req EXCEPT ![r] = row]
    BY <1>1 DEF C!Begin
  <1> HIDE DEF row
  <1>4. QED
    BY <1>2, <1>3, BeginStep DEF C!CheckPolicy, C!Phases

LEMMA ReadPolicyStep ==
  ASSUME C!Proper, C!PlaneInv, NEW r \in Requests, C!ReadPolicy(r)
  PROVE  C!PlaneInv'
  <1>1. UNCHANGED <<key, channel, policy>>
    BY DEF C!ReadPolicy
  <1>2. PICK t \in Tenants, p \in Policies :
           /\ policy[p].tenant = t
           /\ \/ \E w \in Workflows \cup {None}, cs \in {None} \cup SUBSET Channels :
                   /\ C!OwnWorkflow(t, w) /\ (cs # None => C!OwnChannels(t, cs))
                   /\ C!Begin(r, "patch", [C!NoRequest EXCEPT !.tenant = t, !.of = p, !.workflow = w,
                                                              !.channels = cs])
              \/ C!Begin(r, "delete", [C!NoRequest EXCEPT !.tenant = t, !.of = p])
    BY DEF C!ReadPolicy
  <1>3. CASE C!Begin(r, "delete", [C!NoRequest EXCEPT !.tenant = t, !.of = p])
    <2> DEFINE row == [C!NoRequest EXCEPT !.tenant = t, !.of = p]
    <2>1. row \in C!RequestRows /\ C!ProperIn("delete", row)
      BY DEF C!NoRequest, C!RequestRows, C!ProperIn
    <2>2. pc' = [pc EXCEPT ![r] = "delete"] /\ req' = [req EXCEPT ![r] = row]
      BY <1>3 DEF C!Begin
    <2> HIDE DEF row
    <2>3. QED
      BY <1>1, <2>1, <2>2, BeginStep DEF C!Phases
  <1>4. ASSUME NEW w \in Workflows \cup {None}, NEW cs \in {None} \cup SUBSET Channels,
               C!OwnWorkflow(t, w), cs # None => C!OwnChannels(t, cs),
               C!Begin(r, "patch", [C!NoRequest EXCEPT !.tenant = t, !.of = p, !.workflow = w,
                                                       !.channels = cs])
        PROVE  C!PlaneInv'
    <2> DEFINE row == [C!NoRequest EXCEPT !.tenant = t, !.of = p, !.workflow = w, !.channels = cs]
    <2>1. row \in C!RequestRows
      BY DEF C!NoRequest, C!RequestRows
    <2>2. C!ProperIn("patch", row)
      BY <1>2, <1>4 DEF C!NoRequest, C!ProperIn, C!OwnWorkflow, C!OwnChannels, C!WorkflowIsOf, C!ChannelsAreOf
    <2>3. pc' = [pc EXCEPT ![r] = "patch"] /\ req' = [req EXCEPT ![r] = row]
      BY <1>4 DEF C!Begin
    <2> HIDE DEF row
    <2>4. QED
      BY <1>1, <2>1, <2>2, <2>3, BeginStep DEF C!Phases
  <1>5. QED
    BY <1>2, <1>3, <1>4

(* A request writes and is over. *)
LEMMA FinishMoving ==
  ASSUME C!Proper, C!PlaneInv, NEW r \in Requests, C!Finish(r),
         \A k \in ApiKeys : key[k].tenant # None =>
            key'[k].tenant = key[k].tenant /\ (key[k].revoked => key'[k].revoked),
         \A c \in Channels : channel[c].tenant # None => channel'[c].tenant = channel[c].tenant,
         \A p \in Policies :
            /\ policy[p].deleted => policy'[p].deleted
            /\ policy[p].tenant # None => policy'[p].deleted \/ policy'[p].tenant = policy[p].tenant
  PROVE  /\ pc' \in [Requests -> C!Phases] /\ req' \in [Requests -> C!RequestRows]
         /\ C!RequestsAreProper'
  <1>1. PICK row : row = C!NoRequest
    OBVIOUS
  <1>2. pc' = [pc EXCEPT ![r] = "idle"] /\ req' = [req EXCEPT ![r] = row]
    BY <1>1 DEF C!Finish
  <1>3. row \in C!RequestRows
    BY <1>1, PlaneNoRequestIsProper
  <1>4. C!ProperIn("idle", row)'
    BY <1>1 DEF C!ProperIn, C!NoRequest
  <1>5. QED
    BY <1>2, <1>3, <1>4, RequestMoves DEF C!Phases

(* Requests that stay where they are. *)
LEMMA RequestsStay ==
  ASSUME C!Proper, C!PlaneInv, UNCHANGED <<pc, req>>,
         \A k \in ApiKeys : key[k].tenant # None =>
            key'[k].tenant = key[k].tenant /\ (key[k].revoked => key'[k].revoked),
         \A c \in Channels : channel[c].tenant # None => channel'[c].tenant = channel[c].tenant,
         \A p \in Policies :
            /\ policy[p].deleted => policy'[p].deleted
            /\ policy[p].tenant # None => policy'[p].deleted \/ policy'[p].tenant = policy[p].tenant
  PROVE  /\ pc' \in [Requests -> C!Phases] /\ req' \in [Requests -> C!RequestRows]
         /\ C!RequestsAreProper'
  <1>1. pc \in [Requests -> C!Phases] /\ req \in [Requests -> C!RequestRows]
    BY DEF C!PlaneInv, C!TypeOK
  <1>2. ASSUME NEW q \in Requests PROVE C!ProperIn(pc[q], req[q])'
    <2>1. PICK p, w : p = pc[q] /\ w = req[q]
      OBVIOUS
    <2>2. C!ProperIn(p, w)'
      BY <2>1, KnowledgeStays DEF C!PlaneInv, C!RequestsAreProper
    <2>3. QED
      BY <2>1, <2>2
  <1>3. QED
    BY <1>1, <1>2 DEF C!RequestsAreProper

(* What is left to show when only keys, only channels or only policies are    *)
(* written.                                                                   *)
LEMMA KeysWritten ==
  ASSUME C!PlaneInv, UNCHANGED <<channel, policy>>,
         pc' \in [Requests -> C!Phases], req' \in [Requests -> C!RequestRows], C!RequestsAreProper',
         key' \in [ApiKeys -> C!KeyRows],
         \A k \in ApiKeys : key'[k].tenant = None => key'[k] = C!NoKey,
         C!RotatedKeysAreRevoked'
  PROVE  C!PlaneInv'
  <1>1. channel' = channel /\ policy' = policy
    OBVIOUS
  <1>2. C!TypeOK'
    BY <1>1 DEF C!PlaneInv, C!TypeOK
  <1>3. C!PoliciesStayInTenant'
    BY <1>1 DEF C!PlaneInv, C!PoliciesStayInTenant, C!OfTenant, C!WorkflowIsOf, C!ChannelsAreOf
  <1>4. C!EmptyRowsAreEmpty'
    BY <1>1 DEF C!PlaneInv, C!EmptyRowsAreEmpty
  <1>5. QED
    BY <1>2, <1>3, <1>4 DEF C!PlaneInv

LEMMA ChannelsWritten ==
  ASSUME C!PlaneInv, C!Proper, UNCHANGED <<key, policy>>,
         pc' \in [Requests -> C!Phases], req' \in [Requests -> C!RequestRows], C!RequestsAreProper',
         channel' \in [Channels -> C!ChannelRows],
         \A c \in Channels : channel'[c].tenant = None => channel'[c] = C!NoChannel,
         \A c \in Channels : channel[c].tenant # None => channel'[c].tenant = channel[c].tenant
  PROVE  C!PlaneInv'
  <1>1. key' = key /\ policy' = policy
    OBVIOUS
  <1>2. C!TypeOK'
    BY <1>1 DEF C!PlaneInv, C!TypeOK
  <1>3. C!PoliciesStayInTenant'
    <2>1. \A p \in Policies : policy[p].channels \subseteq Channels
      BY DEF C!PlaneInv, C!TypeOK, C!PolicyRows
    <2>2. QED
      BY <1>1, <2>1 DEF C!PlaneInv, C!PoliciesStayInTenant, C!OfTenant, C!WorkflowIsOf, C!ChannelsAreOf
  <1>4. C!EmptyRowsAreEmpty' /\ C!RotatedKeysAreRevoked'
    BY <1>1 DEF C!PlaneInv, C!EmptyRowsAreEmpty, C!RotatedKeysAreRevoked
  <1>5. QED
    BY <1>2, <1>3, <1>4 DEF C!PlaneInv

LEMMA PoliciesWritten ==
  ASSUME C!PlaneInv, UNCHANGED <<key, channel>>,
         pc' \in [Requests -> C!Phases], req' \in [Requests -> C!RequestRows], C!RequestsAreProper',
         NEW p \in Policies, NEW row \in C!PolicyRows, policy' = [policy EXCEPT ![p] = row],
         row.tenant # None => C!OfTenant(row.tenant, row.workflow, row.channels),
         row.tenant = None <=> row \in {C!NoPolicy, C!DeletedPolicy},
         row.deleted => row = C!DeletedPolicy
  PROVE  C!PlaneInv'
  <1>1. key' = key /\ channel' = channel
    OBVIOUS
  <1>2. policy \in [Policies -> C!PolicyRows]
    BY DEF C!PlaneInv, C!TypeOK
  <1>3. /\ policy' \in [Policies -> C!PolicyRows]
        /\ \A o \in Policies : policy'[o] = IF o = p THEN row ELSE policy[o]
    BY <1>2
  <1>4. C!TypeOK'
    BY <1>1, <1>3 DEF C!PlaneInv, C!TypeOK
  <1>5. C!PoliciesStayInTenant'
    BY <1>1, <1>3 DEF C!PlaneInv, C!PoliciesStayInTenant, C!OfTenant, C!WorkflowIsOf, C!ChannelsAreOf
  <1>6. C!RotatedKeysAreRevoked'
    BY <1>1 DEF C!PlaneInv, C!RotatedKeysAreRevoked
  <1>7. C!EmptyRowsAreEmpty'
    BY <1>1, <1>3 DEF C!PlaneInv, C!EmptyRowsAreEmpty
  <1>8. QED
    BY <1>4, <1>5, <1>6, <1>7 DEF C!PlaneInv

LEMMA PlaneCrashStep ==
  ASSUME C!Proper, C!PlaneInv, NEW r \in Requests, C!Finish(r), UNCHANGED <<key, channel, policy>>
  PROVE  C!PlaneInv'
  <1>1. PICK row : row = C!NoRequest
    OBVIOUS
  <1>2. pc' = [pc EXCEPT ![r] = "idle"] /\ req' = [req EXCEPT ![r] = row]
    BY <1>1 DEF C!Finish
  <1>3. row \in C!RequestRows /\ C!ProperIn("idle", row)
    BY <1>1, PlaneNoRequestIsProper
  <1>4. QED
    BY <1>2, <1>3, BeginStep DEF C!Phases

LEMMA CreateKeyStep ==
  ASSUME C!Proper, C!PlaneInv, NEW t \in Tenants, C!CreateKey(t)
  PROVE  C!PlaneInv'
  <1>1. PICK n, row : n = C!NextKey /\ row = [C!NoKey EXCEPT !.tenant = t]
    OBVIOUS
  <1>2. /\ n \in ApiKeys /\ key[n].tenant = None
        /\ key' = [key EXCEPT ![n] = row]
        /\ UNCHANGED <<channel, policy, pc, req>>
    BY <1>1, NextKeyIsUnissued DEF C!CreateKey
  <1>3. row \in C!KeyRows /\ row.tenant = t /\ row.from = None /\ t # None
    BY <1>1 DEF C!NoKey, C!KeyRows, C!Proper
  <1>4. /\ key \in [ApiKeys -> C!KeyRows]
        /\ \A k \in ApiKeys : key[k].from \in ApiKeys \cup {None}
        /\ \A k \in ApiKeys : key[k].tenant = None => key[k].from = None
    BY DEF C!PlaneInv, C!TypeOK, C!KeyRows, C!EmptyRowsAreEmpty, C!NoKey
  <1>5. /\ key' \in [ApiKeys -> C!KeyRows]
        /\ \A k \in ApiKeys : key'[k] = IF k = n THEN row ELSE key[k]
    BY <1>2, <1>3, <1>4
  <1>6. /\ pc' \in [Requests -> C!Phases] /\ req' \in [Requests -> C!RequestRows]
        /\ C!RequestsAreProper'
    <2>1. \A k \in ApiKeys : key[k].tenant # None =>
            key'[k].tenant = key[k].tenant /\ (key[k].revoked => key'[k].revoked)
      BY <1>2, <1>5
    <2>2. channel' = channel /\ policy' = policy /\ UNCHANGED <<pc, req>>
      BY <1>2
    <2>3. QED
      BY <2>1, <2>2, RequestsStay
  <1>7. C!RotatedKeysAreRevoked'
    BY <1>2, <1>3, <1>4, <1>5 DEF C!PlaneInv, C!RotatedKeysAreRevoked
  <1>8. \A k \in ApiKeys : key'[k].tenant = None => key'[k] = C!NoKey
    BY <1>3, <1>5 DEF C!PlaneInv, C!EmptyRowsAreEmpty
  <1>9. QED
    BY <1>2, <1>5, <1>6, <1>7, <1>8, KeysWritten

(* The key a request is about is revoked, and its tenant has it still. *)
LEMMA KeyOfRequest ==
  ASSUME C!Proper, C!PlaneInv, NEW r \in Requests, pc[r] \in {"revoke", "rotate"}
  PROVE  /\ req[r].of \in ApiKeys /\ req[r].tenant \in Tenants /\ key[req[r].of].tenant = req[r].tenant
         /\ LET row == [key[req[r].of] EXCEPT !.revoked = @ \/ req[r].live]
            IN  /\ row \in C!KeyRows /\ row.tenant = req[r].tenant /\ row.from = key[req[r].of].from
                /\ row.revoked
  <1>1. C!ProperIn(pc[r], req[r]) /\ req[r] \in C!RequestRows
    BY DEF C!PlaneInv, C!RequestsAreProper, C!TypeOK
  <1>2. /\ req[r].of \in ApiKeys /\ req[r].tenant \in Tenants /\ key[req[r].of].tenant = req[r].tenant
        /\ (req[r].live \/ key[req[r].of].revoked)
        /\ req[r].live \in BOOLEAN
    BY <1>1 DEF C!ProperIn, C!RequestRows
  <1>3. key[req[r].of] \in C!KeyRows
    BY <1>2 DEF C!PlaneInv, C!TypeOK
  <1>4. QED
    BY <1>2, <1>3 DEF C!KeyRows

LEMMA RevokeStep ==
  ASSUME C!Proper, C!PlaneInv, NEW r \in Requests, C!Revoke(r)
  PROVE  C!PlaneInv'
  <1>1. PICK n, row : n = req[r].of /\ row = [key[req[r].of] EXCEPT !.revoked = @ \/ req[r].live]
    OBVIOUS
  <1>2. /\ n \in ApiKeys /\ key[n].tenant \in Tenants /\ row \in C!KeyRows
        /\ row.tenant = key[n].tenant /\ row.from = key[n].from /\ row.revoked
    BY <1>1, KeyOfRequest DEF C!Revoke
  <1>3. /\ key \in [ApiKeys -> C!KeyRows]
        /\ \A k \in ApiKeys : key[k].from \in ApiKeys \cup {None}
        /\ None \notin Tenants
    BY DEF C!PlaneInv, C!TypeOK, C!KeyRows, C!Proper
  <1>4. key' = [key EXCEPT ![n] = row] /\ channel' = channel /\ policy' = policy
    BY <1>1, <1>2, <1>3 DEF C!Revoke
  <1>5. /\ key' \in [ApiKeys -> C!KeyRows]
        /\ \A k \in ApiKeys : key'[k] = IF k = n THEN row ELSE key[k]
    BY <1>2, <1>3, <1>4
  <1>6. \A k \in ApiKeys : key[k].tenant # None =>
            key'[k].tenant = key[k].tenant /\ (key[k].revoked => key'[k].revoked)
    BY <1>2, <1>5
  <1>7. /\ pc' \in [Requests -> C!Phases] /\ req' \in [Requests -> C!RequestRows]
        /\ C!RequestsAreProper'
    BY <1>4, <1>6, FinishMoving DEF C!Revoke
  <1>8. C!RotatedKeysAreRevoked'
    BY <1>2, <1>3, <1>5 DEF C!PlaneInv, C!RotatedKeysAreRevoked
  <1>9. \A k \in ApiKeys : key'[k].tenant = None => key'[k] = C!NoKey
    BY <1>2, <1>3, <1>5 DEF C!PlaneInv, C!EmptyRowsAreEmpty
  <1>10. QED
    BY <1>4, <1>5, <1>7, <1>8, <1>9, KeysWritten

LEMMA RotateStep ==
  ASSUME C!Proper, C!PlaneInv, NEW r \in Requests, C!Rotate(r)
  PROVE  C!PlaneInv'
  <1>1. PICK o, old, n, new :
           /\ o = req[r].of /\ old = [key[req[r].of] EXCEPT !.revoked = @ \/ req[r].live]
           /\ n = C!NextKey
           /\ new = [tenant |-> req[r].tenant, revoked |-> FALSE, from |-> req[r].of]
    OBVIOUS
  <1>2. /\ o \in ApiKeys /\ key[o].tenant \in Tenants /\ old \in C!KeyRows
        /\ old.tenant = key[o].tenant /\ old.from = key[o].from /\ old.revoked
    BY <1>1, KeyOfRequest DEF C!Rotate
  <1>3. /\ n \in ApiKeys /\ key[n].tenant = None
        /\ new \in C!KeyRows /\ new.tenant = key[o].tenant /\ new.from = o
    <2>1. n \in ApiKeys /\ key[n].tenant = None
      BY <1>1, NextKeyIsUnissued DEF C!Rotate
    <2>2. req[r].tenant = key[o].tenant
      BY <1>1, KeyOfRequest DEF C!Rotate
    <2>3. QED
      BY <1>1, <1>2, <2>1, <2>2 DEF C!KeyRows
  <1>4. /\ key \in [ApiKeys -> C!KeyRows]
        /\ \A k \in ApiKeys : key[k].from \in ApiKeys \cup {None}
        /\ \A k \in ApiKeys : key[k].tenant = None => key[k].from = None
        /\ None \notin Tenants
    BY DEF C!PlaneInv, C!TypeOK, C!KeyRows, C!Proper, C!EmptyRowsAreEmpty, C!NoKey
  <1>5. /\ key' = [key EXCEPT ![o].revoked = @ \/ req[r].live, ![n] = new]
        /\ channel' = channel /\ policy' = policy
    BY <1>1 DEF C!Rotate
  <1>6. /\ key' \in [ApiKeys -> C!KeyRows]
        /\ \A k \in ApiKeys : key'[k] = IF k = n THEN new ELSE IF k = o THEN old ELSE key[k]
    <2>1. n # o
      BY <1>2, <1>3, <1>4
    <2>2. key' = [key EXCEPT ![o] = old, ![n] = new]
      BY <1>1, <1>2, <1>3, <1>4, <1>5, <2>1
    <2>3. QED
      BY <1>2, <1>3, <1>4, <2>1, <2>2
  <1>7. \A k \in ApiKeys : key[k].tenant # None =>
            key'[k].tenant = key[k].tenant /\ (key[k].revoked => key'[k].revoked)
    BY <1>2, <1>3, <1>6
  <1>8. /\ pc' \in [Requests -> C!Phases] /\ req' \in [Requests -> C!RequestRows]
        /\ C!RequestsAreProper'
    BY <1>5, <1>7, FinishMoving DEF C!Rotate
  <1>9. C!RotatedKeysAreRevoked'
    <2> SUFFICES ASSUME NEW k \in ApiKeys, key'[k].from # None
                 PROVE  key'[key'[k].from].revoked /\ key'[key'[k].from].tenant = key'[k].tenant
      BY DEF C!RotatedKeysAreRevoked
    <2>1. CASE k = n
      BY <1>2, <1>3, <1>4, <1>6, <2>1
    <2>2. CASE k # n
      <3>1. key'[k].from = key[k].from /\ key'[k].tenant = key[k].tenant /\ key[k].from # None
        BY <1>2, <1>6, <2>2
      <3>2. PICK f \in ApiKeys : f = key[k].from
        BY <1>4, <3>1
      <3>3. key[f].revoked /\ key[f].tenant = key[k].tenant
        BY <3>1, <3>2 DEF C!PlaneInv, C!RotatedKeysAreRevoked
      <3>4. f # n
        BY <1>3, <1>4, <3>1, <3>3
      <3>5. key'[f].revoked /\ key'[f].tenant = key[f].tenant
        BY <1>2, <1>6, <3>3, <3>4
      <3>6. QED
        BY <3>1, <3>2, <3>3, <3>5
    <2>3. QED
      BY <2>1, <2>2
  <1>10. \A k \in ApiKeys : key'[k].tenant = None => key'[k] = C!NoKey
    BY <1>2, <1>3, <1>4, <1>6 DEF C!PlaneInv, C!EmptyRowsAreEmpty
  <1>11. QED
    BY <1>5, <1>6, <1>8, <1>9, <1>10, KeysWritten

LEMMA CreateChannelStep ==
  ASSUME C!Proper, C!PlaneInv, NEW t \in Tenants, NEW c \in Channels, C!CreateChannel(t, c)
  PROVE  C!PlaneInv'
  <1>1. PICK row : row = [tenant |-> t, enabled |-> TRUE]
    OBVIOUS
  <1>2. /\ row \in C!ChannelRows /\ row.tenant # None
        /\ channel[c].tenant = None
        /\ channel' = [channel EXCEPT ![c] = row] /\ key' = key /\ policy' = policy
        /\ UNCHANGED <<pc, req>>
    BY <1>1 DEF C!ChannelRows, C!Proper, C!CreateChannel, C!NoChannel
  <1>3. channel \in [Channels -> C!ChannelRows]
    BY DEF C!PlaneInv, C!TypeOK
  <1>4. /\ channel' \in [Channels -> C!ChannelRows]
        /\ \A d \in Channels : channel'[d] = IF d = c THEN row ELSE channel[d]
    BY <1>2, <1>3
  <1>5. \A d \in Channels : channel[d].tenant # None => channel'[d].tenant = channel[d].tenant
    BY <1>2, <1>4
  <1>6. /\ pc' \in [Requests -> C!Phases] /\ req' \in [Requests -> C!RequestRows]
        /\ C!RequestsAreProper'
    BY <1>2, <1>5, RequestsStay
  <1>7. \A d \in Channels : channel'[d].tenant = None => channel'[d] = C!NoChannel
    BY <1>2, <1>4 DEF C!PlaneInv, C!EmptyRowsAreEmpty
  <1>8. QED
    BY <1>2, <1>4, <1>5, <1>6, <1>7, ChannelsWritten

LEMMA WriteChannelStep ==
  ASSUME C!Proper, C!PlaneInv, NEW r \in Requests, C!WriteChannel(r)
  PROVE  C!PlaneInv'
  <1>1. PICK enabled \in BOOLEAN : channel' = [channel EXCEPT ![req[r].of].enabled = enabled]
    BY DEF C!WriteChannel
  <1>2. PICK c, row : c = req[r].of /\ row = [channel[req[r].of] EXCEPT !.enabled = enabled]
    OBVIOUS
  <1>3. /\ c \in Channels /\ channel[c].tenant # None
        /\ channel \in [Channels -> C!ChannelRows]
    BY <1>2 DEF C!WriteChannel, C!PlaneInv, C!TypeOK, C!RequestsAreProper, C!ProperIn, C!Proper
  <1>4. row \in C!ChannelRows /\ row.tenant = channel[c].tenant
    BY <1>2, <1>3 DEF C!ChannelRows
  <1>5. channel' = [channel EXCEPT ![c] = row] /\ key' = key /\ policy' = policy
    BY <1>1, <1>2, <1>3 DEF C!WriteChannel
  <1>6. /\ channel' \in [Channels -> C!ChannelRows]
        /\ \A d \in Channels : channel'[d] = IF d = c THEN row ELSE channel[d]
    BY <1>3, <1>4, <1>5
  <1>7. \A d \in Channels : channel[d].tenant # None => channel'[d].tenant = channel[d].tenant
    BY <1>4, <1>6
  <1>8. /\ pc' \in [Requests -> C!Phases] /\ req' \in [Requests -> C!RequestRows]
        /\ C!RequestsAreProper'
    BY <1>5, <1>7, FinishMoving DEF C!WriteChannel
  <1>9. \A d \in Channels : channel'[d].tenant = None => channel'[d] = C!NoChannel
    BY <1>3, <1>4, <1>6 DEF C!PlaneInv, C!EmptyRowsAreEmpty
  <1>10. QED
    BY <1>5, <1>6, <1>7, <1>8, <1>9, ChannelsWritten

LEMMA CreatePolicyStep ==
  ASSUME C!Proper, C!PlaneInv, NEW r \in Requests, C!CreatePolicy(r)
  PROVE  C!PlaneInv'
  <1>1. PICK p \in Policies :
           /\ policy[p] = C!NoPolicy
           /\ policy' = [policy EXCEPT ![p] = [tenant |-> req[r].tenant, workflow |-> req[r].workflow,
                                               channels |-> req[r].channels, deleted |-> FALSE]]
    BY DEF C!CreatePolicy
  <1>2. PICK row : row = [tenant |-> req[r].tenant, workflow |-> req[r].workflow,
                          channels |-> req[r].channels, deleted |-> FALSE]
    OBVIOUS
  <1>3. C!ProperIn("policy", req[r]) /\ req[r] \in C!RequestRows
    BY DEF C!CreatePolicy, C!PlaneInv, C!RequestsAreProper, C!TypeOK
  <1>4. /\ row \in C!PolicyRows /\ row.tenant # None /\ ~row.deleted
        /\ C!OfTenant(row.tenant, row.workflow, row.channels)
    BY <1>2, <1>3 DEF C!PolicyRows, C!RequestRows, C!ProperIn, C!Proper
  <1>5. policy' = [policy EXCEPT ![p] = row] /\ key' = key /\ channel' = channel
    BY <1>1, <1>2 DEF C!CreatePolicy
  <1>6. policy[p].tenant = None /\ ~policy[p].deleted
    BY <1>1 DEF C!NoPolicy
  <1>7. policy \in [Policies -> C!PolicyRows]
    BY DEF C!PlaneInv, C!TypeOK
  <1>8. \A o \in Policies :
            /\ policy[o].deleted => policy'[o].deleted
            /\ policy[o].tenant # None => policy'[o].deleted \/ policy'[o].tenant = policy[o].tenant
    BY <1>5, <1>6, <1>7
  <1>9. /\ pc' \in [Requests -> C!Phases] /\ req' \in [Requests -> C!RequestRows]
        /\ C!RequestsAreProper'
    BY <1>5, <1>8, FinishMoving DEF C!CreatePolicy
  <1>10. row \notin {C!NoPolicy, C!DeletedPolicy}
    BY <1>4 DEF C!NoPolicy, C!DeletedPolicy
  <1>11. QED
    BY <1>4, <1>5, <1>9, <1>10, PoliciesWritten

LEMMA PatchPolicyStep ==
  ASSUME C!Proper, C!PlaneInv, NEW r \in Requests, C!PatchPolicy(r)
  PROVE  C!PlaneInv'
  <1>1. PICK p, cs : /\ p = req[r].of
                     /\ cs = IF req[r].channels = None THEN policy[p].channels ELSE req[r].channels
    OBVIOUS
  <1>2. CASE UNCHANGED policy
    BY <1>2, PlaneCrashStep DEF C!PatchPolicy
  <1>3. CASE ~policy[p].deleted /\ \E w \in {req[r].workflow, policy[p].workflow} :
                policy' = [policy EXCEPT ![p].workflow = w, ![p].channels = cs]
    <2>1. PICK w \in {req[r].workflow, policy[p].workflow} :
             policy' = [policy EXCEPT ![p].workflow = w, ![p].channels = cs]
      BY <1>3
    <2>2. PICK row : row = [policy[p] EXCEPT !.workflow = w, !.channels = cs]
      OBVIOUS
    <2>3. C!ProperIn("patch", req[r]) /\ req[r] \in C!RequestRows
      BY DEF C!PatchPolicy, C!PlaneInv, C!RequestsAreProper, C!TypeOK
    <2>4. /\ p \in Policies /\ policy[p].tenant = req[r].tenant /\ policy[p].tenant \in Tenants
          /\ policy \in [Policies -> C!PolicyRows]
      BY <1>1, <1>3, <2>3 DEF C!ProperIn, C!PlaneInv, C!TypeOK
    <2>5. C!OfTenant(policy[p].tenant, policy[p].workflow, policy[p].channels)
      BY <2>4 DEF C!PlaneInv, C!PoliciesStayInTenant, C!Proper
    <2>6. cs \in SUBSET Channels /\ C!ChannelsAreOf(cs, policy[p].tenant)
      <3>1. CASE req[r].channels = None
        BY <1>1, <2>4, <2>5, <3>1 DEF C!OfTenant, C!PolicyRows
      <3>2. CASE req[r].channels # None
        BY <1>1, <2>3, <2>4, <3>2 DEF C!ProperIn
      <3>3. QED
        BY <3>1, <3>2
    <2>7. w \in Workflows \cup {None} /\ C!WorkflowIsOf(w, policy[p].tenant)
      <3>1. CASE w = req[r].workflow
        BY <2>3, <2>4, <3>1 DEF C!ProperIn, C!RequestRows
      <3>2. CASE w = policy[p].workflow
        BY <2>4, <2>5, <3>2 DEF C!OfTenant, C!PolicyRows
      <3>3. QED
        BY <3>1, <3>2
    <2>8. /\ row \in C!PolicyRows /\ row.tenant = policy[p].tenant /\ ~row.deleted
          /\ row.workflow = w /\ row.channels = cs
      <3>1. policy[p] \in C!PolicyRows /\ cs \in SUBSET Channels /\ w \in Workflows \cup {None}
        BY <2>4, <2>6, <2>7
      <3>2. QED
        BY <1>3, <2>2, <3>1 DEF C!PolicyRows
    <2>9. policy' = [policy EXCEPT ![p] = row] /\ key' = key /\ channel' = channel
      BY <2>1, <2>2, <2>4 DEF C!PatchPolicy
    <2>10. \A o \in Policies :
            /\ policy[o].deleted => policy'[o].deleted
            /\ policy[o].tenant # None => policy'[o].deleted \/ policy'[o].tenant = policy[o].tenant
      BY <1>3, <2>4, <2>8, <2>9
    <2>11. /\ pc' \in [Requests -> C!Phases] /\ req' \in [Requests -> C!RequestRows]
           /\ C!RequestsAreProper'
      BY <2>9, <2>10, FinishMoving DEF C!PatchPolicy
    <2>12. row.tenant # None /\ row \notin {C!NoPolicy, C!DeletedPolicy}
      BY <2>4, <2>8 DEF C!NoPolicy, C!DeletedPolicy, C!Proper
    <2>13. C!OfTenant(row.tenant, row.workflow, row.channels)
      BY <2>6, <2>7, <2>8 DEF C!OfTenant
    <2>14. QED
      BY <2>4, <2>8, <2>9, <2>11, <2>12, <2>13, PoliciesWritten
  <1>4. QED
    BY <1>1, <1>2, <1>3 DEF C!PatchPolicy

LEMMA DeletePolicyStep ==
  ASSUME C!Proper, C!PlaneInv, NEW r \in Requests, C!DeletePolicy(r)
  PROVE  C!PlaneInv'
  <1>1. PICK p, row : p = req[r].of /\ row = C!DeletedPolicy
    OBVIOUS
  <1>2. p \in Policies /\ policy \in [Policies -> C!PolicyRows]
    BY <1>1 DEF C!DeletePolicy, C!PlaneInv, C!RequestsAreProper, C!ProperIn, C!TypeOK
  <1>3. row \in C!PolicyRows /\ row.tenant = None /\ row.deleted
    BY <1>1 DEF C!PolicyRows, C!DeletedPolicy, C!NoPolicy
  <1>4. policy' = [policy EXCEPT ![p] = row] /\ key' = key /\ channel' = channel
    BY <1>1 DEF C!DeletePolicy
  <1>5. \A o \in Policies :
            /\ policy[o].deleted => policy'[o].deleted
            /\ policy[o].tenant # None => policy'[o].deleted \/ policy'[o].tenant = policy[o].tenant
    BY <1>2, <1>3, <1>4
  <1>6. /\ pc' \in [Requests -> C!Phases] /\ req' \in [Requests -> C!RequestRows]
        /\ C!RequestsAreProper'
    BY <1>4, <1>5, FinishMoving DEF C!DeletePolicy
  <1>7. QED
    BY <1>1, <1>2, <1>3, <1>4, <1>6, PoliciesWritten

(* Each step keeps the inductive invariant: what a request    *)
(* has checked of keys, channels and policies holds until it writes           *)
(* (routes/control-plane.ts).                                                 *)
LEMMA PlaneSteps ==
  ASSUME C!Proper
  PROVE  C!PlaneInv /\ [C!Next]_C!vars => C!PlaneInv'
  <1> SUFFICES ASSUME C!PlaneInv, [C!Next]_C!vars PROVE C!PlaneInv'
    OBVIOUS
  <1>1. CASE UNCHANGED C!vars
    <2>1. key' = key /\ channel' = channel /\ policy' = policy /\ UNCHANGED <<pc, req>>
      BY <1>1 DEF C!vars
    <2>2. /\ pc' \in [Requests -> C!Phases] /\ req' \in [Requests -> C!RequestRows]
          /\ C!RequestsAreProper'
      BY <2>1, RequestsStay
    <2>3. C!TypeOK'
      BY <2>1, <2>2 DEF C!PlaneInv, C!TypeOK
    <2>4. C!PoliciesStayInTenant' /\ C!RotatedKeysAreRevoked' /\ C!EmptyRowsAreEmpty'
      BY <2>1 DEF C!PlaneInv, C!PoliciesStayInTenant, C!RotatedKeysAreRevoked, C!EmptyRowsAreEmpty,
                  C!OfTenant, C!WorkflowIsOf, C!ChannelsAreOf
    <2>5. QED
      BY <2>2, <2>3, <2>4 DEF C!PlaneInv
  <1>2. CASE C!Next
    <2>1. ASSUME NEW t \in Tenants, C!CreateKey(t) \/ \E c \in Channels : C!CreateChannel(t, c)
          PROVE  C!PlaneInv'
      BY <2>1, CreateKeyStep, CreateChannelStep
    <2>2. ASSUME NEW r \in Requests, C!Crash(r) PROVE C!PlaneInv'
      BY <2>2, PlaneCrashStep DEF C!Crash
    <2>3. ASSUME NEW r \in Requests,
                 C!ReadKey(r) \/ C!Revoke(r) \/ C!Rotate(r) \/ C!ReadChannel(r) \/ C!WriteChannel(r)
                   \/ C!CheckPolicy(r) \/ C!CreatePolicy(r) \/ C!ReadPolicy(r) \/ C!PatchPolicy(r)
                   \/ C!DeletePolicy(r)
          PROVE  C!PlaneInv'
      BY <2>3, ReadKeyStep, RevokeStep, RotateStep, ReadChannelStep, WriteChannelStep,
         CheckPolicyStep, CreatePolicyStep, ReadPolicyStep, PatchPolicyStep, DeletePolicyStep
    <2>4. QED
      BY <1>2, <2>1, <2>2, <2>3 DEF C!Next
  <1>3. QED
    BY <1>1, <1>2

----------------------------------------------------------------------------
(* The whole.                                                              *)

(* Every reachable state satisfies the inductive invariant of the part it is *)
(* of: only the steps of that part are taken, which keep it.                 *)
THEOREM AccountsInvariant == Spec => []TypeOK
  <1>1. Init => TypeOK
    BY InitSessionsInv, InitWebInv, InitLockInv, InitTeamInv, InitSourcesInv, InitPlaneInv,
       SessionsIsProper, WebIsProper, LockIsProper, TeamIsProper, SourcesIsProper, PlaneIsProper
       DEF Init, TypeOK
  <1>2. TypeOK /\ [Next]_vars => TypeOK'
    <2> SUFFICES ASSUME TypeOK, [Next]_vars PROVE TypeOK'
      OBVIOUS
    <2>1. part' = part
      BY DEF Next, vars
    <2>2. ASSUME part = "sessions" PROVE S!SessionsInv'
      <3>1. S!SessionsInv /\ [S!Next]_S!vars
        BY <2>2 DEF TypeOK, Next, vars, sessionVars, S!vars
      <3>2. QED
        BY <3>1, NextSessionsInv, SessionsIsProper
    <2>3. ASSUME part = "web" PROVE W!WebInv'
      <3>1. W!WebInv /\ [W!Next]_W!vars
        BY <2>3 DEF TypeOK, Next, vars, webVars, W!vars
      <3>2. QED
        BY <3>1, WebSteps, WebIsProper
    <2>4. ASSUME part = "lock" PROVE L!LockInv'
      <3>1. L!LockInv /\ [L!Next]_L!vars
        BY <2>4 DEF TypeOK, Next, vars, lockVars, L!vars
      <3>2. QED
        BY <3>1, LockSteps, LockIsProper
    <2>5. ASSUME part = "team" PROVE T!TeamInv'
      <3>1. T!TeamInv /\ [T!Next]_T!vars
        BY <2>5 DEF TypeOK, Next, vars, teamVars, T!vars
      <3>2. QED
        BY <3>1, NextTeamInv, TeamIsProper
    <2>6. ASSUME part = "sources" PROVE O!SourcesInv'
      <3>1. O!SourcesInv /\ [O!Next]_O!vars
        BY <2>6 DEF TypeOK, Next, vars, sourceVars, O!vars
      <3>2. QED
        BY <3>1, SourcesSteps, SourcesIsProper
    <2>7. ASSUME part = "plane" PROVE C!PlaneInv'
      <3>1. C!PlaneInv /\ [C!Next]_C!vars
        BY <2>7 DEF TypeOK, Next, vars, planeVars, C!vars
      <3>2. QED
        BY <3>1, PlaneSteps, PlaneIsProper
    <2>8. QED
      BY <2>1, <2>2, <2>3, <2>4, <2>5, <2>6, <2>7 DEF TypeOK
  <1>3. QED
    BY <1>1, <1>2, PTL DEF Spec

(* A refresh token is exchanged for one successor and a link works once, but  *)
(* for a link that two requests had read as unused.                           *)
(* An invitation makes one session, however many requests present its token   *)
(* at once and however often it is resent (POST /team/invite/:token/accept).  *)
THEOREM CredentialsAreUsedOnce == Spec => []CredentialsWorkOnce
  <1>1. TypeOK => CredentialsWorkOnce
    <2>1. S!SessionsInv => S!CredentialsWorkOnce
      <3> SUFFICES ASSUME S!SessionsInv PROVE S!CredentialsWorkOnce
        OBVIOUS
      <3>1. ASSUME NEW t \in Tokens
            PROVE  Cardinality({s \in Tokens : token[s].from = t}) <= 1
        <4> DEFINE Those == {s \in Tokens : token[s].from = t}
        <4>1. CASE Those = {}
          BY <4>1, FS_EmptySet
        <4>2. ASSUME NEW s \in Those PROVE Cardinality(Those) <= 1
          <5>1. Those = {s}
            BY <3>1, <4>2, SessionsIsProper DEF S!Proper, S!SessionsInv, S!SuccessorsAreAlone
          <5> HIDE DEF Those
          <5>2. Cardinality(Those) = 1
            BY <5>1, FS_Singleton
          <5>3. QED
            BY <5>2
        <4>3. QED
          BY <4>1, <4>2
      <3>2. S!OneSuccessorPerToken
        BY <3>1, SameSizes DEF S!OneSuccessorPerToken
      <3>3. QED
        BY <3>2 DEF S!CredentialsWorkOnce, S!SessionsInv
    <2>2. T!TeamInv => T!CredentialsWorkOnce
      BY DEF T!TeamInv, T!CredentialsWorkOnce
    <2>3. QED
      BY <2>1, <2>2 DEF TypeOK, CredentialsWorkOnce
  <1>2. QED
    BY <1>1, AccountsInvariant, PTL

(* What ends the sessions of a user ends all that began before, but for a     *)
(* login half-way through and tokens that are yet to be revoked.              *)
THEOREM SessionsEnd == Spec => []EndedSessionsStayEnded
  <1>1. TypeOK => EndedSessionsStayEnded
    <2>1. S!SessionsInv => S!EndedSessionsStayEnded
      BY DEF S!SessionsInv, S!ExpiredSessionsEndToo, S!EndedSessionsStayEnded
    <2>2. QED
      BY <2>1 DEF TypeOK, EndedSessionsStayEnded
  <1>2. QED
    BY <1>1, AccountsInvariant, PTL

(* A browser whose user signed in can go on, and one whose user signed out   *)
(* has no cookies and no token that works, but for the causes that           *)
(* WebSession names, for any number of browsers and of requests under way.   *)
THEOREM BrowsersKeepTheirSession == Spec => []BrowsersKeepSession
  <1>1. TypeOK => BrowsersKeepSession
    <2>1. ASSUME W!WebInv PROVE W!BrowsersKeepSession
      <3>1. ASSUME NEW b \in signedIn \ spoilt, W!UnderWay(b) = {} PROVE W!IsLive(jar[b].refresh)
        <4>1. W!GoesOn(b)
          BY <2>1 DEF W!WebInv, W!SignedInGoOn
        <4>2. \A r \in Requests : req[r].browser # b
          BY <3>1 DEF W!UnderWay
        <4>3. QED
          BY <4>1, <4>2 DEF W!GoesOn
      <3>2. QED
        BY <2>1, <3>1 DEF W!WebInv, W!SessionGoesOn, W!BrowsersKeepSession
    <2>2. QED
      BY <2>1 DEF TypeOK, BrowsersKeepSession
  <1>2. QED
    BY <1>1, AccountsInvariant, PTL

(* While an address, or an email in a scope, is locked, the requests that     *)
(* look at its lock try no more passwords than were under way when it was     *)
(* set, however many requests race (getLoginLockState,                        *)
(* recordFailedLoginAttempt).                                                 *)
THEOREM GuessingIsLimited == Spec => []LockStopsGuessing
  <1>1. TypeOK => LockStopsGuessing
    <2>1. L!LockInv => L!LockStopsGuessing
      <3> SUFFICES ASSUME L!LockInv, NEW k \in L!Keys PROVE late[k] <= Cardinality(Requests) - 1
        BY SameSizes DEF L!LockStopsGuessing
      <3>1. Cardinality(L!Trying(k)) \in Nat
        BY TryingIsCounted, LockIsProper, SameSizes
      <3>2. Cardinality(Requests) \in Nat /\ Cardinality(Requests) # 0
        BY FS_CardinalityType, FS_EmptySet, LockIsProper, SameSets DEF L!Proper
      <3>3. late[k] \in Nat
        BY DEF L!LockInv, L!TypeOK
      <3>4. IF k \in locked THEN late[k] + Cardinality(L!Trying(k)) <= Cardinality(Requests) - 1
                            ELSE late[k] = 0
        BY SameSizes DEF L!LockInv, L!TriesAreLimited
      <3> HIDE DEF L!Trying
      <3>5. QED
        BY <3>1, <3>2, <3>3, <3>4
    <2>2. QED
      BY <2>1 DEF TypeOK, LockStopsGuessing
  <1>2. QED
    BY <1>1, AccountsInvariant, PTL

(* A tenant keeps an active owner (LAST_OWNER_PROTECTION of the role and the  *)
(* disable route), whatever the number of its owners and of the requests that *)
(* race, unless two changes race or an owner accepts a lesser role.           *)
THEOREM OwnersAreKept == Spec => []LastOwnerIsProtected
  <1>1. TypeOK => LastOwnerIsProtected
    <2>1. T!TeamInv => T!LastOwnerIsProtected
      BY DEF T!TeamInv
    <2>2. QED
      BY <2>1 DEF TypeOK, LastOwnerIsProtected
  <1>2. QED
    BY <1>1, AccountsInvariant, PTL

(* Policies name workflows and channels of their own tenant, and a key that   *)
(* was rotated is revoked, however requests of several tenants interleave     *)
(* between a check and its write (assertWorkflowBelongsToTenant,              *)
(* assertChannelsBelongToTenant, the rotate route).                           *)
THEOREM TenantsStaySeparate == Spec => []TenantsAreSeparate
  <1>1. TypeOK => TenantsAreSeparate
    <2>1. C!PlaneInv => C!TenantsAreSeparate
      BY DEF C!PlaneInv, C!TenantsAreSeparate
    <2>2. QED
      BY <2>1 DEF TypeOK, TenantsAreSeparate
  <1>2. QED
    BY <1>1, AccountsInvariant, PTL

(* The trial is the tenant's only one and starts on its free plan            *)
(* (tenant-trial-service.ts), and on the free plan a source is added only to *)
(* a tenant without one, but for requests that were overtaken                *)
(* (requireSourceCapacity).                                                  *)
THEOREM FreePlanStaysKept == Spec => FreePlanIsKept
  <1>1. TypeOK /\ [Next]_vars => [part = "sources" => O!TrialStep /\ O!CapacityStep]_vars
    <2>1. ASSUME O!SourcesInv, [O!Next]_O!vars PROVE O!TrialStep
      <3>1. trial \in O!TrialRows /\ O!IsTrial(trial)
        BY <2>1 DEF O!SourcesInv, O!TypeOK
      <3>2. CASE trial' = trial
        BY <3>1, <3>2 DEF O!TrialStep, O!IsTrial, O!TrialRows
      <3>3. CASE trial' # trial
        <4>1. PICK r \in Requests : O!Sync(r) \/ O!Start(r)
          BY <2>1, <3>3 DEF O!Next, O!vars, O!tenant, O!Access, O!Existing, O!Count, O!CreateWorkflow,
            O!CreateIntegration, O!Upsert, O!Version, O!Guard, O!ReadTrial, O!Crash, O!Deactivate, O!Tick, O!ChangePlan
        <4>2. CASE O!Sync(r)
          BY <2>1, <3>1, <3>3, <4>2, SyncedTrial, SourcesIsProper DEF O!TrialStep, O!IsTrial
        <4>3. CASE O!Start(r)
          BY <2>1, <3>3, <4>3, StartedTrial, SourcesIsProper DEF O!TrialStep
        <4>4. QED
          BY <4>1, <4>2, <4>3
      <3>4. QED
        BY <3>2, <3>3
    <2>2. ASSUME O!SourcesInv, [O!Next]_O!vars PROVE O!CapacityStep
      <3>1. CASE active' \subseteq active
        BY <3>1 DEF O!CapacityStep
      <3>2. CASE ~(active' \subseteq active)
        <4>1. PICK r \in Requests : O!CreateWorkflow(r) \/ O!CreateIntegration(r) \/ O!Upsert(r)
          BY <2>2, <3>2 DEF O!Next, O!vars, O!tenant, O!sources, O!Access, O!Sync, O!Existing, O!Count,
            O!Version, O!Guard, O!ReadTrial, O!Start, O!Crash, O!Deactivate, O!Tick, O!ChangePlan
        <4>2. pc \in [Requests -> O!Phases]
          BY <2>2, SourceRequestTypes, SourcesIsProper
        <4>3. pc[r] = "create" /\ pc'[r] # "create"
          BY <4>1, <4>2 DEF O!CreateWorkflow, O!CreateIntegration, O!Upsert, O!Goto
        <4>4. ~(req[r].op = "register" /\ req[r].source \in active)
          BY <3>2, <4>1 DEF O!CreateWorkflow, O!CreateIntegration, O!Upsert
        <4>5. r \in stale \/ active = {} \/ ~O!Free
          BY <2>2, <4>3, <4>4 DEF O!SourcesInv, O!DecisionsHold
        <4>6. QED
          BY <4>3, <4>5 DEF O!CapacityStep
      <3>3. QED
        BY <3>1, <3>2
    <2>3. QED
      BY <2>1, <2>2 DEF TypeOK, Next
  <1>2. QED
    BY <1>1, AccountsInvariant, PTL DEF Spec, FreePlanIsKept
=============================================================================
