---------------------------- MODULE ControlPlane ----------------------------
(***************************************************************************)
(* Keys, alert channels and alert policies of the tenants                  *)
(* (routes/control-plane.ts).                                              *)
(*                                                                         *)
(* Requests run concurrently: what a route checks it reads first, and      *)
(* writes after that, by id.  A request names any row, of its tenant or    *)
(* not.  Whether the plan has alerts is left out: a request it refuses     *)
(* does nothing.                                                           *)
(***************************************************************************)
EXTENDS Integers

CONSTANTS
    Tenants,
    Workflows,  \* workflows
    WorkflowOf, \* their tenants
    Keys,       \* ingestion keys, used in order: 1 .. n
    Channels,
    Policies,
    Requests,
    None

\* What the proofs assume of the constants.
Proper == Keys \subseteq Nat /\ None \notin Tenants /\ None \notin Keys

VARIABLES
    key,     \* api_keys
    channel, \* alert_channels
    policy,  \* alert_policies with their links to channels
    pc,
    req

vars == <<key, channel, policy, pc, req>>

NoKey == [tenant |-> None, revoked |-> FALSE, from |-> None]

NoChannel == [tenant |-> None, enabled |-> FALSE]

NoPolicy == [tenant |-> None, workflow |-> None, channels |-> {}, deleted |-> FALSE]

DeletedPolicy == [NoPolicy EXCEPT !.deleted = TRUE]

NoRequest == [tenant |-> None, of |-> None, live |-> FALSE, workflow |-> None, channels |-> {}]

Phases == {"idle", "revoke", "rotate", "channel", "policy", "patch", "delete"}

Init ==
    /\ key = [k \in Keys |-> NoKey]
    /\ channel = [c \in Channels |-> NoChannel]
    /\ policy = [p \in Policies |-> NoPolicy]
    /\ pc = [r \in Requests |-> "idle"]
    /\ req = [r \in Requests |-> NoRequest]

Begin(r, phase, what) ==
    /\ pc[r] = "idle"
    /\ pc' = [pc EXCEPT ![r] = phase]
    /\ req' = [req EXCEPT ![r] = what]

Finish(r) ==
    /\ pc' = [pc EXCEPT ![r] = "idle"]
    /\ req' = [req EXCEPT ![r] = NoRequest]

----------------------------------------------------------------------------
(* Ingestion keys.                                                         *)

Unissued == {k \in Keys : key[k].tenant = None}

NextKey == CHOOSE k \in Unissued : \A l \in Unissued : k <= l

\* POST /control-plane/api-keys.
CreateKey(t) ==
    /\ Unissued # {}
    /\ key' = [key EXCEPT ![NextKey] = [NoKey EXCEPT !.tenant = t]]
    /\ UNCHANGED <<channel, policy, pc, req>>

\* The key of the tenant, and whether it is revoked, as the route reads it.
ReadKey(r) ==
    /\ \E t \in Tenants, k \in Keys, phase \in {"revoke", "rotate"} :
        /\ key[k].tenant = t
        /\ Begin(r, phase, [NoRequest EXCEPT !.tenant = t, !.of = k, !.live = ~key[k].revoked])
    /\ UNCHANGED <<key, channel, policy>>

Revoke(r) ==
    /\ pc[r] = "revoke"
    /\ key' = [key EXCEPT ![req[r].of].revoked = @ \/ req[r].live]
    /\ Finish(r)
    /\ UNCHANGED <<channel, policy>>

\* One transaction revokes the old key, unless it was read as revoked, and
\* creates the new one.
Rotate(r) ==
    /\ pc[r] = "rotate" /\ Unissued # {}
    /\ key' = [key EXCEPT ![req[r].of].revoked = @ \/ req[r].live,
                          ![NextKey] = [tenant |-> req[r].tenant, revoked |-> FALSE, from |-> req[r].of]]
    /\ Finish(r)
    /\ UNCHANGED <<channel, policy>>

----------------------------------------------------------------------------
(* Alert channels.                                                         *)

CreateChannel(t, c) ==
    /\ channel[c] = NoChannel
    /\ channel' = [channel EXCEPT ![c] = [tenant |-> t, enabled |-> TRUE]]
    /\ UNCHANGED <<key, policy, pc, req>>

ReadChannel(r) ==
    /\ \E t \in Tenants, c \in Channels :
        /\ channel[c].tenant = t
        /\ Begin(r, "channel", [NoRequest EXCEPT !.tenant = t, !.of = c])
    /\ UNCHANGED <<key, channel, policy>>

\* PATCH writes what the request names; DELETE disables the channel.
WriteChannel(r) ==
    /\ pc[r] = "channel"
    /\ \E enabled \in BOOLEAN : channel' = [channel EXCEPT ![req[r].of].enabled = enabled]
    /\ Finish(r)
    /\ UNCHANGED <<key, policy>>

----------------------------------------------------------------------------
(* Alert policies.                                                         *)

\* assertWorkflowBelongsToTenant: no workflow, or one of the tenant.
OwnWorkflow(t, w) == w # None => WorkflowOf[w] = t

\* Faulty: the channels have to exist.
ChannelsExist(t, cs) == \A c \in cs : channel[c].tenant # None

\* assertChannelsBelongToTenant.
OwnChannels(t, cs) == \A c \in cs : channel[c].tenant = t

\* POST /control-plane/alert-policies checks what the policy names...
CheckPolicy(r) ==
    /\ \E t \in Tenants, w \in Workflows \cup {None}, cs \in SUBSET Channels :
        /\ OwnWorkflow(t, w) /\ OwnChannels(t, cs)
        /\ Begin(r, "policy", [NoRequest EXCEPT !.tenant = t, !.workflow = w, !.channels = cs])
    /\ UNCHANGED <<key, channel, policy>>

\* ... and creates it with its links in one transaction.
CreatePolicy(r) ==
    /\ pc[r] = "policy"
    /\ \E p \in Policies :
        /\ policy[p] = NoPolicy
        /\ policy' = [policy EXCEPT ![p] = [tenant |-> req[r].tenant, workflow |-> req[r].workflow,
                                            channels |-> req[r].channels, deleted |-> FALSE]]
    /\ Finish(r)
    /\ UNCHANGED <<key, channel>>

\* PATCH and DELETE read the policy of the tenant; PATCH checks what the
\* request names as POST does.  A field it does not name stays (None).
ReadPolicy(r) ==
    /\ \E t \in Tenants, p \in Policies :
        /\ policy[p].tenant = t
        /\ \/ \E w \in Workflows \cup {None}, cs \in {None} \cup SUBSET Channels :
                /\ OwnWorkflow(t, w) /\ (cs # None => OwnChannels(t, cs))
                /\ Begin(r, "patch", [NoRequest EXCEPT !.tenant = t, !.of = p, !.workflow = w,
                                                        !.channels = cs])
           \/ Begin(r, "delete", [NoRequest EXCEPT !.tenant = t, !.of = p])
    /\ UNCHANGED <<key, channel, policy>>

\* One transaction updates the policy and replaces its links; a policy that is
\* gone by now makes it fail.
PatchPolicy(r) ==
    /\ pc[r] = "patch"
    /\ LET p == req[r].of
           cs == IF req[r].channels = None THEN policy[p].channels ELSE req[r].channels
       IN /\ \/ policy[p].deleted /\ UNCHANGED policy
             \/ /\ ~policy[p].deleted
                /\ \E w \in {req[r].workflow, policy[p].workflow} :
                    policy' = [policy EXCEPT ![p].workflow = w, ![p].channels = cs]
    /\ Finish(r)
    /\ UNCHANGED <<key, channel>>

DeletePolicy(r) ==
    /\ pc[r] = "delete"
    /\ policy' = [policy EXCEPT ![req[r].of] = DeletedPolicy]
    /\ Finish(r)
    /\ UNCHANGED <<key, channel>>

\* The process dies, or a call fails.
Crash(r) ==
    /\ pc[r] # "idle"
    /\ Finish(r)
    /\ UNCHANGED <<key, channel, policy>>

Next ==
    \/ \E t \in Tenants : CreateKey(t) \/ \E c \in Channels : CreateChannel(t, c)
    \/ \E r \in Requests :
        \/ ReadKey(r) \/ Revoke(r) \/ Rotate(r)
        \/ ReadChannel(r) \/ WriteChannel(r)
        \/ CheckPolicy(r) \/ CreatePolicy(r) \/ ReadPolicy(r) \/ PatchPolicy(r) \/ DeletePolicy(r)
        \/ Crash(r)

Spec == Init /\ [][Next]_vars

----------------------------------------------------------------------------
(* Properties.                                                             *)

KeyRows == [tenant : Tenants \cup {None}, revoked : BOOLEAN, from : Keys \cup {None}]

ChannelRows == [tenant : Tenants \cup {None}, enabled : BOOLEAN]

PolicyRows ==
    [tenant : Tenants \cup {None}, workflow : Workflows \cup {None}, channels : SUBSET Channels,
     deleted : BOOLEAN]

RequestRows ==
    [tenant : Tenants \cup {None}, of : Keys \cup Channels \cup Policies \cup {None}, live : BOOLEAN,
     workflow : Workflows \cup {None}, channels : {None} \cup SUBSET Channels]

\* The shape of every variable.
TypeOK ==
    /\ key \in [Keys -> KeyRows]
    /\ channel \in [Channels -> ChannelRows]
    /\ policy \in [Policies -> PolicyRows]
    /\ pc \in [Requests -> Phases]
    /\ req \in [Requests -> RequestRows]

\* What the rows say of a workflow (or none), and of channels, and a tenant.
WorkflowIsOf(w, t) == w = None \/ WorkflowOf[w] = t

ChannelsAreOf(cs, t) == \A c \in cs : channel[c].tenant = t

OfTenant(t, w, cs) == WorkflowIsOf(w, t) /\ ChannelsAreOf(cs, t)

\* What a request q in a phase has found out, and still holds.
ProperIn(phase, q) ==
    /\ phase = "idle" => q = NoRequest
    /\ phase # "idle" => q.tenant \in Tenants
    /\ phase \in {"revoke", "rotate"} =>
          q.of \in Keys /\ key[q.of].tenant = q.tenant /\ (q.live \/ key[q.of].revoked)
    /\ phase = "channel" => q.of \in Channels /\ channel[q.of].tenant = q.tenant
    /\ phase = "policy" => q.channels \subseteq Channels /\ OfTenant(q.tenant, q.workflow, q.channels)
    /\ phase = "patch" =>
          /\ q.of \in Policies /\ (policy[q.of].deleted \/ policy[q.of].tenant = q.tenant)
          /\ WorkflowIsOf(q.workflow, q.tenant)
          /\ q.channels # None => q.channels \subseteq Channels /\ ChannelsAreOf(q.channels, q.tenant)
    /\ phase = "delete" => q.of \in Policies

RequestsAreProper == \A r \in Requests : ProperIn(pc[r], req[r])

\* A policy names a workflow and channels of its own tenant, although they are
\* checked before it is written and another request may write it in between
\* (assertWorkflowBelongsToTenant, assertChannelsBelongToTenant): an alert of
\* one tenant never goes to another.
PoliciesStayInTenant ==
    \A p \in Policies : policy[p].tenant # None =>
        OfTenant(policy[p].tenant, policy[p].workflow, policy[p].channels)

\* A key that was rotated is revoked, and its successor is of its tenant (the
\* transaction of the rotate route).
RotatedKeysAreRevoked ==
    \A k \in Keys : key[k].from # None =>
        key[key[k].from].revoked /\ key[key[k].from].tenant = key[k].tenant

\* Rows that are not there yet, or not any more, hold nothing.
EmptyRowsAreEmpty ==
    /\ \A k \in Keys : key[k].tenant = None => key[k] = NoKey
    /\ \A c \in Channels : channel[c].tenant = None => channel[c] = NoChannel
    /\ \A p \in Policies : policy[p].tenant = None <=> policy[p] \in {NoPolicy, DeletedPolicy}
    /\ \A p \in Policies : policy[p].deleted => policy[p] = DeletedPolicy

\* No row of one tenant leads to one of another.
TenantsAreSeparate == PoliciesStayInTenant /\ RotatedKeysAreRevoked

\* The inductive invariant.
PlaneInv ==
    /\ TypeOK
    /\ RequestsAreProper
    /\ PoliciesStayInTenant
    /\ RotatedKeysAreRevoked
    /\ EmptyRowsAreEmpty
=============================================================================
