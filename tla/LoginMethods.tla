----------------------------- MODULE LoginMethods -----------------------------
(***************************************************************************)
(* The ways into an account: a password, and the third-party identities    *)
(* bound to it.  An account is created by registering an address or by the *)
(* first login with an identity; identities are bound and unbound later.   *)
(* A flow is a browser on its way through a third-party login, or the      *)
(* request that unbinds: it reads with one query, decides, and writes with *)
(* another, so that any number of flows overlap.                           *)
(*                                                                         *)
(* A user stands for one mailbox: who gets which code is not modelled.     *)
(***************************************************************************)
EXTENDS Naturals, FiniteSets

CONSTANTS
    Users,          \* the mailboxes or persons that may have an account
    Identities,     \* accounts at the third parties: source and uuid
    SourceOf,       \* the platform an identity belongs to
    Anonymous,      \* in the place of a user, an identity or a platform
    Flows

ASSUME LoginMethodsAssumption ==
    /\ IsFiniteSet(Identities)
    /\ DOMAIN SourceOf = Identities
    /\ Anonymous \notin Users /\ Anonymous \notin Identities

Sources == {SourceOf[i] : i \in Identities}

VARIABLES
    account,        \* user: is there a row, is password_set, and the address
    socialUser,     \* identities with a row in social_user; rows are never deleted
    socialUserAuth, \* user, identity: the row that binds them, live or soft-deleted
    flow,           \* where a flow is, and what it has read
    crossed,        \* accounts that lost an identity while another flow changed the count
    released        \* identities that have been unbound at least once

loginVars == <<account, socialUser, socialUserAuth, flow, crossed, released>>

NoAccount == [exists |-> FALSE, passwordSet |-> FALSE, email |-> "none"]

IdleFlow == [pc |-> "idle", user |-> Anonymous, identity |-> Anonymous, source |-> Anonymous,
             found |-> FALSE, passwordSet |-> FALSE, count |-> 0]

Bound(u, i) == socialUserAuth[u, i] = "live"

\* What CountBindings returns.
Bindings(u) == Cardinality({i \in Identities : Bound(u, i)})

LoginInit ==
    /\ account = [u \in Users |-> NoAccount]
    /\ socialUser = {}
    /\ socialUserAuth = [x \in Users \X Identities |-> "none"]
    /\ flow = [f \in Flows |-> IdleFlow]
    /\ crossed = {} /\ released = {}
-----------------------------------------------------------------------------
(* Password and address.                                                   *)

\* A registered account has a password and a verified address.
RegisterAccount(u) ==
    /\ ~account[u].exists
    /\ account' = [account EXCEPT ![u] = [exists |-> TRUE, passwordSet |-> TRUE, email |-> "verified"]]
    /\ UNCHANGED <<socialUser, socialUserAuth, flow, crossed, released>>

\* The code mailed to the new main address verifies it.
UpdateEmail(u) ==
    /\ account[u].exists
    /\ account' = [account EXCEPT ![u].email = "verified"]
    /\ UNCHANGED <<socialUser, socialUserAuth, flow, crossed, released>>

\* For an account without a password, by a code to its address; this verifies it.
SetInitialPassword(u) ==
    /\ account[u].exists /\ ~account[u].passwordSet
    /\ account[u].email # "none"
    /\ account' = [account EXCEPT ![u].passwordSet = TRUE, ![u].email = "verified"]
    /\ UNCHANGED <<socialUser, socialUserAuth, flow, crossed, released>>

\* Forgotten or never set: only a verified address receives the code.
ResetPassword(u) ==
    /\ account[u].exists /\ account[u].email = "verified"
    /\ account' = [account EXCEPT ![u].passwordSet = TRUE]
    /\ UNCHANGED <<socialUser, socialUserAuth, flow, crossed, released>>
-----------------------------------------------------------------------------
(* Third-party flows.                                                      *)

\* The callback consumes the state of the flow (GETDEL: once), which remembers the user if the
\* flow was begun to bind, and the platform names the identity. A flow whose state is gone, or
\* whose platform fails, ends here. To log in: a known identity logs its user in, or nobody
\* when it is unbound, and writes no account; an unknown one gets a new account.
CallbackToLogin(f, i) ==
    /\ flow[f].pc = "idle"
    /\ i \notin socialUser
    /\ flow' = [flow EXCEPT ![f] = [IdleFlow EXCEPT !.pc = "create", !.identity = i]]
    /\ UNCHANGED <<account, socialUser, socialUserAuth, crossed, released>>

\* To bind: the identity must not be bound to anybody.
CallbackToBind(f, u, i) ==
    /\ flow[f].pc = "idle"
    /\ account[u].exists
    /\ \A v \in Users : ~Bound(v, i)
    /\ \E found \in BOOLEAN :
            /\ found <=> i \in socialUser
            /\ flow' = [flow EXCEPT ![f] = [IdleFlow EXCEPT !.pc = "source", !.user = u,
                                                            !.identity = i, !.found = found]]
    /\ UNCHANGED <<account, socialUser, socialUserAuth, crossed, released>>

\* User, identity and binding are written in one transaction; the unique index on source
\* and uuid rolls all of it back. An address of the platform is taken over unverified.
CreateUserWithSocialAuth(f) ==
    LET i == flow[f].identity IN
    /\ flow[f].pc = "create"
    /\ flow' = [flow EXCEPT ![f] = IdleFlow]
    /\ \/ /\ i \notin socialUser
          /\ \E u \in Users, email \in {"none", "unverified"} :
                /\ ~account[u].exists
                /\ account' = [account EXCEPT ![u] =
                        [exists |-> TRUE, passwordSet |-> FALSE, email |-> email]]
                /\ socialUserAuth' = [socialUserAuth EXCEPT ![<<u, i>>] = "live"]
          /\ socialUser' = socialUser \cup {i}
       \/ /\ i \in socialUser \/ \A u \in Users : account[u].exists
          /\ UNCHANGED <<account, socialUser, socialUserAuth>>
    /\ UNCHANGED <<crossed, released>>

\* The user must not have another identity of the platform.
FindBindingBySource(f) ==
    LET taken == \E i \in Identities : /\ SourceOf[i] = SourceOf[flow[f].identity]
                                       /\ Bound(flow[f].user, i) IN
    /\ flow[f].pc = "source"
    /\ flow' = [flow EXCEPT ![f] = IF taken THEN IdleFlow ELSE [@ EXCEPT !.pc = "save"]]
    /\ UNCHANGED <<account, socialUser, socialUserAuth, crossed, released>>

\* An identity that was not found is created, which the unique index may refuse; the
\* binding is created or revived, unless it is live already.
BindExistingUser(f) ==
    LET u == flow[f].user
        i == flow[f].identity IN
    /\ flow[f].pc = "save"
    /\ flow' = [flow EXCEPT ![f] = IdleFlow]
    /\ \/ /\ flow[f].found \/ i \notin socialUser
          /\ ~Bound(u, i)
          /\ socialUser' = socialUser \cup {i}
          /\ socialUserAuth' = [socialUserAuth EXCEPT ![<<u, i>>] = "live"]
       \/ /\ (~flow[f].found /\ i \in socialUser) \/ Bound(u, i)
          /\ UNCHANGED <<socialUser, socialUserAuth>>
    /\ UNCHANGED <<account, crossed, released>>
-----------------------------------------------------------------------------
(* Unbinding: the row of the user, the count and the binding are read, and  *)
(* the binding is deleted, by one query each.                              *)

StartUnbind(f, u, s) ==
    /\ flow[f].pc = "idle"
    /\ account[u].exists
    /\ flow' = [flow EXCEPT ![f] = [IdleFlow EXCEPT !.pc = "count", !.user = u, !.source = s,
                                                    !.passwordSet = account[u].passwordSet]]
    /\ UNCHANGED <<account, socialUser, socialUserAuth, crossed, released>>

\* Mutation of CountBindings: the last identity counts as one to spare.
CountBindingsOffByOne(f) ==
    LET n == Bindings(flow[f].user) IN
    /\ flow[f].pc = "count"
    /\ flow' = [flow EXCEPT ![f] =
                    IF ~@.passwordSet /\ n < 1 THEN IdleFlow
                    ELSE [@ EXCEPT !.pc = "unbind", !.passwordSet = FALSE, !.count = n]]
    /\ UNCHANGED <<account, socialUser, socialUserAuth, crossed, released>>

\* Without a password the last identity stays.
CountBindings(f) ==
    LET n == Bindings(flow[f].user) IN
    /\ flow[f].pc = "count"
    /\ flow' = [flow EXCEPT ![f] =
                    IF ~@.passwordSet /\ n <= 1 THEN IdleFlow
                    ELSE [@ EXCEPT !.pc = "unbind", !.passwordSet = FALSE, !.count = n]]
    /\ UNCHANGED <<account, socialUser, socialUserAuth, crossed, released>>

\* One binding of the platform is deleted, if there is one.
Unbind(f) ==
    LET u == flow[f].user
        mine == {i \in Identities : SourceOf[i] = flow[f].source /\ Bound(u, i)} IN
    /\ flow[f].pc = "unbind"
    /\ flow' = [flow EXCEPT ![f] = IdleFlow]
    /\ \/ /\ mine = {}
          /\ UNCHANGED <<socialUserAuth, crossed, released>>
       \/ \E i \in mine :
            /\ socialUserAuth' = [socialUserAuth EXCEPT ![<<u, i>>] = "deleted"]
            /\ crossed' = IF Bindings(u) # flow[f].count THEN crossed \cup {u} ELSE crossed
            /\ released' = released \cup {i}
    /\ UNCHANGED <<account, socialUser>>
-----------------------------------------------------------------------------
LoginNext ==
    \/ \E u \in Users : RegisterAccount(u) \/ UpdateEmail(u) \/ SetInitialPassword(u) \/ ResetPassword(u)
    \/ \E f \in Flows :
        \/ \E i \in Identities : CallbackToLogin(f, i) \/ \E u \in Users : CallbackToBind(f, u, i)
        \/ CreateUserWithSocialAuth(f) \/ FindBindingBySource(f) \/ BindExistingUser(f)
        \/ \E u \in Users, s \in Sources : StartUnbind(f, u, s)
        \/ CountBindings(f) \/ Unbind(f)

LoginSpec == LoginInit /\ [][LoginNext]_loginVars
-----------------------------------------------------------------------------
(* Properties.                                                             *)

\* Every column has a legal value; a binding has its two rows.
LoginTypeOK ==
    /\ account \in [Users -> [exists: BOOLEAN, passwordSet: BOOLEAN,
                              email: {"none", "unverified", "verified"}]]
    /\ socialUser \subseteq Identities
    /\ socialUserAuth \in [Users \X Identities -> {"none", "live", "deleted"}]
    /\ \A u \in Users, i \in Identities :
            socialUserAuth[u, i] # "none" => account[u].exists /\ i \in socialUser
    /\ flow \in [Flows -> [pc: {"idle", "create", "source", "save", "count", "unbind"},
                           user: Users \cup {Anonymous}, identity: Identities \cup {Anonymous},
                           source: Sources \cup {Anonymous}, found: BOOLEAN,
                           passwordSet: BOOLEAN, count: 0 .. Cardinality(Identities)]]
    /\ crossed \subseteq Users /\ released \subseteq Identities

\* An account can be entered: by its password, or by an identity bound to it. It
\* loses the last way only when two removals overlap, each counting the
\* identity that the other deletes.
WayInKept ==
    \A u \in Users \ crossed :
        account[u].exists => account[u].passwordSet \/ \E i \in Identities : Bound(u, i)

\* However logins and bindings of one identity overlap, it leads to one account;
\* only an identity that was unbound before can be bound to two at once.
IdentityLeadsToOne ==
    \A i \in Identities \ released : \A u, v \in Users :
        Bound(u, i) /\ Bound(v, i) => u = v

\* A login method is neither lost nor shared, but for the two overlaps above.
LoginMethodsSound == WayInKept /\ IdentityLeadsToOne
=============================================================================
