----------------------------- MODULE AccessProofs -----------------------------
(***************************************************************************)
(* What LoginMethods, Sessions, RateLimits and ArticleAssets promise, for  *)
(* any number of users, identities, requests, routes, levels of bans and   *)
(* pictures.                                                               *)
(*                                                                         *)
(* Login methods.  Two facts carry the proof.  An identity that was never  *)
(* unbound is bound to somebody as soon as it has a row, so a flow that    *)
(* found the row and nobody bound to it looks at a released one.  And a    *)
(* flow about to delete a binding has seen a password, which stays, or     *)
(* counted two bindings: if the count still holds, another is left.        *)
(*                                                                         *)
(* Sessions.  The type invariant suffices, with one fact more: a request   *)
(* that is about to disable somebody is not about to disable its sender.   *)
(*                                                                         *)
(* Rate limit.  As long as no claim ran out on a request, whoever counts   *)
(* or places a ban holds the claim alone, and a request that could still   *)
(* take the claim has seen a time without a ban.                           *)
(*                                                                         *)
(* Articles.  A request whose pictures nobody else deals with knows of     *)
(* each whether its object is there and whether the row needs it.  Steps   *)
(* of others leave such a picture alone (Undisturbed), or it is tangled.   *)
(***************************************************************************)
EXTENDS LoginMethods, Sessions, RateLimits, ArticleAssets, FiniteSetTheorems, TLAPS

\* An identity that was never unbound has an account as soon as it has a row.
RowsBound == \A i \in socialUser \ released : \E u \in Users : Bound(u, i)

\* What a flow may rely on, whatever the others did since it read it.
FlowKnows(f) ==
    /\ flow[f].pc = "create" => flow[f].identity \in Identities
    /\ flow[f].pc \in {"source", "save"} =>
            /\ flow[f].user \in Users /\ flow[f].identity \in Identities
            /\ account[flow[f].user].exists
            /\ flow[f].found => flow[f].identity \in socialUser \cap released
    /\ flow[f].pc \in {"count", "unbind"} =>
            flow[f].user \in Users /\ account[flow[f].user].exists
    /\ flow[f].pc = "count" /\ flow[f].passwordSet => account[flow[f].user].passwordSet
    /\ flow[f].pc = "unbind" => account[flow[f].user].passwordSet \/ flow[f].count >= 2

FlowsKnow == \A f \in Flows : FlowKnows(f)

LoginInv == LoginTypeOK /\ RowsBound /\ FlowsKnow /\ LoginMethodsSound

FlowRecords ==
    [pc: {"idle", "create", "source", "save", "count", "unbind"},
     user: Users \cup {Anonymous}, identity: Identities \cup {Anonymous},
     source: Sources \cup {Anonymous}, found: BOOLEAN,
     passwordSet: BOOLEAN, count: 0 .. Cardinality(Identities)]

\* The count is one the type allows.
LEMMA BindingsCounted ==
    ASSUME NEW u
    PROVE  Bindings(u) \in 0 .. Cardinality(Identities)
  <1> DEFINE S == {i \in Identities : Bound(u, i)}
  <1>1. IsFiniteSet(Identities) /\ S \subseteq Identities
    BY LoginMethodsAssumption
  <1>2. IsFiniteSet(S) /\ Cardinality(S) <= Cardinality(Identities)
    BY <1>1, FS_Subset
  <1>3. Cardinality(S) \in Nat /\ Cardinality(Identities) \in Nat
    BY <1>1, <1>2, FS_CardinalityType
  <1> QED
    BY <1>2, <1>3 DEF Bindings

\* A flow starts and ends with a legal record.
LEMMA IdleIsFlow == 0 \in 0 .. Cardinality(Identities) /\ IdleFlow \in FlowRecords
  <1>1. Cardinality(Identities) \in Nat
    BY LoginMethodsAssumption, FS_CardinalityType
  <1> QED
    BY <1>1 DEF IdleFlow, FlowRecords

\* Who has two bindings keeps one when one is deleted.
LEMMA AnotherIsLeft ==
    ASSUME NEW u, NEW i \in Identities, Bindings(u) >= 2
    PROVE  \E j \in Identities : j # i /\ Bound(u, j)
  <1> DEFINE S == {j \in Identities : Bound(u, j)}
  <1>1. IsFiniteSet(S) /\ Cardinality(S) >= 2
    BY LoginMethodsAssumption, FS_Subset DEF Bindings
  <1>2. IsFiniteSet({i}) /\ Cardinality({i}) = 1
    BY FS_Singleton
  <1>3. SUFFICES ASSUME S \subseteq {i}
                 PROVE  FALSE
    OBVIOUS
  <1>4. Cardinality(S) <= 1
    BY <1>2, <1>3, FS_Subset
  <1> QED
    BY <1>1, <1>4, FS_CardinalityType

\* A step of one flow that writes nothing.
LEMMA FlowOnly ==
    ASSUME LoginInv, NEW f \in Flows,
           UNCHANGED <<account, socialUser, socialUserAuth, crossed, released>>,
           flow' = [flow EXCEPT ![f] = flow'[f]],
           flow'[f] \in FlowRecords, FlowKnows(f)'
    PROVE  LoginInv'
  <1>1. flow' \in [Flows -> FlowRecords] /\ \A g \in Flows : g # f => flow'[g] = flow[g]
    BY DEF LoginInv, LoginTypeOK, FlowRecords
  <1>2. LoginTypeOK'
    BY <1>1 DEF LoginInv, LoginTypeOK, FlowRecords
  <1>3. RowsBound' /\ LoginMethodsSound'
    BY DEF LoginInv, RowsBound, LoginMethodsSound, WayInKept, IdentityLeadsToOne, Bound
  <1>4. FlowsKnow'
    <2> SUFFICES ASSUME NEW g \in Flows PROVE FlowKnows(g)'
      BY DEF FlowsKnow
    <2>1. CASE g = f
      BY <2>1
    <2>2. CASE g # f
      BY <2>2, <1>1 DEF LoginInv, FlowsKnow, FlowKnows
    <2> QED
      BY <2>1, <2>2
  <1> QED
    BY <1>2, <1>3, <1>4 DEF LoginInv

\* A step that only gives an account what it may have: a password or an address.
LEMMA AccountOnly ==
    ASSUME LoginInv, NEW u \in Users, NEW r,
           r \in [exists: {TRUE}, passwordSet: BOOLEAN, email: {"none", "unverified", "verified"}],
           account[u].passwordSet => r.passwordSet,
           ~account[u].exists => r.passwordSet,
           account' = [account EXCEPT ![u] = r],
           UNCHANGED <<socialUser, socialUserAuth, flow, crossed, released>>
    PROVE  LoginInv'
  <1>1. /\ account' \in [Users -> [exists: BOOLEAN, passwordSet: BOOLEAN,
                                   email: {"none", "unverified", "verified"}]]
        /\ account'[u] = r /\ r.exists
        /\ \A v \in Users : v # u => account'[v] = account[v]
    BY DEF LoginInv, LoginTypeOK
  <1>2. \A v \in Users : /\ account[v].exists => account'[v].exists
                         /\ account[v].passwordSet => account'[v].passwordSet
    BY <1>1
  <1>3. LoginTypeOK'
    BY <1>1, <1>2 DEF LoginInv, LoginTypeOK
  <1>4. RowsBound' /\ IdentityLeadsToOne'
    BY DEF LoginInv, RowsBound, LoginMethodsSound, IdentityLeadsToOne, Bound
  <1>5. WayInKept'
    <2> SUFFICES ASSUME NEW v \in Users \ crossed, account'[v].exists
                 PROVE  account'[v].passwordSet \/ \E i \in Identities : Bound(v, i)
      BY DEF WayInKept, Bound
    <2>1. account[v].exists => account[v].passwordSet \/ \E i \in Identities : Bound(v, i)
      BY DEF LoginInv, LoginMethodsSound, WayInKept
    <2>2. CASE v = u
      BY <1>1, <2>1, <2>2
    <2>3. CASE v # u
      BY <1>1, <2>1, <2>3
    <2> QED
      BY <2>2, <2>3
  <1>6. FlowsKnow'
    BY <1>2 DEF LoginInv, FlowsKnow, FlowKnows
  <1> QED
    BY <1>3, <1>4, <1>5, <1>6 DEF LoginInv, LoginMethodsSound

LEMMA PasswordSteps ==
    ASSUME LoginInv, NEW u \in Users,
           RegisterAccount(u) \/ UpdateEmail(u) \/ SetInitialPassword(u) \/ ResetPassword(u)
    PROVE  LoginInv'
  <1> DEFINE Rec == [exists: BOOLEAN, passwordSet: BOOLEAN, email: {"none", "unverified", "verified"}]
  <1>1. account \in [Users -> Rec]
    BY DEF LoginInv, LoginTypeOK
  <1>2. CASE RegisterAccount(u)
    <2> DEFINE r == [exists |-> TRUE, passwordSet |-> TRUE, email |-> "verified"]
    <2> QED
      BY <1>2, AccountOnly, r \in [exists: {TRUE}, passwordSet: BOOLEAN, email: {"none", "unverified", "verified"}]
         DEF RegisterAccount
  <1>3. CASE UpdateEmail(u)
    <2> DEFINE r == [account[u] EXCEPT !.email = "verified"]
    <2>1. r \in [exists: {TRUE}, passwordSet: BOOLEAN, email: {"none", "unverified", "verified"}]
          /\ r.passwordSet = account[u].passwordSet /\ account[u].exists
      BY <1>1, <1>3 DEF UpdateEmail
    <2>2. account' = [account EXCEPT ![u] = r]
      BY <1>1, <1>3 DEF UpdateEmail
    <2> HIDE DEF r
    <2> QED
      BY <1>3, <2>1, <2>2, AccountOnly DEF UpdateEmail
  <1>4. CASE SetInitialPassword(u)
    <2> DEFINE r == [account[u] EXCEPT !.passwordSet = TRUE, !.email = "verified"]
    <2>1. r \in [exists: {TRUE}, passwordSet: BOOLEAN, email: {"none", "unverified", "verified"}]
          /\ r.passwordSet /\ account[u].exists
      BY <1>1, <1>4 DEF SetInitialPassword
    <2>2. account' = [account EXCEPT ![u] = r]
      BY <1>1, <1>4 DEF SetInitialPassword
    <2> HIDE DEF r
    <2> QED
      BY <1>4, <2>1, <2>2, AccountOnly DEF SetInitialPassword
  <1>5. CASE ResetPassword(u)
    <2> DEFINE r == [account[u] EXCEPT !.passwordSet = TRUE]
    <2>1. r \in [exists: {TRUE}, passwordSet: BOOLEAN, email: {"none", "unverified", "verified"}]
          /\ r.passwordSet /\ account[u].exists
      BY <1>1, <1>5 DEF ResetPassword
    <2>2. account' = [account EXCEPT ![u] = r]
      BY <1>1, <1>5 DEF ResetPassword
    <2> HIDE DEF r
    <2> QED
      BY <1>5, <2>1, <2>2, AccountOnly DEF ResetPassword
  <1> QED
    BY <1>2, <1>3, <1>4, <1>5

LEMMA CallbackSteps ==
    ASSUME LoginInv, NEW f \in Flows, NEW i \in Identities,
           CallbackToLogin(f, i) \/ \E u \in Users : CallbackToBind(f, u, i)
    PROVE  LoginInv'
  <1>1. flow \in [Flows -> FlowRecords]
    BY DEF LoginInv, LoginTypeOK, FlowRecords
  <1>2. CASE CallbackToLogin(f, i)
    <2> DEFINE r == [IdleFlow EXCEPT !.pc = "create", !.identity = i]
    <2>1. r \in FlowRecords /\ r.pc = "create" /\ r.identity = i
      BY IdleIsFlow DEF IdleFlow, FlowRecords
    <2>2. flow' = [flow EXCEPT ![f] = r] /\ flow'[f] = r
      BY <1>1, <1>2 DEF CallbackToLogin
    <2> HIDE DEF r
    <2>3. FlowKnows(f)'
      BY <2>1, <2>2 DEF FlowKnows
    <2> QED
      BY <1>2, <2>1, <2>2, <2>3, FlowOnly DEF CallbackToLogin
  <1>3. ASSUME NEW u \in Users, CallbackToBind(f, u, i)
        PROVE  LoginInv'
    <2>0. PICK b \in BOOLEAN :
            /\ b <=> i \in socialUser
            /\ flow' = [flow EXCEPT ![f] = [IdleFlow EXCEPT !.pc = "source", !.user = u,
                                                            !.identity = i, !.found = b]]
      BY <1>3 DEF CallbackToBind
    <2> DEFINE r == [IdleFlow EXCEPT !.pc = "source", !.user = u, !.identity = i, !.found = b]
    <2>1. /\ r \in FlowRecords /\ r.pc = "source" /\ r.user = u /\ r.identity = i
          /\ r.found = b
      BY IdleIsFlow DEF IdleFlow, FlowRecords
    <2>2. flow' = [flow EXCEPT ![f] = r] /\ flow'[f] = r
      BY <1>1, <2>0
    <2> HIDE DEF r
    <2>3. i \in socialUser => i \in released
      BY <1>3 DEF CallbackToBind, LoginInv, RowsBound
    <2>4. FlowKnows(f)'
      <3>1. r.found => i \in socialUser \cap released
        BY <2>0, <2>1, <2>3
      <3> QED
        BY <1>3, <2>1, <2>2, <3>1 DEF FlowKnows, CallbackToBind
    <2> QED
      BY <1>3, <2>1, <2>2, <2>4, FlowOnly DEF CallbackToBind
  <1> QED
    BY <1>2, <1>3

LEMMA FindBindingStep ==
    ASSUME LoginInv, NEW f \in Flows, FindBindingBySource(f)
    PROVE  LoginInv'
  <1>1. flow \in [Flows -> FlowRecords] /\ flow[f].pc = "source"
    BY DEF LoginInv, LoginTypeOK, FlowRecords, FindBindingBySource
  <1>2. PICK r \in {IdleFlow, [flow[f] EXCEPT !.pc = "save"]} : flow' = [flow EXCEPT ![f] = r]
    BY <1>1 DEF FindBindingBySource
  <1>3. flow'[f] = r
    BY <1>1, <1>2
  <1>4. r \in FlowRecords
    BY <1>1, <1>2, IdleIsFlow DEF IdleFlow, FlowRecords
  <1>5. FlowKnows(f)'
    <2>1. CASE r = IdleFlow
      BY <1>3, <2>1 DEF FlowKnows, IdleFlow
    <2>2. CASE r = [flow[f] EXCEPT !.pc = "save"]
      <3>1. /\ r.pc = "save" /\ r.user = flow[f].user /\ r.identity = flow[f].identity
            /\ r.found = flow[f].found
        BY <1>1, <2>2 DEF FlowRecords
      <3> QED
        BY <1>1, <1>3, <3>1 DEF FlowKnows, FlowsKnow, LoginInv, FindBindingBySource
    <2> QED
      BY <1>2, <2>1, <2>2
  <1> QED
    BY <1>2, <1>3, <1>4, <1>5, FlowOnly DEF FindBindingBySource

LEMMA UnbindReadSteps ==
    ASSUME LoginInv, NEW f \in Flows,
           CountBindings(f) \/ \E u \in Users, s \in Sources : StartUnbind(f, u, s)
    PROVE  LoginInv'
  <1>1. flow \in [Flows -> FlowRecords] /\ IdleFlow \in FlowRecords
    BY IdleIsFlow DEF LoginInv, LoginTypeOK, FlowRecords
  <1>2. CASE CountBindings(f)
    <2> DEFINE n == Bindings(flow[f].user)
               go == [flow[f] EXCEPT !.pc = "unbind", !.passwordSet = FALSE, !.count = n]
    <2>1. n \in 0 .. Cardinality(Identities)
      BY BindingsCounted
    <2> HIDE DEF n
    <2>2. /\ go \in FlowRecords /\ go.pc = "unbind" /\ go.user = flow[f].user /\ go.count = n
      BY <1>1, <2>1 DEF FlowRecords
    <2>3. /\ flow[f].pc = "count"
          /\ flow' = [flow EXCEPT ![f] = IF ~flow[f].passwordSet /\ n <= 1 THEN IdleFlow ELSE go]
      BY <1>1, <1>2 DEF CountBindings, n
    <2> HIDE DEF go
    <2>4. PICK r \in FlowRecords : /\ flow' = [flow EXCEPT ![f] = r]
                                   /\ \/ r = IdleFlow
                                      \/ r = go /\ (flow[f].passwordSet \/ ~(n <= 1))
      BY <1>1, <2>2, <2>3
    <2>5. flow'[f] = r
      BY <1>1, <2>4
    <2>6. FlowKnows(f)'
      <3>1. CASE r = IdleFlow
        BY <2>5, <3>1 DEF FlowKnows, IdleFlow
      <3>2. CASE r = go /\ (flow[f].passwordSet \/ ~(n <= 1))
        <4>1. Cardinality(Identities) \in Nat /\ n \in Nat
          BY <2>1, LoginMethodsAssumption, FS_CardinalityType
        <4>2. n >= 2 \/ n <= 1
          BY <4>1
        <4>3. account' = account
          BY <1>2 DEF CountBindings
        <4> QED
          BY <2>2, <2>3, <2>5, <3>2, <4>2, <4>3 DEF FlowKnows, FlowsKnow, LoginInv
      <3> QED
        BY <2>4, <3>1, <3>2
    <2> QED
      BY <1>2, <2>4, <2>5, <2>6, FlowOnly DEF CountBindings
  <1>3. ASSUME NEW u \in Users, NEW s \in Sources, StartUnbind(f, u, s)
        PROVE  LoginInv'
    <2> DEFINE r == [IdleFlow EXCEPT !.pc = "count", !.user = u, !.source = s,
                                     !.passwordSet = account[u].passwordSet]
    <2>0. account[u].passwordSet \in BOOLEAN
      BY DEF LoginInv, LoginTypeOK
    <2>1. /\ r \in FlowRecords /\ r.pc = "count" /\ r.user = u
          /\ r.passwordSet = account[u].passwordSet
      BY <2>0, IdleIsFlow DEF IdleFlow, FlowRecords
    <2>2. flow' = [flow EXCEPT ![f] = r] /\ flow'[f] = r
      BY <1>1, <1>3 DEF StartUnbind
    <2> HIDE DEF r
    <2>3. FlowKnows(f)'
      BY <1>3, <2>1, <2>2 DEF FlowKnows, StartUnbind
    <2> QED
      BY <1>3, <2>1, <2>2, <2>3, FlowOnly DEF StartUnbind
  <1> QED
    BY <1>2, <1>3

\* A flow binds an identity that nobody else has, or that was released, and ends.
LEMMA BindingWritten ==
    ASSUME LoginInv, NEW f \in Flows, NEW u \in Users, NEW i \in Identities,
           account' \in [Users -> [exists: BOOLEAN, passwordSet: BOOLEAN,
                                   email: {"none", "unverified", "verified"}]],
           account'[u].exists,
           account[u].exists /\ account[u].passwordSet => account'[u].passwordSet,
           \A v \in Users : v # u => account'[v] = account[v],
           i \in released \/ \A v \in Users : v # u => ~Bound(v, i),
           socialUser' = socialUser \cup {i},
           socialUserAuth' = [socialUserAuth EXCEPT ![<<u, i>>] = "live"],
           flow' = [flow EXCEPT ![f] = IdleFlow],
           UNCHANGED <<crossed, released>>
    PROVE  LoginInv'
  <1>1. /\ flow' \in [Flows -> FlowRecords] /\ flow'[f].pc = "idle"
        /\ \A g \in Flows : g # f => flow'[g] = flow[g]
    BY IdleIsFlow DEF LoginInv, LoginTypeOK, FlowRecords, IdleFlow
  <1>2. /\ socialUserAuth' \in [Users \X Identities -> {"none", "live", "deleted"}]
        /\ socialUserAuth'[<<u, i>>] = "live"
        /\ \A v \in Users, j \in Identities :
                v # u \/ j # i => socialUserAuth'[<<v, j>>] = socialUserAuth[<<v, j>>]
    BY DEF LoginInv, LoginTypeOK
  <1>b. /\ Bound(u, i)'
        /\ \A v \in Users, j \in Identities :
                v # u \/ j # i => (Bound(v, j)' <=> Bound(v, j))
    BY <1>2 DEF Bound
  <1>c. \A v \in Users, j \in Identities :
            (socialUserAuth[v, j] # "none")' => account'[v].exists /\ j \in socialUser'
    <2> SUFFICES ASSUME NEW v \in Users, NEW j \in Identities,
                        socialUserAuth'[<<v, j>>] # "none"
                 PROVE  account'[v].exists /\ j \in socialUser'
      OBVIOUS
    <2>1. socialUserAuth[<<v, j>>] # "none" => account[v].exists /\ j \in socialUser
      BY DEF LoginInv, LoginTypeOK
    <2> QED
      BY <1>2, <2>1
  <1>3. LoginTypeOK'
    <2>1. socialUser' \subseteq Identities /\ crossed' \subseteq Users /\ released' \subseteq Identities
      BY DEF LoginInv, LoginTypeOK
    <2> QED
      BY <1>1, <1>2, <1>c, <2>1, Zenon DEF LoginTypeOK, FlowRecords
  <1>4. RowsBound'
    <2> SUFFICES ASSUME NEW j \in socialUser' \ released'
                 PROVE  \E v \in Users : Bound(v, j)'
      BY DEF RowsBound
    <2>1. CASE j = i
      BY <1>b, <2>1
    <2>2. CASE j # i
      <3>1. j \in Identities /\ \E v \in Users : Bound(v, j)
        BY <2>2 DEF LoginInv, LoginTypeOK, RowsBound
      <3> QED
        BY <1>b, <2>2, <3>1
    <2> QED
      BY <2>1, <2>2
  <1>5. WayInKept'
    BY <1>b DEF LoginInv, LoginMethodsSound, WayInKept
  <1>6. IdentityLeadsToOne'
    BY <1>b DEF LoginInv, LoginMethodsSound, IdentityLeadsToOne
  <1>7. FlowsKnow'
    <2> SUFFICES ASSUME NEW g \in Flows PROVE FlowKnows(g)'
      BY DEF FlowsKnow
    <2>1. CASE g = f
      BY <1>1, <2>1 DEF FlowKnows
    <2>2. CASE g # f
      <3>1. FlowKnows(g) /\ flow'[g] = flow[g]
        BY <1>1, <2>2 DEF LoginInv, FlowsKnow
      <3>2. \A v \in Users : account[v].exists =>
                /\ account'[v].exists
                /\ account[v].passwordSet => account'[v].passwordSet
        OBVIOUS
      <3> QED
        BY <3>1, <3>2 DEF FlowKnows
    <2> QED
      BY <2>1, <2>2
  <1> QED
    BY <1>3, <1>4, <1>5, <1>6, <1>7 DEF LoginInv, LoginMethodsSound

\* A flow that ends without writing anything.
LEMMA FlowEnds ==
    ASSUME LoginInv, NEW f \in Flows, flow' = [flow EXCEPT ![f] = IdleFlow],
           UNCHANGED <<account, socialUser, socialUserAuth, crossed, released>>
    PROVE  LoginInv'
  <1>1. flow'[f] = IdleFlow
    BY DEF LoginInv, LoginTypeOK
  <1>2. FlowKnows(f)'
    BY <1>1 DEF FlowKnows, IdleFlow
  <1> QED
    BY <1>1, <1>2, IdleIsFlow, FlowOnly

LEMMA CreateStep ==
    ASSUME LoginInv, NEW f \in Flows, CreateUserWithSocialAuth(f)
    PROVE  LoginInv'
  <1> DEFINE i == flow[f].identity
  <1>1. i \in Identities
    BY DEF CreateUserWithSocialAuth, LoginInv, FlowsKnow, FlowKnows
  <1>2. ASSUME i \notin socialUser, socialUser' = socialUser \cup {i},
               NEW u \in Users, NEW email \in {"none", "unverified"}, ~account[u].exists,
               account' = [account EXCEPT ![u] =
                        [exists |-> TRUE, passwordSet |-> FALSE, email |-> email]],
               socialUserAuth' = [socialUserAuth EXCEPT ![<<u, i>>] = "live"]
        PROVE  LoginInv'
    <2>1. /\ account' \in [Users -> [exists: BOOLEAN, passwordSet: BOOLEAN,
                                     email: {"none", "unverified", "verified"}]]
          /\ account'[u].exists
          /\ \A v \in Users : v # u => account'[v] = account[v]
      BY <1>2 DEF LoginInv, LoginTypeOK
    <2>2. \A v \in Users : ~Bound(v, i)
      BY <1>1, <1>2 DEF LoginInv, LoginTypeOK, Bound
    <2>3. flow' = [flow EXCEPT ![f] = IdleFlow] /\ UNCHANGED <<crossed, released>>
      BY DEF CreateUserWithSocialAuth
    <2> HIDE DEF i
    <2> QED
      BY <1>1, <1>2, <2>1, <2>2, <2>3, BindingWritten
  <1>3. CASE UNCHANGED <<account, socialUser, socialUserAuth>>
    BY <1>3, FlowEnds DEF CreateUserWithSocialAuth
  <1> QED
    BY <1>2, <1>3 DEF CreateUserWithSocialAuth

LEMMA BindExistingStep ==
    ASSUME LoginInv, NEW f \in Flows, BindExistingUser(f)
    PROVE  LoginInv'
  <1> DEFINE u == flow[f].user
             i == flow[f].identity
  <1>1. /\ u \in Users /\ i \in Identities /\ account[u].exists
        /\ flow[f].found => i \in released
    BY DEF BindExistingUser, LoginInv, FlowsKnow, FlowKnows
  <1>2. /\ flow' = [flow EXCEPT ![f] = IdleFlow] /\ UNCHANGED <<account, crossed, released>>
    BY DEF BindExistingUser
  <1>3. CASE /\ flow[f].found \/ i \notin socialUser
             /\ socialUser' = socialUser \cup {i}
             /\ socialUserAuth' = [socialUserAuth EXCEPT ![<<u, i>>] = "live"]
    <2>1. i \in released \/ \A v \in Users : ~Bound(v, i)
      BY <1>1, <1>3 DEF LoginInv, LoginTypeOK, Bound
    <2>2. account' \in [Users -> [exists: BOOLEAN, passwordSet: BOOLEAN,
                                  email: {"none", "unverified", "verified"}]]
      BY <1>2 DEF LoginInv, LoginTypeOK
    <2> HIDE DEF u, i
    <2> QED
      BY <1>1, <1>2, <1>3, <2>1, <2>2, BindingWritten
  <1>4. CASE UNCHANGED <<socialUser, socialUserAuth>>
    BY <1>2, <1>4, FlowEnds
  <1> QED
    BY <1>3, <1>4 DEF BindExistingUser

LEMMA UnbindStep ==
    ASSUME LoginInv, NEW f \in Flows, Unbind(f)
    PROVE  LoginInv'
  <1> DEFINE u == flow[f].user
  <1>1. /\ u \in Users
        /\ account[u].passwordSet \/ flow[f].count >= 2
    BY DEF Unbind, LoginInv, FlowsKnow, FlowKnows
  <1>2. flow' = [flow EXCEPT ![f] = IdleFlow] /\ UNCHANGED <<account, socialUser>>
    BY DEF Unbind
  <1>3. CASE UNCHANGED <<socialUserAuth, crossed, released>>
    BY <1>2, <1>3, FlowEnds
  <1>4. ASSUME NEW i \in Identities, Bound(u, i),
               socialUserAuth' = [socialUserAuth EXCEPT ![<<u, i>>] = "deleted"],
               crossed' = IF Bindings(u) # flow[f].count THEN crossed \cup {u} ELSE crossed,
               released' = released \cup {i}
        PROVE  LoginInv'
    <2>1. /\ flow' \in [Flows -> FlowRecords] /\ flow'[f].pc = "idle"
          /\ \A g \in Flows : g # f => flow'[g] = flow[g]
      BY <1>2, IdleIsFlow DEF LoginInv, LoginTypeOK, FlowRecords, IdleFlow
    <2> HIDE DEF u
    <2>2. /\ socialUserAuth' \in [Users \X Identities -> {"none", "live", "deleted"}]
          /\ socialUserAuth'[<<u, i>>] = "deleted"
          /\ \A v \in Users, j \in Identities :
                  v # u \/ j # i => socialUserAuth'[<<v, j>>] = socialUserAuth[<<v, j>>]
      BY <1>1, <1>4 DEF LoginInv, LoginTypeOK
    <2>b. \A v \in Users, j \in Identities :
              /\ v # u \/ j # i => (Bound(v, j)' <=> Bound(v, j))
              /\ v = u /\ j = i => ~Bound(v, j)'
      BY <1>1, <2>2 DEF Bound
    <2>3. crossed \subseteq crossed' /\ crossed' \subseteq crossed \cup {u}
          /\ (u \notin crossed' => Bindings(u) = flow[f].count)
      BY <1>4
    <2>c. \A v \in Users, j \in Identities :
              (socialUserAuth[v, j] # "none")' => account'[v].exists /\ j \in socialUser'
      <3> SUFFICES ASSUME NEW v \in Users, NEW j \in Identities,
                          socialUserAuth'[<<v, j>>] # "none"
                   PROVE  account'[v].exists /\ j \in socialUser'
        OBVIOUS
      <3>1. socialUserAuth[<<v, j>>] # "none" => account[v].exists /\ j \in socialUser
        BY DEF LoginInv, LoginTypeOK
      <3>2. socialUserAuth[<<u, i>>] # "none"
        BY <1>4 DEF Bound
      <3> QED
        BY <1>2, <2>2, <3>1, <3>2
    <2>4. LoginTypeOK'
      <3>1. /\ account' \in [Users -> [exists: BOOLEAN, passwordSet: BOOLEAN,
                                       email: {"none", "unverified", "verified"}]]
            /\ socialUser' \subseteq Identities
            /\ crossed' \subseteq Users /\ released' \subseteq Identities
        BY <1>1, <1>2, <1>4, <2>3 DEF LoginInv, LoginTypeOK
      <3> QED
        BY <2>1, <2>2, <2>c, <3>1, Zenon DEF LoginTypeOK, FlowRecords
    <2>5. RowsBound'
      BY <1>2, <1>4, <2>b DEF LoginInv, LoginTypeOK, RowsBound
    <2>6. IdentityLeadsToOne'
      BY <1>1, <1>4, <2>b DEF LoginInv, LoginMethodsSound, IdentityLeadsToOne
    <2>7. WayInKept'
      <3> SUFFICES ASSUME NEW v \in Users \ crossed', account[v].exists
                   PROVE  account[v].passwordSet \/ \E j \in Identities : Bound(v, j)'
        BY <1>2 DEF WayInKept
      <3>1. CASE v # u
        BY <2>b, <2>3, <3>1 DEF LoginInv, LoginMethodsSound, WayInKept
      <3>2. CASE v = u /\ ~account[v].passwordSet
        <4>1. Bindings(u) >= 2
          BY <1>1, <2>3, <3>2
        <4>2. PICK j \in Identities : j # i /\ Bound(u, j)
          BY <4>1, AnotherIsLeft
        <4> QED
          BY <1>1, <2>b, <3>2, <4>2
      <3> QED
        BY <3>1, <3>2
    <2>8. FlowsKnow'
      <3> SUFFICES ASSUME NEW g \in Flows PROVE FlowKnows(g)'
        BY DEF FlowsKnow
      <3>1. CASE g = f
        BY <2>1, <3>1 DEF FlowKnows
      <3>2. CASE g # f
        <4>1. FlowKnows(g) /\ flow'[g] = flow[g]
          BY <2>1, <3>2 DEF LoginInv, FlowsKnow
        <4> QED
          BY <1>2, <1>4, <4>1 DEF FlowKnows
      <3> QED
        BY <3>1, <3>2
    <2> QED
      BY <2>4, <2>5, <2>6, <2>7, <2>8 DEF LoginInv, LoginMethodsSound
  <1> QED
    BY <1>3, <1>4 DEF Unbind

\* The invariant behind both login theorems.
THEOREM LoginInvariant == LoginSpec => []LoginInv
  <1>1. LoginInit => LoginInv
    <2> SUFFICES ASSUME LoginInit PROVE LoginInv
      OBVIOUS
    <2>1. LoginTypeOK
      BY IdleIsFlow DEF LoginInit, LoginTypeOK, NoAccount, FlowRecords
    <2>2. FlowsKnow
      BY DEF LoginInit, FlowsKnow, FlowKnows, IdleFlow
    <2>3. RowsBound /\ LoginMethodsSound
      BY DEF LoginInit, RowsBound, LoginMethodsSound, WayInKept, IdentityLeadsToOne, Bound, NoAccount
    <2> QED
      BY <2>1, <2>2, <2>3 DEF LoginInv
  <1>2. LoginInv /\ [LoginNext]_loginVars => LoginInv'
    <2> SUFFICES ASSUME LoginInv, [LoginNext]_loginVars PROVE LoginInv'
      OBVIOUS
    <2>1. CASE UNCHANGED loginVars
      BY <2>1 DEF loginVars, LoginInv, LoginTypeOK, RowsBound, FlowsKnow, FlowKnows,
                  LoginMethodsSound, WayInKept, IdentityLeadsToOne, Bound
    <2>2. CASE LoginNext
      BY <2>2, PasswordSteps, CallbackSteps, FindBindingStep, UnbindReadSteps,
         CreateStep, BindExistingStep, UnbindStep DEF LoginNext
    <2> QED
      BY <2>1, <2>2
  <1> QED
    BY <1>1, <1>2, PTL DEF LoginSpec

\* No step of a password, a login or a binding leaves a column with an illegal value.
THEOREM LoginTypesHold == LoginSpec => []LoginTypeOK
  <1>1. LoginInv => LoginTypeOK
    BY DEF LoginInv
  <1> QED
    BY <1>1, LoginInvariant, PTL

\* An account keeps a way in and an identity one account, but for the two overlaps named.
THEOREM LoginMethodsAreSound == LoginSpec => []LoginMethodsSound
  <1>1. LoginInv => LoginMethodsSound
    BY DEF LoginInv
  <1> QED
    BY <1>1, LoginInvariant, PTL
-----------------------------------------------------------------------------
(* Sessions.                                                               *)

\* Who is about to set a status was let in as an administrator, and not against himself.
StatusIsAllowed(c) ==
    call[c].pc = "status" =>
        /\ call[c].member \in Admins /\ call[c].op \in {"disable", "enable"}
        /\ call[c].op = "disable" => call[c].target # call[c].member

SessionInv == SessionTypeOK /\ (\A c \in Calls : StatusIsAllowed(c)) /\ SessionsSound

Requests == [pc: {"load", "fill", "status", "invalidate"}, member: Members,
             op: Operations, target: Members, loaded: BOOLEAN]

\* A request that is under way has all its fields.
LEMMA RequestUnderWay ==
    ASSUME SessionTypeOK, NEW c \in Calls, call[c].pc # "idle"
    PROVE  call[c] \in Requests
  <1>1. call[c] \in CallRecords
    BY DEF SessionTypeOK
  <1> QED
    BY <1>1 DEF CallRecords, Requests

LEMMA AtIsRequest ==
    ASSUME NEW pc \in {"load", "fill", "status", "invalidate"}, NEW m \in Members,
           NEW op \in Operations, NEW t \in Members
    PROVE  /\ At(pc, m, op, t) \in CallRecords /\ NoCall \in CallRecords
           /\ At(pc, m, op, t).pc = pc /\ At(pc, m, op, t).member = m
           /\ At(pc, m, op, t).op = op /\ At(pc, m, op, t).target = t
  BY DEF At, CallRecords, NoCall

\* A step of one request that changes no row and no copy, and does not end a deletion.
LEMMA CallOnly ==
    ASSUME SessionInv, NEW c \in Calls, NEW r \in CallRecords,
           call' = [call EXCEPT ![c] = r], call[c].pc # "invalidate",
           StatusIsAllowed(c)', UNCHANGED <<enabled, cached, overtaken, ousted>>
    PROVE  SessionInv'
  <1>1. call' \in [Calls -> CallRecords] /\ \A d \in Calls : d # c => call'[d] = call[d]
    BY DEF SessionInv, SessionTypeOK
  <1>2. SessionTypeOK'
    BY <1>1 DEF SessionInv, SessionTypeOK
  <1>3. \A d \in Calls : StatusIsAllowed(d)'
    <2> SUFFICES ASSUME NEW d \in Calls, d # c PROVE StatusIsAllowed(d)'
      OBVIOUS
    <2> QED
      BY <1>1 DEF SessionInv, StatusIsAllowed
  <1>4. WrongProfileExplained'
    BY <1>1 DEF SessionInv, SessionsSound, WrongProfileExplained, Wrong
  <1>5. AdministratorRemains'
    BY DEF SessionInv, SessionsSound, AdministratorRemains
  <1> QED
    BY <1>2, <1>3, <1>4, <1>5 DEF SessionInv, SessionsSound

\* Where a request goes on that was let in.
LEMMA ServedIsAllowed ==
    ASSUME SessionInv, NEW c \in Calls, NEW m \in Members, NEW op \in Operations, NEW t \in Members,
           call' = [call EXCEPT ![c] = Served(m, op, t)]
    PROVE  Served(m, op, t) \in CallRecords /\ StatusIsAllowed(c)'
           /\ Served(m, op, t).pc # "invalidate"
  <1> DEFINE r == Served(m, op, t)
  <1>1. call'[c] = r
    BY DEF SessionInv, SessionTypeOK
  <1>2. CASE MaySetStatus(m, op, t)
    <2>1. r = At("status", m, op, t)
      BY <1>2 DEF Served
    <2>2. /\ r \in CallRecords /\ r.pc = "status" /\ r.member = m /\ r.op = op /\ r.target = t
      BY <2>1, AtIsRequest
    <2>3. m \in Admins /\ op \in {"disable", "enable"} /\ (op = "disable" => t # m)
      BY <1>2 DEF MaySetStatus, Operations
    <2> QED
      BY <1>1, <2>2, <2>3 DEF StatusIsAllowed
  <1>3. CASE ~MaySetStatus(m, op, t)
    <2>1. r = NoCall
      BY <1>3 DEF Served
    <2> QED
      BY <1>1, <2>1 DEF StatusIsAllowed, NoCall, CallRecords
  <1> QED
    BY <1>2, <1>3

LEMMA BeginSteps ==
    ASSUME SessionInv, NEW c \in Calls, NEW m \in Members,
           \/ \E t \in Members, op \in Operations : GetCached(c, m, op, t)
           \/ Login(c, m) \/ TouchActiveAt(c, m)
    PROVE  SessionInv'
  <1>1. ASSUME NEW t \in Members, NEW op \in Operations, NEW pc \in {"load", "invalidate"},
               call[c].pc = "idle", call' = [call EXCEPT ![c] = At(pc, m, op, t)],
               UNCHANGED <<enabled, cached, overtaken, ousted>>
        PROVE  SessionInv'
    <2>1. At(pc, m, op, t) \in CallRecords /\ At(pc, m, op, t).pc = pc
      BY AtIsRequest
    <2>2. call'[c] = At(pc, m, op, t)
      BY <1>1 DEF SessionInv, SessionTypeOK
    <2>3. StatusIsAllowed(c)'
      BY <2>1, <2>2 DEF StatusIsAllowed
    <2> QED
      BY <1>1, <2>1, <2>3, CallOnly
  <1>2. ASSUME NEW t \in Members, NEW op \in Operations, call[c].pc = "idle",
               call' = [call EXCEPT ![c] = Served(m, op, t)],
               UNCHANGED <<enabled, cached, overtaken, ousted>>
        PROVE  SessionInv'
    BY <1>2, ServedIsAllowed, CallOnly
  <1>3. "use" \in Operations
    BY DEF Operations
  <1> QED
    BY <1>1, <1>2, <1>3 DEF GetCached, Login, TouchActiveAt

LEMMA FindDetailStep ==
    ASSUME SessionInv, NEW c \in Calls, FindDetailByID(c)
    PROVE  SessionInv'
  <1>1. call[c] \in Requests /\ enabled[call[c].member] \in BOOLEAN
    BY RequestUnderWay DEF FindDetailByID, SessionInv, SessionTypeOK, Requests
  <1> DEFINE r == [call[c] EXCEPT !.pc = "fill", !.loaded = enabled[call[c].member]]
  <1>2. r \in CallRecords /\ r.pc = "fill"
    BY <1>1 DEF Requests, CallRecords
  <1>3. call' = [call EXCEPT ![c] = r] /\ call'[c] = r
    BY DEF FindDetailByID, SessionInv, SessionTypeOK
  <1> HIDE DEF r
  <1>4. StatusIsAllowed(c)'
    BY <1>2, <1>3 DEF StatusIsAllowed
  <1> QED
    BY <1>2, <1>3, <1>4, CallOnly DEF FindDetailByID

LEMMA FillStep ==
    ASSUME SessionInv, NEW c \in Calls, FillCache(c)
    PROVE  SessionInv'
  <1> DEFINE m == call[c].member
             b == call[c].loaded
  <1>1. call[c] \in Requests /\ m \in Members /\ b \in BOOLEAN
    BY RequestUnderWay DEF FillCache, SessionInv, SessionTypeOK, Requests
  <1>2. PICK r \in CallRecords : /\ call' = [call EXCEPT ![c] = r] /\ r.pc # "invalidate"
                                 /\ StatusIsAllowed(c)'
    <2>1. CASE b
      <3>1. call' = [call EXCEPT ![c] = Served(m, call[c].op, call[c].target)]
        BY <2>1 DEF FillCache
      <3>2. call[c].op \in Operations /\ call[c].target \in Members
        BY <1>1 DEF Requests
      <3> DEFINE s == Served(m, call[c].op, call[c].target)
      <3>3. s \in CallRecords /\ s.pc # "invalidate" /\ StatusIsAllowed(c)'
        BY <1>1, <3>1, <3>2, ServedIsAllowed
      <3>4. call' = [call EXCEPT ![c] = s]
        BY <3>1
      <3> HIDE DEF s
      <3> QED
        BY <3>3, <3>4
    <2>2. CASE ~b
      <3>1. call' = [call EXCEPT ![c] = NoCall] /\ call'[c] = NoCall
        BY <2>2 DEF FillCache, SessionInv, SessionTypeOK
      <3>2. NoCall \in CallRecords /\ NoCall.pc = "idle"
        BY DEF NoCall, CallRecords
      <3>3. StatusIsAllowed(c)'
        BY <3>1, <3>2 DEF StatusIsAllowed
      <3> QED
        BY <3>1, <3>2, <3>3
    <2> QED
      BY <2>1, <2>2
  <1>3. call[c].pc = "fill" /\ enabled' = enabled /\ ousted' = ousted
    BY DEF FillCache
  <1>4. CASE UNCHANGED <<cached, overtaken>>
    BY <1>2, <1>3, <1>4, CallOnly
  <1>5. CASE /\ cached' = [cached EXCEPT ![m] = Status(b)]
             /\ overtaken' = IF b # enabled[m] THEN overtaken \cup {m} ELSE overtaken \ {m}
    <2>1. /\ call' \in [Calls -> CallRecords] /\ call'[c].pc # "invalidate"
          /\ \A d \in Calls : d # c => call'[d] = call[d]
      BY <1>2 DEF SessionInv, SessionTypeOK
    <2>2. Status(b) \in {"enabled", "disabled"}
      BY DEF Status
    <2> HIDE DEF m, b
    <2>3. SessionTypeOK'
      BY <1>1, <1>3, <1>5, <2>1, <2>2 DEF SessionInv, SessionTypeOK
    <2>4. \A d \in Calls : StatusIsAllowed(d)'
      BY <1>2, <2>1 DEF SessionInv, StatusIsAllowed
    <2>5. WrongProfileExplained'
      <3> SUFFICES ASSUME NEW n \in Members, Wrong(n)', n \notin overtaken'
                   PROVE  \E d \in Calls : call'[d].pc = "invalidate" /\ call'[d].target = n
        BY DEF WrongProfileExplained
      <3>1. CASE n = m
        <4>1. b = enabled[m] /\ cached'[m] = Status(enabled[m])
          BY <1>1, <1>5, <3>1 DEF SessionInv, SessionTypeOK
        <4>2. ~Wrong(n)'
          BY <1>3, <3>1, <4>1 DEF Wrong, Status
        <4> QED
          BY <4>2
      <3>2. CASE n # m
        <4>1. Wrong(n) /\ n \notin overtaken
          BY <1>1, <1>3, <1>5, <3>2 DEF Wrong, Status, SessionInv, SessionTypeOK
        <4>2. PICK d \in Calls : call[d].pc = "invalidate" /\ call[d].target = n
          BY <4>1 DEF SessionInv, SessionsSound, WrongProfileExplained
        <4> QED
          BY <1>3, <2>1, <4>2
      <3> QED
        BY <3>1, <3>2
    <2>6. AdministratorRemains'
      BY <1>3 DEF SessionInv, SessionsSound, AdministratorRemains
    <2> QED
      BY <2>3, <2>4, <2>5, <2>6 DEF SessionInv, SessionsSound
  <1> QED
    BY <1>4, <1>5 DEF FillCache

LEMMA SetStatusStep ==
    ASSUME SessionInv, NEW c \in Calls, SetStatus(c)
    PROVE  SessionInv'
  <1> DEFINE t == call[c].target
             m == call[c].member
  <1>1. /\ call[c] \in Requests /\ t \in Members /\ m \in Admins
        /\ call[c].op \in {"disable", "enable"} /\ (call[c].op = "disable" => t # m)
    BY RequestUnderWay DEF SetStatus, SessionInv, StatusIsAllowed, Requests
  <1>2. PICK b \in BOOLEAN : /\ b <=> call[c].op = "enable"
                             /\ enabled' = [enabled EXCEPT ![t] = b]
    BY DEF SetStatus
  <1>3. UNCHANGED <<cached, overtaken>>
        /\ (ousted' <=> ousted \/ (call[c].op = "disable" /\ ~enabled[m])) /\ ousted' \in BOOLEAN
    BY DEF SetStatus
  <1> DEFINE r == [call[c] EXCEPT !.pc = "invalidate"]
  <1>4. r \in CallRecords /\ r.pc = "invalidate" /\ r.target = t
    BY <1>1 DEF Requests, CallRecords
  <1>5. /\ call' \in [Calls -> CallRecords] /\ call'[c] = r
        /\ \A d \in Calls : d # c => call'[d] = call[d]
    BY <1>4 DEF SetStatus, SessionInv, SessionTypeOK
  <1>6. /\ enabled' \in [Members -> BOOLEAN] /\ (enabled'[t] <=> b)
        /\ \A n \in Members : n # t => enabled'[n] = enabled[n]
    BY <1>1, <1>2 DEF SessionInv, SessionTypeOK
  <1> HIDE DEF t, m, r
  <1>7. SessionTypeOK'
    BY <1>3, <1>5, <1>6 DEF SessionInv, SessionTypeOK
  <1>8. \A d \in Calls : StatusIsAllowed(d)'
    <2> SUFFICES ASSUME NEW d \in Calls PROVE StatusIsAllowed(d)'
      OBVIOUS
    <2>1. CASE d = c
      BY <1>4, <1>5, <2>1 DEF StatusIsAllowed
    <2>2. CASE d # c
      BY <1>5, <2>2 DEF SessionInv, StatusIsAllowed
    <2> QED
      BY <2>1, <2>2
  <1>9. WrongProfileExplained'
    <2> SUFFICES ASSUME NEW n \in Members, Wrong(n)', n \notin overtaken', n # t
                 PROVE  \E d \in Calls : call'[d].pc = "invalidate" /\ call'[d].target = n
      BY <1>4, <1>5 DEF WrongProfileExplained
    <2>1. Wrong(n) /\ n \notin overtaken
      BY <1>3, <1>6 DEF Wrong, Status
    <2>2. PICK d \in Calls : call[d].pc = "invalidate" /\ call[d].target = n
      BY <2>1 DEF SessionInv, SessionsSound, WrongProfileExplained
    <2>3. d # c
      BY <2>2 DEF SetStatus
    <2> QED
      BY <1>5, <2>2, <2>3
  <1>10. AdministratorRemains'
    <2> SUFFICES ASSUME ~ousted' PROVE \E a \in Admins : enabled'[a]
      BY DEF AdministratorRemains
    <2>1. CASE call[c].op = "disable"
      <3>1. enabled[m] /\ m # t /\ m \in Members
        BY <1>1, <1>3, <2>1, SessionsAssumption
      <3> QED
        BY <1>1, <1>6, <3>1
    <2>2. CASE call[c].op = "enable"
      <3>1. PICK a \in Admins : enabled[a]
        BY <1>3 DEF SessionInv, SessionsSound, AdministratorRemains
      <3> QED
        BY <1>2, <1>6, <2>2, <3>1, SessionsAssumption
    <2> QED
      BY <1>1, <2>1, <2>2
  <1> QED
    BY <1>7, <1>8, <1>9, <1>10 DEF SessionInv, SessionsSound

LEMMA DeletionSteps ==
    ASSUME SessionInv, NEW c \in Calls, Invalidate(c) \/ InvalidateLost(c)
    PROVE  SessionInv'
  <1> DEFINE t == call[c].target
  <1>1. call[c] \in Requests /\ t \in Members /\ UNCHANGED <<enabled, ousted>>
    BY RequestUnderWay DEF Invalidate, InvalidateLost, SessionInv, Requests
  <1>2. /\ call' \in [Calls -> CallRecords] /\ call'[c].pc = "idle"
        /\ \A d \in Calls : d # c => call'[d] = call[d]
    BY DEF Invalidate, InvalidateLost, SessionInv, SessionTypeOK, NoCall, CallRecords
  <1>3. /\ cached' \in [Members -> {"none", "enabled", "disabled"}] /\ overtaken' \subseteq Members
        /\ \A n \in Members : n # t => cached'[n] = cached[n] /\ (n \in overtaken' <=> n \in overtaken)
        /\ \A n \in Members : n = t => (Wrong(n)' => n \in overtaken')
    <2>1. CASE Invalidate(c)
      <3>1. cached' = [cached EXCEPT ![t] = "none"] /\ overtaken' = overtaken \ {t}
        BY <2>1 DEF Invalidate
      <3>2. cached'[t] = "none"
        BY <1>1, <3>1 DEF SessionInv, SessionTypeOK
      <3>3. \A n \in Members : n = t => ~Wrong(n)'
        BY <3>2 DEF Wrong
      <3> HIDE DEF t
      <3> QED
        BY <1>1, <3>1, <3>3 DEF SessionInv, SessionTypeOK
    <2>2. CASE InvalidateLost(c)
      <3>1. cached' = cached /\ overtaken' = IF Wrong(t) THEN overtaken \cup {t} ELSE overtaken
        BY <2>2 DEF InvalidateLost
      <3>2. \A n \in Members : Wrong(n)' <=> Wrong(n)
        BY <1>1, <3>1 DEF Wrong, Status
      <3> HIDE DEF t
      <3> QED
        BY <1>1, <3>1, <3>2 DEF SessionInv, SessionTypeOK
    <2> QED
      BY <2>1, <2>2
  <1> HIDE DEF t
  <1>4. SessionTypeOK'
    BY <1>1, <1>2, <1>3 DEF SessionInv, SessionTypeOK
  <1>5. \A d \in Calls : StatusIsAllowed(d)'
    BY <1>2 DEF SessionInv, StatusIsAllowed
  <1>6. WrongProfileExplained'
    <2> SUFFICES ASSUME NEW n \in Members, Wrong(n)', n \notin overtaken', n # t
                 PROVE  \E d \in Calls : call'[d].pc = "invalidate" /\ call'[d].target = n
      BY <1>1, <1>3 DEF WrongProfileExplained
    <2>1. Wrong(n) /\ n \notin overtaken
      BY <1>1, <1>3 DEF Wrong, Status
    <2>2. PICK d \in Calls : call[d].pc = "invalidate" /\ call[d].target = n
      BY <2>1 DEF SessionInv, SessionsSound, WrongProfileExplained
    <2>3. d # c
      BY <2>2 DEF t
    <2> QED
      BY <1>2, <2>2, <2>3
  <1>7. AdministratorRemains'
    BY <1>1 DEF SessionInv, SessionsSound, AdministratorRemains
  <1> QED
    BY <1>4, <1>5, <1>6, <1>7 DEF SessionInv, SessionsSound

LEMMA ExpiryStep ==
    ASSUME SessionInv, NEW m \in Members, ProfileExpires(m)
    PROVE  SessionInv'
  <1>1. /\ cached' = [cached EXCEPT ![m] = "none"] /\ overtaken' = overtaken \ {m}
        /\ UNCHANGED <<enabled, call, ousted>>
    BY DEF ProfileExpires
  <1>2. SessionTypeOK' /\ \A c \in Calls : StatusIsAllowed(c)'
    BY <1>1 DEF SessionInv, SessionTypeOK, StatusIsAllowed
  <1>3. WrongProfileExplained'
    <2> SUFFICES ASSUME NEW n \in Members, Wrong(n)', n \notin overtaken'
                 PROVE  \E c \in Calls : call[c].pc = "invalidate" /\ call[c].target = n
      BY <1>1 DEF WrongProfileExplained
    <2>1. cached'[m] = "none"
      BY <1>1 DEF SessionInv, SessionTypeOK
    <2>2. n # m
      BY <2>1 DEF Wrong
    <2>3. Wrong(n) /\ n \notin overtaken
      BY <1>1, <2>2 DEF Wrong, Status, SessionInv, SessionTypeOK
    <2> QED
      BY <2>3 DEF SessionInv, SessionsSound, WrongProfileExplained
  <1>4. AdministratorRemains'
    BY <1>1 DEF SessionInv, SessionsSound, AdministratorRemains
  <1> QED
    BY <1>2, <1>3, <1>4 DEF SessionInv, SessionsSound

\* The invariant behind both session theorems.
THEOREM SessionInvariant == SessionSpec => []SessionInv
  <1>1. SessionInit => SessionInv
    <2> SUFFICES ASSUME SessionInit PROVE SessionInv
      OBVIOUS
    <2>1. SessionTypeOK /\ \A c \in Calls : StatusIsAllowed(c)
      BY DEF SessionInit, SessionTypeOK, StatusIsAllowed, NoCall, CallRecords
    <2>2. WrongProfileExplained
      BY DEF SessionInit, WrongProfileExplained, Wrong
    <2>3. AdministratorRemains
      BY SessionsAssumption DEF SessionInit, AdministratorRemains
    <2> QED
      BY <2>1, <2>2, <2>3 DEF SessionInv, SessionsSound
  <1>2. SessionInv /\ [SessionNext]_sessionVars => SessionInv'
    <2> SUFFICES ASSUME SessionInv, [SessionNext]_sessionVars PROVE SessionInv'
      OBVIOUS
    <2>1. CASE UNCHANGED sessionVars
      BY <2>1 DEF sessionVars, SessionInv, SessionTypeOK, StatusIsAllowed, SessionsSound,
                  WrongProfileExplained, Wrong, Status, AdministratorRemains
    <2>2. CASE SessionNext
      <3>1. ASSUME NEW c \in Calls, CallStep(c) PROVE SessionInv'
        BY <3>1, FindDetailStep, FillStep, SetStatusStep, DeletionSteps DEF CallStep
      <3> QED
        BY <2>2, <3>1, BeginSteps, ExpiryStep DEF SessionNext
    <2> QED
      BY <2>1, <2>2
  <1> QED
    BY <1>1, <1>2, PTL DEF SessionSpec

\* Every request under way is a legal record, and every copy a status.
THEOREM SessionTypesHold == SessionSpec => []SessionTypeOK
  <1>1. SessionInv => SessionTypeOK
    BY DEF SessionInv
  <1> QED
    BY <1>1, SessionInvariant, PTL

\* A wrong copy is explained and an administrator remains, but for the overlaps named.
THEOREM SessionsAreSound == SessionSpec => []SessionsSound
  <1>1. SessionInv => SessionsSound
    BY DEF SessionInv
  <1> QED
    BY <1>1, SessionInvariant, PTL
-----------------------------------------------------------------------------
(* Rate limit.                                                             *)

\* Who counts or places a ban holds the claim.
Holds(r) == request[r].pc \in {"escalate", "place"}

ClaimHeldAlone ==
    /\ \A r \in Visits : Holds(r) => claim
    /\ \A r, q \in Visits : Holds(r) /\ Holds(q) => r = q

\* A ban in force, or one about to be placed, is the only one counted.
RaisedOnce ==
    /\ raised \in {0, 1}
    /\ \A r \in Visits : /\ request[r].pc = "escalate" => raised = 0
                         /\ request[r].pc = "place" => request[r].length > 0
    /\ ban = 0 /\ (\A r \in Visits : request[r].pc # "place") => raised = 0
    /\ ~claim /\ (\E r \in Visits : UnderWay(r)) => ban = 0

\* What has to be said of requests at any time.
LimitShape ==
    /\ request \in [Visits -> [pc: {"idle", "count", "claim", "escalate", "place"},
                               route: Routes \cup {"none"}, length: Nat]]
    /\ ban \in Nat /\ claim \in BOOLEAN /\ overrun \in BOOLEAN /\ faults \in Nat
    /\ bans.count \in Nat

Quiet == ~overrun /\ faults = 0

LimitInv == LimitShape /\ (Quiet => ClaimHeldAlone /\ RaisedOnce)

Sent == [pc: {"idle", "count", "claim", "escalate", "place"},
         route: Routes \cup {"none"}, length: Nat]

\* The level of a ban is one of the table.
LEMMA LevelsInTable ==
    ASSUME NEW n \in Nat
    PROVE  /\ AtMost(n + 1, Levels) \in 1 .. Levels
           /\ BanDurations[AtMost(n + 1, Levels)] \in Nat \ {0}
           /\ BanDurations[1] \in Nat \ {0}
  <1>1. Levels \in Nat \ {0} /\ \A k \in 1 .. Levels : BanDurations[k] \in Nat \ {0}
    BY RateLimitsAssumption DEF Levels
  <1>2. AtMost(n + 1, Levels) \in 1 .. Levels
    BY <1>1 DEF AtMost
  <1> QED
    BY <1>1, <1>2

\* A step of one request that places no ban and leaves the claim, or takes it.
LEMMA VisitOnly ==
    ASSUME LimitInv, NEW r \in Visits, NEW s \in Sent,
           request' = [request EXCEPT ![r] = s],
           s.pc \notin {"escalate", "place"} \/ request[r].pc \in {"escalate", "place"},
           s.pc # "idle" => request[r].pc # "idle" \/ ban = 0,
           s.pc = "escalate" => request[r].pc = "escalate",
           s.pc = "place" => request[r].pc = "place" /\ s.length = request[r].length,
           request[r].pc = "place" => s.pc = "place",
           claim \/ claim' = claim, claim' \in BOOLEAN, claim => claim',
           UNCHANGED <<ban, bans, raised, overrun, faults>>
    PROVE  LimitInv'
  <1>1. /\ request' \in [Visits -> Sent] /\ request'[r] = s
        /\ \A q \in Visits : q # r => request'[q] = request[q]
    BY DEF LimitInv, LimitShape, Sent
  <1>2. LimitShape'
    BY <1>1 DEF LimitInv, LimitShape, Sent
  <1>3. CASE Quiet'
    <2>1. ClaimHeldAlone /\ RaisedOnce
      BY <1>3 DEF LimitInv, Quiet
    <2>2. ClaimHeldAlone'
      BY <1>1, <2>1 DEF ClaimHeldAlone, Holds
    <2>3. RaisedOnce'
      BY <1>1, <2>1 DEF RaisedOnce, UnderWay
    <2> QED
      BY <1>2, <2>2, <2>3 DEF LimitInv
  <1> QED
    BY <1>2, <1>3 DEF LimitInv

\* A step whose call of Redis failed ends what is promised.
LEMMA FaultyStep ==
    ASSUME LimitInv, Fault, NEW r \in Visits, NEW s \in Sent,
           request' = [request EXCEPT ![r] = s],
           UNCHANGED <<ban, claim, bans, overrun>>
    PROVE  LimitInv'
  <1>1. LimitShape'
    BY DEF LimitInv, LimitShape, Sent, Fault
  <1>2. ~Quiet'
    BY DEF LimitInv, LimitShape, Fault, Quiet
  <1> QED
    BY <1>1, <1>2 DEF LimitInv

LEMMA NotSentIsSent == NotSent \in Sent /\ NotSent.pc = "idle"
  BY DEF NotSent, Sent

LEMMA CountingSteps ==
    ASSUME LimitInv, NEW r \in Visits,
           (\E x \in Routes : CheckBan(r, x)) \/ CountHit(r) \/ CountHitFails(r)
    PROVE  LimitInv'
  <1>1. request \in [Visits -> Sent]
    BY DEF LimitInv, LimitShape, Sent
  <1>2. ASSUME NEW x \in Routes, CheckBan(r, x) PROVE LimitInv'
    <2> DEFINE s == [pc |-> "count", route |-> x, length |-> 0]
    <2>1. s \in Sent /\ s.pc = "count"
      BY DEF Sent
    <2>2. /\ request' = [request EXCEPT ![r] = s] /\ request[r].pc = "idle"
          /\ UNCHANGED <<ban, claim, bans, raised, overrun>>
          /\ (ban = 0 /\ UNCHANGED faults) \/ Fault
      BY <1>2 DEF CheckBan, UnderWay
    <2> HIDE DEF s
    <2>3. claim \in BOOLEAN
      BY DEF LimitInv, LimitShape
    <2>4. CASE ban = 0 /\ UNCHANGED faults
      BY <2>1, <2>2, <2>3, <2>4, VisitOnly
    <2>5. CASE Fault
      BY <2>1, <2>2, <2>5, FaultyStep
    <2> QED
      BY <2>2, <2>4, <2>5
  <1>3. CASE CountHit(r)
    <2>1. PICK s \in Sent : /\ request' = [request EXCEPT ![r] = s]
                            /\ s.pc \in {"idle", "claim"}
      <3>1. CASE Ends(r)
        BY <3>1, NotSentIsSent DEF Ends
      <3>2. CASE Goes(r, "claim")
        <4> DEFINE s == [request[r] EXCEPT !.pc = "claim"]
        <4>1. s \in Sent /\ s.pc = "claim"
          BY <1>1 DEF Sent
        <4>2. request' = [request EXCEPT ![r] = s]
          BY <1>1, <3>2 DEF Goes
        <4> HIDE DEF s
        <4> QED
          BY <4>1, <4>2
      <3> QED
        BY <1>3, <3>1, <3>2 DEF CountHit
    <2>2. /\ request[r].pc = "count" /\ claim \in BOOLEAN
          /\ UNCHANGED <<ban, claim, bans, raised, overrun, faults>>
      BY <1>3 DEF CountHit, LimitInv, LimitShape
    <2> QED
      BY <2>1, <2>2, VisitOnly
  <1>4. CASE CountHitFails(r)
    BY <1>4, NotSentIsSent, FaultyStep DEF CountHitFails, Ends
  <1> QED
    BY <1>2, <1>3, <1>4

LEMMA ClaimStep ==
    ASSUME LimitInv, NEW r \in Visits, ClaimBan(r)
    PROVE  LimitInv'
  <1>1. /\ request \in [Visits -> Sent] /\ request[r].pc = "claim" /\ claim \in BOOLEAN
        /\ claim' = TRUE /\ UNCHANGED <<ban, bans, raised, overrun, faults>>
    BY DEF LimitInv, LimitShape, Sent, ClaimBan
  <1>2. CASE claim
    <2>1. request' = [request EXCEPT ![r] = NotSent]
      BY <1>2 DEF ClaimBan, Ends
    <2> QED
      BY <1>1, <1>2, <2>1, NotSentIsSent, VisitOnly
  <1>3. CASE ~claim
    <2> DEFINE s == [request[r] EXCEPT !.pc = "escalate"]
    <2>1. s \in Sent /\ s.pc = "escalate"
      BY <1>1 DEF Sent
    <2>2. request' = [request EXCEPT ![r] = s]
      BY <1>1, <1>3 DEF ClaimBan, Goes
    <2> HIDE DEF s
    <2>3. /\ request' \in [Visits -> Sent] /\ request'[r] = s
          /\ \A q \in Visits : q # r => request'[q] = request[q]
      BY <1>1, <2>1, <2>2
    <2>4. LimitShape'
      BY <1>1, <2>3 DEF LimitInv, LimitShape, Sent
    <2>5. CASE Quiet'
      <3>1. ClaimHeldAlone /\ RaisedOnce
        BY <1>1, <2>5 DEF LimitInv, Quiet
      <3>2. \A q \in Visits : ~Holds(q)
        BY <1>3, <3>1 DEF ClaimHeldAlone
      <3>3. ClaimHeldAlone'
        BY <1>1, <2>3, <3>2 DEF ClaimHeldAlone, Holds
      <3>4. ban = 0 /\ raised = 0
        BY <1>1, <1>3, <3>1, <3>2 DEF RaisedOnce, UnderWay, Holds
      <3>5. RaisedOnce'
        BY <1>1, <2>1, <2>3, <3>1, <3>2, <3>4 DEF RaisedOnce, Holds
      <3> QED
        BY <2>4, <3>3, <3>5 DEF LimitInv
    <2> QED
      BY <2>4, <2>5 DEF LimitInv
  <1> QED
    BY <1>1, <1>2, <1>3

LEMMA EscalateStep ==
    ASSUME LimitInv, NEW r \in Visits, Escalate(r)
    PROVE  LimitInv'
  <1>1. /\ request \in [Visits -> Sent] /\ request[r].pc = "escalate" /\ claim \in BOOLEAN
        /\ bans.count \in Nat /\ UNCHANGED <<ban, claim, overrun, faults>>
    BY DEF LimitInv, LimitShape, Sent, Escalate
  <1>a. PICK n \in Nat : n = AtMost(bans.count + 1, Levels) /\ BanDurations[n] \in Nat \ {0}
    BY <1>1, LevelsInTable
  <1>2. PICK d \in Nat : d = BanDurations[n] /\ d > 0
    BY <1>a
  <1> DEFINE s == [request[r] EXCEPT !.pc = "place", !.length = d]
  <1>3. request' = [request EXCEPT ![r] = s] /\ bans'.count = n /\ raised' = AtMost(raised + 1, 2)
    BY <1>1, <1>a, <1>2 DEF Escalate
  <1>4. s \in Sent /\ s.pc = "place" /\ s.length > 0
    BY <1>1, <1>2 DEF Sent
  <1> HIDE DEF s
  <1>5. /\ request' \in [Visits -> Sent] /\ request'[r] = s
        /\ \A q \in Visits : q # r => request'[q] = request[q]
    BY <1>1, <1>3, <1>4
  <1>6. LimitShape'
    BY <1>1, <1>2, <1>3, <1>5 DEF LimitInv, LimitShape, Sent
  <1>7. CASE Quiet'
    <2>1. ClaimHeldAlone /\ RaisedOnce
      BY <1>1, <1>7 DEF LimitInv, Quiet
    <2>2. Holds(r) /\ claim /\ \A q \in Visits : Holds(q) => q = r
      BY <1>1, <2>1 DEF ClaimHeldAlone, Holds
    <2>3. raised = 0 /\ raised' = 1
      BY <1>1, <1>3, <2>1 DEF RaisedOnce, AtMost
    <2>4. ClaimHeldAlone'
      BY <1>1, <1>5, <2>2 DEF ClaimHeldAlone, Holds
    <2>5. RaisedOnce'
      BY <1>1, <1>4, <1>5, <2>2, <2>3 DEF RaisedOnce, Holds
    <2> QED
      BY <1>6, <2>4, <2>5 DEF LimitInv
  <1> QED
    BY <1>6, <1>7 DEF LimitInv

LEMMA PlaceStep ==
    ASSUME LimitInv, NEW r \in Visits, PlaceBan(r)
    PROVE  LimitInv'
  <1>1. /\ request \in [Visits -> Sent] /\ request[r].pc = "place" /\ claim \in BOOLEAN
        /\ ban' = request[r].length /\ request' = [request EXCEPT ![r] = NotSent]
        /\ UNCHANGED <<claim, bans, raised, overrun, faults>>
    BY DEF LimitInv, LimitShape, Sent, PlaceBan, Ends
  <1>2. /\ request' \in [Visits -> Sent] /\ request'[r].pc = "idle"
        /\ \A q \in Visits : q # r => request'[q] = request[q]
    BY <1>1, NotSentIsSent
  <1>3. request[r].length \in Nat
    BY <1>1 DEF Sent
  <1>4. LimitShape'
    BY <1>1, <1>2, <1>3 DEF LimitInv, LimitShape, Sent
  <1>5. CASE Quiet'
    <2>1. ClaimHeldAlone /\ RaisedOnce
      BY <1>1, <1>5 DEF LimitInv, Quiet
    <2>2. claim /\ \A q \in Visits : Holds(q) => q = r
      BY <1>1, <2>1 DEF ClaimHeldAlone, Holds
    <2>3. ClaimHeldAlone'
      BY <1>1, <1>2, <2>1, <2>2 DEF ClaimHeldAlone, Holds
    <2>4. RaisedOnce'
      <3>1. ban' > 0
        BY <1>1, <2>1 DEF RaisedOnce
      <3> QED
        BY <1>1, <1>2, <2>1, <2>2, <3>1 DEF RaisedOnce, Holds
    <2> QED
      BY <1>4, <2>3, <2>4 DEF LimitInv
  <1> QED
    BY <1>4, <1>5 DEF LimitInv

LEMMA FailingSteps ==
    ASSUME LimitInv, NEW r \in Visits, EscalateFails(r) \/ RequestLost(r)
    PROVE  LimitInv'
  <1>1. request \in [Visits -> Sent]
    BY DEF LimitInv, LimitShape, Sent
  <1>2. CASE EscalateFails(r)
    <2> DEFINE s == [request[r] EXCEPT !.pc = "place", !.length = BanDurations[1]]
    <2>1. BanDurations[1] \in Nat
      BY LevelsInTable, 0 \in Nat
    <2>2. s \in Sent
      BY <1>1, <2>1 DEF Sent
    <2>3. request' = [request EXCEPT ![r] = s] /\ Fault /\ UNCHANGED <<ban, claim, bans, overrun>>
      BY <1>1, <1>2 DEF EscalateFails
    <2> HIDE DEF s
    <2> QED
      BY <2>2, <2>3, FaultyStep
  <1>3. CASE RequestLost(r)
    BY <1>3, NotSentIsSent, FaultyStep DEF RequestLost, Ends
  <1> QED
    BY <1>2, <1>3

LEMMA TickStep ==
    ASSUME LimitInv, Tick
    PROVE  LimitInv'
  <1>1. /\ ban \in Nat /\ claim \in BOOLEAN /\ overrun \in BOOLEAN /\ bans.count \in Nat
        /\ ban' = Lived(ban) /\ claim' = FALSE /\ UNCHANGED <<request, faults>>
        /\ raised' = IF ban = 1 THEN 0 ELSE raised
        /\ (overrun' <=> overrun \/ (claim /\ \E r \in Visits : UnderWay(r))) /\ overrun' \in BOOLEAN
    BY DEF LimitInv, LimitShape, Tick
  <1>2. bans'.count \in Nat
    <2>1. CASE bans.left <= 1
      BY <2>1 DEF Tick
    <2>2. CASE ~(bans.left <= 1)
      <3>1. bans'.count = bans.count
        BY <2>2 DEF Tick
      <3> QED
        BY <1>1, <3>1
    <2> QED
      BY <2>1, <2>2
  <1>a. Lived(ban) \in Nat
    BY <1>1 DEF Lived
  <1>3. LimitShape'
    BY <1>1, <1>2, <1>a DEF LimitInv, LimitShape
  <1>4. CASE Quiet'
    <2>1. ClaimHeldAlone /\ RaisedOnce /\ ~(claim /\ \E r \in Visits : UnderWay(r))
      BY <1>1, <1>4 DEF LimitInv, Quiet
    <2>2. \A r \in Visits : ~Holds(r)
      BY <2>1 DEF ClaimHeldAlone, Holds, UnderWay
    <2>3. ClaimHeldAlone'
      BY <1>1, <2>2 DEF ClaimHeldAlone, Holds
    <2>4. RaisedOnce'
      BY <1>1, <2>1, <2>2 DEF RaisedOnce, Holds, UnderWay, Lived
    <2> QED
      BY <1>3, <2>3, <2>4 DEF LimitInv
  <1> QED
    BY <1>3, <1>4 DEF LimitInv

\* An excess is one offence, however many requests and routes take part in it.
THEOREM ExcessRaisesOnce == LimitSpec => []OneLevelPerExcess
  <1>1. LimitInit => LimitInv
    <2> SUFFICES ASSUME LimitInit PROVE LimitInv
      OBVIOUS
    <2>1. LimitShape
      BY NotSentIsSent DEF LimitInit, LimitShape, Sent
    <2>2. ClaimHeldAlone /\ RaisedOnce
      BY NotSentIsSent DEF LimitInit, ClaimHeldAlone, RaisedOnce, Holds, UnderWay
    <2> QED
      BY <2>1, <2>2 DEF LimitInv
  <1>2. LimitInv /\ [LimitNext]_limitVars => LimitInv'
    <2> SUFFICES ASSUME LimitInv, [LimitNext]_limitVars PROVE LimitInv'
      OBVIOUS
    <2>1. CASE UNCHANGED limitVars
      BY <2>1 DEF limitVars, LimitInv, LimitShape, Quiet, ClaimHeldAlone, RaisedOnce, Holds, UnderWay
    <2>2. CASE LimitNext
      BY <2>2, CountingSteps, ClaimStep, EscalateStep, PlaceStep, FailingSteps, TickStep
         DEF LimitNext
    <2> QED
      BY <2>1, <2>2
  <1>3. LimitInv => OneLevelPerExcess
    BY DEF LimitInv, LimitShape, Quiet, RaisedOnce, OneLevelPerExcess
  <1> QED
    BY <1>1, <1>2, <1>3, PTL DEF LimitSpec
-----------------------------------------------------------------------------
(* The pictures of an article.                                             *)

Phases == {"idle", "prepare", "create", "undo", "saved", "uploads", "move", "retire"}

Edits == [pc: Phases, old: SUBSET Images, uploads: SUBSET Images, kept: SUBSET Images,
          todo: SUBSET Images, absent: SUBSET Images, copied: SUBSET Images]

ArticleShape ==
    /\ article \in [row: {"absent", "creating", "live", "trashed", "gone"}, refs: SUBSET Images]
    /\ article.row \in {"absent", "creating"} => article.refs = {}
    /\ objects \subseteq Places \X Images
    /\ edit \in [Editors -> Edits]
    /\ withdrawn \subseteq Images /\ tangled \subseteq Images

\* What a request still has to do are pictures it is concerned by, and only the pictures of a
\* trashed article are retired.
KeepsToItsOwn(r) ==
    /\ Preparing(r) => /\ edit[r].todo \subseteq Wanted(r)
                       /\ edit[r].absent \subseteq edit[r].uploads
                       /\ edit[r].copied \subseteq edit[r].uploads
    /\ edit[r].pc \in {"undo", "uploads"} => edit[r].todo \subseteq edit[r].uploads
    /\ edit[r].pc = "move" => edit[r].todo \subseteq edit[r].old \ Wanted(r)
    /\ edit[r].pc = "retire" => /\ edit[r].todo \subseteq edit[r].old
                                /\ article.row \in {"trashed", "gone"}
    /\ edit[r].pc = "saved" => edit[r].copied \subseteq edit[r].uploads
    /\ edit[r].pc = "uploads" => edit[r].copied = {}

\* No article needs the object at the article's key, or a save has taken it back already.
Spared(i) ==
    i \in article.refs => \/ article.row = "gone"
                          \/ i \in withdrawn
                          \/ article.row = "trashed" /\ <<"deleted", i>> \in objects

\* What a request may rely on about a picture that is its own.
EditKnows(r, i) ==
    /\ Preparing(r) =>
            /\ i \in edit[r].absent => Formal(i) \notin objects
            /\ i \in Wanted(r) \ edit[r].todo => Formal(i) \in objects
            /\ i \in edit[r].copied => <<"temp", i>> \in objects /\ Spared(i)
    /\ edit[r].pc = "undo" /\ i \in edit[r].todo => <<"temp", i>> \in objects /\ Spared(i)
    /\ edit[r].pc \in {"saved", "uploads", "move"} /\ i \in Wanted(r) => Formal(i) \in objects
    /\ edit[r].pc = "saved" /\ i \in edit[r].copied => <<"temp", i>> \in objects
    /\ (edit[r].pc \in {"saved", "uploads", "move"} /\ article.row = "live"
            /\ i \in edit[r].old \ Wanted(r)) => i \notin article.refs
    /\ edit[r].pc \in {"move", "retire"} /\ i \in edit[r].copied => <<"deleted", i>> \in objects

PictureKept(i) ==
    /\ article.row = "live" /\ i \in article.refs =>
            Formal(i) \in objects \/ (i \in withdrawn /\ <<"temp", i>> \in objects)
    /\ article.row = "trashed" /\ i \in article.refs =>
            Formal(i) \in objects \/ <<"deleted", i>> \in objects \/ i \in withdrawn
    /\ \E p \in Places : <<p, i>> \in objects

ArticleInv ==
    /\ ArticleShape
    /\ \A r \in Editors : KeepsToItsOwn(r)
    /\ \A i \in Images \ tangled :
            PictureKept(i) /\ \A r \in Editors : EditKnows(r, i)

\* What a step does to a picture it is not concerned by.
Undisturbed(i) ==
    /\ Formal(i) \in objects' <=> Formal(i) \in objects
    /\ <<"temp", i>> \in objects => <<"temp", i>> \in objects'
    /\ <<"deleted", i>> \in objects => <<"deleted", i>> \in objects'
    /\ i \in withdrawn => i \in withdrawn'
    /\ i \in article'.refs => i \in article.refs
    /\ \/ article'.row = article.row
       \/ article'.row = "gone"
       \/ article.row = "live" /\ article'.row = "trashed"
       \/ i \notin article'.refs

\* A row leaves the trash for good only.
RowFollows == article.row \in {"trashed", "gone"} => article'.row \in {"trashed", "gone"}

\* What a request relies on survives the steps of others that do not disturb the picture.
LEMMA UndisturbedKnown ==
    ASSUME NEW s, NEW i, EditKnows(s, i), Undisturbed(i), edit'[s] = edit[s]
    PROVE  EditKnows(s, i)'
  <1>1. Spared(i) => Spared(i)'
    BY DEF Undisturbed, Spared
  <1>2. Preparing(s)' = Preparing(s) /\ Wanted(s)' = Wanted(s)
    BY DEF Preparing, Wanted
  <1>3. Formal(i)' = Formal(i)
    BY DEF Formal
  <1>4. ((edit[s].pc \in {"saved", "uploads", "move"} /\ article.row = "live"
            /\ i \in edit[s].old \ Wanted(s)) => i \notin article.refs)'
    BY <1>2 DEF EditKnows, Undisturbed
  <1> QED
    BY <1>1, <1>2, <1>3, <1>4 DEF EditKnows, Undisturbed

\* A request relies on nothing about a picture it is not concerned by, but for copies below
\* deleted/, which stay.
LEMMA UnconcernedKnown ==
    ASSUME NEW s, NEW i, EditKnows(s, i), KeepsToItsOwn(s), edit'[s] = edit[s],
           i \notin ConcernedBy(s)',
           <<"deleted", i>> \in objects => <<"deleted", i>> \in objects'
    PROVE  EditKnows(s, i)'
  <1>1. Preparing(s)' = Preparing(s) /\ Wanted(s)' = Wanted(s)
    BY DEF Preparing, Wanted
  <1>2. edit[s].pc # "idle" =>
            i \notin edit[s].old /\ i \notin edit[s].uploads /\ i \notin Wanted(s)
    BY DEF ConcernedBy, Editing, Wanted
  <1>3. /\ Preparing(s) => i \notin edit[s].absent /\ i \notin edit[s].copied
        /\ edit[s].pc = "undo" => i \notin edit[s].todo
        /\ edit[s].pc = "saved" => i \notin edit[s].copied
    BY <1>2 DEF KeepsToItsOwn, Preparing
  <1> QED
    BY <1>1, <1>2, <1>3 DEF EditKnows, Preparing

\* A step of one request, as far as the others are concerned.
LEMMA EditorKeeps ==
    ASSUME ArticleInv, NEW r \in Editors, ArticleShape', RowFollows,
           \A s \in Editors \ {r} : edit'[s] = edit[s],
           tangled' = tangled \cup Tangle', KeepsToItsOwn(r)',
           \A i \in Images : <<"deleted", i>> \in objects => <<"deleted", i>> \in objects',
           \A i \in Images \ tangled' :
                /\ PictureKept(i)' /\ EditKnows(r, i)'
                /\ Undisturbed(i) \/ i \in ConcernedBy(r)'
    PROVE  ArticleInv'
  <1>1. ASSUME NEW s \in Editors
        PROVE  KeepsToItsOwn(s)'
    <2>1. CASE s = r
      BY <2>1
    <2>2. CASE s # r
      BY <2>2 DEF ArticleInv, KeepsToItsOwn, Preparing, Wanted, RowFollows
    <2> QED
      BY <2>1, <2>2
  <1>2. ASSUME NEW i \in Images \ tangled', NEW s \in Editors
        PROVE  EditKnows(s, i)'
    <2>1. CASE s = r
      BY <2>1, <1>2
    <2>2. CASE s # r
      <3>1. EditKnows(s, i) /\ KeepsToItsOwn(s) /\ edit'[s] = edit[s]
        BY <1>2, <2>2 DEF ArticleInv
      <3>2. CASE Undisturbed(i)
        BY <3>1, <3>2, UndisturbedKnown
      <3>3. CASE i \in ConcernedBy(r)'
        <4>1. i \notin Tangle' /\ i \in Images
          BY <1>2
        <4>2. i \notin ConcernedBy(s)'
          BY <2>2, <3>3, <4>1 DEF Tangle
        <4> QED
          BY <3>1, <4>1, <4>2, UnconcernedKnown
      <3> QED
        BY <1>2, <3>2, <3>3
    <2> QED
      BY <2>1, <2>2
  <1> QED
    BY <1>1, <1>2 DEF ArticleInv

\* A picture nothing happens to is as safe as before, unless the row has come to name it.
LEMMA UndisturbedKept ==
    ASSUME NEW i, PictureKept(i), Undisturbed(i),
           article'.row = "live" => article.row = "live" \/ i \notin article'.refs
    PROVE  PictureKept(i)'
  <1>1. Formal(i)' = Formal(i) /\ Places = {"temp", "formal", "deleted"}
    BY DEF Formal, Places
  <1>2. \E p \in Places : <<p, i>> \in objects'
    BY <1>1 DEF PictureKept, Undisturbed, Formal
  <1>3. article'.row = "live" /\ i \in article'.refs =>
            Formal(i) \in objects' \/ (i \in withdrawn' /\ <<"temp", i>> \in objects')
    BY DEF PictureKept, Undisturbed
  <1>4. article'.row = "trashed" /\ i \in article'.refs =>
            Formal(i) \in objects' \/ <<"deleted", i>> \in objects' \/ i \in withdrawn'
    BY DEF PictureKept, Undisturbed
  <1> QED
    BY <1>1, <1>2, <1>3, <1>4 DEF PictureKept

\* Starting a request only notes what it is going to do.
LEMMA SaveStarts ==
    ASSUME ArticleInv, NEW r \in Editors, SaveExisting(r) \/ SaveNew(r),
           tangled' = tangled \cup Tangle'
    PROVE  ArticleInv'
  <1>1. /\ edit' = [edit EXCEPT ![r] = edit'[r]]
        /\ edit'[r] \in Edits /\ edit'[r].pc \in {"prepare", "create"}
        /\ edit'[r].todo = edit'[r].uploads \cup edit'[r].kept
        /\ edit'[r].absent = {} /\ edit'[r].copied = {}
    <2>1. CASE SaveExisting(r)
      <3>1. PICK uploads, kept \in SUBSET Images :
                edit' = [edit EXCEPT ![r] = [NoEdit EXCEPT !.pc = "prepare", !.old = article.refs,
                            !.uploads = uploads, !.kept = kept, !.todo = uploads \cup kept]]
        BY <2>1 DEF SaveExisting, EditTo
      <3>2. edit'[r] = [pc |-> "prepare", old |-> article.refs, uploads |-> uploads, kept |-> kept,
                        todo |-> uploads \cup kept, absent |-> {}, copied |-> {}]
        BY <3>1 DEF ArticleInv, ArticleShape, NoEdit
      <3>3. /\ uploads \cup kept \in SUBSET Images /\ {} \in SUBSET Images
            /\ article.refs \in SUBSET Images
        BY DEF ArticleInv, ArticleShape
      <3>4. edit'[r] \in Edits
        BY <3>2, <3>3 DEF Edits, Phases
      <3> QED
        BY <3>1, <3>2, <3>4 DEF ArticleInv, ArticleShape
    <2>2. CASE SaveNew(r)
      <3>1. PICK uploads \in SUBSET Images :
                edit' = [edit EXCEPT ![r] = [NoEdit EXCEPT !.pc = "create", !.uploads = uploads,
                                                            !.todo = uploads]]
        BY <2>2 DEF SaveNew, EditTo
      <3>2. edit'[r] = [pc |-> "create", old |-> {}, uploads |-> uploads, kept |-> {},
                        todo |-> uploads, absent |-> {}, copied |-> {}]
        BY <3>1 DEF ArticleInv, ArticleShape, NoEdit
      <3>3. uploads = uploads \cup {} /\ {} \in SUBSET Images
        OBVIOUS
      <3>4. edit'[r] \in Edits
        BY <3>2, <3>3 DEF Edits, Phases
      <3> QED
        BY <3>1, <3>2, <3>3, <3>4 DEF ArticleInv, ArticleShape
    <2> QED
      BY <2>1, <2>2
  <1>2. /\ objects' = objects /\ withdrawn' = withdrawn
        /\ \/ article' = article
           \/ article.row = "absent" /\ article' = [article EXCEPT !.row = "creating"]
    BY DEF SaveExisting, SaveNew
  <1>3. ArticleShape'
    BY <1>1, <1>2 DEF ArticleInv, ArticleShape, Edits, Phases, Tangle
  <1>4. KeepsToItsOwn(r)'
    BY <1>1 DEF KeepsToItsOwn, Preparing, Wanted
  <1>5. ASSUME NEW i \in Images \ tangled'
        PROVE  PictureKept(i)' /\ EditKnows(r, i)' /\ Undisturbed(i)
    <2>1. Undisturbed(i)
      <3>1. objects' = objects /\ withdrawn' = withdrawn /\ article'.refs = article.refs
            /\ (article'.row = article.row \/ article.refs = {})
        BY <1>2 DEF ArticleInv, ArticleShape
      <3> QED
        BY <3>1 DEF Undisturbed
    <2>2. PictureKept(i)'
      BY <1>2, <1>5, <2>1, UndisturbedKept DEF ArticleInv, ArticleShape
    <2>3. EditKnows(r, i)'
      BY <1>1 DEF EditKnows, Preparing, Wanted
    <2> QED
      BY <2>1, <2>2, <2>3
  <1> QED
    BY <1>1, <1>2, <1>3, <1>4, <1>5, EditorKeeps DEF ArticleInv, ArticleShape, RowFollows

\* The preparation of one picture: what was looked up or copied is in place.
LEMMA PreparationSteps ==
    ASSUME ArticleInv, NEW r \in Editors, NEW k \in Images, FindImage(r, k) \/ CopyImage(r, k),
           tangled' = tangled \cup Tangle'
    PROVE  ArticleInv'
  <1>1. edit[r] \in Edits /\ edit' = [edit EXCEPT ![r] = edit'[r]] /\ Preparing(r)
        /\ article' = article /\ withdrawn' = withdrawn /\ KeepsToItsOwn(r) /\ ArticleShape
    BY DEF FindImage, CopyImage, EditTo, ArticleShape, ArticleInv
  <1> DEFINE e == edit[r]
  <1>2. \/ /\ Formal(k) \in objects /\ k \in e.todo /\ e.absent = {} /\ objects' = objects
           /\ edit'[r] = [e EXCEPT !.todo = @ \ {k}]
        \/ /\ Formal(k) \notin objects /\ k \in e.uploads /\ objects' = objects
           /\ edit'[r] = [e EXCEPT !.absent = {k}]
        \/ /\ k \in e.absent /\ <<"temp", k>> \in objects /\ objects' = objects \cup {Formal(k)}
           /\ edit'[r] = [e EXCEPT !.absent = {}, !.todo = @ \ {k}, !.copied = @ \cup {k}]
    BY <1>1 DEF FindImage, CopyImage, EditTo, ArticleShape
  <1>3. /\ e.todo \subseteq Wanted(r) /\ e.absent \subseteq e.uploads
        /\ e.copied \subseteq e.uploads /\ e.uploads \subseteq Images
    BY <1>1 DEF KeepsToItsOwn, Edits
  <1>4. /\ edit'[r] \in Edits /\ edit'[r].pc = e.pc /\ edit'[r].old = e.old
        /\ edit'[r].uploads = e.uploads /\ edit'[r].kept = e.kept
    <2>1. \E todo, absent, copied \in SUBSET Images :
            edit'[r] = [pc |-> e.pc, old |-> e.old, uploads |-> e.uploads, kept |-> e.kept,
                        todo |-> todo, absent |-> absent, copied |-> copied]
      <3>1. /\ e.todo \ {k} \in SUBSET Images /\ {k} \in SUBSET Images /\ {} \in SUBSET Images
            /\ e.copied \cup {k} \in SUBSET Images
            /\ e.todo \in SUBSET Images /\ e.absent \in SUBSET Images /\ e.copied \in SUBSET Images
        BY <1>1 DEF Edits
      <3>2. CASE edit'[r] = [e EXCEPT !.todo = @ \ {k}]
        <4>1. edit'[r] = [pc |-> e.pc, old |-> e.old, uploads |-> e.uploads, kept |-> e.kept,
                          todo |-> e.todo \ {k}, absent |-> e.absent, copied |-> e.copied]
          BY <1>1, <3>2 DEF Edits
        <4> QED
          BY <3>1, <4>1
      <3>3. CASE edit'[r] = [e EXCEPT !.absent = {k}]
        <4>1. edit'[r] = [pc |-> e.pc, old |-> e.old, uploads |-> e.uploads, kept |-> e.kept,
                          todo |-> e.todo, absent |-> {k}, copied |-> e.copied]
          BY <1>1, <3>3 DEF Edits
        <4> QED
          BY <3>1, <4>1
      <3>4. CASE edit'[r] = [e EXCEPT !.absent = {}, !.todo = @ \ {k}, !.copied = @ \cup {k}]
        <4>1. edit'[r] = [pc |-> e.pc, old |-> e.old, uploads |-> e.uploads, kept |-> e.kept,
                          todo |-> e.todo \ {k}, absent |-> {}, copied |-> e.copied \cup {k}]
          BY <1>1, <3>4 DEF Edits
        <4> QED
          BY <3>1, <4>1
      <3> QED
        BY <1>2, <3>2, <3>3, <3>4
    <2> QED
      BY <1>1, <2>1 DEF Edits
  <1>5. Wanted(r)' = Wanted(r) /\ Preparing(r)'
    BY <1>1, <1>4 DEF Wanted, Preparing
  <1>6. objects' = objects \/ (objects' = objects \cup {Formal(k)} /\ k \in edit[r].uploads)
    BY <1>2, <1>3
  <1>7. ArticleShape'
    BY <1>1, <1>4, <1>6 DEF ArticleShape, Formal, Places, Tangle
  <1>8. /\ edit'[r].todo \subseteq edit[r].todo /\ edit[r].todo \subseteq edit'[r].todo \cup {k}
        /\ edit'[r].absent \subseteq {k} \cap edit[r].uploads
        /\ edit[r].copied \subseteq edit'[r].copied
        /\ edit'[r].copied \subseteq edit[r].copied \cup {k}
        /\ k \in edit'[r].copied \ edit[r].copied =>
                k \in edit[r].absent /\ <<"temp", k>> \in objects
        /\ k \in edit'[r].absent => Formal(k) \notin objects'
        /\ k \in edit'[r].todo \/ k \notin edit[r].todo \/ Formal(k) \in objects'
        /\ edit'[r].copied \subseteq edit[r].uploads
    <2>1. CASE /\ Formal(k) \in objects /\ k \in e.todo /\ e.absent = {} /\ objects' = objects
               /\ edit'[r] = [e EXCEPT !.todo = @ \ {k}]
      <3>1. edit'[r].todo = e.todo \ {k} /\ edit'[r].absent = {} /\ edit'[r].copied = e.copied
        BY <1>1, <2>1 DEF Edits
      <3> QED
        BY <1>3, <2>1, <3>1
    <2>2. CASE /\ Formal(k) \notin objects /\ k \in e.uploads /\ objects' = objects
               /\ edit'[r] = [e EXCEPT !.absent = {k}]
      <3>1. edit'[r].todo = e.todo /\ edit'[r].absent = {k} /\ edit'[r].copied = e.copied
        BY <1>1, <2>2 DEF Edits
      <3> QED
        BY <1>3, <2>2, <3>1
    <2>3. CASE /\ k \in e.absent /\ <<"temp", k>> \in objects /\ objects' = objects \cup {Formal(k)}
               /\ edit'[r] = [e EXCEPT !.absent = {}, !.todo = @ \ {k}, !.copied = @ \cup {k}]
      <3>1. /\ edit'[r].todo = e.todo \ {k} /\ edit'[r].absent = {}
            /\ edit'[r].copied = e.copied \cup {k}
        BY <1>1, <2>3 DEF Edits
      <3> QED
        BY <1>3, <2>3, <3>1
    <2> QED
      BY <1>2, <2>1, <2>2, <2>3
  <1>9. KeepsToItsOwn(r)'
    BY <1>1, <1>4, <1>5, <1>8 DEF KeepsToItsOwn, Preparing
  <1>10. ASSUME NEW i \in Images \ tangled'
        PROVE  /\ PictureKept(i)' /\ EditKnows(r, i)'
               /\ Undisturbed(i) \/ i \in ConcernedBy(r)'
    <2>1. PictureKept(i) /\ EditKnows(r, i)
      BY <1>10 DEF ArticleInv
    <2>2. objects \subseteq objects'
      BY <1>6
    <2>3. PictureKept(i)'
      BY <1>1, <2>1, <2>2 DEF PictureKept, Formal
    <2>4. Spared(i) => Spared(i)'
      BY <1>1, <2>2 DEF Spared
    <2>5. i \in edit[r].absent => Spared(i)
      BY <1>1, <2>1 DEF EditKnows, PictureKept, Spared, ArticleShape
    <2>6. /\ i \in edit'[r].absent => Formal(i) \notin objects'
          /\ i \in Wanted(r) \ edit'[r].todo => Formal(i) \in objects'
      BY <1>1, <1>8, <2>1, <2>2 DEF EditKnows
    <2>7. i \in edit'[r].copied => <<"temp", i>> \in objects' /\ Spared(i)'
      BY <1>1, <1>8, <2>1, <2>2, <2>4, <2>5 DEF EditKnows
    <2>8. EditKnows(r, i)'
      BY <1>1, <1>4, <1>5, <2>6, <2>7 DEF EditKnows, Preparing, Formal
    <2>9. Undisturbed(i) \/ i \in ConcernedBy(r)'
      <3>1. CASE i = k /\ i \in edit[r].uploads
        BY <1>1, <1>4, <3>1 DEF ConcernedBy, Editing, Wanted, Preparing
      <3>2. CASE objects' = objects
        BY <1>1, <3>2 DEF Undisturbed
      <3>3. CASE objects' = objects \cup {Formal(k)} /\ i # k
        BY <1>1, <3>3 DEF Undisturbed, Formal
      <3> QED
        BY <1>6, <3>1, <3>2, <3>3
    <2> QED
      BY <2>3, <2>8, <2>9
  <1>11. RowFollows /\ \A s \in Editors \ {r} : edit'[s] = edit[s]
    BY <1>1 DEF RowFollows, ArticleShape
  <1>12. \A i \in Images : <<"deleted", i>> \in objects => <<"deleted", i>> \in objects'
    BY <1>6
  <1> QED
    BY <1>7, <1>9, <1>10, <1>11, <1>12, EditorKeeps

\* What the transaction writes is in place; what it drops nobody relies on.
LEMMA CommitStep ==
    ASSUME ArticleInv, NEW r \in Editors, CommitArticle(r), tangled' = tangled \cup Tangle'
    PROVE  ArticleInv'
  <1> DEFINE e == edit[r]
  <1>1. /\ e \in Edits /\ Preparing(r) /\ KeepsToItsOwn(r) /\ ArticleShape /\ e.todo = {}
        /\ edit' = [edit EXCEPT ![r] = [e EXCEPT !.pc = "saved"]] /\ objects' = objects
    BY DEF CommitArticle, EditTo, ArticleInv, ArticleShape
  <1>2. /\ edit'[r] = [pc |-> "saved", old |-> e.old, uploads |-> e.uploads, kept |-> e.kept,
                      todo |-> e.todo, absent |-> e.absent, copied |-> e.copied]
        /\ \A s \in Editors \ {r} : edit'[s] = edit[s]
    BY <1>1 DEF Edits, ArticleShape
  <1>3. Wanted(r) \subseteq Images /\ Wanted(r)' = Wanted(r) /\ edit'[r] \in Edits
    BY <1>1, <1>2 DEF Wanted, Edits, Phases
  <1>4. /\ \/ article.row \in {"live", "creating"} /\ article' = [row |-> "live", refs |-> Wanted(r)]
           \/ article.row \notin {"live", "creating"} /\ article' = article /\ withdrawn' = withdrawn
        /\ withdrawn' \subseteq withdrawn /\ withdrawn \subseteq withdrawn' \cup Wanted(r)
    BY DEF CommitArticle
  <1>5. ArticleShape'
    BY <1>1, <1>2, <1>3, <1>4 DEF ArticleShape, Tangle
  <1>6. KeepsToItsOwn(r)'
    BY <1>1, <1>2 DEF KeepsToItsOwn, Preparing
  <1>7. ASSUME NEW i \in Images \ tangled'
        PROVE  /\ PictureKept(i)' /\ EditKnows(r, i)'
               /\ Undisturbed(i) \/ i \in ConcernedBy(r)'
    <2>1. PictureKept(i) /\ EditKnows(r, i)
      BY <1>5, <1>7 DEF ArticleInv
    <2>2. i \in Wanted(r) => Formal(i) \in objects
      BY <1>1, <2>1 DEF EditKnows
    <2>3. PictureKept(i)'
      BY <1>1, <1>4, <2>1, <2>2 DEF PictureKept, Formal
    <2>4. article'.row = "live" => article'.refs = Wanted(r)
      BY <1>4
    <2>5. EditKnows(r, i)'
      BY <1>1, <1>2, <1>3, <2>1, <2>2, <2>4 DEF EditKnows, Preparing, Formal
    <2>6. i \in Wanted(r) => i \in ConcernedBy(r)'
      BY <1>2, <1>3 DEF ConcernedBy, Editing
    <2>7. i \notin Wanted(r) => Undisturbed(i)
      BY <1>1, <1>4 DEF Undisturbed
    <2> QED
      BY <2>3, <2>5, <2>6, <2>7
  <1> QED
    BY <1>1, <1>2, <1>4, <1>5, <1>6, <1>7, EditorKeeps DEF RowFollows

\* Steps that change neither object nor what the row names; at most the article is given up.
LEMMA QuietEdits ==
    ASSUME ArticleInv, NEW r \in Editors, tangled' = tangled \cup Tangle',
           edit' = [edit EXCEPT ![r] = edit'[r]], edit'[r] \in Edits, objects' = objects,
           article' = article \/ article' = [article EXCEPT !.row = "gone"],
           withdrawn \subseteq withdrawn', withdrawn' \subseteq Images,
           KeepsToItsOwn(r)', \A i \in Images \ tangled : EditKnows(r, i)'
    PROVE  ArticleInv'
  <1>1. ArticleShape /\ ArticleShape'
    BY DEF ArticleInv, ArticleShape, Tangle
  <1>2. ASSUME NEW i \in Images \ tangled'
        PROVE  PictureKept(i)' /\ EditKnows(r, i)' /\ Undisturbed(i)
    <2>1. i \in Images \ tangled /\ PictureKept(i)
      BY <1>2 DEF ArticleInv
    <2>2. article'.refs = article.refs /\ (article'.row = article.row \/ article'.row = "gone")
      BY <1>1 DEF ArticleShape
    <2>3. Undisturbed(i)
      BY <2>2 DEF Undisturbed
    <2> QED
      BY <2>1, <2>2, <2>3, UndisturbedKept
  <1>3. RowFollows /\ \A s \in Editors \ {r} : edit'[s] = edit[s]
    BY <1>1 DEF RowFollows, ArticleShape
  <1> QED
    BY <1>1, <1>2, <1>3, EditorKeeps

\* A failed save: what is to be deleted are copies, whose uploads are still there. The row does
\* not need them, or they are withdrawn.
LEMMA RollbackStep ==
    ASSUME ArticleInv, NEW r \in Editors, CommitFails(r) \/ FindSavedFails(r),
           tangled' = tangled \cup Tangle'
    PROVE  ArticleInv'
  <1> DEFINE e == edit[r]
  <1>1. /\ e \in Edits /\ KeepsToItsOwn(r) /\ ArticleShape /\ objects' = objects
        /\ edit' = [edit EXCEPT ![r] = [NoEdit EXCEPT !.pc = "undo", !.todo = e.copied,
                                                        !.uploads = e.uploads]]
        /\ article' = article \/ article' = [article EXCEPT !.row = "gone"]
        /\ \/ Preparing(r) /\ withdrawn' = withdrawn
           \/ e.pc = "saved" /\ withdrawn' = withdrawn \cup e.copied
    BY DEF CommitFails, FindSavedFails, EditTo, Abandoned, ArticleInv, ArticleShape
  <1>2. edit'[r] = [pc |-> "undo", old |-> {}, uploads |-> e.uploads, kept |-> {},
                    todo |-> e.copied, absent |-> {}, copied |-> {}]
    BY <1>1 DEF NoEdit, ArticleShape
  <1>3. /\ edit' = [edit EXCEPT ![r] = edit'[r]] /\ edit'[r] \in Edits
        /\ withdrawn \subseteq withdrawn' /\ withdrawn' \subseteq Images
    <2>1. e.uploads \in SUBSET Images /\ e.copied \in SUBSET Images /\ {} \in SUBSET Images
      BY <1>1 DEF Edits
    <2>2. edit'[r] \in Edits
      BY <1>2, <2>1 DEF Edits, Phases
    <2>3. withdrawn \subseteq withdrawn' /\ withdrawn' \subseteq Images
      BY <1>1, <2>1 DEF ArticleShape
    <2> QED
      BY <1>1, <1>2, <2>2, <2>3 DEF ArticleShape
  <1>4. KeepsToItsOwn(r)'
    BY <1>1, <1>2 DEF KeepsToItsOwn, Preparing
  <1>5. ASSUME NEW i \in Images \ tangled
        PROVE  EditKnows(r, i)'
    <2>1. i \in e.copied => <<"temp", i>> \in objects
      BY <1>1, <1>5 DEF ArticleInv, EditKnows
    <2>2. i \in e.copied => Spared(i)'
      <3>1. CASE Preparing(r)
        <4>1. i \in e.copied => Spared(i)
          BY <1>5, <3>1 DEF ArticleInv, EditKnows
        <4> QED
          BY <1>1, <1>3, <4>1 DEF Spared, ArticleShape
      <3>2. CASE withdrawn' = withdrawn \cup e.copied
        BY <3>2 DEF Spared
      <3> QED
        BY <1>1, <3>1, <3>2
    <2> QED
      BY <1>1, <1>2, <2>1, <2>2 DEF EditKnows, Preparing
  <1> QED
    BY <1>1, <1>3, <1>4, <1>5, QuietEdits

\* Between the phases of a save and the final deletion, and at the end of a request.
LEMMA PhaseSteps ==
    ASSUME ArticleInv, NEW r \in Editors,
           FindSaved(r) \/ StartMoves(r) \/ FindDeleted(r) \/ PermanentDelete(r) \/ StopEdit(r),
           tangled' = tangled \cup Tangle'
    PROVE  ArticleInv'
  <1> DEFINE e == edit[r]
  <1>1. /\ e \in Edits /\ KeepsToItsOwn(r) /\ ArticleShape
        /\ \A i \in Images \ tangled : EditKnows(r, i)
        /\ withdrawn \subseteq withdrawn' /\ withdrawn' \subseteq Images
    BY DEF ArticleInv, ArticleShape, FindSaved, StartMoves, FindDeleted, PermanentDelete, StopEdit
  <1>2. CASE FindSaved(r)
    <2>1. /\ edit' = [edit EXCEPT ![r] = [e EXCEPT !.pc = "uploads", !.todo = e.uploads,
                                                     !.copied = {}]]
          /\ e.pc = "saved" /\ article' = article /\ objects' = objects
      BY <1>2 DEF FindSaved, EditTo
    <2>2. edit'[r] = [pc |-> "uploads", old |-> e.old, uploads |-> e.uploads, kept |-> e.kept,
                      todo |-> e.uploads, absent |-> e.absent, copied |-> {}]
      BY <1>1, <2>1 DEF Edits, ArticleShape
    <2>3. edit' = [edit EXCEPT ![r] = edit'[r]] /\ edit'[r] \in Edits /\ Wanted(r)' = Wanted(r)
      <3>1. {} \in SUBSET Images
        OBVIOUS
      <3> QED
        BY <1>1, <2>1, <2>2, <3>1 DEF Edits, Phases, ArticleShape, Wanted
    <2>4. KeepsToItsOwn(r)'
      BY <1>1, <2>1, <2>2 DEF KeepsToItsOwn, Preparing
    <2>5. ASSUME NEW i \in Images \ tangled
          PROVE  EditKnows(r, i)'
      <3>1. EditKnows(r, i)
        BY <1>1, <2>5
      <3>2. /\ i \in Wanted(r) => Formal(i) \in objects
            /\ article.row = "live" /\ i \in e.old \ Wanted(r) => i \notin article.refs
        BY <2>1, <3>1 DEF EditKnows
      <3> QED
        BY <2>1, <2>2, <2>3, <3>2 DEF EditKnows, Preparing, Formal
    <2> QED
      BY <1>1, <2>1, <2>3, <2>4, <2>5, QuietEdits
  <1>3. CASE StartMoves(r)
    <2>1. /\ edit' = [edit EXCEPT ![r] = [e EXCEPT !.pc = "move", !.todo = e.old \ Wanted(r)]]
          /\ e.pc = "uploads" /\ article' = article /\ objects' = objects
      BY <1>3 DEF StartMoves, EditTo
    <2>2. edit'[r] = [pc |-> "move", old |-> e.old, uploads |-> e.uploads, kept |-> e.kept,
                      todo |-> e.old \ Wanted(r), absent |-> e.absent, copied |-> e.copied]
      BY <1>1, <2>1 DEF Edits, ArticleShape
    <2>3. edit' = [edit EXCEPT ![r] = edit'[r]] /\ edit'[r] \in Edits /\ Wanted(r)' = Wanted(r)
      <3>1. e.old \ Wanted(r) \in SUBSET Images
        BY <1>1 DEF Edits
      <3> QED
        BY <1>1, <2>1, <2>2, <3>1 DEF Edits, Phases, ArticleShape, Wanted
    <2>4. KeepsToItsOwn(r)'
      BY <1>1, <2>1, <2>2, <2>3 DEF KeepsToItsOwn, Preparing
    <2>5. e.copied = {}
      BY <1>1, <2>1 DEF KeepsToItsOwn
    <2>6. ASSUME NEW i \in Images \ tangled
          PROVE  EditKnows(r, i)'
      <3>1. EditKnows(r, i)
        BY <1>1, <2>6
      <3>2. /\ i \in Wanted(r) => Formal(i) \in objects
            /\ article.row = "live" /\ i \in e.old \ Wanted(r) => i \notin article.refs
        BY <2>1, <3>1 DEF EditKnows
      <3> QED
        BY <2>1, <2>2, <2>3, <2>5, <3>2 DEF EditKnows, Preparing, Formal
    <2> QED
      BY <1>1, <2>1, <2>3, <2>4, <2>6, QuietEdits
  <1>4. CASE FindDeleted(r)
    <2>1. /\ edit' = [edit EXCEPT ![r] = [NoEdit EXCEPT !.pc = "retire", !.old = article.refs,
                                                          !.todo = article.refs]]
          /\ article.row = "trashed" /\ article' = article /\ objects' = objects
      BY <1>4 DEF FindDeleted, EditTo
    <2>2. edit'[r] = [pc |-> "retire", old |-> article.refs, uploads |-> {}, kept |-> {},
                      todo |-> article.refs, absent |-> {}, copied |-> {}]
      BY <1>1, <2>1 DEF NoEdit, ArticleShape
    <2>3. edit' = [edit EXCEPT ![r] = edit'[r]] /\ edit'[r] \in Edits
      <3>1. article.refs \in SUBSET Images /\ {} \in SUBSET Images
        BY <1>1 DEF ArticleShape
      <3> QED
        BY <1>1, <2>1, <2>2, <3>1 DEF Edits, Phases, ArticleShape
    <2>4. KeepsToItsOwn(r)'
      BY <2>1, <2>2 DEF KeepsToItsOwn, Preparing
    <2>5. \A i \in Images \ tangled : EditKnows(r, i)'
      BY <2>2 DEF EditKnows, Preparing
    <2> QED
      BY <1>1, <2>1, <2>3, <2>4, <2>5, QuietEdits
  <1>5. CASE PermanentDelete(r) \/ StopEdit(r)
    <2>1. /\ edit' = [edit EXCEPT ![r] = NoEdit] /\ objects' = objects
          /\ article' = article \/ article' = [article EXCEPT !.row = "gone"]
      BY <1>5 DEF PermanentDelete, StopEdit, EndEdit, EditTo, Abandoned
    <2>2. edit'[r] = NoEdit /\ NoEdit.pc = "idle" /\ NoEdit \in Edits
      <3>1. {} \in SUBSET Images
        OBVIOUS
      <3> QED
        BY <1>1, <2>1, <3>1 DEF NoEdit, Edits, Phases, ArticleShape
    <2>3. KeepsToItsOwn(r)' /\ \A i \in Images \ tangled : EditKnows(r, i)'
      BY <2>2 DEF KeepsToItsOwn, EditKnows, Preparing
    <2> QED
      BY <1>1, <2>1, <2>2, <2>3, QuietEdits
  <1> QED
    BY <1>2, <1>3, <1>4, <1>5

\* Nothing is deleted but what is superfluous: a copy of an upload, an upload that was
\* copied, or what lies below deleted/ too.
LEMMA RemovalSteps ==
    ASSUME ArticleInv, NEW r \in Editors, NEW k \in Images,
           DeleteCopy(r, k) \/ DeleteUpload(r, k) \/ DeleteMoved(r, k) \/ CopyToDeleted(r, k),
           tangled' = tangled \cup Tangle'
    PROVE  ArticleInv'
  <1> DEFINE e == edit[r]
  <1>1. /\ e \in Edits /\ KeepsToItsOwn(r) /\ ArticleShape /\ article' = article
        /\ withdrawn' = withdrawn
        /\ k \in e.todo /\ e.pc \in {"undo", "uploads", "move", "retire"}
    BY DEF DeleteCopy, DeleteUpload, DeleteMoved, CopyToDeleted, ArticleInv, ArticleShape
  <1>2. /\ edit' = [edit EXCEPT ![r] = edit'[r]] /\ edit'[r] \in Edits
        /\ edit'[r].pc = e.pc /\ edit'[r].old = e.old
        /\ edit'[r].uploads = e.uploads /\ edit'[r].kept = e.kept
        /\ edit'[r].todo \subseteq e.todo
        /\ edit'[r].copied \in {{}, {k}, e.copied}
        /\ edit'[r].copied \in {{}, e.copied} \/ <<"deleted", k>> \in objects'
        /\ e.pc = "uploads" => edit'[r].copied = e.copied
    <2>1. /\ e.todo \ {k} \in SUBSET Images /\ e.copied \in SUBSET Images
          /\ {k} \in SUBSET Images /\ {} \in SUBSET Images
      BY <1>1 DEF Edits
    <2>2. CASE DeleteCopy(r, k) \/ DeleteUpload(r, k)
      <3>1. edit' = [edit EXCEPT ![r] = [e EXCEPT !.todo = @ \ {k}]]
        BY <2>2 DEF DeleteCopy, DeleteUpload, EditTo
      <3>2. edit'[r] = [pc |-> e.pc, old |-> e.old, uploads |-> e.uploads, kept |-> e.kept,
                        todo |-> e.todo \ {k}, absent |-> e.absent, copied |-> e.copied]
        BY <1>1, <3>1 DEF Edits, ArticleShape
      <3>3. edit'[r] \in Edits
        BY <1>1, <2>1, <3>2 DEF Edits
      <3> QED
        BY <1>1, <3>1, <3>2, <3>3 DEF ArticleShape
    <2>3. CASE DeleteMoved(r, k)
      <3>1. /\ edit' = [edit EXCEPT ![r] = [e EXCEPT !.todo = @ \ {k}, !.copied = {}]]
            /\ e.pc # "uploads"
        BY <2>3 DEF DeleteMoved, EditTo
      <3>2. edit'[r] = [pc |-> e.pc, old |-> e.old, uploads |-> e.uploads, kept |-> e.kept,
                        todo |-> e.todo \ {k}, absent |-> e.absent, copied |-> {}]
        BY <1>1, <3>1 DEF Edits, ArticleShape
      <3>3. edit'[r] \in Edits
        BY <1>1, <2>1, <3>2 DEF Edits
      <3> QED
        BY <1>1, <3>1, <3>2, <3>3 DEF ArticleShape
    <2>4. CASE CopyToDeleted(r, k)
      <3>1. /\ edit' = [edit EXCEPT ![r] = [e EXCEPT !.copied = {k}]]
            /\ e.pc # "uploads" /\ <<"deleted", k>> \in objects'
        BY <2>4 DEF CopyToDeleted, EditTo
      <3>2. edit'[r] = [pc |-> e.pc, old |-> e.old, uploads |-> e.uploads, kept |-> e.kept,
                        todo |-> e.todo, absent |-> e.absent, copied |-> {k}]
        BY <1>1, <3>1 DEF Edits, ArticleShape
      <3>3. edit'[r] \in Edits
        BY <1>1, <2>1, <3>2 DEF Edits
      <3> QED
        BY <1>1, <3>1, <3>2, <3>3 DEF ArticleShape
    <2> QED
      BY <2>2, <2>3, <2>4
  <1>3. edit' \in [Editors -> Edits] /\ \A s \in Editors \ {r} : edit'[s] = edit[s]
    BY <1>1, <1>2 DEF ArticleShape
  <1>4. Wanted(r)' = Wanted(r)
    BY <1>2 DEF Wanted
  <1>5. \/ objects' = objects \ {Formal(k)} /\ e.pc = "undo"
        \/ objects' = objects \ {Formal(k)} /\ k \in e.copied /\ e.pc \in {"move", "retire"}
        \/ objects' = objects \ {<<"temp", k>>} /\ e.pc = "uploads"
        \/ objects' = objects \cup {<<"deleted", k>>}
    BY DEF DeleteCopy, DeleteUpload, DeleteMoved, CopyToDeleted
  <1>6. ArticleShape'
    BY <1>1, <1>3, <1>5 DEF ArticleShape, Places, Tangle
  <1>7. KeepsToItsOwn(r)'
    BY <1>1, <1>2, <1>3, <1>4 DEF KeepsToItsOwn, Preparing
  <1>8. k \in ConcernedBy(r)'
    BY <1>1, <1>2, <1>4 DEF KeepsToItsOwn, ConcernedBy, Editing, Wanted
  <1>9. ASSUME NEW i \in Images \ tangled'
        PROVE  /\ PictureKept(i)' /\ EditKnows(r, i)'
               /\ Undisturbed(i) \/ i \in ConcernedBy(r)'
    <2>1. PictureKept(i) /\ EditKnows(r, i)
      BY <1>6, <1>9 DEF ArticleInv
    <2>2. \A x : x \in objects /\ x # Formal(k) /\ x # <<"temp", k>> => x \in objects'
      BY <1>5
    <2>3. /\ <<"deleted", i>> \in objects => <<"deleted", i>> \in objects'
          /\ i # k => (Formal(i) \in objects => Formal(i) \in objects')
                      /\ (<<"temp", i>> \in objects => <<"temp", i>> \in objects')
      BY <2>2 DEF Formal
    <2>4. i # k => Undisturbed(i)
      BY <1>1, <1>5, <2>3 DEF Undisturbed, Formal
    <2>5. PictureKept(i)'
      <3>1. CASE i # k
        BY <1>1, <2>1, <2>4, <3>1, UndisturbedKept
      <3>2. CASE i = k /\ objects' = objects \ {Formal(k)} /\ e.pc = "undo"
        <4>1. <<"temp", k>> \in objects' /\ Spared(k)
          BY <1>1, <2>1, <3>2 DEF EditKnows, Formal
        <4>2. <<"deleted", k>> \in objects => <<"deleted", k>> \in objects'
          BY <2>3, <3>2
        <4> QED
          BY <1>1, <3>2, <4>1, <4>2 DEF PictureKept, Spared, Places
      <3>3. CASE i = k /\ objects' = objects \ {Formal(k)} /\ k \in e.copied /\ e.pc \in {"move", "retire"}
        <4>1. <<"deleted", k>> \in objects'
          BY <2>1, <2>3, <3>3 DEF EditKnows
        <4>2. e.pc = "move" /\ article.row = "live" => k \notin article.refs
          BY <1>1, <2>1, <3>3 DEF EditKnows, KeepsToItsOwn
        <4>3. e.pc = "retire" => article.row # "live"
          BY <1>1 DEF KeepsToItsOwn
        <4> QED
          BY <1>1, <3>3, <4>1, <4>2, <4>3 DEF PictureKept, Places
      <3>4. CASE i = k /\ objects' = objects \ {<<"temp", k>>} /\ e.pc = "uploads"
        <4>1. Formal(k) \in objects
          BY <1>1, <2>1, <3>4 DEF EditKnows, KeepsToItsOwn, Wanted
        <4>2. Formal(k) \in objects'
          BY <3>4, <4>1 DEF Formal
        <4> QED
          BY <1>1, <3>4, <4>2 DEF PictureKept, Places, Formal
      <3>5. CASE objects' = objects \cup {<<"deleted", k>>}
        BY <1>1, <2>1, <3>5 DEF PictureKept, Formal
      <3> QED
        BY <1>5, <3>1, <3>2, <3>3, <3>4, <3>5
    <2>6. EditKnows(r, i)'
      <3>1. CASE e.pc = "undo"
        <4>1. i \in edit'[r].todo => i \in e.todo /\ <<"temp", i>> \in objects /\ Spared(i)
          BY <1>2, <2>1, <3>1 DEF EditKnows
        <4>2. /\ <<"temp", i>> \in objects => <<"temp", i>> \in objects'
              /\ Spared(i) => Spared(i)'
          BY <1>1, <1>5, <2>3, <3>1 DEF Spared, Formal
        <4> QED
          BY <1>2, <3>1, <4>1, <4>2 DEF EditKnows, Preparing
      <3>2. CASE e.pc = "uploads"
        <4>1. Formal(i) \in objects => Formal(i) \in objects'
          BY <1>5, <3>2 DEF Formal
        <4> QED
          BY <1>1, <1>2, <1>4, <2>1, <3>2, <4>1 DEF EditKnows, Preparing, Formal
      <3>3. CASE e.pc \in {"move", "retire"}
        <4>1. e.pc = "move" => k \notin Wanted(r)
          BY <1>1 DEF KeepsToItsOwn
        <4>2. e.pc = "move" /\ i \in Wanted(r) => Formal(i) \in objects'
          BY <2>1, <2>3, <3>3, <4>1 DEF EditKnows
        <4>3. (e.pc = "move" /\ article.row = "live" /\ i \in e.old \ Wanted(r)) =>
                i \notin article.refs
          BY <2>1 DEF EditKnows
        <4>4. i \in edit'[r].copied => <<"deleted", i>> \in objects'
          BY <1>2, <2>1, <2>3, <3>3 DEF EditKnows
        <4> QED
          BY <1>1, <1>2, <1>4, <3>3, <4>2, <4>3, <4>4 DEF EditKnows, Preparing, Formal
      <3> QED
        BY <1>1, <3>1, <3>2, <3>3
    <2> QED
      BY <1>8, <2>4, <2>5, <2>6
  <1>10. RowFollows
    BY <1>1 DEF RowFollows
  <1>11. \A i \in Images : <<"deleted", i>> \in objects => <<"deleted", i>> \in objects'
    BY <1>5 DEF Formal
  <1> QED
    BY <1>3, <1>6, <1>7, <1>9, <1>10, <1>11, EditorKeeps

\* An upload and a deletion of the article change nothing a request relies on.
LEMMA VisitorSteps ==
    ASSUME ArticleInv, SoftDelete \/ (\E k \in Images : UploadArticleImage(k)),
           tangled' = tangled \cup Tangle'
    PROVE  ArticleInv'
  <1>1. /\ edit' = edit /\ objects \subseteq objects' /\ withdrawn' = withdrawn
        /\ \A x \in objects' \ objects : x[1] = "temp" /\ x \in Places \X Images
        /\ article' = article \/ (article.row = "live" /\ article' = [article EXCEPT !.row = "trashed"])
    BY DEF SoftDelete, UploadArticleImage, Places
  <1>2. ArticleShape
    BY DEF ArticleInv
  <1>3. ArticleShape'
    BY <1>1, <1>2 DEF ArticleShape, Tangle
  <1>4. RowFollows
    BY <1>1 DEF RowFollows
  <1>5. ASSUME NEW r \in Editors
        PROVE  KeepsToItsOwn(r)'
    BY <1>1, <1>4 DEF ArticleInv, KeepsToItsOwn, Preparing, Wanted, RowFollows
  <1>6. ASSUME NEW i \in Images \ tangled'
        PROVE  PictureKept(i)' /\ \A r \in Editors : EditKnows(r, i)'
    <2>1. PictureKept(i) /\ \A r \in Editors : EditKnows(r, i)
      BY <1>3, <1>6 DEF ArticleInv
    <2>2. article'.refs = article.refs
          /\ (article'.row = article.row \/ (article.row = "live" /\ article'.row = "trashed"))
      BY <1>1, <1>2 DEF ArticleShape
    <2>3. Undisturbed(i)
      BY <1>1, <2>2 DEF Undisturbed, Formal
    <2>4. PictureKept(i)'
      BY <2>1, <2>2, <2>3, UndisturbedKept
    <2>5. ASSUME NEW r \in Editors PROVE EditKnows(r, i)'
      BY <1>1, <2>1, <2>3, UndisturbedKnown
    <2> QED
      BY <2>4, <2>5
  <1> QED
    BY <1>3, <1>5, <1>6 DEF ArticleInv

\* The pictures of an article are kept, for any number of pictures and requests.
THEOREM ArticlePicturesKept == ArticleSpec => []PicturesKept
  <1>1. ArticleInit => ArticleInv
    <2> SUFFICES ASSUME ArticleInit PROVE ArticleInv
      OBVIOUS
    <2>1. NoEdit \in Edits /\ NoEdit.pc = "idle"
      <3>1. {} \in SUBSET Images
        OBVIOUS
      <3> QED
        BY <3>1 DEF NoEdit, Edits, Phases
    <2>2. ArticleShape
      BY <2>1 DEF ArticleInit, ArticleShape, Places
    <2>3. ASSUME NEW r \in Editors
          PROVE  KeepsToItsOwn(r) /\ \A i \in Images : EditKnows(r, i)
      BY <2>1 DEF ArticleInit, KeepsToItsOwn, EditKnows, Preparing
    <2>4. ASSUME NEW i \in Images PROVE PictureKept(i)
      BY DEF ArticleInit, PictureKept, Places
    <2> QED
      BY <2>2, <2>3, <2>4 DEF ArticleInv
  <1>2. ArticleInv /\ [ArticleNext]_articleVars => ArticleInv'
    <2> SUFFICES ASSUME ArticleInv, [ArticleNext]_articleVars PROVE ArticleInv'
      OBVIOUS
    <2>1. CASE UNCHANGED articleVars
      <3>1. UNCHANGED <<article, objects, edit, withdrawn, tangled>>
        BY <2>1 DEF articleVars
      <3>2. ArticleShape'
        BY <3>1 DEF ArticleInv, ArticleShape
      <3>3. ASSUME NEW r \in Editors
            PROVE  KeepsToItsOwn(r)'
        BY <3>1 DEF ArticleInv, KeepsToItsOwn, Preparing, Wanted
      <3>4. ASSUME NEW i \in Images \ tangled'
            PROVE  PictureKept(i)' /\ \A r \in Editors : EditKnows(r, i)'
        BY <3>1, <3>4 DEF ArticleInv, EditKnows, PictureKept, Spared, Preparing, Wanted, Formal
      <3> QED
        BY <3>2, <3>3, <3>4 DEF ArticleInv
    <2>2. CASE ArticleNext
      BY <2>2, SaveStarts, PreparationSteps, CommitStep, RollbackStep, PhaseSteps, RemovalSteps,
         VisitorSteps DEF ArticleNext, EditorStep
    <2> QED
      BY <2>1, <2>2
  <1>3. ArticleInv => PicturesKept
    BY DEF ArticleInv, ArticleShape, PictureKept, PicturesKept
  <1> QED
    BY <1>1, <1>2, <1>3, PTL DEF ArticleSpec
=============================================================================
