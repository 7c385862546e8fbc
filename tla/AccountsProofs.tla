----------------------------- MODULE AccountsProofs -----------------------------
(***************************************************************************)
(* What the guard of the last owner promises, for any accounts, requests   *)
(* and role mapping.  The argument is AccountsInvariant: a request that is *)
(* about to remove an owner has counted two of them or more; so as long as *)
(* these are the owners still, one remains.                                *)
(***************************************************************************)
EXTENDS Accounts, FiniteSetTheorems, TLAPS

\* The owners are finitely many, so they can be counted.
LEMMA OwnersAreUsers == AccountsTypeOK => EnabledOwners \subseteq Person /\ IsFiniteSet(EnabledOwners)
<1> SUFFICES ASSUME AccountsTypeOK PROVE EnabledOwners \subseteq Person /\ IsFiniteSet(EnabledOwners)
  OBVIOUS
<1>1. EnabledOwners \subseteq Person
  BY DEF AccountsTypeOK, EnabledOwners
<1> QED
  BY <1>1, FS_Subset, AccountsAssumption

\* Nobody has an account at first, and no request is under way.
LEMMA InitInvariant == AccountsInit => AccountsInvariant
<1> SUFFICES ASSUME AccountsInit PROVE AccountsInvariant
  OBVIOUS
<1>1. NoReq \in [kind : Kinds \cup {"none"}, target : Person \cup {Nobody}, to : Roles,
                 by : BOOLEAN, found : SUBSET Person]
  BY DEF NoReq, Roles
<1>2. AccountsTypeOK
  BY <1>1 DEF AccountsInit, AccountsTypeOK
<1>3. CheckedOwners
  BY DEF AccountsInit, CheckedOwners
<1> QED
  BY <1>2, <1>3 DEF AccountsInvariant

\* A request that ends leaves the others as they are.
LEMMA FinishKeeps ==
    ASSUME AccountsInvariant, NEW t \in Request, Finish(t)
    PROVE  /\ pc' \in [Request -> {"idle", "read", "count", "write"}]
           /\ req' \in [Request -> [kind : Kinds \cup {"none"}, target : Person \cup {Nobody},
                                    to : Roles, by : BOOLEAN, found : SUBSET Person]]
           /\ \A s \in Request : pc'[s] # "idle" => req'[s].target \in Person
           /\ CheckedOwners'
<1> USE DEF AccountsInvariant
<1>1. NoReq \in [kind : Kinds \cup {"none"}, target : Person \cup {Nobody}, to : Roles,
                 by : BOOLEAN, found : SUBSET Person]
  BY DEF NoReq, Roles
<1>2. /\ pc' \in [Request -> {"idle", "read", "count", "write"}]
      /\ req' \in [Request -> [kind : Kinds \cup {"none"}, target : Person \cup {Nobody},
                               to : Roles, by : BOOLEAN, found : SUBSET Person]]
      /\ \A s \in Request : pc'[s] # "idle" => req'[s].target \in Person
  BY <1>1 DEF Finish, Goto, AccountsTypeOK
<1>3. CheckedOwners'
  BY DEF Finish, Goto, AccountsTypeOK, CheckedOwners, Removing
<1> QED
  BY <1>2, <1>3

\* The invariant survives a step.
LEMMA StepInvariant == AccountsInvariant /\ [AccountsNext]_accountsVars => AccountsInvariant'
<1> SUFFICES ASSUME AccountsInvariant, [AccountsNext]_accountsVars PROVE AccountsInvariant'
  OBVIOUS
<1> USE DEF AccountsInvariant
<1>1. ASSUME NEW t \in Request, NEW a \in Person, NEW x \in Person, NEW r \in Roles,
             NEW k \in {"role", "create", "disable", "enable"}, AdminRequest(t, a, k, x, r)
      PROVE  AccountsInvariant'
  <2>1. AccountsTypeOK'
    BY <1>1 DEF AdminRequest, NoReq, Goto, AccountsTypeOK, Kinds, userVars
  <2>2. CheckedOwners'
    BY <1>1 DEF AdminRequest, NoReq, Goto, AccountsTypeOK, CheckedOwners, Removing
  <2> QED BY <2>1, <2>2
<1>2. ASSUME NEW t \in Request, ReadTarget(t) PROVE AccountsInvariant'
  <2>1. CASE Finish(t)
    BY <1>2, <2>1, FinishKeeps DEF ReadTarget, userVars, AccountsTypeOK
  <2>2. CASE ~Finish(t)
    <3> DEFINE saw == IF Removing(t) THEN EnabledOwners ELSE {}
               q   == [req[t] EXCEPT !.by = FALSE, !.found = saw]
    <3>1. /\ Goto(t, IF RemovesOwner(t) THEN "count" ELSE "write")
          /\ req' = [req EXCEPT ![t] = q]
          /\ UNCHANGED userVars
      BY <1>2, <2>2 DEF ReadTarget
    <3>2. AccountsTypeOK'
      <4>1. saw \in SUBSET Person
        BY OwnersAreUsers
      <4>2. q \in [kind : Kinds \cup {"none"}, target : Person \cup {Nobody},
                   to : Roles, by : BOOLEAN, found : SUBSET Person]
        BY <4>1 DEF AccountsTypeOK
      <4>3. q.target = req[t].target /\ req[t].target \in Person
        BY <1>2 DEF ReadTarget, AccountsTypeOK
      <4> HIDE DEF q
      <4>4. req' \in [Request -> [kind : Kinds \cup {"none"}, target : Person \cup {Nobody},
                                  to : Roles, by : BOOLEAN, found : SUBSET Person]]
        BY <3>1, <4>2 DEF AccountsTypeOK
      <4>5. \A s \in Request : pc'[s] # "idle" => req'[s].target \in Person
        BY <3>1, <4>3 DEF Goto, AccountsTypeOK
      <4>6. pc' \in [Request -> {"idle", "read", "count", "write"}]
        BY <3>1 DEF Goto, AccountsTypeOK
      <4> QED BY <3>1, <4>4, <4>5, <4>6 DEF AccountsTypeOK, userVars
    <3>3. ASSUME pc'[t] = "write", req'[t].target \in req'[t].found, Removing(t)'
          PROVE  FALSE
      <4>1. Removing(t) /\ req[t].target \in EnabledOwners
        BY <3>1, <3>3 DEF AccountsTypeOK, Removing
      <4>2. pc'[t] = "count"
        BY <3>1, <4>1 DEF Goto, AccountsTypeOK, RemovesOwner
      <4> QED BY <3>3, <4>2
    <3>4. ASSUME NEW s \in Request, s # t
          PROVE  pc'[s] = pc[s] /\ req'[s] = req[s]
      BY <3>1, <3>4 DEF Goto, AccountsTypeOK
    <3>5. CheckedOwners'
      BY <3>3, <3>4 DEF CheckedOwners, Removing
    <3> QED BY <3>2, <3>5
  <2> QED BY <2>1, <2>2
<1>3. ASSUME NEW t \in Request, CountOwners(t) PROVE AccountsInvariant'
  <2>1. CASE Finish(t)
    BY <1>3, <2>1, FinishKeeps DEF CountOwners, userVars, AccountsTypeOK
  <2>2. CASE ~Finish(t)
    <3>1. /\ ~(Cardinality(EnabledOwners) <= 1)
          /\ Goto(t, "write") /\ req' = [req EXCEPT ![t].found = EnabledOwners]
          /\ UNCHANGED userVars
      BY <1>3, <2>2 DEF CountOwners
    <3>2. AccountsTypeOK'
      BY <1>3, <3>1, OwnersAreUsers DEF CountOwners, Goto, AccountsTypeOK, userVars
    <3>3. Cardinality(EnabledOwners) \in Nat
      BY OwnersAreUsers, FS_CardinalityType
    <3>4. Cardinality(EnabledOwners) > 1
      BY <3>1, <3>3
    <3>5. CheckedOwners'
      BY <3>1, <3>4 DEF Goto, AccountsTypeOK, CheckedOwners, Removing
    <3> QED BY <3>2, <3>5
  <2> QED BY <2>1, <2>2
<1>4. ASSUME NEW t \in Request, SetRole(t) \/ SetDisabled(t) \/ AdminCreate(t)
      PROVE  AccountsInvariant'
  <2>1. Finish(t)
    BY <1>4 DEF SetRole, SetDisabled, AdminCreate
  <2>2. req[t].target \in Person /\ req[t].to \in Roles
    BY <1>4 DEF SetRole, SetDisabled, AdminCreate, AccountsTypeOK
  <2>3. role' \in [Person -> Roles \cup {"none"}] /\ enabled' \subseteq Person
    BY <1>4, <2>2 DEF SetRole, SetDisabled, AdminCreate, userVars, AccountsTypeOK
  <2> QED BY <2>1, <2>3, FinishKeeps DEF AccountsTypeOK
<1>5. ASSUME NEW t \in Request, NEW u \in Person, Deactivate(t, u) PROVE AccountsInvariant'
  <2>1. AccountsTypeOK'
    BY <1>5 DEF Deactivate, NoReq, Goto, AccountsTypeOK, Kinds, userVars, Roles
  <2>2. CheckedOwners'
    BY <1>5 DEF Deactivate, NoReq, Goto, AccountsTypeOK, CheckedOwners, Removing
  <2> QED BY <2>1, <2>2
<1>6. ASSUME NEW t \in Request, NEW u \in Person, NEW r \in MappedRoles, OidcLogin(t, u, r)
      PROVE AccountsInvariant'
  <2>1. r \in Roles
    BY AccountsAssumption
  <2>2. AccountsTypeOK'
    BY <1>6, <2>1, OwnersAreUsers DEF OidcLogin, NoReq, Goto, AccountsTypeOK, Kinds, userVars
  <2>3. u \notin EnabledOwners
    BY <1>6 DEF OidcLogin, EnabledOwners
  <2>4. CheckedOwners'
    BY <1>6, <2>3 DEF OidcLogin, NoReq, Goto, AccountsTypeOK, CheckedOwners, Removing
  <2> QED BY <2>2, <2>4
<1>7. ASSUME NEW u \in Person, NEW r \in Roles, SignUp(u, r) \/ CliSetRole(u, r) \/ UpsertOwner(u)
      PROVE AccountsInvariant'
  <2>1. AccountsTypeOK'
    BY <1>7 DEF SignUp, CliSetRole, UpsertOwner, AccountsTypeOK, Roles
  <2>2. CheckedOwners'
    BY <1>7 DEF SignUp, CliSetRole, UpsertOwner, CheckedOwners, Removing
  <2> QED BY <2>1, <2>2
<1>8. CASE UNCHANGED accountsVars
  BY <1>8 DEF accountsVars, AccountsTypeOK, CheckedOwners, Removing
<1> QED
  <2>1. "user" \in Roles /\ "owner" \in Roles
    BY DEF Roles
  <2>2. CASE AdminSteps
    BY <1>1, <1>2, <1>3, <1>4, <2>1, <2>2 DEF AdminSteps
  <2>3. CASE UserSteps
    BY <1>5, <1>6, <1>7, <2>1, <2>3 DEF UserSteps
  <2> QED BY <1>8, <2>2, <2>3 DEF AccountsNext

\* ensure_owner_account_mutation_allowed: every request that removes an owner it saw
\* has seen another.
THEOREM OwnersCounted == AccountsSpec => []AccountsInvariant
BY InitInvariant, StepInvariant, PTL DEF AccountsSpec

-----------------------------------------------------------------------------

\* An account other than the target of a request stays as it is.
LEMMA OthersStay ==
    ASSUME AccountsTypeOK, NEW t \in Request, SetRole(t) \/ SetDisabled(t) \/ AdminCreate(t),
           NEW v \in EnabledOwners, v # req[t].target
    PROVE  v \in EnabledOwners'
BY DEF AccountsTypeOK, SetRole, SetDisabled, AdminCreate, userVars, EnabledOwners

\* Finite sets of more than one element have another one.
LEMMA Another == ASSUME NEW S, NEW x \in S, Cardinality(S) > 1 PROVE \E y \in S : y # x
<1> SUFFICES ASSUME \A y \in S : y = x PROVE FALSE
  OBVIOUS
<1>1. S = {x}
  OBVIOUS
<1>2. Cardinality(S) = 1
  BY <1>1, FS_Singleton
<1> QED
  BY <1>2

\* "Cannot remove the last enabled owner", unless a request may remove one and the owners
\* have changed since it looked at them, or its user deactivates, or the operator sets
\* the role.
THEOREM LastOwnerStays == AccountsSpec => LastOwnerKept
<1> DEFINE Excused ==
      \/ \E t \in Request : pc[t] = "write" /\ pc'[t] = "idle"
                               /\ \/ req[t].kind = "self"
                                  \/ Removing(t) /\ req[t].found # EnabledOwners
      \/ UNCHANGED pc
<1>1. ASSUME AccountsInvariant, AccountsNext, EnabledOwners # {}, EnabledOwners' = {}
      PROVE  Excused
  <2> USE DEF AccountsInvariant
  <2>1. ASSUME NEW t \in Request, SetRole(t) \/ SetDisabled(t) \/ AdminCreate(t)
        PROVE  Excused
    <3>1. pc[t] = "write" /\ pc'[t] = "idle"
      BY <1>1, <2>1 DEF SetRole, SetDisabled, AdminCreate, Finish, Goto, AccountsTypeOK
    <3> SUFFICES ASSUME req[t].kind # "self", Removing(t) => req[t].found = EnabledOwners
                 PROVE  FALSE
      BY <3>1
    <3>2. \A v \in EnabledOwners : v = req[t].target
      BY <1>1, <2>1, OthersStay
    <3>3. req[t].target \in EnabledOwners /\ req[t].target \notin EnabledOwners'
      BY <1>1, <3>2
    <3>4. Removing(t)
      <4>1. CASE SetRole(t)
        BY <3>3, <4>1 DEF SetRole, AccountsTypeOK, EnabledOwners, Removing
      <4>2. CASE SetDisabled(t)
        BY <3>3, <4>2 DEF SetDisabled, AccountsTypeOK, EnabledOwners, Removing
      <4>3. CASE AdminCreate(t)
        BY <3>3, <4>3 DEF AdminCreate, userVars, AccountsTypeOK, EnabledOwners, HasAccount
      <4> QED BY <2>1, <4>1, <4>2, <4>3
    <3>5. Cardinality(EnabledOwners) > 1
      BY <1>1, <3>1, <3>3, <3>4 DEF CheckedOwners
    <3> QED BY <3>2, <3>3, <3>5, Another
  <2>2. CASE AdminSteps
    <3>1. ASSUME NEW t \in Request, ReadTarget(t) \/ CountOwners(t) PROVE UNCHANGED userVars
      BY <3>1 DEF ReadTarget, CountOwners
    <3>2. ASSUME NEW t \in Request, NEW a \in Person, NEW x \in Person, NEW k, NEW r,
                 AdminRequest(t, a, k, x, r)
          PROVE  UNCHANGED userVars
      BY <3>2 DEF AdminRequest
    <3>3. ~UNCHANGED userVars
      BY <1>1 DEF userVars, EnabledOwners
    <3> QED BY <2>1, <2>2, <3>1, <3>2, <3>3 DEF AdminSteps
  <2>3. CASE UserSteps
    <3>1. ~UNCHANGED userVars
      BY <1>1 DEF userVars, EnabledOwners
    <3> QED BY <2>3, <3>1 DEF UserSteps, Deactivate, OidcLogin, SignUp, CliSetRole, UpsertOwner
  <2> QED BY <1>1, <2>2, <2>3 DEF AccountsNext
<1>2. AccountsInvariant /\ [AccountsNext]_accountsVars =>
        [EnabledOwners # {} /\ EnabledOwners' = {} => Excused]_accountsVars
  BY <1>1 DEF accountsVars, EnabledOwners
<1> QED
  BY <1>2, OwnersCounted, PTL DEF AccountsSpec, LastOwnerKept
=============================================================================
