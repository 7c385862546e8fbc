----------------------------- MODULE InvitesProofs -----------------------------
(* What Invites and Identities promise for any accounts, invites,            *)
(* registrations, roles, identities and callbacks.                           *)
EXTENDS Identities, TLAPS

\* Nobody has registered and no row is held when an instance starts.
LEMMA InitInvariant == ASSUME InvitesAssumption, Init PROVE InvitesInvariant
BY DEF InvitesAssumption, Init, InvitesInvariant, TypeOK, InviteHeld, AdmitsExactlyOne,
       RevokedAdmitsNobody

\* Who an invite admitted is the one it was used by: there are no others.
LEMMA OnlyAdmitted ==
    ASSUME InvitesAssumption, InvitesInvariant, NEW u \in User, NEW i \in Invite
    PROVE  origin[u] = i <=> usedBy[i] = u
BY DEF InvitesAssumption, InvitesInvariant, TypeOK, AdmitsExactlyOne

\* A step that uses no invite, and leaves the invites and accounts that belong to
\* each other alone, admits nobody.
LEMMA AdmittedUnchanged ==
    ASSUME InvitesInvariant, usedBy' = usedBy, origin' = origin,
           \A u \in User, i \in Invite : origin[u] = i =>
               account'[u] = account[u] /\ invite'[i] = invite[i]
    PROVE  AdmitsExactlyOne'
BY DEF InvitesInvariant, AdmitsExactlyOne

\* The end of a transaction gives back its row and no other.
LEMMA EndReleases ==
    ASSUME InvitesAssumption, InvitesInvariant, NEW t \in Registration,
           reading[t] # NoInvite, End(t)
    PROVE  /\ reading' \in [Registration -> Invite \cup {NoInvite}]
           /\ rowLock' \in [Invite -> Registration \cup {NoOne}]
           /\ \A s \in Registration : reading'[s] # NoInvite =>
                 /\ s # t /\ reading'[s] = reading[s] /\ reading[s] # reading[t]
                 /\ rowLock'[reading[s]] = s
           /\ \A i \in Invite : rowLock'[i] # NoOne =>
                 rowLock'[i] = rowLock[i] /\ reading'[rowLock[i]] = i
BY DEF InvitesAssumption, InvitesInvariant, TypeOK, InviteHeld, End

\* Every step leaves the types, what registrations hold, whom an invite admitted
\* and what a revocation promises as they should be.
LEMMA StepInvariant ==
    ASSUME InvitesAssumption, InvitesInvariant, [Next]_vars
    PROVE  InvitesInvariant'
<1> USE InvitesAssumption DEF InvitesInvariant
<1>1. ASSUME NEW i \in Invite, NEW r \in Role, CreateInvite(i, r) PROVE InvitesInvariant'
  <2>1. TypeOK'
    BY <1>1 DEF CreateInvite, TypeOK
  <2>2. InviteHeld'
    BY <1>1 DEF CreateInvite, TypeOK, InviteHeld, Unused, InvitesAssumption
  <2>3. AdmitsExactlyOne'
    BY <1>1, AdmittedUnchanged DEF CreateInvite, TypeOK, AdmitsExactlyOne
  <2>4. RevokedAdmitsNobody'
    BY <1>1 DEF CreateInvite, RevokedAdmitsNobody
  <2> QED BY <2>1, <2>2, <2>3, <2>4
<1>2. ASSUME NEW i \in Invite, RevokeInvite(i) PROVE InvitesInvariant'
  <2>1. TypeOK'
    BY <1>2 DEF RevokeInvite, TypeOK
  <2>2. InviteHeld'
    BY <1>2 DEF RevokeInvite, Free, TypeOK, InviteHeld, Unused, InvitesAssumption
  <2>3. AdmitsExactlyOne'
    BY <1>2, AdmittedUnchanged DEF RevokeInvite
  <2>4. RevokedAdmitsNobody'
    BY <1>2 DEF RevokeInvite, Unused, RevokedAdmitsNobody
  <2> QED BY <2>1, <2>2, <2>3, <2>4
<1>3. ASSUME NEW i \in Invite, Expire(i) PROVE InvitesInvariant'
  <2>1. TypeOK' /\ InviteHeld' /\ RevokedAdmitsNobody'
    BY <1>3 DEF Expire, TypeOK, InviteHeld, Unused, RevokedAdmitsNobody
  <2>2. AdmitsExactlyOne'
    BY <1>3, AdmittedUnchanged DEF Expire
  <2> QED BY <2>1, <2>2
<1>4. CASE Cleanup
  <2>1. TypeOK'
    BY <1>4 DEF Cleanup, TypeOK
  <2>2. InviteHeld'
    BY <1>4 DEF Cleanup, Free, TypeOK, InviteHeld, Unused, InvitesAssumption
  <2>3. ASSUME NEW u \in User, NEW i \in Invite, origin[u] = i PROVE invite'[i] = invite[i]
    BY <1>4, <2>3, OnlyAdmitted DEF Cleanup, Unused, InvitesAssumption
  <2>4. AdmitsExactlyOne'
    BY <1>4, <2>3, AdmittedUnchanged DEF Cleanup
  <2>5. RevokedAdmitsNobody'
    BY <1>4 DEF Cleanup, RevokedAdmitsNobody
  <2> QED BY <2>1, <2>2, <2>4, <2>5
<1>5. ASSUME NEW t \in Registration, NEW i \in Invite, SelectInvite(t, i)
      PROVE InvitesInvariant'
  <2>1. TypeOK'
    BY <1>5 DEF SelectInvite, TypeOK
  <2>2. InviteHeld'
    BY <1>5 DEF SelectInvite, Free, TypeOK, InviteHeld, Unused, InvitesAssumption
  <2>3. AdmitsExactlyOne'
    BY <1>5, AdmittedUnchanged DEF SelectInvite
  <2>4. RevokedAdmitsNobody'
    BY <1>5 DEF SelectInvite, RevokedAdmitsNobody
  <2> QED BY <2>1, <2>2, <2>3, <2>4
<1>6. ASSUME NEW t \in Registration, NEW u \in User, CommitRegistration(t, u)
      PROVE InvitesInvariant'
  <2> DEFINE i == reading[t]
  <2>1. /\ i \in Invite /\ Unused(i) /\ i \notin revoked /\ account[u] = NoRole
        /\ account' = [account EXCEPT ![u] = invite[i]]
        /\ usedBy' = [usedBy EXCEPT ![i] = u]
        /\ origin' = [origin EXCEPT ![u] = i]
        /\ End(t) /\ UNCHANGED <<invite, revoked, expired>>
    BY <1>6 DEF CommitRegistration, InviteHeld, TypeOK
  <2>2. TypeOK'
    BY <2>1, EndReleases DEF TypeOK, InvitesAssumption
  <2>3. InviteHeld'
    BY <2>1, <2>2, EndReleases DEF TypeOK, InviteHeld, Unused, InvitesAssumption
  <2>4. \A j \in Invite : origin[u] # j
    BY <2>1, OnlyAdmitted DEF AdmitsExactlyOne, InvitesAssumption
  <2>5. \A v \in User, j \in Invite : origin'[v] = j <=> usedBy'[j] = v
    BY <2>1, <2>4, OnlyAdmitted DEF TypeOK, Unused, InvitesAssumption
  <2>6. ASSUME NEW j \in Invite
        PROVE  {v \in User : origin'[v] = j} = {usedBy'[j]} \ {NoUser}
    BY <2>2, <2>5 DEF TypeOK, InvitesAssumption
  <2>7. ASSUME NEW j \in Invite, NEW v \in User, origin'[v] = j
        PROVE  account'[v] = invite'[j] /\ invite'[j] # NoRole
    BY <2>1, <2>7 DEF TypeOK, AdmitsExactlyOne, Unused
  <2>8. AdmitsExactlyOne'
    BY <2>6, <2>7 DEF AdmitsExactlyOne
  <2>9. RevokedAdmitsNobody'
    BY <2>1 DEF RevokedAdmitsNobody, TypeOK
  <2> QED BY <2>2, <2>3, <2>8, <2>9
<1>7. ASSUME NEW t \in Registration, Rollback(t) PROVE InvitesInvariant'
  <2>1. reading[t] # NoInvite /\ End(t)
    BY <1>7 DEF Rollback
  <2>2. TypeOK'
    BY <1>7, <2>1, EndReleases DEF Rollback, TypeOK
  <2>3. InviteHeld'
    BY <1>7, <2>1, EndReleases DEF Rollback, TypeOK, InviteHeld, Unused, InvitesAssumption
  <2>4. AdmitsExactlyOne' /\ RevokedAdmitsNobody'
    BY <1>7, AdmittedUnchanged DEF Rollback, RevokedAdmitsNobody
  <2> QED BY <2>2, <2>3, <2>4
<1>8. ASSUME NEW u \in User, NEW r \in Role, CreateUser(u, r) PROVE InvitesInvariant'
  <2>1. TypeOK' /\ InviteHeld' /\ RevokedAdmitsNobody'
    BY <1>8 DEF CreateUser, TypeOK, InviteHeld, Unused, RevokedAdmitsNobody
  <2>2. ASSUME NEW v \in User, NEW i \in Invite, origin[v] = i PROVE account'[v] = account[v]
    BY <1>8, <2>2 DEF CreateUser, TypeOK, AdmitsExactlyOne
  <2>3. AdmitsExactlyOne'
    BY <1>8, <2>2, AdmittedUnchanged DEF CreateUser
  <2> QED BY <2>1, <2>3
<1>9. CASE UNCHANGED vars
  BY <1>9 DEF vars, TypeOK, InviteHeld, AdmitsExactlyOne, RevokedAdmitsNobody, Unused
<1> QED
  BY <1>1, <1>2, <1>3, <1>4, <1>5, <1>6, <1>7, <1>8, <1>9 DEF Next

\* The invariant: what a registration has read stays true until its transaction ends.
THEOREM InvitesHeld == Spec => []InvitesInvariant
<1>1. Init => InvitesInvariant
  BY InitInvariant, InvitesAssumption
<1>2. InvitesInvariant /\ [Next]_vars => InvitesInvariant'
  BY StepInvariant, InvitesAssumption
<1> QED
  BY <1>1, <1>2, PTL DEF Spec

\* create_user_with_invite: an invite admits one account, with its role, and is used
\* up by no other than the one it admitted.
THEOREM OneAccountPerInvite == Spec => []AdmitsExactlyOne
<1>1. InvitesInvariant => AdmitsExactlyOne
  BY DEF InvitesInvariant
<1> QED
  BY <1>1, InvitesHeld, PTL

\* revoke_invite_token: a registration that is under way does not get past a
\* revocation.
THEOREM RevocationsHold == Spec => []RevokedAdmitsNobody
<1>1. InvitesInvariant => RevokedAdmitsNobody
  BY DEF InvitesInvariant
<1> QED
  BY <1>1, InvitesHeld, PTL
-----------------------------------------------------------------------------
(* Identities.  A callback links what it has read; that the account is there *)
(* by then, and stays there, is what it relies on.                           *)

identitiesVars == <<vars, identityVars>>

\* No step of a registration removes an account or gives it another role.
LEMMA AccountsStay ==
    ASSUME InvitesAssumption, TypeOK, [Next]_vars, NEW u \in User, account[u] # NoRole
    PROVE  account'[u] = account[u]
BY DEF Next, vars, TypeOK, CreateInvite, RevokeInvite, Expire, Cleanup, SelectInvite,
       Rollback, CommitRegistration, CreateUser

LEMMA LinkingRead ==
    ASSUME InvitesAssumption, IdentitiesTypeOK, NEW c \in Callback, linking[c].step # "idle"
    PROVE  /\ linking[c] \in LinkingRow /\ linking[c].user \in User
           /\ linking[c].identity \in Identity
<1>1. linking[c] # Idle
  BY DEF Idle
<1>2. linking[c] \in LinkingRow
  BY <1>1 DEF IdentitiesTypeOK
<1> QED BY <1>2 DEF LinkingRow

LEMMA IdleIsIdle == Idle.step = "idle" /\ \A q \in LinkingRow : q # Idle
BY DEF Idle, LinkingRow

\* Accounts and invites move as Invites says, or not at all.
LEMMA StillRegistrations ==
    ASSUME InvitesAssumption, IdentitiesTypeOK, [IdentitiesNext]_identitiesVars
    PROVE  [Next]_vars
<1>1. ASSUME NEW c \in Callback, NEW r \in Role, ProvisionWrite(c, r) PROVE [Next]_vars
  <2>1. linking[c].user \in User
    BY <1>1, LinkingRead DEF ProvisionWrite
  <2>2. CreateUser(linking[c].user, r) \/ UNCHANGED vars
    BY <1>1 DEF ProvisionWrite
  <2> QED BY <2>1, <2>2 DEF Next
<1> QED BY <1>1 DEF IdentitiesNext, identitiesVars, Registrations, LinkRead, Adopt,
                    ProvisionRead, Link, DropCallback, GivePassword, DisableOrEnable

\* A request reads what it will link, and nothing else changes.
LEMMA ProceedStep ==
    ASSUME InvitesAssumption, IdentitiesInvariant, InvitesInvariant', NEW c \in Callback,
           NEW s \in {"link", "create"}, NEW u \in User, NEW i \in Identity,
           Proceed(c, s, u, i), s = "link" => Exists(u), UNCHANGED <<vars, flagVars, identity>>
    PROVE  IdentitiesInvariant'
<1> DEFINE q == [step |-> s, user |-> u, identity |-> i]
<1>1. q \in LinkingRow /\ q.step = s /\ q.user = u
  BY DEF LinkingRow
<1>2. linking' = [linking EXCEPT ![c] = q]
  BY DEF Proceed
<1> HIDE DEF q
<1>3. IdentitiesTypeOK'
  BY <1>1, <1>2 DEF IdentitiesInvariant, IdentitiesTypeOK, flagVars
<1>4. account' = account
  BY DEF vars
<1>5. ASSUME NEW d \in Callback PROVE LinkReady(d)'
  <2>1. LinkReady(d)
    BY DEF IdentitiesInvariant
  <2>2. linking'[d] = IF d = c THEN q ELSE linking[d]
    BY <1>2 DEF IdentitiesInvariant, IdentitiesTypeOK
  <2> QED BY <2>1, <2>2, <1>1, <1>4 DEF LinkReady, Exists
<1> QED BY <1>3, <1>4, <1>5 DEF IdentitiesInvariant, LeadsToAccount, Exists

\* A request is over, and has linked nothing, or an identity nobody else has.
LEMMA LinkEnds ==
    ASSUME InvitesAssumption, IdentitiesInvariant, InvitesInvariant', NEW c \in Callback,
           linking' = [linking EXCEPT ![c] = Idle], account' = account,
           UNCHANGED flagVars, identity' \in [Identity -> User \cup {NoUser}],
           \A i \in Identity : identity'[i] \in {identity[i], NoUser} \/ Exists(identity'[i])
    PROVE  IdentitiesInvariant'
<1>1. IdentitiesTypeOK'
  BY DEF IdentitiesInvariant, IdentitiesTypeOK, flagVars
<1>2. ASSUME NEW d \in Callback PROVE LinkReady(d)'
  <2>1. LinkReady(d)
    BY DEF IdentitiesInvariant
  <2>2. linking'[d] = IF d = c THEN Idle ELSE linking[d]
    BY DEF IdentitiesInvariant, IdentitiesTypeOK
  <2> QED BY <2>1, <2>2, IdleIsIdle DEF LinkReady, Exists
<1>3. \A i \in Identity : LeadsToAccount(i)'
  BY DEF IdentitiesInvariant, LeadsToAccount, Exists
<1> QED BY <1>1, <1>2, <1>3 DEF IdentitiesInvariant

LEMMA LinkWrites ==
    ASSUME InvitesAssumption, IdentitiesInvariant, NEW c \in Callback, Link(c)
    PROVE  /\ identity' \in [Identity -> User \cup {NoUser}]
           /\ \A i \in Identity : identity'[i] = identity[i]
                                     \/ (identity[i] = NoUser /\ Exists(identity'[i]))
<1>1. /\ linking[c].user \in User /\ linking[c].identity \in Identity
      /\ Exists(linking[c].user)
  BY LinkingRead DEF IdentitiesInvariant, Link, LinkReady
<1>2. identity \in [Identity -> User \cup {NoUser}]
  BY DEF IdentitiesInvariant, IdentitiesTypeOK
<1>3. PICK i \in Identity, u \in User :
         /\ Exists(u)
         /\ identity' = IF identity[i] \in {NoUser, u} THEN [identity EXCEPT ![i] = u]
                        ELSE identity
  BY <1>1 DEF Link
<1> QED BY <1>2, <1>3

LEMMA ProvisionWriteStep ==
    ASSUME InvitesAssumption, IdentitiesInvariant, InvitesInvariant', NEW c \in Callback,
           NEW r \in Role, ProvisionWrite(c, r)
    PROVE  IdentitiesInvariant'
<1> DEFINE u == linking[c].user
           q == [linking[c] EXCEPT !.step = "link"]
<1>1. linking[c] \in LinkingRow /\ u \in User
  BY LinkingRead DEF IdentitiesInvariant, ProvisionWrite
<1>2. q \in LinkingRow /\ q.step = "link" /\ q.user = u
  BY <1>1 DEF LinkingRow
<1>3. CASE Exists(u)
  <2>1. /\ linking' = [linking EXCEPT ![c] = Idle] /\ account' = account
        /\ UNCHANGED flagVars /\ identity' = identity
    BY <1>3 DEF ProvisionWrite, vars
  <2> QED BY <2>1, LinkEnds DEF IdentitiesInvariant, IdentitiesTypeOK, flagVars
<1>4. CASE ~Exists(u)
  <2>1. /\ linking' = [linking EXCEPT ![c] = q] /\ CreateUser(u, r)
        /\ UNCHANGED flagVars /\ identity' = identity
    BY <1>4 DEF ProvisionWrite
  <2> HIDE DEF q
  <2>2. account'[u] # NoRole /\ \A v \in User : Exists(v) => account'[v] # NoRole
    BY <1>1, <2>1 DEF Exists, CreateUser, IdentitiesInvariant, InvitesInvariant, TypeOK,
                      InvitesAssumption
  <2>3. IdentitiesTypeOK'
    BY <1>2, <2>1 DEF IdentitiesInvariant, IdentitiesTypeOK, flagVars
  <2>4. ASSUME NEW d \in Callback PROVE LinkReady(d)'
    <3>1. LinkReady(d)
      BY DEF IdentitiesInvariant
    <3>2. linking'[d] = IF d = c THEN q ELSE linking[d]
      BY <2>1 DEF IdentitiesInvariant, IdentitiesTypeOK
    <3>3. linking[d].step = "link" => linking[d].user \in User
      BY LinkingRead DEF IdentitiesInvariant
    <3> QED BY <3>1, <3>2, <3>3, <2>2, <1>2 DEF LinkReady, Exists
  <2>5. \A i \in Identity : LeadsToAccount(i)'
    BY <2>1, <2>2 DEF IdentitiesInvariant, IdentitiesTypeOK, LeadsToAccount, Exists
  <2> QED BY <2>3, <2>4, <2>5 DEF IdentitiesInvariant
<1> QED BY <1>3, <1>4

\* Registrations and resets touch no callback and no identity.
LEMMA OthersStep ==
    ASSUME InvitesAssumption, IdentitiesInvariant, InvitesInvariant', [Next]_vars,
           hasPassword' \subseteq User, disabled' \subseteq User, UNCHANGED <<identity, linking>>
    PROVE  IdentitiesInvariant'
<1>1. \A u \in User : Exists(u) => Exists(u)'
  BY AccountsStay DEF Exists, IdentitiesInvariant, InvitesInvariant
<1>2. IdentitiesTypeOK'
  BY DEF IdentitiesInvariant, IdentitiesTypeOK
<1>3. ASSUME NEW d \in Callback PROVE LinkReady(d)'
  <2>1. linking[d].step = "link" => linking[d].user \in User
    BY LinkingRead DEF IdentitiesInvariant
  <2> QED BY <2>1, <1>1 DEF IdentitiesInvariant, LinkReady, Exists
<1>4. \A i \in Identity : LeadsToAccount(i)'
  BY <1>1 DEF IdentitiesInvariant, IdentitiesTypeOK, LeadsToAccount, Exists
<1> QED BY <1>2, <1>3, <1>4 DEF IdentitiesInvariant

LEMMA IdentitiesInitInvariant ==
    ASSUME InvitesAssumption, IdentitiesInit
    PROVE  IdentitiesInvariant
<1>1. InvitesInvariant
  BY InitInvariant DEF IdentitiesInit
<1> QED BY <1>1, IdleIsIdle DEF IdentitiesInit, IdentitiesInvariant, IdentitiesTypeOK,
                                LinkReady, LeadsToAccount

LEMMA IdentitiesStepInvariant ==
    ASSUME InvitesAssumption, IdentitiesInvariant, [IdentitiesNext]_identitiesVars
    PROVE  IdentitiesInvariant'
<1>1. [Next]_vars
  BY StillRegistrations DEF IdentitiesInvariant
<1>2. InvitesInvariant'
  BY <1>1, StepInvariant DEF IdentitiesInvariant
<1>3. hasPassword \subseteq User /\ disabled \subseteq User
  BY DEF IdentitiesInvariant, IdentitiesTypeOK
<1>4. CASE Registrations
  BY <1>1, <1>2, <1>3, <1>4, OthersStep DEF Registrations
<1>5. ASSUME NEW c \in Callback, NEW u \in User, NEW i \in Identity,
             LinkRead(c, u, i) \/ Adopt(c, u, i) \/ ProvisionRead(c, u, i)
      PROVE  IdentitiesInvariant'
  BY <1>2, <1>5, ProceedStep DEF LinkRead, Adopt, ProvisionRead
<1>6. ASSUME NEW c \in Callback, NEW r \in Role, ProvisionWrite(c, r)
      PROVE  IdentitiesInvariant'
  BY <1>2, <1>6, ProvisionWriteStep
<1>7. ASSUME NEW c \in Callback, Link(c) PROVE IdentitiesInvariant'
  BY <1>2, <1>7, LinkWrites, LinkEnds DEF Link, vars
<1>8. ASSUME NEW c \in Callback, DropCallback(c) PROVE IdentitiesInvariant'
  BY <1>2, <1>8, LinkEnds DEF DropCallback, vars, IdentitiesInvariant, IdentitiesTypeOK
<1>9. ASSUME NEW u \in User, GivePassword(u) \/ DisableOrEnable(u) PROVE IdentitiesInvariant'
  BY <1>1, <1>2, <1>3, <1>9, OthersStep DEF GivePassword, DisableOrEnable
<1>10. CASE UNCHANGED identitiesVars
  BY <1>1, <1>2, <1>3, <1>10, OthersStep DEF identitiesVars, identityVars, flagVars
<1> QED BY <1>4, <1>5, <1>6, <1>7, <1>8, <1>9, <1>10 DEF IdentitiesNext

\* No step moves an identity to another account, or to one that is not there.
LEMMA IdentityMoves ==
    ASSUME InvitesAssumption, IdentitiesInvariant, [IdentitiesNext]_identitiesVars,
           NEW i \in Identity
    PROVE  /\ identity[i] # NoUser => identity'[i] = identity[i]
           /\ identity'[i] # NoUser => account'[identity'[i]] # NoRole
<1>1. IdentitiesInvariant'
  BY IdentitiesStepInvariant
<1>2. \/ \E c \in Callback : Link(c)
      \/ identity' = identity
  BY DEF IdentitiesNext, identitiesVars, identityVars, Registrations, LinkRead, Adopt,
         ProvisionRead, ProvisionWrite, DropCallback, GivePassword, DisableOrEnable
<1>3. identity[i] # NoUser => identity'[i] = identity[i]
  BY <1>2, LinkWrites
<1> QED BY <1>1, <1>3 DEF IdentitiesInvariant, LeadsToAccount, Exists

\* Whoever registers while callbacks are under way is admitted as Invites says, what a
\* callback is about to link is there, and so is whom an identity leads to.
THEOREM IdentitiesLead == IdentitiesSpec => []IdentitiesInvariant
<1>1. IdentitiesInit => IdentitiesInvariant
  BY InvitesAssumption, IdentitiesInitInvariant
<1>2. IdentitiesInvariant /\ [IdentitiesNext]_identitiesVars => IdentitiesInvariant'
  BY InvitesAssumption, IdentitiesStepInvariant
<1> QED BY <1>1, <1>2, PTL DEF IdentitiesSpec, identitiesVars

\* link_oidc_identity never moves an identity from one account to another, whatever two
\* callbacks have read before they write, and never links one to an account that is not
\* there.
THEOREM IdentitiesStay == IdentitiesSpec => IdentityStays
<1>1. IdentitiesInvariant /\ [IdentitiesNext]_identitiesVars =>
         [\A i \in Identity :
             /\ identity[i] # NoUser => identity'[i] = identity[i]
             /\ identity'[i] # NoUser => account'[identity'[i]] # NoRole]_identitiesVars
  BY InvitesAssumption, IdentityMoves
<1> QED BY <1>1, IdentitiesLead, PTL DEF IdentitiesSpec, IdentityStays, identitiesVars

\* With callbacks beside them, registrations are still those of Invites: what is proved of
\* Invites holds of both together.
THEOREM IdentitiesImplementInvites == IdentitiesSpec => Spec
<1>1. IdentitiesInit => Init
  BY DEF IdentitiesInit
<1>2. IdentitiesInvariant /\ [IdentitiesNext]_identitiesVars => [Next]_vars
  BY InvitesAssumption, StillRegistrations DEF IdentitiesInvariant
<1> QED BY <1>1, <1>2, IdentitiesLead, PTL DEF IdentitiesSpec, Spec, identitiesVars
=============================================================================
