------------------------------ MODULE Identities ------------------------------
(***************************************************************************)
(* Identities at an OIDC provider, beside the registrations of Invites.    *)
(*                                                                         *)
(* A callback looks up who the identity belongs to, decides, and links it  *)
(* in a later statement; accounts may come into being, get a password or   *)
(* be linked in between.                                                   *)
(***************************************************************************)
EXTENDS Invites

CONSTANTS Identity,   \* subjects at the provider
          Callback    \* requests to the callback under way

VARIABLES hasPassword,  \* accounts with a password_hash
          disabled,     \* accounts that are disabled (Accounts has who may do that)
          identity,     \* oidc_identities: the account, or NoUser
          linking       \* a callback between its statements

flagVars     == <<hasPassword, disabled>>
identityVars == <<flagVars, identity, linking>>

Idle == [step |-> "idle", user |-> NoUser, identity |-> NoUser]
Exists(u) == account[u] # NoRole

IdentitiesInit == /\ Init
                  /\ hasPassword = {} /\ disabled = {}
                  /\ identity = [i \in Identity |-> NoUser]
                  /\ linking = [c \in Callback |-> Idle]

\* user_by_oidc_identity, which does not see the identities of disabled accounts.
Found(i) == IF identity[i] \in disabled THEN NoUser ELSE identity[i]

Proceed(c, step, u, i) ==
    /\ linking[c] = Idle
    /\ linking' = [linking EXCEPT ![c] = [step |-> step, user |-> u, identity |-> i]]

\* The callback of a user who is signed in and links an identity from the account
\* page: refused if it belongs to somebody else.
LinkRead(c, u, i) ==
    /\ Exists(u) /\ u \notin disabled /\ Found(i) \in {NoUser, u}
    /\ Proceed(c, "link", u, i)
    /\ UNCHANGED <<vars, flagVars, identity>>

\* resolve_login_user for an identity that leads nowhere: the account with its address
\* is adopted if it has no password, disabled or not; if there is none, one is made.
Adopt(c, u, i) ==
    /\ Found(i) = NoUser /\ Exists(u) /\ u \notin hasPassword
    /\ Proceed(c, "link", u, i)
    /\ UNCHANGED <<vars, flagVars, identity>>
ProvisionRead(c, u, i) ==
    /\ Found(i) = NoUser /\ ~Exists(u)
    /\ Proceed(c, "create", u, i)
    /\ UNCHANGED <<vars, flagVars, identity>>

\* create_user; the address may be taken by now.
ProvisionWrite(c, r) ==
    LET u == linking[c].user
    IN  /\ linking[c].step = "create"
        /\ IF Exists(u)
           THEN linking' = [linking EXCEPT ![c] = Idle] /\ UNCHANGED vars
           ELSE linking' = [linking EXCEPT ![c].step = "link"] /\ CreateUser(u, r)
        /\ UNCHANGED <<flagVars, identity>>

\* Mutant: the upsert writes over a link to another account.
LinkAnyway(c) ==
    /\ linking[c].step = "link"
    /\ identity' = [identity EXCEPT ![linking[c].identity] = linking[c].user]
    /\ linking' = [linking EXCEPT ![c] = Idle]
    /\ UNCHANGED <<vars, flagVars>>

\* link_oidc_identity: an upsert that leaves the row of another account alone, and
\* then fails the request.
Link(c) ==
    LET i == linking[c].identity
    IN  /\ linking[c].step = "link"
        /\ identity' = IF identity[i] \in {NoUser, linking[c].user}
                       THEN [identity EXCEPT ![i] = linking[c].user] ELSE identity
        /\ linking' = [linking EXCEPT ![c] = Idle]
        /\ UNCHANGED <<vars, flagVars>>

\* An error, or a client that went away.
DropCallback(c) == /\ linking[c] # Idle
                   /\ linking' = [linking EXCEPT ![c] = Idle]
                   /\ UNCHANGED <<vars, flagVars, identity>>

\* A reset gives an account a password, whether it had one or not.
GivePassword(u) == /\ Exists(u)
                   /\ hasPassword' = hasPassword \cup {u} /\ hasPassword' # hasPassword
                   /\ UNCHANGED <<vars, disabled, identity, linking>>

\* set_user_disabled, in either direction, whatever callbacks are under way.
DisableOrEnable(u) ==
    /\ Exists(u)
    /\ disabled' = IF u \in disabled THEN disabled \ {u} ELSE disabled \cup {u}
    /\ UNCHANGED <<vars, hasPassword, identity, linking>>

\* The steps of Invites.  Who registers chooses a password; an account made in
\* another way may have none.
Registrations ==
    /\ Next
    /\ LET new == {u \in User : ~Exists(u) /\ account'[u] # NoRole}
       IN  \E local \in SUBSET new :
              /\ \A u \in new : origin'[u] # NoInvite => u \in local
              /\ hasPassword' = hasPassword \cup local
    /\ UNCHANGED <<disabled, identity, linking>>

IdentitiesNext ==
    \/ Registrations
    \/ \E c \in Callback :
          \/ \E u \in User, i \in Identity : LinkRead(c, u, i) \/ Adopt(c, u, i)
                                                \/ ProvisionRead(c, u, i)
          \/ \E r \in Role : ProvisionWrite(c, r)
          \/ Link(c) \/ DropCallback(c)
    \/ \E u \in User : GivePassword(u) \/ DisableOrEnable(u)

IdentitiesSpec == IdentitiesInit /\ [][IdentitiesNext]_<<vars, identityVars>>

-----------------------------------------------------------------------------

\* The type invariant.
LinkingRow == [step : {"link", "create"}, user : User, identity : Identity]
IdentitiesTypeOK == /\ hasPassword \subseteq User /\ disabled \subseteq User
                    /\ identity \in [Identity -> User \cup {NoUser}]
                    /\ linking \in [Callback -> LinkingRow \cup {Idle}]

\* Whom a callback is about to link is there, and so is whom an identity leads to.
LinkReady(c)    == linking[c].step = "link" => Exists(linking[c].user)
LeadsToAccount(i) == identity[i] # NoUser => Exists(identity[i])

\* What the run checks.
IdentitiesInvariant == /\ InvitesInvariant /\ IdentitiesTypeOK
                       /\ \A c \in Callback : LinkReady(c)
                       /\ \A i \in Identity : LeadsToAccount(i)

\* An identity never moves from one account to another, and never leads to an
\* account that is not there, whatever two callbacks have read before they write.
IdentityStays ==
    [][\A i \in Identity :
          /\ identity[i] # NoUser => identity'[i] = identity[i]
          /\ identity'[i] # NoUser => account'[identity'[i]] # NoRole]_<<vars, identityVars>>
=============================================================================
