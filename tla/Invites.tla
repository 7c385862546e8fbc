-------------------------------- MODULE Invites --------------------------------
(***************************************************************************)
(* Invitations, and the accounts that register with them.                  *)
(*                                                                         *)
(* A registration is one transaction: it reads the invite and locks its    *)
(* row, inserts the account and claims the invite.  SELECT ... FOR UPDATE  *)
(* makes the other statements on that row wait on PostgreSQL; on SQLite,   *)
(* of the transactions that read it, one writes and the others give up.    *)
(***************************************************************************)
EXTENDS Naturals

CONSTANTS
    User,              \* accounts, by e-mail address
    Invite,            \* rows invite_tokens can ever hold
    Registration,      \* requests to /register under way
    Role,              \* roles an invite can carry
    NoUser, NoOne, NoInvite, NoRole

ASSUME InvitesAssumption ==
    /\ NoUser \notin User /\ NoInvite \notin Invite /\ NoOne \notin Registration
    /\ NoRole \notin Role

VARIABLES
    account,     \* users: the role an account was created with; NoRole if there is none
    invite,      \* invite_tokens.role; NoRole if there is no such row
    usedBy,      \* invite_tokens.used_by_user_id
    revoked,     \* invites whose revoked_at is set
    expired,     \* invites whose expires_at has come
    rowLock,     \* the transaction that holds the row of an invite
    reading,     \* the invite a registration has read, between its statements
    origin       \* history: the invite an account was registered with

vars == <<account, invite, usedBy, revoked, expired, rowLock, reading, origin>>

Unused(i) == invite[i] # NoRole /\ usedBy[i] = NoUser
Free(I)   == \A i \in I : rowLock[i] = NoOne

Init == /\ account = [u \in User |-> NoRole] /\ origin = [u \in User |-> NoInvite]
        /\ invite = [i \in Invite |-> NoRole] /\ usedBy = [i \in Invite |-> NoUser]
        /\ revoked = {} /\ expired = {}
        /\ rowLock = [i \in Invite |-> NoOne]
        /\ reading = [t \in Registration |-> NoInvite]

-----------------------------------------------------------------------------

\* An admin's request; the token is new.
CreateInvite(i, r) ==
    /\ invite[i] = NoRole /\ i \notin expired
    /\ invite' = [invite EXCEPT ![i] = r]
    /\ UNCHANGED <<account, usedBy, revoked, expired, rowLock, reading, origin>>

\* Mutant: what is used is revoked as well.
RevokeAnyInvite(i) ==
    /\ invite[i] # NoRole /\ Free({i})
    /\ revoked' = revoked \cup {i} /\ revoked' # revoked
    /\ UNCHANGED <<account, invite, usedBy, expired, rowLock, reading, origin>>

\* revoke_invite_token spares what is used.
RevokeInvite(i) ==
    /\ Unused(i) /\ Free({i})
    /\ revoked' = revoked \cup {i} /\ revoked' # revoked
    /\ UNCHANGED <<account, invite, usedBy, expired, rowLock, reading, origin>>

\* The clock reaches expires_at, which not every invite has.
Expire(i) ==
    /\ invite[i] # NoRole
    /\ expired' = expired \cup {i} /\ expired' # expired
    /\ UNCHANGED <<account, invite, usedBy, revoked, rowLock, reading, origin>>

\* cleanup_expired_auth_state deletes the invites that expired unused.
Cleanup ==
    LET gone == {i \in expired : Unused(i)}
    IN  /\ gone # {} /\ Free(gone)
        /\ invite' = [i \in Invite |-> IF i \in gone THEN NoRole ELSE invite[i]]
        /\ UNCHANGED <<account, usedBy, revoked, expired, rowLock, reading, origin>>

\* Mutants: the row is only read; revocations are not looked at.
SelectInviteUnlocked(t, i) ==
    /\ reading[t] = NoInvite /\ Free({i})
    /\ Unused(i) /\ i \notin revoked \cup expired
    /\ reading' = [reading EXCEPT ![t] = i]
    /\ UNCHANGED <<account, invite, usedBy, revoked, expired, rowLock, origin>>

\* create_user_with_invite: the invite must be unused, not revoked, not expired.
SelectInvite(t, i) ==
    /\ reading[t] = NoInvite /\ Free({i})
    /\ Unused(i) /\ i \notin revoked \cup expired
    /\ reading' = [reading EXCEPT ![t] = i]
    /\ rowLock' = [rowLock EXCEPT ![i] = t]
    /\ UNCHANGED <<account, invite, usedBy, revoked, expired, origin>>

\* The transaction of t ends, and gives back the row.
End(t) == /\ reading' = [reading EXCEPT ![t] = NoInvite]
          /\ rowLock' = [i \in Invite |-> IF rowLock[i] = t THEN NoOne ELSE rowLock[i]]

\* Mutant: the claim is a statement of its own, which may be missed.
CommitRegistrationUnclaimed(t, u) ==
    /\ reading[t] # NoInvite /\ account[u] = NoRole
    /\ account' = [account EXCEPT ![u] = invite[reading[t]]]
    /\ origin'  = [origin EXCEPT ![u] = reading[t]]
    /\ End(t)
    /\ UNCHANGED <<invite, usedBy, revoked, expired>>

\* The account is inserted with the role of the invite, the invite is claimed, and
\* both are committed; a claim that finds the invite used undoes the account.
CommitRegistration(t, u) ==
    LET i == reading[t]
    IN  /\ i # NoInvite /\ account[u] = NoRole
        /\ Unused(i)
        /\ account' = [account EXCEPT ![u] = invite[i]]
        /\ usedBy'  = [usedBy EXCEPT ![i] = u]
        /\ origin'  = [origin EXCEPT ![u] = i]
        /\ End(t)
        /\ UNCHANGED <<invite, revoked, expired>>

\* The address is taken, the invite used meanwhile, another error, or the client
\* has gone.
Rollback(t) == /\ reading[t] # NoInvite
               /\ End(t)
               /\ UNCHANGED <<account, invite, usedBy, revoked, expired, origin>>

\* Accounts that come into being in another way.
CreateUser(u, r) ==
    /\ account[u] = NoRole
    /\ account' = [account EXCEPT ![u] = r]
    /\ UNCHANGED <<invite, usedBy, revoked, expired, rowLock, reading, origin>>

Next == \/ \E i \in Invite : \/ \E r \in Role : CreateInvite(i, r)
                             \/ RevokeInvite(i) \/ Expire(i)
                             \/ \E t \in Registration : SelectInvite(t, i)
        \/ Cleanup
        \/ \E t \in Registration : Rollback(t) \/ \E u \in User : CommitRegistration(t, u)
        \/ \E u \in User, r \in Role : CreateUser(u, r)

Spec == Init /\ [][Next]_vars

-----------------------------------------------------------------------------
(* Properties. *)

\* The type invariant.
TypeOK ==
    /\ account \in [User -> Role \cup {NoRole}] /\ origin \in [User -> Invite \cup {NoInvite}]
    /\ invite \in [Invite -> Role \cup {NoRole}] /\ usedBy \in [Invite -> User \cup {NoUser}]
    /\ revoked \subseteq Invite /\ expired \subseteq Invite
    /\ rowLock \in [Invite -> Registration \cup {NoOne}]
    /\ reading \in [Registration -> Invite \cup {NoInvite}]

\* What a registration has read it holds, and it stays true until it ends: nobody
\* else uses the invite, revokes it, or deletes it as expired.
InviteHeld ==
    /\ \A t \in Registration : reading[t] # NoInvite =>
          /\ rowLock[reading[t]] = t
          /\ Unused(reading[t]) /\ reading[t] \notin revoked
    /\ \A i \in Invite : rowLock[i] # NoOne => reading[rowLock[i]] = i

\* Those who registered with an invite are exactly those it was used by, and have
\* the role it carries: "each one admits exactly one account", and what fails to
\* create an account does not use one up.
AdmitsExactlyOne ==
    \A i \in Invite :
        /\ {u \in User : origin[u] = i} = {usedBy[i]} \ {NoUser}
        /\ \A u \in User : origin[u] = i => account[u] = invite[i] /\ invite[i] # NoRole

\* A revoked invite has admitted nobody, and will not.
RevokedAdmitsNobody == \A i \in revoked : usedBy[i] = NoUser

InvitesInvariant == TypeOK /\ InviteHeld /\ AdmitsExactlyOne /\ RevokedAdmitsNobody
=============================================================================
