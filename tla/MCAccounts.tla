------------------------------ MODULE MCAccounts ------------------------------
(* An instance of Accounts, and of Identities with Invites within it, for TLC.  *)
(* They share no state, so nothing is lost when only one of them moves in a     *)
(* behaviour; and the names of accounts and of requests, so that one set of     *)
(* permutations does for all.                                                   *)
EXTENDS Accounts, Identities, TLC

CONSTANTS u1, u2, u3, i1, i2, t1, t2, s1

VARIABLE part
mcVars == <<part, accountsVars, vars, identityVars>>

\* Only those whom an identity leads to are disabled; a callback does not ask about the
\* others, unless it comes from one, and then it ends there.
SomeDisabled == disabled' \subseteq {identity'[i] : i \in Identity}

MCInit == part \in {"roles", "invites"} /\ AccountsInit /\ IdentitiesInit
MCNext == \/ part = "roles" /\ AccountsNext /\ UNCHANGED <<part, vars, identityVars>>
          \/ part = "invites" /\ IdentitiesNext /\ SomeDisabled
             /\ UNCHANGED <<part, accountsVars>>
MCSpec == MCInit /\ [][MCNext]_mcVars

Symmetries == Permutations(User) \cup Permutations(Invite) \cup Permutations(Request)
=============================================================================
