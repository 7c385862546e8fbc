------------------------------- MODULE Accounts -------------------------------
(***************************************************************************)
(* Who has an account and with which role: admins who change roles and     *)
(* disable accounts, logins through OIDC that write back the role of a     *)
(* claim, people who sign up and who deactivate themselves, and the        *)
(* operator's commands.                                                    *)
(*                                                                         *)
(* The handlers run without a transaction: what a request reads about its  *)
(* actor, its target and the owners it reads in statements of their own,   *)
(* and its last statement writes whatever has happened since.              *)
(***************************************************************************)
EXTENDS Naturals, FiniteSets

CONSTANTS
    Person,              \* accounts, by e-mail address
    Request,           \* requests under way
    MappedRoles,       \* the roles oidc.role_mappings leads to
    Nobody

\* Roles; no decision in this module tells a moderator from a user.
Roles == {"user", "admin", "owner"}

ASSUME AccountsAssumption ==
    /\ IsFiniteSet(Person) /\ Nobody \notin Person
    /\ MappedRoles \subseteq Roles

VARIABLES
    role,        \* users.role; "none" if there is no such account
    enabled,     \* accounts whose is_disabled is 0
    pc,          \* what a request does next
    req          \* what it is about, and what it has read

accountsVars == <<role, enabled, pc, req>>
userVars == <<role, enabled>>

\* kind and to: what is asked for; by: whether the actor is an owner; found: the
\* enabled owners when a request that may remove one looked (history).
NoReq == [kind |-> "none", target |-> Nobody, to |-> "user", by |-> FALSE, found |-> {}]
Kinds == {"role", "disable", "enable", "create", "self", "oidc"}

HasAccount(u) == role[u] # "none"
EnabledOwners == {u \in enabled : role[u] = "owner"}

Goto(t, where) == pc' = [pc EXCEPT ![t] = where]
Finish(t) == Goto(t, "idle") /\ req' = [req EXCEPT ![t] = NoReq]

\* Where an instance starts: nobody, until the operator creates an owner.
AccountsInit == /\ role = [u \in Person |-> "none"] /\ enabled = {}
                /\ pc = [t \in Request |-> "idle"]
                /\ req = [t \in Request |-> NoReq]

-----------------------------------------------------------------------------
(* Admins. *)

\* The session leads to an enabled account; only owners hand out ownership, and
\* "admins cannot disable themselves".
AdminRequest(t, a, k, x, r) ==
    /\ pc[t] = "idle"
    /\ a \in enabled /\ role[a] \in {"admin", "owner"}
    /\ r = "owner" => role[a] = "owner"
    /\ k = "disable" => x # a
    /\ req' = [req EXCEPT ![t] = [NoReq EXCEPT !.kind = k, !.target = x, !.to = r,
                                               !.by = (role[a] = "owner")]]
    /\ Goto(t, IF k \in {"role", "disable", "enable"} THEN "read" ELSE "write")
    /\ UNCHANGED userVars

\* Mutants: with one owner left there is still one to spare; disabling is no removal.
CountOwnersOffByOne(t) ==
    /\ pc[t] = "count"
    /\ IF Cardinality(EnabledOwners) < 1
       THEN Finish(t)
       ELSE Goto(t, "write") /\ req' = [req EXCEPT ![t].found = EnabledOwners]
    /\ UNCHANGED userVars
RemovesOwnerByRole(t) ==
    /\ req[t].target \in EnabledOwners
    /\ req[t].kind = "role" /\ req[t].to # "owner"

\* Whether the request of t would remove its target from the enabled owners.
Removing(t) == \/ req[t].kind = "disable"
               \/ req[t].kind \in {"role", "oidc"} /\ req[t].to # "owner"
RemovesOwner(t) == req[t].target \in EnabledOwners /\ Removing(t)

\* The first half of ensure_owner_account_mutation_allowed: the target is read; what
\* the actor may do is not asked again.
ReadTarget(t) ==
    /\ pc[t] = "read"
    /\ IF HasAccount(req[t].target) /\ (role[req[t].target] = "owner" => req[t].by)
       THEN /\ Goto(t, IF RemovesOwner(t) THEN "count" ELSE "write")
            /\ req' = [req EXCEPT ![t] = [@ EXCEPT
                         !.by = FALSE, !.found = IF Removing(t) THEN EnabledOwners ELSE {}]]
       ELSE Finish(t)
    /\ UNCHANGED userVars

\* The second half: enabled_owner_count.
CountOwners(t) ==
    /\ pc[t] = "count"
    /\ IF Cardinality(EnabledOwners) <= 1
       THEN Finish(t)
       ELSE Goto(t, "write") /\ req' = [req EXCEPT ![t].found = EnabledOwners]
    /\ UNCHANGED userVars

\* set_user_role and set_user_disabled look at nothing but the id.
SetRole(t) ==
    /\ pc[t] = "write" /\ req[t].kind \in {"role", "oidc"}
    /\ role' = [role EXCEPT ![req[t].target] = req[t].to]
    /\ Finish(t)
    /\ UNCHANGED enabled

SetDisabled(t) ==
    /\ pc[t] = "write" /\ req[t].kind \in {"disable", "enable", "self"}
    /\ enabled' = IF req[t].kind = "enable" THEN enabled \cup {req[t].target}
                                            ELSE enabled \ {req[t].target}
    /\ Finish(t)
    /\ UNCHANGED role

\* admin_create_user; the address may be taken by now.
AdminCreate(t) ==
    /\ pc[t] = "write" /\ req[t].kind = "create"
    /\ LET u == req[t].target
       IN  IF HasAccount(u) THEN UNCHANGED userVars
           ELSE role' = [role EXCEPT ![u] = req[t].to] /\ enabled' = enabled \cup {u}
    /\ Finish(t)

-----------------------------------------------------------------------------
(* Everybody else. *)

\* A user deactivates the account the session leads to.
Deactivate(t, u) ==
    /\ pc[t] = "idle" /\ u \in enabled
    /\ req' = [req EXCEPT ![t] = [NoReq EXCEPT !.kind = "self", !.target = u]]
    /\ Goto(t, "write")
    /\ UNCHANGED userVars

\* apply_role: the claims of u map to r, which differs from the role just read,
\* and would not demote the owner just read.
OidcLogin(t, u, r) ==
    /\ pc[t] = "idle" /\ HasAccount(u)
    /\ r \in MappedRoles
    /\ role[u] # r /\ role[u] # "owner"
    /\ req' = [req EXCEPT ![t] = [NoReq EXCEPT
                 !.kind = "oidc", !.target = u, !.to = r,
                 !.found = IF r = "owner" THEN {} ELSE EnabledOwners]]
    /\ Goto(t, "write")
    /\ UNCHANGED userVars

\* Open signup, a registration with an invite, which carries a role, and the first
\* login through OIDC of somebody unknown.
SignUp(u, r) ==
    /\ ~HasAccount(u)
    /\ role' = [role EXCEPT ![u] = r] /\ enabled' = enabled \cup {u}
    /\ UNCHANGED <<pc, req>>

\* The operator: `owner create`, `owner reset-password`, `user set-role`.
UpsertOwner(u) ==
    /\ role' = [role EXCEPT ![u] = "owner"] /\ enabled' = enabled \cup {u}
    /\ UNCHANGED <<pc, req>>
CliSetRole(u, r) ==
    /\ HasAccount(u)
    /\ role' = [role EXCEPT ![u] = r]
    /\ UNCHANGED <<enabled, pc, req>>

-----------------------------------------------------------------------------

AdminSteps ==
    \E t \in Request :
        \/ \E a, x \in Person :
              \/ \E k \in {"role", "create"}, r \in Roles : AdminRequest(t, a, k, x, r)
              \/ \E k \in {"disable", "enable"} : AdminRequest(t, a, k, x, "user")
        \/ ReadTarget(t) \/ CountOwners(t)
        \/ SetRole(t) \/ SetDisabled(t) \/ AdminCreate(t)

UserSteps ==
    \E u \in Person :
        \/ \E t \in Request : Deactivate(t, u) \/ \E r \in MappedRoles : OidcLogin(t, u, r)
        \/ \E r \in Roles : SignUp(u, r) \/ CliSetRole(u, r)
        \/ UpsertOwner(u)

AccountsNext == AdminSteps \/ UserSteps

AccountsSpec == AccountsInit /\ [][AccountsNext]_accountsVars

-----------------------------------------------------------------------------
(* Properties. *)

\* The type invariant.
AccountsTypeOK ==
    /\ role \in [Person -> Roles \cup {"none"}]
    /\ enabled \subseteq Person
    /\ pc \in [Request -> {"idle", "read", "count", "write"}]
    /\ req \in [Request -> [kind : Kinds \cup {"none"}, target : Person \cup {Nobody},
                            to : Roles, by : BOOLEAN, found : SUBSET Person]]
    /\ \A t \in Request : pc[t] # "idle" => req[t].target \in Person

\* A request that is about to remove an owner it saw has seen another one, or nobody
\* had to be counted.
CheckedOwners ==
    \A t \in Request :
        pc[t] = "write" /\ req[t].target \in req[t].found /\ Removing(t)
            => Cardinality(req[t].found) > 1

\* Both are inductive together.
AccountsInvariant == AccountsTypeOK /\ CheckedOwners

\* "Cannot remove the last enabled owner": no request does, unless it may remove one and
\* the owners are not the ones any more it found when it looked (see the README), or it
\* is the owner who deactivates, or the operator.
LastOwnerKept ==
    [][EnabledOwners # {} /\ EnabledOwners' = {} =>
          \/ \E t \in Request :
                pc[t] = "write" /\ pc'[t] = "idle"
                   /\ \/ req[t].kind = "self"
                      \/ Removing(t) /\ req[t].found # EnabledOwners
          \/ UNCHANGED pc]_accountsVars
=============================================================================
