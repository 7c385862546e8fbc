----------------------------- MODULE Credentials -----------------------------
(***************************************************************************)
(* What lets somebody in: passwords, sessions, API tokens and the one-time *)
(* tokens sent by mail.                                                    *)
(*                                                                         *)
(* No handler opens a transaction: each is a sequence of statements with   *)
(* anything in between, slow ones (hashing, mail) too.  What a statement   *)
(* found is carried in req[r] to the next.  Passwords are their versions:  *)
(* a request saw version n, and whether that is still the password when it *)
(* acts is what this module is about.  Whether an account is disabled is   *)
(* left to Accounts: a disabled one can only do less of what is here.      *)
(***************************************************************************)
EXTENDS Naturals, FiniteSets

CONSTANTS User,         \* accounts, existing or not yet
          Session,      \* rows of sessions
          ApiToken,     \* rows of api_tokens
          Mailed,       \* rows of the three tables of one-time tokens
          Request,      \* requests in flight
          MaxPassword,  \* bound: passwords set one after the other
          MailEnabled,  \* SMTP is configured (mailer.enabled())
          NoUser, None

ASSUME CredentialsAssumption ==
    /\ MaxPassword \in Nat \ {0} /\ MailEnabled \in BOOLEAN
    /\ NoUser \notin User /\ None \notin Session \cup ApiToken \cup Mailed

VARIABLES password,   \* password[u]: how often it has been written; 0 is never
          flags,      \* flags[u]: what is set of the flags of the account
          session,    \* session[s]: a record, or None
          api,        \* api[a]: a record, or None
          mailed,     \* mailed[k]: a record, or None
          pc, req,    \* where a request stands, and what it carries
          cut,        \* history: see DropSessions and RevokeTokens
          proved,     \* history: accounts whose address a mailed token or an identity proved
          vouched,    \* history: accounts an invite let in, or an operator made
          cutOff      \* history: accounts whose registration did not run to its end

accountVars == <<password, flags>>
rowVars     == <<session, api, mailed>>
requestVars == <<pc, req>>
historyVars == <<cut, proved, vouched, cutOff>>
vars == <<accountVars, rowVars, requestVars, historyVars>>

Flag == {"here", "password", "verified", "twoFactor"}
Kind == {"reset", "verify", "challenge"}
Step == {"idle", "clear", "mail", "send code", "sign in", "set password",
         "set verified", "drop sessions", "revoke tokens", "change password",
         "drop others", "two-factor on", "two-factor off", "new token"} \cup Kind

\* via: the version of the password that the holder knew; over: see Overtake.
SessionRow == [user : User, via : 0..MaxPassword, over : BOOLEAN]
ApiRow     == [user : User, via : 0..MaxPassword, over : BOOLEAN, revoked : BOOLEAN]
MailedRow  == [user : User, via : 0..MaxPassword, over : BOOLEAN, kind : Kind]
Carried    == [user : User \cup {NoUser}, via : 0..MaxPassword, over : BOOLEAN,
               row : Session \cup Mailed \cup {None}]

Carrying(u, v, row) == [user |-> u, via |-> v, over |-> FALSE, row |-> row]
Nothing == Carrying(NoUser, 0, None)

Here(u) == "here" \in flags[u]

Init == /\ password = [u \in User |-> 0] /\ flags = [u \in User |-> {}]
        /\ session = [s \in Session |-> None] /\ api = [a \in ApiToken |-> None]
        /\ mailed = [k \in Mailed |-> None]
        /\ pc = [r \in Request |-> "idle"] /\ req = [r \in Request |-> Nothing]
        /\ cut = [u \in User |-> [sessions |-> 0, tokens |-> 0]]
        /\ proved = {} /\ vouched = {} /\ cutOff = {}

-----------------------------------------------------------------------------
(* The bookkeeping of a request. *)

Start(r, step, c) == /\ pc[r] = "idle"
                     /\ pc' = [pc EXCEPT ![r] = step]
                     /\ req' = [req EXCEPT ![r] = c]
Goto(r, step) == pc' = [pc EXCEPT ![r] = step] /\ UNCHANGED req
Done(r) == pc' = [pc EXCEPT ![r] = "idle"] /\ req' = [req EXCEPT ![r] = Nothing]

At(r, step) == pc[r] = step
\* No request refers to the row: ids are not used twice.
Unseen(table, row) == table[row] = None /\ \A q \in Request : req[q].row # row

Newer(v, w) == IF v > w THEN v ELSE w
Raised(u, field, v) == [cut EXCEPT ![u][field] = Newer(v, @)]

\* An error, a client that went away, a process that died.
Drop(r) == /\ pc[r] # "idle"
           /\ Done(r)
           /\ cutOff' = IF pc[r] = "clear" THEN cutOff \cup {req[r].user} ELSE cutOff
           /\ UNCHANGED <<accountVars, rowVars, cut, proved, vouched>>

-----------------------------------------------------------------------------
(* Accounts come into being. *)

\* create_user, which calls every account verified: with a password.
NewAccount(u) ==
    /\ ~Here(u)
    /\ flags' = [flags EXCEPT ![u] = {"here", "password", "verified"}]
    /\ password' = [password EXCEPT ![u] = 1]

\* register while sign-up is open: where mail is to prove the address, a second statement
\* takes the verification back.
SignUp(r, u) ==
    /\ NewAccount(u)
    /\ IF MailEnabled THEN Start(r, "clear", Carrying(u, 0, None))
                      ELSE pc[r] = "idle" /\ UNCHANGED requestVars
    /\ UNCHANGED <<rowVars, historyVars>>

\* Both an invite and an administrator leave it at that (the invite itself is in Invites).
VouchFor(u) == /\ NewAccount(u)
               /\ vouched' = vouched \cup {u}
               /\ UNCHANGED <<rowVars, requestVars, cut, proved, cutOff>>
SignUpInvited(u)   == VouchFor(u)
AdminCreateUser(u) == VouchFor(u)

\* owner create, with a password or without, and owner reset-password: the account is made,
\* or taken as it is and verified, and its password written over; nothing is swept.
UpsertOwner(u, given) ==
    /\ password[u] < MaxPassword
    /\ password' = [password EXCEPT ![u] = @ + 1]
    /\ flags' = [flags EXCEPT ![u] = (IF given THEN @ \cup {"password"} ELSE @ \ {"password"})
                                     \cup {"here", "verified"}]
    /\ vouched' = vouched \cup {u}
    /\ UNCHANGED <<rowVars, requestVars, cut, proved, cutOff>>

\* Mutant: the registration forgets that the address is still unproved.
ClearVerifiedNot(r) ==
    /\ At(r, "clear")
    /\ Goto(r, "mail")
    /\ UNCHANGED <<accountVars, rowVars, historyVars>>

\* set_user_email_verified_at(None), whatever has happened to the account since.
ClearVerified(r) ==
    /\ At(r, "clear")
    /\ flags' = [flags EXCEPT ![req[r].user] = @ \ {"verified"}]
    /\ Goto(r, "mail")
    /\ UNCHANGED <<password, rowVars, historyVars>>

NewMailed(r, k, kind) ==
    /\ Unseen(mailed, k)
    /\ mailed' = [mailed EXCEPT ![k] = [user |-> req[r].user, via |-> req[r].via,
                                        over |-> req[r].over, kind |-> kind]]
    /\ Done(r)
    /\ UNCHANGED <<accountVars, session, api, historyVars>>

\* send_email_verification, from the registration or the account page.
MailVerification(r, k) == At(r, "mail") /\ NewMailed(r, k, "verify")
AskVerification(r, s) ==
    /\ session[s] # None
    /\ LET u == session[s].user
       IN  /\ Here(u)
           /\ "verified" \notin flags[u]
           /\ Start(r, "mail", Carrying(u, 0, None))
    /\ UNCHANGED <<accountVars, rowVars, historyVars>>

-----------------------------------------------------------------------------
(* Signing in. *)

\* login: the row of the user is read, and the password checked against it.
Login(r, u) ==
    /\ Here(u) /\ {"password", "verified"} \subseteq flags[u]
    /\ "twoFactor" \in flags[u] => MailEnabled
    /\ Start(r, IF "twoFactor" \in flags[u] THEN "send code" ELSE "sign in",
             Carrying(u, password[u], None))
    /\ UNCHANGED <<accountVars, rowVars, historyVars>>

CreateChallenge(r, k) == At(r, "send code") /\ NewMailed(r, k, "challenge")

\* create_session_response
CreateSession(r, s) ==
    /\ At(r, "sign in") /\ Unseen(session, s)
    /\ session' = [session EXCEPT ![s] = [user |-> req[r].user, via |-> req[r].via,
                                          over |-> req[r].over]]
    /\ Done(r)
    /\ UNCHANGED <<accountVars, api, mailed, historyVars>>

\* password_reset_request: anybody may ask, for any account.
AskReset(k, u) ==
    /\ MailEnabled /\ Here(u) /\ Unseen(mailed, k)
    /\ mailed' = [mailed EXCEPT ![k] = [user |-> u, via |-> 0, over |-> FALSE,
                                        kind |-> "reset"]]
    /\ UNCHANGED <<accountVars, session, api, requestVars, historyVars>>

\* consume_...: SELECT a token that is not used or expired, of an account...
Consume(r, k) ==
    /\ mailed[k] # None /\ Here(mailed[k].user)
    /\ Start(r, mailed[k].kind, [user |-> mailed[k].user, via |-> mailed[k].via,
                                 over |-> mailed[k].over, row |-> k])
    /\ UNCHANGED <<accountVars, rowVars, historyVars>>

\* ... and UPDATE it by its id, used or gone meanwhile or not.
MarkUsed(r) ==
    /\ pc[r] \in Kind
    /\ mailed' = [mailed EXCEPT ![req[r].row] = None]
    /\ pc' = [pc EXCEPT ![r] = CASE @ = "reset" -> "set password"
                                  [] @ = "verify" -> "set verified"
                                  [] @ = "challenge" -> "sign in"]
    /\ req' = [req EXCEPT ![r].row = None]
    /\ UNCHANGED <<accountVars, session, api, historyVars>>

\* Both a verification and a reset prove the address; a reset goes on.
SetVerified(r) ==
    /\ At(r, "set verified")
    /\ flags' = [flags EXCEPT ![req[r].user] = @ \cup {"verified"}]
    /\ proved' = proved \cup {req[r].user}
    /\ IF req[r].via # 0 THEN Goto(r, "drop sessions") ELSE Done(r)
    /\ UNCHANGED <<password, rowVars, cut, vouched, cutOff>>

-----------------------------------------------------------------------------
(* New passwords. *)

\* A new password, over whatever the password has become.
NewPassword(r) ==
    LET u == req[r].user
    IN  /\ password[u] < MaxPassword
        /\ password' = [password EXCEPT ![u] = @ + 1]
        /\ flags' = [flags EXCEPT ![u] = @ \cup {"password"}]
        /\ req' = [req EXCEPT ![r].via = password[u] + 1, ![r].over = FALSE]

\* The steps from which a request still comes to create a row.
Creating == {"send code", "challenge", "sign in", "new token",
             "set verified", "drop sessions", "revoke tokens"}

\* What is under way with an older password when the rows of u are swept: it is
\* marked, for nothing sweeps the rows it may still create.
Overtake(r, u, v, own) ==
    /\ req' = [q \in Request |->
                  CASE q = r -> own
                    [] /\ q # r /\ pc[q] \in Creating
                       /\ req[q].user = u /\ req[q].via < v -> [req[q] EXCEPT !.over = TRUE]
                    [] OTHER -> req[q]]
    /\ mailed' = [k \in Mailed |->
                     IF /\ mailed[k] # None /\ mailed[k].kind = "challenge"
                        /\ mailed[k].user = u /\ mailed[k].via < v
                     THEN [mailed[k] EXCEPT !.over = TRUE] ELSE mailed[k]]

\* password_reset_submit, after the token: the password, then SetVerified...
SetPassword(r) ==
    /\ At(r, "set password") /\ NewPassword(r)
    /\ pc' = [pc EXCEPT ![r] = "set verified"]
    /\ UNCHANGED <<rowVars, historyVars>>

\* Mutant: the session the reset was sent with is spared, as in a change.
DropSessionsButOne(r) ==
    /\ At(r, "drop sessions")
    /\ \E kept \in Session :
          session' = [s \in Session |-> IF session[s] # None /\ session[s].user = req[r].user
                                              /\ s # kept THEN None ELSE session[s]]
    /\ cut' = Raised(req[r].user, "sessions", req[r].via)
    /\ Overtake(r, req[r].user, req[r].via, req[r])
    /\ pc' = [pc EXCEPT ![r] = "revoke tokens"]
    /\ UNCHANGED <<accountVars, api, proved, vouched, cutOff>>

\* ... then every session of the account...
DropSessions(r) ==
    /\ At(r, "drop sessions")
    /\ LET u == req[r].user
       IN  /\ session' = [s \in Session |-> IF session[s] # None /\ session[s].user = u
                                            THEN None ELSE session[s]]
           /\ cut' = Raised(u, "sessions", req[r].via)
           /\ Overtake(r, u, req[r].via, req[r])
    /\ pc' = [pc EXCEPT ![r] = "revoke tokens"]
    /\ UNCHANGED <<accountVars, api, proved, vouched, cutOff>>

\* ... and every API token; then the new password signs in.
RevokeTokens(r) ==
    /\ At(r, "revoke tokens")
    /\ LET u == req[r].user
       IN  /\ api' = [a \in ApiToken |-> IF api[a] # None /\ api[a].user = u
                                         THEN [api[a] EXCEPT !.revoked = TRUE] ELSE api[a]]
           /\ cut' = Raised(u, "tokens", req[r].via)
           /\ Overtake(r, u, req[r].via, req[r])
    /\ pc' = [pc EXCEPT ![r] = "sign in"]
    /\ UNCHANGED <<accountVars, session, proved, vouched, cutOff>>

\* A request of somebody signed in: the session is looked up with its user.
Authenticated(s) == session[s] # None /\ Here(session[s].user)
StartFrom(r, s, step) ==
    /\ Authenticated(s)
    /\ Start(r, step, Carrying(session[s].user, 0, s))
    /\ UNCHANGED <<accountVars, rowVars, historyVars>>

\* account_change_password: the old password is checked, the new one set...
ChangePassword(r, s) ==
    /\ session[s] # None /\ "password" \in flags[session[s].user]
    /\ StartFrom(r, s, "change password")
ReplacePassword(r) ==
    /\ At(r, "change password") /\ NewPassword(r)
    /\ pc' = [pc EXCEPT ![r] = "drop others"]
    /\ UNCHANGED <<rowVars, historyVars>>

\* ... and every session goes but this one, which has shown the old password; it
\* knows the newest of those that its requests have set.
DropOthers(r) ==
    /\ At(r, "drop others")
    /\ LET u == req[r].user
       IN  /\ session' = [s \in Session |->
                  IF session[s] # None /\ session[s].user = u
                  THEN IF s = req[r].row THEN [session[s] EXCEPT !.via = Newer(req[r].via, @)]
                                         ELSE None
                  ELSE session[s]]
           /\ cut' = Raised(u, "sessions", req[r].via)
           /\ Overtake(r, u, req[r].via, Nothing)
    /\ pc' = [pc EXCEPT ![r] = "idle"]
    /\ UNCHANGED <<accountVars, api, proved, vouched, cutOff>>

\* The switch for two-factor sign-in, which checks the password again.
SwitchTwoFactor(r, s, on) ==
    /\ session[s] # None
    /\ on => MailEnabled /\ "verified" \in flags[session[s].user]
    /\ "password" \in flags[session[s].user]
    /\ StartFrom(r, s, IF on THEN "two-factor on" ELSE "two-factor off")
SetTwoFactor(r) ==
    /\ pc[r] \in {"two-factor on", "two-factor off"}
    /\ flags' = [flags EXCEPT ![req[r].user] = IF pc[r] = "two-factor on"
                                               THEN @ \cup {"twoFactor"} ELSE @ \ {"twoFactor"}]
    /\ Done(r)
    /\ UNCHANGED <<password, rowVars, historyVars>>

-----------------------------------------------------------------------------
(* API tokens, from the account page or with another token. *)

AskToken(r, s) ==
    /\ Authenticated(s)
    /\ Start(r, "new token", [user |-> session[s].user, via |-> session[s].via,
                              over |-> session[s].over, row |-> None])
    /\ UNCHANGED <<accountVars, rowVars, historyVars>>
AskTokenApi(r, a) ==
    /\ api[a] # None /\ ~api[a].revoked /\ Here(api[a].user)
    /\ Start(r, "new token", [user |-> api[a].user, via |-> api[a].via,
                              over |-> api[a].over, row |-> None])
    /\ UNCHANGED <<accountVars, rowVars, historyVars>>
CreateToken(r, a) ==
    /\ At(r, "new token") /\ Unseen(api, a)
    /\ api' = [api EXCEPT ![a] = [user |-> req[r].user, via |-> req[r].via,
                                  over |-> req[r].over, revoked |-> FALSE]]
    /\ Done(r)
    /\ UNCHANGED <<accountVars, session, mailed, historyVars>>
RevokeToken(a) == /\ api[a] # None
                  /\ api' = [api EXCEPT ![a].revoked = TRUE]
                  /\ UNCHANGED <<accountVars, session, mailed, requestVars, historyVars>>

-----------------------------------------------------------------------------
(* Through OIDC: resolve_login_user signs an enabled account in, or makes one
   without a password; Identities has what it looks at. *)

OidcLogin(r, u) ==
    /\ Here(u)
    /\ Start(r, "sign in", Carrying(u, password[u], None))
    /\ UNCHANGED <<accountVars, rowVars, historyVars>>
OidcSignUp(r, u) ==
    /\ ~Here(u)
    /\ flags' = [flags EXCEPT ![u] = {"here", "verified"}]
    /\ proved' = proved \cup {u}
    /\ Start(r, "sign in", Carrying(u, 0, None))
    /\ UNCHANGED <<password, rowVars, cut, vouched, cutOff>>

-----------------------------------------------------------------------------

\* A row that has expired, or is used, is as good as gone: every lookup skips it
\* until the job deletes it.  So a session goes by logging out, or by time, and a
\* mailed token by time; cleanup_expired_auth_state only frees their rows.
EndSession(s) == /\ session[s] # None
                 /\ session' = [session EXCEPT ![s] = None]
                 /\ UNCHANGED <<accountVars, api, mailed, requestVars, historyVars>>
EndMailed(k) == /\ mailed[k] # None
                /\ mailed' = [mailed EXCEPT ![k] = None]
                /\ UNCHANGED <<accountVars, session, api, requestVars, historyVars>>

-----------------------------------------------------------------------------

RequestStep(r) ==
    \/ ClearVerified(r) \/ MarkUsed(r) \/ SetVerified(r)
    \/ SetPassword(r) \/ DropSessions(r) \/ RevokeTokens(r)
    \/ ReplacePassword(r) \/ DropOthers(r) \/ SetTwoFactor(r)
    \/ \E k \in Mailed : MailVerification(r, k) \/ CreateChallenge(r, k)
    \/ \E s \in Session : CreateSession(r, s)
    \/ \E a \in ApiToken : CreateToken(r, a)
    \/ Drop(r)

RequestStart(r) ==
    \/ \E u \in User : \/ SignUp(r, u) \/ Login(r, u) \/ OidcLogin(r, u) \/ OidcSignUp(r, u)
    \/ \E k \in Mailed : Consume(r, k)
    \/ \E s \in Session : \/ AskVerification(r, s) \/ ChangePassword(r, s) \/ AskToken(r, s)
                         \/ \E on \in BOOLEAN : SwitchTwoFactor(r, s, on)
    \/ \E a \in ApiToken : AskTokenApi(r, a)

OneStep == \/ \E u \in User : \/ SignUpInvited(u) \/ AdminCreateUser(u)
                             \/ \E given \in BOOLEAN : UpsertOwner(u, given)
           \/ \E k \in Mailed, u \in User : AskReset(k, u)
           \/ \E a \in ApiToken : RevokeToken(a)
           \/ \E s \in Session : EndSession(s)
           \/ \E k \in Mailed : EndMailed(k)

Next == OneStep \/ \E r \in Request : RequestStart(r) \/ RequestStep(r)

Spec == Init /\ [][Next]_vars

-----------------------------------------------------------------------------
(* Properties. *)

\* The type invariant.
TypeOK ==
    /\ password \in [User -> 0..MaxPassword] /\ flags \in [User -> SUBSET Flag]
    /\ session \in [Session -> SessionRow \cup {None}]
    /\ api \in [ApiToken -> ApiRow \cup {None}]
    /\ mailed \in [Mailed -> MailedRow \cup {None}]
    /\ pc \in [Request -> Step] /\ req \in [Request -> Carried]
    /\ cut \in [User -> [sessions : 0..MaxPassword, tokens : 0..MaxPassword]]
    /\ proved \subseteq User /\ vouched \subseteq User /\ cutOff \subseteq User

\* "It drops every session for the account and revokes all of its API tokens": once
\* a reset or a change of the password has swept the sessions, those that knew an
\* older password were still being created when it did, by a request or a code
\* that the sweep cannot reach; the same for API tokens after a reset.
SweptSessionsGone ==
    \A s \in Session : LET x == session[s] IN
        x # None => x.via >= cut[x.user].sessions \/ x.over
SweptTokensRevoked ==
    \A a \in ApiToken : LET x == api[a] IN
        x # None => x.via >= cut[x.user].tokens \/ x.over \/ x.revoked

\* What makes them inductive.  A request that is under way is about an account...
RequestsHaveAccounts ==
    \A r \in Request : pc[r] # "idle" => req[r].user \in User /\ Here(req[r].user)

\* ... nobody knows a password that has not been set, nor was one swept for; the
\* sessions are swept before the API tokens are...
PasswordsWereSet ==
    /\ \A u \in User : /\ ~Here(u) => password[u] = 0
                       /\ cut[u].tokens <= cut[u].sessions /\ cut[u].sessions <= password[u]
    /\ \A s \in Session : session[s] # None => session[s].via <= password[session[s].user]
    /\ \A a \in ApiToken : api[a] # None => api[a].via <= password[api[a].user]
    /\ \A k \in Mailed : mailed[k] # None => mailed[k].via <= password[mailed[k].user]
    /\ \A r \in Request : /\ pc[r] # "idle" => req[r].via <= password[req[r].user]
                          /\ pc[r] = "revoke tokens" => req[r].via <= cut[req[r].user].sessions

\* ... and what comes to create a session knows a password that no sweep was for, or
\* has been overtaken by it; what comes to create an API token, likewise; to verify
\* an address nobody shows a password.
Fresh(x, field) == x.via >= cut[x.user][field] \/ x.over
FreshFor(step, x) ==
    /\ step \in Creating \ {"new token", "set verified"} => Fresh(x, "sessions")
    /\ step = "set verified" => x.via = 0 \/ Fresh(x, "sessions")
    /\ step = "new token" => Fresh(x, "tokens")
    /\ step \in {"mail", "clear", "verify"} => x.via = 0
OvertakenMarked ==
    /\ \A r \in Request : FreshFor(pc[r], req[r])
    /\ \A k \in Mailed : mailed[k] # None =>
          /\ mailed[k].kind = "challenge" => Fresh(mailed[k], "sessions")
          /\ mailed[k].kind = "verify" => mailed[k].via = 0

\* What the run checks.
CredentialsInvariant ==
    /\ TypeOK /\ SweptSessionsGone /\ SweptTokensRevoked
    /\ RequestsHaveAccounts /\ PasswordsWereSet /\ OvertakenMarked

\* "Under `open`, registration requires email verification whenever SMTP is enabled"
\* (authentication.md:31): an account is verified when a mailed token has come back or an
\* identity made it, when an invite let it in, an administrator made it or an operator took
\* it for an owner; else it is an open registration between its two statements, or one
\* that ended there.
VerifiedForAReason ==
    \A u \in User : MailEnabled /\ "verified" \in flags[u] =>
        \/ u \in proved \cup vouched \cup cutOff
        \/ \E r \in Request : pc[r] = "clear" /\ req[r].user = u
=============================================================================
