--------------------------- MODULE CredentialsProofs ---------------------------
(***************************************************************************)
(* That the sweeps of a new password leave nothing that knew an older one, *)
(* for any accounts, rows, requests and number of passwords.  The          *)
(* argument is CredentialsInvariant: what a request carries to the row it  *)
(* will create is no older than the last sweep, or was marked by it.       *)
(***************************************************************************)
EXTENDS Credentials, TLAPS

USE CredentialsAssumption

\* What a request carries when it starts.
LEMMA CarryingType ==
    ASSUME NEW u \in User \cup {NoUser}, NEW v \in 0..MaxPassword,
           NEW row \in Session \cup Mailed \cup {None}
    PROVE  /\ Carrying(u, v, row) \in Carried
           /\ Carrying(u, v, row).user = u /\ Carrying(u, v, row).via = v
  BY DEF Carrying, Carried

LEMMA NothingIsCarried == Nothing \in Carried
  BY CarryingType DEF Nothing

\* Nobody has an account at first, and no request is under way.
LEMMA InitInvariant == Init => CredentialsInvariant
<1> SUFFICES ASSUME Init PROVE CredentialsInvariant
  OBVIOUS
<1>1. TypeOK
  BY NothingIsCarried DEF Init, TypeOK, Step
<1>2. SweptSessionsGone /\ SweptTokensRevoked /\ RequestsHaveAccounts /\ OvertakenMarked
  BY DEF Init, SweptSessionsGone, SweptTokensRevoked, RequestsHaveAccounts,
         OvertakenMarked, FreshFor, Creating
<1>3. PasswordsWereSet
  BY DEF Init, PasswordsWereSet
<1> QED
  BY <1>1, <1>2, <1>3 DEF CredentialsInvariant

\* A request that starts and writes nothing carries what the invariant asks of it.
LEMMA StartKeeps ==
    ASSUME CredentialsInvariant, NEW r \in Request, NEW step \in Step, NEW c \in Carried,
           Start(r, step, c), UNCHANGED <<accountVars, rowVars, historyVars>>,
           c.user \in User, Here(c.user), c.via <= password[c.user],
           step # "revoke tokens",
           FreshFor(step, c)
    PROVE  CredentialsInvariant'
<1> USE DEF CredentialsInvariant, accountVars, rowVars, historyVars
<1>1. TypeOK'
  BY DEF Start, TypeOK
<1>2. SweptSessionsGone' /\ SweptTokensRevoked'
  BY DEF SweptSessionsGone, SweptTokensRevoked
<1>3. RequestsHaveAccounts'
  BY DEF Start, TypeOK, RequestsHaveAccounts, Here
<1>4. PasswordsWereSet'
  BY DEF Start, TypeOK, PasswordsWereSet, Here
<1>5. OvertakenMarked'
  BY DEF Start, TypeOK, OvertakenMarked, FreshFor, Fresh, Creating
<1> QED
  BY <1>1, <1>2, <1>3, <1>4, <1>5

\* A request that ends, or goes on to a step that creates nothing, and writes nothing.
LEMMA MoveKeeps ==
    ASSUME CredentialsInvariant, NEW r \in Request, pc[r] # "idle",
           Done(r) \/ (pc[r] = "clear" /\ Goto(r, "mail")),
           UNCHANGED <<password, rowVars, cut>>,
           flags' \in [User -> SUBSET Flag], \A u \in User : Here(u) => Here(u)',
           proved' \subseteq User, vouched' \subseteq User, cutOff' \subseteq User
    PROVE  CredentialsInvariant'
<1> USE DEF CredentialsInvariant, rowVars
<1>1. TypeOK'
  <2>1. CASE Done(r)
    BY <2>1, NothingIsCarried DEF Done, TypeOK, Step
  <2>2. CASE pc[r] = "clear" /\ Goto(r, "mail")
    BY <2>2 DEF Goto, TypeOK, Step
  <2> QED
    BY <2>1, <2>2
<1>2. SweptSessionsGone' /\ SweptTokensRevoked'
  BY DEF SweptSessionsGone, SweptTokensRevoked
<1>3. RequestsHaveAccounts'
  BY DEF Done, Goto, TypeOK, RequestsHaveAccounts, Here
<1>4. PasswordsWereSet'
  BY ZenonT(60) DEF Done, Goto, TypeOK, PasswordsWereSet, Step
<1>5. OvertakenMarked'
  <2>1. CASE Done(r)
    BY <2>1 DEF Done, TypeOK, OvertakenMarked, FreshFor, Fresh, Creating
  <2>2. CASE pc[r] = "clear" /\ Goto(r, "mail")
    BY <2>2 DEF Goto, TypeOK, OvertakenMarked, FreshFor, Fresh, Creating
  <2> QED
    BY <2>1, <2>2
<1> QED
  BY <1>1, <1>2, <1>3, <1>4, <1>5

\* The types of what is carried and kept.
LEMMA RowTypes ==
    ASSUME TypeOK
    PROVE  /\ \A q \in Request : req[q] \in Carried /\ req[q].via \in 0..MaxPassword
           /\ \A w \in User : /\ password[w] \in 0..MaxPassword
                              /\ cut[w].sessions \in 0..MaxPassword
                              /\ cut[w].tokens \in 0..MaxPassword
           /\ \A s \in Session : session[s] # None =>
                  session[s].user \in User /\ session[s].via \in 0..MaxPassword
           /\ \A a \in ApiToken : api[a] # None =>
                  api[a].user \in User /\ api[a].via \in 0..MaxPassword
           /\ \A k \in Mailed : mailed[k] # None =>
                  mailed[k].user \in User /\ mailed[k].via \in 0..MaxPassword
<1> USE DEF TypeOK
<1>1. \A q \in Request : req[q] \in Carried /\ req[q].via \in 0..MaxPassword
  BY DEF Carried
<1>2. \A w \in User : /\ password[w] \in 0..MaxPassword
                      /\ cut[w].sessions \in 0..MaxPassword
                      /\ cut[w].tokens \in 0..MaxPassword
  OBVIOUS
<1>3. \A s \in Session : session[s] # None =>
          session[s].user \in User /\ session[s].via \in 0..MaxPassword
  BY DEF SessionRow
<1>4. \A a \in ApiToken : api[a] # None =>
          api[a].user \in User /\ api[a].via \in 0..MaxPassword
  BY DEF ApiRow
<1>5. \A k \in Mailed : mailed[k] # None =>
          mailed[k].user \in User /\ mailed[k].via \in 0..MaxPassword
  BY DEF MailedRow
<1> QED
  BY <1>1, <1>2, <1>3, <1>4, <1>5

\* What a row or a request knows has been set as long as passwords only grow.
LEMMA PasswordGrows ==
    ASSUME CredentialsInvariant, TypeOK', \A w \in User : password[w] <= password'[w]
    PROVE  /\ \A q \in Request : pc[q] # "idle" => req[q].via <= password'[req[q].user]
           /\ \A w \in User : /\ cut[w].tokens <= cut[w].sessions
                              /\ cut[w].sessions <= password'[w]
           /\ \A s \in Session : session[s] # None => session[s].via <= password'[session[s].user]
           /\ \A a \in ApiToken : api[a] # None => api[a].via <= password'[api[a].user]
           /\ \A k \in Mailed : mailed[k] # None => mailed[k].via <= password'[mailed[k].user]
<1> USE DEF CredentialsInvariant
<1>1. ASSUME NEW u \in User, NEW v \in 0..MaxPassword, v <= password[u] PROVE v <= password'[u]
  BY <1>1 DEF TypeOK
<1>2. \A q \in Request : pc[q] # "idle" => req[q].via <= password'[req[q].user]
  BY <1>1, RowTypes DEF RequestsHaveAccounts, PasswordsWereSet
<1>3. \A w \in User : cut[w].tokens <= cut[w].sessions /\ cut[w].sessions <= password'[w]
  BY <1>1, RowTypes DEF PasswordsWereSet
<1>4. \A s \in Session : session[s] # None => session[s].via <= password'[session[s].user]
  BY <1>1, RowTypes DEF PasswordsWereSet
<1>5. \A a \in ApiToken : api[a] # None => api[a].via <= password'[api[a].user]
  BY <1>1, RowTypes DEF PasswordsWereSet
<1>6. \A k \in Mailed : mailed[k] # None => mailed[k].via <= password'[mailed[k].user]
  BY <1>1, RowTypes DEF PasswordsWereSet
<1> QED
  BY <1>2, <1>3, <1>4, <1>5, <1>6

\* A registration: the account is new, so nobody knew a password of it.
LEMMA NewAccountKeeps ==
    ASSUME CredentialsInvariant, NEW r, NEW u \in User, NewAccount(u),
           UNCHANGED <<rowVars, cut, proved, cutOff>>, vouched' \in {vouched, vouched \cup {u}},
           \/ UNCHANGED requestVars
           \/ r \in Request /\ Start(r, "clear", Carrying(u, 0, None))
    PROVE  CredentialsInvariant'
<1> USE DEF CredentialsInvariant, rowVars, requestVars
<1>1. /\ password' = [password EXCEPT ![u] = 1] /\ password[u] = 0
      /\ flags' = [flags EXCEPT ![u] = {"here", "password", "verified"}]
      /\ UNCHANGED <<session, api, mailed, cut, proved, cutOff>>
  BY DEF NewAccount, PasswordsWereSet
<1> DEFINE c == Carrying(u, 0, None)
<1>2. \/ UNCHANGED <<pc, req>>
      \/ /\ r \in Request
         /\ pc' = [pc EXCEPT ![r] = "clear"]
         /\ req' = [req EXCEPT ![r] = c]
  BY DEF Start
<1>3. c \in Carried /\ c.user = u /\ c.via = 0
  BY CarryingType
<1> HIDE DEF c
<1>4. TypeOK'
  <2>1. password' \in [User -> 0..MaxPassword] /\ flags' \in [User -> SUBSET Flag]
    BY <1>1 DEF TypeOK, Flag
  <2>2. pc' \in [Request -> Step] /\ req' \in [Request -> Carried]
    <3>1. CASE UNCHANGED <<pc, req>>
      BY <3>1 DEF TypeOK
    <3>2. CASE r \in Request /\ pc' = [pc EXCEPT ![r] = "clear"] /\ req' = [req EXCEPT ![r] = c]
      BY <3>2, <1>3 DEF TypeOK, Step
    <3> QED
      BY <1>2, <3>1, <3>2
  <2> QED
    BY <1>1, <2>1, <2>2 DEF TypeOK
<1>5. SweptSessionsGone' /\ SweptTokensRevoked'
  BY <1>1 DEF SweptSessionsGone, SweptTokensRevoked
<1>6. RequestsHaveAccounts'
  <2>1. Here(u)' /\ \A w \in User : Here(w) => Here(w)'
    BY <1>1 DEF TypeOK, Here
  <2> QED
    BY <1>2, <1>3, <2>1 DEF TypeOK, RequestsHaveAccounts
<1>7. PasswordsWereSet'
  <2>1. \A w \in User : password[w] <= password'[w]
    BY <1>1 DEF TypeOK
  <2>2. \A w \in User : ~Here(w)' => password'[w] = 0
    BY <1>1 DEF TypeOK, PasswordsWereSet, Here
  <2>3. /\ \A q \in Request : pc[q] # "idle" => req[q].via <= password'[req[q].user]
        /\ \A w \in User : cut[w].tokens <= cut[w].sessions /\ cut[w].sessions <= password'[w]
        /\ \A s \in Session : session[s] # None => session[s].via <= password'[session[s].user]
        /\ \A a \in ApiToken : api[a] # None => api[a].via <= password'[api[a].user]
        /\ \A k \in Mailed : mailed[k] # None => mailed[k].via <= password'[mailed[k].user]
    BY <1>4, <2>1, PasswordGrows
  <2>4. \A q \in Request : /\ pc'[q] # "idle" => req'[q].via <= password'[req'[q].user]
                           /\ pc'[q] = "revoke tokens" => req'[q].via <= cut'[req'[q].user].sessions
    <3> SUFFICES ASSUME NEW q \in Request
                 PROVE  /\ pc'[q] # "idle" => req'[q].via <= password'[req'[q].user]
                        /\ pc'[q] = "revoke tokens" => req'[q].via <= cut'[req'[q].user].sessions
      OBVIOUS
    <3>1. CASE UNCHANGED <<pc[q], req[q]>>
      BY <1>1, <2>3, <3>1 DEF PasswordsWereSet
    <3>2. CASE pc'[q] = "clear" /\ req'[q] = c
      BY <1>1, <1>3, <1>4, <3>2 DEF TypeOK
    <3> QED
      BY <1>2, <3>1, <3>2 DEF TypeOK
  <2> QED
    BY <1>1, <2>2, <2>3, <2>4 DEF PasswordsWereSet
<1>8. OvertakenMarked'
  <2>1. CASE UNCHANGED <<pc, req>>
    BY <1>1, <2>1 DEF OvertakenMarked, FreshFor, Fresh
  <2>2. CASE r \in Request /\ pc' = [pc EXCEPT ![r] = "clear"] /\ req' = [req EXCEPT ![r] = c]
    BY <1>1, <1>3, <2>2 DEF TypeOK, OvertakenMarked, FreshFor, Fresh, Creating
  <2> QED
    BY <1>2, <2>1, <2>2
<1> QED
  BY <1>4, <1>5, <1>6, <1>7, <1>8

\* The owner commands write a newer password over whatever there is, and nothing else that a
\* request or a row relies on.
LEMMA UpsertOwnerKeeps ==
    ASSUME CredentialsInvariant, NEW u \in User, NEW given \in BOOLEAN, UpsertOwner(u, given)
    PROVE  CredentialsInvariant'
<1> USE DEF CredentialsInvariant, rowVars, requestVars
<1>1. /\ password[u] < MaxPassword /\ password' = [password EXCEPT ![u] = @ + 1]
      /\ vouched' = vouched \cup {u}
      /\ UNCHANGED <<session, api, mailed, pc, req, cut, proved, cutOff>>
  BY DEF UpsertOwner
<1>2. flags' \in [User -> SUBSET Flag] /\ Here(u)' /\ \A w \in User : Here(w) => Here(w)'
  <2>1. \/ flags' = [flags EXCEPT ![u] = (@ \cup {"password"}) \cup {"here", "verified"}]
        \/ flags' = [flags EXCEPT ![u] = (@ \ {"password"}) \cup {"here", "verified"}]
    BY DEF UpsertOwner
  <2> QED
    BY <2>1, SMTT(60) DEF TypeOK, Flag, Here
<1>3. password' \in [User -> 0..MaxPassword] /\ \A w \in User : password[w] <= password'[w]
  <2>1. password[u] \in 0..MaxPassword /\ password[u] + 1 \in 0..MaxPassword
    BY <1>1, RowTypes
  <2> QED
    BY <1>1, <2>1, RowTypes DEF TypeOK
<1>4. TypeOK'
  BY <1>1, <1>2, <1>3 DEF TypeOK
<1>5. SweptSessionsGone' /\ SweptTokensRevoked' /\ OvertakenMarked'
  BY <1>1 DEF SweptSessionsGone, SweptTokensRevoked, OvertakenMarked, FreshFor, Fresh
<1>6. RequestsHaveAccounts'
  BY <1>1, <1>2 DEF RequestsHaveAccounts
<1>7. PasswordsWereSet'
  <2>1. \A w \in User : ~Here(w)' => password'[w] = 0
    BY <1>1, <1>2 DEF TypeOK, PasswordsWereSet
  <2>2. /\ \A q \in Request : pc[q] # "idle" => req[q].via <= password'[req[q].user]
        /\ \A w \in User : cut[w].tokens <= cut[w].sessions /\ cut[w].sessions <= password'[w]
        /\ \A s \in Session : session[s] # None => session[s].via <= password'[session[s].user]
        /\ \A a \in ApiToken : api[a] # None => api[a].via <= password'[api[a].user]
        /\ \A k \in Mailed : mailed[k] # None => mailed[k].via <= password'[mailed[k].user]
    BY <1>3, <1>4, PasswordGrows
  <2>3. \A q \in Request : pc[q] = "revoke tokens" => req[q].via <= cut[req[q].user].sessions
    BY DEF PasswordsWereSet
  <2> QED
    BY <1>1, <2>1, <2>2, <2>3 DEF PasswordsWereSet
<1> QED
  BY <1>4, <1>5, <1>6, <1>7

LEMMA OidcSignUpKeeps ==
    ASSUME CredentialsInvariant, NEW r \in Request, NEW u \in User, OidcSignUp(r, u)
    PROVE  CredentialsInvariant'
<1> USE DEF CredentialsInvariant, rowVars
<1> DEFINE c == Carrying(u, 0, None)
<1>1. /\ flags' = [flags EXCEPT ![u] = {"here", "verified"}] /\ password[u] = 0
      /\ proved' = proved \cup {u} /\ UNCHANGED <<password, session, api, mailed, cut, vouched, cutOff>>
      /\ pc' = [pc EXCEPT ![r] = "sign in"] /\ req' = [req EXCEPT ![r] = c]
  BY DEF OidcSignUp, Start, PasswordsWereSet
<1>2. c \in Carried /\ c.user = u /\ c.via = 0 /\ c.via <= password[u]
  <2>1. 0 <= password[u] /\ 0 \in 0..MaxPassword
    BY RowTypes
  <2> QED
    BY <2>1, CarryingType
<1>3. Fresh(c, "sessions")
  <2>1. cut[u].sessions <= password[u]
    BY DEF PasswordsWereSet
  <2> QED
    BY <1>1, <1>2, <2>1, RowTypes DEF Fresh
<1> HIDE DEF c
<1>4. Here(u)' /\ \A w \in User : Here(w) => Here(w)'
  BY <1>1 DEF TypeOK, Here
<1>5. TypeOK'
  BY <1>1, <1>2 DEF TypeOK, Flag, Step
<1>6. SweptSessionsGone' /\ SweptTokensRevoked'
  BY <1>1 DEF SweptSessionsGone, SweptTokensRevoked
<1>7. RequestsHaveAccounts'
  BY <1>1, <1>2, <1>4 DEF TypeOK, RequestsHaveAccounts
<1>8. PasswordsWereSet'
  BY <1>1, <1>2, <1>4 DEF TypeOK, PasswordsWereSet
<1>9. OvertakenMarked'
  BY <1>1, <1>3 DEF TypeOK, OvertakenMarked, FreshFor, Fresh
<1> QED
  BY <1>5, <1>6, <1>7, <1>8, <1>9

\* A row that a request creates knows what the request has carried to it.
LEMMA NewMailedKeeps ==
    ASSUME CredentialsInvariant, NEW r \in Request, NEW k \in Mailed, NEW kind \in Kind,
           pc[r] # "idle", NewMailed(r, k, kind), kind = "challenge" => pc[r] = "send code",
           kind = "verify" => pc[r] = "mail"
    PROVE  CredentialsInvariant'
<1> USE DEF CredentialsInvariant, accountVars, historyVars
<1>1. /\ mailed' = [mailed EXCEPT ![k] = [user |-> req[r].user, via |-> req[r].via,
                                          over |-> req[r].over, kind |-> kind]]
      /\ pc' = [pc EXCEPT ![r] = "idle"] /\ req' = [req EXCEPT ![r] = Nothing]
      /\ UNCHANGED <<password, flags, session, api, cut, proved, vouched, cutOff>>
  BY DEF NewMailed, Done
<1>2. req[r] \in Carried /\ req[r].user \in User /\ req[r].via <= password[req[r].user]
  BY DEF TypeOK, RequestsHaveAccounts, PasswordsWereSet
<1>3. TypeOK'
  BY <1>1, <1>2, NothingIsCarried DEF TypeOK, Step, MailedRow, Carried
<1>4. SweptSessionsGone' /\ SweptTokensRevoked'
  BY <1>1 DEF SweptSessionsGone, SweptTokensRevoked
<1>5. RequestsHaveAccounts'
  BY <1>1 DEF TypeOK, RequestsHaveAccounts, Here
<1>6. PasswordsWereSet'
  BY <1>1, <1>2 DEF TypeOK, PasswordsWereSet, Here
<1>7. OvertakenMarked'
  BY <1>1, <1>2 DEF TypeOK, OvertakenMarked, FreshFor, Fresh, Creating
<1> QED
  BY <1>3, <1>4, <1>5, <1>6, <1>7

LEMMA CreateSessionKeeps ==
    ASSUME CredentialsInvariant, NEW r \in Request, NEW s \in Session, CreateSession(r, s)
    PROVE  CredentialsInvariant'
<1> USE DEF CredentialsInvariant, accountVars, historyVars
<1>1. /\ session' = [session EXCEPT ![s] = [user |-> req[r].user, via |-> req[r].via,
                                            over |-> req[r].over]]
      /\ pc' = [pc EXCEPT ![r] = "idle"] /\ req' = [req EXCEPT ![r] = Nothing]
      /\ UNCHANGED <<password, flags, api, mailed, cut, proved, vouched, cutOff>>
  BY DEF CreateSession, Done
<1>2. /\ req[r] \in Carried /\ req[r].user \in User
      /\ req[r].via <= password[req[r].user] /\ Fresh(req[r], "sessions")
  BY DEF CreateSession, At, TypeOK, RequestsHaveAccounts, PasswordsWereSet, OvertakenMarked,
         FreshFor, Creating
<1>3. TypeOK'
  BY <1>1, <1>2, NothingIsCarried DEF TypeOK, Step, SessionRow, Carried
<1>4. SweptSessionsGone' /\ SweptTokensRevoked'
  BY <1>1, <1>2 DEF TypeOK, SweptSessionsGone, SweptTokensRevoked, Fresh
<1>5. RequestsHaveAccounts'
  BY <1>1 DEF TypeOK, RequestsHaveAccounts, Here
<1>6. PasswordsWereSet'
  BY <1>1, <1>2 DEF TypeOK, PasswordsWereSet, Here
<1>7. OvertakenMarked'
  BY <1>1, <1>2 DEF TypeOK, OvertakenMarked, FreshFor, Fresh, Creating
<1> QED
  BY <1>3, <1>4, <1>5, <1>6, <1>7

LEMMA CreateTokenKeeps ==
    ASSUME CredentialsInvariant, NEW r \in Request, NEW a \in ApiToken, CreateToken(r, a)
    PROVE  CredentialsInvariant'
<1> USE DEF CredentialsInvariant, accountVars, historyVars
<1>1. /\ api' = [api EXCEPT ![a] = [user |-> req[r].user, via |-> req[r].via,
                                    over |-> req[r].over, revoked |-> FALSE]]
      /\ pc' = [pc EXCEPT ![r] = "idle"] /\ req' = [req EXCEPT ![r] = Nothing]
      /\ UNCHANGED <<password, flags, session, mailed, cut, proved, vouched, cutOff>>
  BY DEF CreateToken, Done
<1>2. /\ req[r] \in Carried /\ req[r].user \in User
      /\ req[r].via <= password[req[r].user] /\ Fresh(req[r], "tokens")
  BY DEF CreateToken, At, TypeOK, RequestsHaveAccounts, PasswordsWereSet, OvertakenMarked,
         FreshFor
<1>3. TypeOK'
  BY <1>1, <1>2, NothingIsCarried DEF TypeOK, Step, ApiRow, Carried
<1>4. SweptSessionsGone' /\ SweptTokensRevoked'
  BY <1>1, <1>2 DEF TypeOK, SweptSessionsGone, SweptTokensRevoked, Fresh
<1>5. RequestsHaveAccounts'
  BY <1>1 DEF TypeOK, RequestsHaveAccounts, Here
<1>6. PasswordsWereSet'
  BY <1>1, <1>2 DEF TypeOK, PasswordsWereSet, Here
<1>7. OvertakenMarked'
  BY <1>1, <1>2 DEF TypeOK, OvertakenMarked, FreshFor, Fresh, Creating
<1> QED
  BY <1>3, <1>4, <1>5, <1>6, <1>7

\* A token is used: the request goes on with what the token was made with.
LEMMA MarkUsedKeeps ==
    ASSUME CredentialsInvariant, NEW r \in Request, MarkUsed(r)
    PROVE  CredentialsInvariant'
<1> USE DEF CredentialsInvariant, accountVars, historyVars
<1> DEFINE next == CASE pc[r] = "reset" -> "set password"
                     [] pc[r] = "verify" -> "set verified"
                     [] pc[r] = "challenge" -> "sign in"
<1>1. /\ pc[r] \in Kind /\ pc' = [pc EXCEPT ![r] = next]
      /\ mailed' = [mailed EXCEPT ![req[r].row] = None]
      /\ req' = [req EXCEPT ![r].row = None]
      /\ UNCHANGED <<password, flags, session, api, cut, proved, vouched, cutOff>>
  BY DEF MarkUsed, TypeOK
<1>2. /\ pc[r] = "challenge" => next = "sign in"
      /\ next \in {"set password", "set verified", "sign in"}
      /\ next = "set verified" => pc[r] = "verify"
      /\ next = "sign in" => pc[r] = "challenge"
  BY <1>1 DEF Kind
<1> HIDE DEF next
<1>3. \A q \in Request : /\ req'[q] \in Carried
                         /\ req'[q].user = req[q].user /\ req'[q].via = req[q].via
                         /\ req'[q].over = req[q].over
  BY <1>1 DEF TypeOK, Carried
<1>4. \A k \in Mailed : mailed'[k] # None => mailed'[k] = mailed[k]
  BY <1>1 DEF TypeOK
<1>5. TypeOK'
  <2>1. mailed' \in [Mailed -> MailedRow \cup {None}]
    BY <1>1 DEF TypeOK
  <2>2. pc' \in [Request -> Step] /\ req' \in [Request -> Carried]
    BY <1>1, <1>2, <1>3 DEF TypeOK, Step
  <2> QED
    BY <1>1, <2>1, <2>2 DEF TypeOK
<1>6. SweptSessionsGone' /\ SweptTokensRevoked'
  BY <1>1 DEF SweptSessionsGone, SweptTokensRevoked
<1>7. \A q \in Request \ {r} : pc'[q] = pc[q]
  BY <1>1 DEF TypeOK
<1>8. pc'[r] = next /\ pc[r] # "idle"
  BY <1>1 DEF TypeOK, Kind
<1>9. RequestsHaveAccounts'
  BY <1>1, <1>3, <1>7, <1>8 DEF RequestsHaveAccounts, Here
<1>10. PasswordsWereSet'
  <2>1. \A q \in Request : /\ pc'[q] # "idle" => req'[q].via <= password[req'[q].user]
                           /\ pc'[q] = "revoke tokens" => req'[q].via <= cut[req'[q].user].sessions
    BY <1>2, <1>3, <1>7, <1>8, ZenonT(60) DEF PasswordsWereSet
  <2> QED
    BY <1>1, <1>4, <2>1 DEF PasswordsWereSet, Here
<1>11. OvertakenMarked'
  <2>1. pc[r] = "challenge" => Fresh(req[r], "sessions")
    BY DEF OvertakenMarked, FreshFor, Creating
  <2>2. pc[r] = "verify" => req[r].via = 0
    BY DEF OvertakenMarked, FreshFor
  <2>3. \A q \in Request \ {r} : /\ pc'[q] = pc[q] /\ req'[q].user = req[q].user
                                /\ req'[q].via = req[q].via /\ req'[q].over = req[q].over
    BY <1>3, <1>7
  <2>4. FreshFor(pc[r], req[r])'
    BY <1>1, <1>2, <1>3, <1>8, <2>1, <2>2 DEF FreshFor, Fresh, Creating
  <2>5. \A q \in Request \ {r} : FreshFor(pc[q], req[q])'
    BY <1>1, <2>3, ZenonT(60) DEF OvertakenMarked, FreshFor, Fresh
  <2> QED
    BY <1>1, <1>4, <2>4, <2>5, ZenonT(60) DEF OvertakenMarked, FreshFor, Fresh
<1> QED
  BY <1>5, <1>6, <1>9, <1>10, <1>11

\* The address is proved; a reset goes on to its sweeps.
LEMMA SetVerifiedKeeps ==
    ASSUME CredentialsInvariant, NEW r \in Request, SetVerified(r)
    PROVE  CredentialsInvariant'
<1> USE DEF CredentialsInvariant, rowVars
<1>1. /\ pc[r] = "set verified"
      /\ flags' = [flags EXCEPT ![req[r].user] = @ \cup {"verified"}]
      /\ proved' = proved \cup {req[r].user}
      /\ UNCHANGED <<password, session, api, mailed, cut, vouched, cutOff>>
  BY DEF SetVerified, At
<1>2. /\ flags' \in [User -> SUBSET Flag] /\ \A u \in User : Here(u) => Here(u)'
      /\ \A u \in User : Here(u)' => Here(u)
      /\ proved' \subseteq User /\ req[r].user \in User
  BY <1>1 DEF TypeOK, RequestsHaveAccounts, Here, Flag
<1>3. CASE Done(r)
  <2>1. UNCHANGED <<password, rowVars, cut>> /\ vouched' \subseteq User /\ cutOff' \subseteq User
        /\ pc[r] # "idle"
    BY <1>1 DEF TypeOK
  <2> HIDE DEF CredentialsInvariant, rowVars
  <2> QED
    BY <1>2, <1>3, <2>1, MoveKeeps
<1>4. CASE req[r].via # 0 /\ Goto(r, "drop sessions")
  <2>1. pc' = [pc EXCEPT ![r] = "drop sessions"] /\ UNCHANGED req
    BY <1>4 DEF Goto
  <2>2. TypeOK'
    BY <1>1, <1>2, <2>1 DEF TypeOK, Step
  <2>3. SweptSessionsGone' /\ SweptTokensRevoked'
    BY <1>1 DEF SweptSessionsGone, SweptTokensRevoked
  <2>4. RequestsHaveAccounts'
    BY <1>1, <1>2, <2>1 DEF TypeOK, RequestsHaveAccounts
  <2>5. PasswordsWereSet'
    BY <1>1, <1>2, <2>1 DEF TypeOK, PasswordsWereSet
  <2>6. Fresh(req[r], "sessions")
    BY <1>1, <1>4 DEF OvertakenMarked, FreshFor
  <2>7. OvertakenMarked'
    BY <1>1, <2>1, <2>6 DEF TypeOK, OvertakenMarked, FreshFor, Fresh
  <2> QED
    BY <2>2, <2>3, <2>4, <2>5, <2>7
<1> QED
  BY <1>3, <1>4 DEF SetVerified

LEMMA NewerPassword ==
    ASSUME CredentialsInvariant, NEW r \in Request, req[r].user \in User, NewPassword(r),
           NEW n, n = password[req[r].user] + 1
    PROVE  /\ password' \in [User -> 0..MaxPassword] /\ n \in 0..MaxPassword
           /\ password'[req[r].user] = n /\ n <= n
           /\ \A w \in User : password[w] <= password'[w]
           /\ \A w \in User \ {req[r].user} : password'[w] = password[w]
           /\ n >= cut[req[r].user].sessions
<1> USE DEF CredentialsInvariant
<1> DEFINE u == req[r].user
<1>1. password[u] < MaxPassword /\ password' = [password EXCEPT ![u] = n]
  BY DEF NewPassword
<1>2. password[u] \in 0..MaxPassword /\ n \in 0..MaxPassword /\ n > password[u]
  BY <1>1, RowTypes
<1>3. /\ password' \in [User -> 0..MaxPassword] /\ password'[u] = n
      /\ \A w \in User \ {u} : password'[w] = password[w]
  BY <1>1, <1>2 DEF TypeOK
<1>4. \A w \in User : password[w] <= password'[w]
  BY <1>2, <1>3, RowTypes
<1>5. cut[u].sessions \in 0..MaxPassword /\ cut[u].sessions <= password[u]
  BY RowTypes DEF PasswordsWereSet
<1>6. n >= cut[u].sessions
  BY <1>2, <1>5
<1> QED
  BY <1>2, <1>3, <1>4, <1>6

\* A new password is newer than what any sweep was for.
LEMMA NewPasswordKeeps ==
    ASSUME CredentialsInvariant, NEW r \in Request, pc[r] # "idle", NewPassword(r),
           NEW step \in {"set verified", "drop others"}, pc' = [pc EXCEPT ![r] = step],
           UNCHANGED <<rowVars, historyVars>>
    PROVE  CredentialsInvariant'
<1> USE DEF CredentialsInvariant, rowVars, historyVars
<1> DEFINE u == req[r].user
           n == password[u] + 1
<1>1. /\ u \in User
      /\ password' = [password EXCEPT ![u] = n]
      /\ req' = [req EXCEPT ![r].via = n, ![r].over = FALSE]
  BY DEF NewPassword, RequestsHaveAccounts
<1>2. /\ password' \in [User -> 0..MaxPassword] /\ n \in 0..MaxPassword
      /\ password'[u] = n /\ n <= n
      /\ \A w \in User : password[w] <= password'[w]
      /\ \A w \in User \ {u} : password'[w] = password[w]
      /\ n >= cut[u].sessions
  BY <1>1, NewerPassword
<1> HIDE DEF n
<1>7. flags' \in [User -> SUBSET Flag] /\ \A w \in User : Here(w)' <=> Here(w)
  <2>1. flags' = [flags EXCEPT ![u] = @ \cup {"password"}]
    BY DEF NewPassword
  <2>2. flags \in [User -> SUBSET Flag] /\ u \in User
    BY <1>1 DEF TypeOK
  <2> HIDE DEF u
  <2>3. /\ flags' \in [User -> SUBSET Flag] /\ flags'[u] = flags[u] \cup {"password"}
        /\ \A w \in User \ {u} : flags'[w] = flags[w]
    BY <2>1, <2>2 DEF Flag
  <2>4. "here" \in flags'[u] <=> "here" \in flags[u]
    BY <2>3
  <2>5. \A w \in User : "here" \in flags'[w] <=> "here" \in flags[w]
    BY <2>3, <2>4
  <2>6. flags' \in [User -> SUBSET Flag]
    BY <2>3
  <2> QED
    BY <2>5, <2>6 DEF Here
<1>3. /\ \A q \in Request : req'[q] \in Carried /\ req'[q].user = req[q].user
      /\ \A q \in Request \ {r} : req'[q] = req[q] /\ pc'[q] = pc[q]
      /\ req'[r].via = n /\ pc'[r] = step
  <2>1. \A q \in Request \ {r} : req'[q] = req[q] /\ pc'[q] = pc[q]
    BY <1>1 DEF TypeOK
  <2>2. pc'[r] = step /\ req'[r] = [[req[r] EXCEPT !.via = n] EXCEPT !.over = FALSE]
    BY <1>1 DEF TypeOK
  <2>3. req'[r] \in Carried /\ req'[r].user = req[r].user /\ req'[r].via = n
    BY <1>2, <2>2, RowTypes, ZenonT(60) DEF Carried
  <2> QED
    BY <2>1, <2>2, <2>3, RowTypes
<1>4. TypeOK'
  <2>1. req' \in [Request -> Carried]
    BY <1>1, <1>3 DEF TypeOK
  <2>2. password' \in [User -> 0..MaxPassword] /\ pc' \in [Request -> Step]
    BY <1>2 DEF TypeOK, Step
  <2> QED
    BY <1>7, <2>1, <2>2 DEF TypeOK
<1>5. SweptSessionsGone' /\ SweptTokensRevoked'
  BY DEF SweptSessionsGone, SweptTokensRevoked
<1>6. RequestsHaveAccounts'
  BY <1>3, <1>7 DEF RequestsHaveAccounts
<1>8. PasswordsWereSet'
  <2>1. /\ \A q \in Request : pc[q] # "idle" => req[q].via <= password'[req[q].user]
        /\ \A w \in User : cut[w].tokens <= cut[w].sessions /\ cut[w].sessions <= password'[w]
        /\ \A s \in Session : session[s] # None => session[s].via <= password'[session[s].user]
        /\ \A a \in ApiToken : api[a] # None => api[a].via <= password'[api[a].user]
        /\ \A k \in Mailed : mailed[k] # None => mailed[k].via <= password'[mailed[k].user]
    BY <1>2, <1>4, PasswordGrows
  <2>2. \A q \in Request : /\ pc'[q] # "idle" => req'[q].via <= password'[req'[q].user]
                           /\ pc'[q] = "revoke tokens" => req'[q].via <= cut'[req'[q].user].sessions
    <3>1. req'[r].via <= password'[req'[r].user]
      BY <1>2, <1>3
    <3> QED
      BY <1>3, <2>1, <3>1, ZenonT(60) DEF PasswordsWereSet
  <2>3. \A w \in User : ~Here(w)' => password'[w] = 0
    <3>1. Here(u)
      BY DEF RequestsHaveAccounts
    <3> QED
      BY <1>1, <1>7, <3>1 DEF TypeOK, PasswordsWereSet
  <2> QED
    BY <2>1, <2>2, <2>3 DEF PasswordsWereSet
<1>9. OvertakenMarked'
  <2>1. Fresh(req[r], "sessions")'
    BY <1>2, <1>3 DEF Fresh
  <2> QED
    BY <1>3, <2>1, ZenonT(60) DEF OvertakenMarked, FreshFor, Fresh, Creating
<1> QED
  BY <1>4, <1>5, <1>6, <1>8, <1>9

-----------------------------------------------------------------------------
(* The sweeps. *)

\* What is under way keeps what it carries, and is marked when it is older.
LEMMA OvertakeMarks ==
    ASSUME TypeOK, NEW r \in Request, NEW u \in User, NEW v \in 0..MaxPassword,
           NEW own \in Carried, Overtake(r, u, v, own)
    PROVE  /\ req' \in [Request -> Carried] /\ mailed' \in [Mailed -> MailedRow \cup {None}]
           /\ req'[r] = own
           /\ \A q \in Request \ {r} :
                  /\ req'[q].user = req[q].user /\ req'[q].via = req[q].via
                  /\ req'[q].row = req[q].row /\ (req[q].over => req'[q].over)
                  /\ pc[q] \in Creating /\ req[q].user = u /\ req[q].via < v => req'[q].over
           /\ \A k \in Mailed : mailed'[k] # None =>
                  /\ mailed[k] # None /\ mailed'[k].user = mailed[k].user
                  /\ mailed'[k].via = mailed[k].via /\ mailed'[k].kind = mailed[k].kind
                  /\ mailed[k].over => mailed'[k].over
                  /\ mailed[k].kind = "challenge" /\ mailed[k].user = u /\ mailed[k].via < v
                        => mailed'[k].over
<1>1. \A q \in Request \ {r} : \/ req'[q] = req[q] /\ ~(/\ pc[q] \in Creating
                                                       /\ req[q].user = u /\ req[q].via < v)
                              \/ req'[q] = [req[q] EXCEPT !.over = TRUE]
  BY DEF Overtake
<1>2. \A k \in Mailed : \/ mailed'[k] = mailed[k]
                           /\ ~(/\ mailed[k] # None /\ mailed[k].kind = "challenge"
                                /\ mailed[k].user = u /\ mailed[k].via < v)
                        \/ mailed[k] # None /\ mailed'[k] = [mailed[k] EXCEPT !.over = TRUE]
  BY DEF Overtake
<1>3. req'[r] = own
  BY DEF Overtake
<1>4. \A q \in Request \ {r} :
          /\ req'[q] \in Carried
          /\ req'[q].user = req[q].user /\ req'[q].via = req[q].via
          /\ req'[q].row = req[q].row /\ (req[q].over => req'[q].over)
          /\ pc[q] \in Creating /\ req[q].user = u /\ req[q].via < v => req'[q].over
  <2> SUFFICES ASSUME NEW q \in Request \ {r}
               PROVE  /\ req'[q] \in Carried
                      /\ req'[q].user = req[q].user /\ req'[q].via = req[q].via
                      /\ req'[q].row = req[q].row /\ (req[q].over => req'[q].over)
                      /\ pc[q] \in Creating /\ req[q].user = u /\ req[q].via < v
                            => req'[q].over
    OBVIOUS
  <2>1. req[q] \in Carried
    BY DEF TypeOK
  <2>2. CASE req'[q] = req[q] /\ ~(pc[q] \in Creating /\ req[q].user = u /\ req[q].via < v)
    BY <2>1, <2>2
  <2>3. CASE req'[q] = [req[q] EXCEPT !.over = TRUE]
    <3>1. /\ req'[q] \in Carried /\ req'[q].over
          /\ req'[q].user = req[q].user /\ req'[q].via = req[q].via /\ req'[q].row = req[q].row
      BY <2>1, <2>3 DEF Carried
    <3> QED
      BY <3>1
  <2> QED
    BY <1>1, <2>2, <2>3
<1>5. \A k \in Mailed : mailed'[k] # None =>
          /\ mailed'[k] \in MailedRow
          /\ mailed[k] # None /\ mailed'[k].user = mailed[k].user
          /\ mailed'[k].via = mailed[k].via /\ mailed'[k].kind = mailed[k].kind
          /\ mailed[k].over => mailed'[k].over
          /\ mailed[k].kind = "challenge" /\ mailed[k].user = u /\ mailed[k].via < v
                => mailed'[k].over
  <2> SUFFICES ASSUME NEW k \in Mailed, mailed'[k] # None
               PROVE  /\ mailed'[k] \in MailedRow
                      /\ mailed[k] # None /\ mailed'[k].user = mailed[k].user
                      /\ mailed'[k].via = mailed[k].via /\ mailed'[k].kind = mailed[k].kind
                      /\ mailed[k].over => mailed'[k].over
                      /\ mailed[k].kind = "challenge" /\ mailed[k].user = u /\ mailed[k].via < v
                            => mailed'[k].over
    OBVIOUS
  <2>1. CASE /\ mailed'[k] = mailed[k]
             /\ ~(/\ mailed[k] # None /\ mailed[k].kind = "challenge"
                  /\ mailed[k].user = u /\ mailed[k].via < v)
    BY <2>1 DEF TypeOK
  <2>2. CASE mailed[k] # None /\ mailed'[k] = [mailed[k] EXCEPT !.over = TRUE]
    <3>1. mailed[k] \in MailedRow
      BY <2>2 DEF TypeOK
    <3>2. /\ mailed'[k] \in MailedRow /\ mailed'[k].over
          /\ mailed'[k].user = mailed[k].user /\ mailed'[k].via = mailed[k].via
          /\ mailed'[k].kind = mailed[k].kind
      BY <2>2, <3>1 DEF MailedRow
    <3> QED
      BY <2>2, <3>2
  <2> QED
    BY <1>2, <2>1, <2>2
<1>6. req' \in [Request -> Carried] /\ mailed' \in [Mailed -> MailedRow \cup {None}]
  BY <1>3, <1>4, <1>5 DEF Overtake
<1> QED
  BY <1>3, <1>4, <1>5, <1>6

\* What has been swept for only grows, and not over what knows the new password.
LEMMA NewerBounds ==
    ASSUME NEW v \in 0..MaxPassword, NEW w \in 0..MaxPassword
    PROVE  /\ Newer(v, w) \in 0..MaxPassword /\ w <= Newer(v, w) /\ v <= Newer(v, w)
           /\ \A n \in 0..MaxPassword : n >= w /\ ~(n < v) => n >= Newer(v, w)
  BY DEF Newer

CutGrows(u, v) ==
    /\ cut' \in [User -> [sessions : 0..MaxPassword, tokens : 0..MaxPassword]]
    /\ \A w \in User : /\ cut[w].sessions <= cut'[w].sessions
                       /\ cut'[w].tokens <= cut'[w].sessions
                       /\ cut'[w].sessions <= password[w]
    /\ \A w \in User, n \in 0..MaxPassword : ~(w = u /\ n < v) =>
           /\ n >= cut[w].sessions => n >= cut'[w].sessions
           /\ n >= cut[w].tokens => n >= cut'[w].tokens

LEMMA SessionsCut ==
    ASSUME CredentialsInvariant, NEW u \in User, NEW v \in 0..MaxPassword, v <= password[u],
           cut' = Raised(u, "sessions", v)
    PROVE  /\ CutGrows(u, v) /\ v <= cut'[u].sessions
           /\ \A w \in User : cut'[w].tokens = cut[w].tokens
<1> USE DEF CredentialsInvariant
<1>1. /\ cut' \in [User -> [sessions : 0..MaxPassword, tokens : 0..MaxPassword]]
      /\ cut'[u].sessions = Newer(v, cut[u].sessions) /\ cut'[u].tokens = cut[u].tokens
      /\ \A w \in User \ {u} : cut'[w] = cut[w]
  BY RowTypes, NewerBounds, ZenonT(60) DEF Raised, TypeOK
<1>2. /\ \A w \in User : cut[w].tokens <= cut[w].sessions /\ cut[w].sessions <= password[w]
  BY DEF PasswordsWereSet
<1>3. /\ cut[u].sessions <= cut'[u].sessions /\ v <= cut'[u].sessions
      /\ cut'[u].tokens <= cut'[u].sessions /\ cut'[u].sessions <= password[u]
      /\ \A n \in 0..MaxPassword : n >= cut[u].sessions /\ ~(n < v) => n >= cut'[u].sessions
  BY <1>1, <1>2, RowTypes DEF Newer
<1> QED
  BY <1>1, <1>2, <1>3, RowTypes DEF CutGrows

LEMMA TokensCut ==
    ASSUME CredentialsInvariant, NEW u \in User, NEW v \in 0..MaxPassword,
           v <= cut[u].sessions, cut' = Raised(u, "tokens", v)
    PROVE  /\ CutGrows(u, v) /\ v <= cut'[u].tokens
           /\ \A w \in User : cut'[w].sessions = cut[w].sessions
<1> USE DEF CredentialsInvariant
<1>1. /\ cut' \in [User -> [sessions : 0..MaxPassword, tokens : 0..MaxPassword]]
      /\ cut'[u].tokens = Newer(v, cut[u].tokens) /\ cut'[u].sessions = cut[u].sessions
      /\ \A w \in User \ {u} : cut'[w] = cut[w]
  BY RowTypes, NewerBounds, ZenonT(60) DEF Raised, TypeOK
<1>2. /\ \A w \in User : cut[w].tokens <= cut[w].sessions /\ cut[w].sessions <= password[w]
  BY DEF PasswordsWereSet
<1>3. /\ cut'[u].tokens <= cut'[u].sessions /\ v <= cut'[u].tokens
      /\ \A n \in 0..MaxPassword : n >= cut[u].tokens /\ ~(n < v) => n >= cut'[u].tokens
  BY <1>1, <1>2, RowTypes DEF Newer
<1> QED
  BY <1>1, <1>2, <1>3, RowTypes DEF CutGrows

LEMMA OwnStaysFresh ==
    ASSUME NEW x, x.user \in User, x.via \in 0..MaxPassword, CutGrows(x.user, x.via)
    PROVE  x.via >= cut[x.user].sessions => x.via >= cut'[x.user].sessions
<1>1. ~(x.via < x.via)
  OBVIOUS
<1> QED
  BY <1>1 DEF CutGrows

\* So the requests but the one that sweeps, and the codes, are fresh still or marked.
LEMMA OthersKept ==
    ASSUME CredentialsInvariant, NEW r \in Request, NEW u \in User, NEW v \in 0..MaxPassword,
           NEW own \in Carried, Overtake(r, u, v, own), CutGrows(u, v),
           \A q \in Request \ {r} : pc'[q] = pc[q], UNCHANGED accountVars
    PROVE  /\ req' \in [Request -> Carried] /\ mailed' \in [Mailed -> MailedRow \cup {None}]
           /\ req'[r] = own
           /\ \A q \in Request \ {r} :
                  /\ pc'[q] # "idle" => /\ req'[q].user \in User /\ Here(req'[q].user)
                                       /\ req'[q].via <= password[req'[q].user]
                  /\ pc'[q] = "revoke tokens" => req'[q].via <= cut'[req'[q].user].sessions
                  /\ FreshFor(pc[q], req[q])'
           /\ \A k \in Mailed : mailed'[k] # None =>
                  /\ mailed'[k].via <= password[mailed'[k].user]
                  /\ mailed'[k].kind = "challenge" => Fresh(mailed[k], "sessions")'
                  /\ mailed'[k].kind = "verify" => mailed'[k].via = 0
<1> USE DEF CredentialsInvariant, accountVars
<1>1. ASSUME NEW x, x.user \in User, x.via \in 0..MaxPassword, ~(x.user = u /\ x.via < v)
      PROVE  /\ x.via >= cut[x.user].sessions => x.via >= cut'[x.user].sessions
             /\ x.via >= cut[x.user].tokens => x.via >= cut'[x.user].tokens
  BY <1>1 DEF CutGrows
<1>2. ASSUME NEW q \in Request \ {r}
      PROVE  /\ pc'[q] # "idle" => /\ req'[q].user \in User /\ Here(req'[q].user)
                                  /\ req'[q].via <= password[req'[q].user]
             /\ pc'[q] = "revoke tokens" => req'[q].via <= cut'[req'[q].user].sessions
             /\ FreshFor(pc[q], req[q])'
  <2>1. /\ req'[q].user = req[q].user /\ req'[q].via = req[q].via /\ pc'[q] = pc[q]
        /\ req[q].over => req'[q].over
        /\ pc[q] \in Creating /\ req[q].user = u /\ req[q].via < v => req'[q].over
    BY OvertakeMarks
  <2>2. pc[q] # "idle" => /\ req[q].user \in User /\ Here(req[q].user)
                          /\ req[q].via <= password[req[q].user]
    BY DEF RequestsHaveAccounts, PasswordsWereSet
  <2>3. pc[q] = "revoke tokens" => req[q].via <= cut'[req[q].user].sessions
    <3>1. ASSUME pc[q] = "revoke tokens" PROVE req[q].via <= cut[req[q].user].sessions
      BY <3>1 DEF PasswordsWereSet
    <3>2. ASSUME req[q].user \in User, req[q].via <= cut[req[q].user].sessions
          PROVE  req[q].via <= cut'[req[q].user].sessions
      BY <3>2, RowTypes DEF CutGrows
    <3> QED
      BY <2>2, <3>1, <3>2
  <2>4. pc[q] \in Creating => pc[q] # "idle"
    BY DEF Creating
  <2>5. pc[q] \in Creating /\ Fresh(req[q], "sessions") => Fresh(req[q], "sessions")'
    BY <1>1, <2>1, <2>2, <2>4, RowTypes DEF Fresh
  <2>6. pc[q] \in Creating /\ Fresh(req[q], "tokens") => Fresh(req[q], "tokens")'
    BY <1>1, <2>1, <2>2, <2>4, RowTypes DEF Fresh
  <2>7. FreshFor(pc[q], req[q])
    BY DEF OvertakenMarked
  <2>8. FreshFor(pc[q], req[q])'
    BY <2>1, <2>5, <2>6, <2>7 DEF FreshFor, Creating
  <2> QED
    BY <2>1, <2>2, <2>3, <2>8
<1>3. ASSUME NEW k \in Mailed, mailed'[k] # None
      PROVE  /\ mailed'[k].via <= password[mailed'[k].user]
             /\ mailed'[k].kind = "challenge" => Fresh(mailed[k], "sessions")'
             /\ mailed'[k].kind = "verify" => mailed'[k].via = 0
  <2>1. /\ mailed[k] # None /\ mailed'[k].user = mailed[k].user
        /\ mailed'[k].via = mailed[k].via /\ mailed'[k].kind = mailed[k].kind
        /\ mailed[k].over => mailed'[k].over
        /\ mailed[k].kind = "challenge" /\ mailed[k].user = u /\ mailed[k].via < v
              => mailed'[k].over
    BY <1>3, OvertakeMarks
  <2>2. /\ mailed[k].via <= password[mailed[k].user]
        /\ mailed[k].kind = "challenge" => Fresh(mailed[k], "sessions")
        /\ mailed[k].kind = "verify" => mailed[k].via = 0
    BY <2>1 DEF PasswordsWereSet, OvertakenMarked
  <2>3. mailed[k].kind = "challenge" => Fresh(mailed[k], "sessions")'
    BY <1>1, <2>1, <2>2, RowTypes DEF Fresh
  <2> QED
    BY <2>1, <2>2, <2>3
<1>4. /\ req' \in [Request -> Carried] /\ mailed' \in [Mailed -> MailedRow \cup {None}]
      /\ req'[r] = own
  BY OvertakeMarks
<1> QED
  BY <1>2, <1>3, <1>4

\* What is left of a sweep: its own request, and the rows that were created already.
LEMMA SweepKeeps ==
    ASSUME CredentialsInvariant, NEW r \in Request, NEW own \in Carried,
           NEW u, u = req[r].user, NEW v, v = req[r].via,
           NEW step \in Step, pc[r] # "idle", pc' = [pc EXCEPT ![r] = step],
           Overtake(r, u, v, own), CutGrows(u, v),
           UNCHANGED <<accountVars, proved, vouched, cutOff>>,
           session' \in [Session -> SessionRow \cup {None}],
           api' \in [ApiToken -> ApiRow \cup {None}],
           SweptSessionsGone', SweptTokensRevoked',
           \A s \in Session : session'[s] # None => session'[s].via <= password[session'[s].user],
           \A a \in ApiToken : api'[a] # None => api'[a].via <= password[api'[a].user],
           step # "idle" => own = req[r],
           step = "revoke tokens" => req[r].via <= cut'[req[r].user].sessions,
           FreshFor(pc[r], req[r])'
    PROVE  CredentialsInvariant'
<1> USE DEF CredentialsInvariant, accountVars
<1>1. pc'[r] = step /\ pc' \in [Request -> Step] /\ \A q \in Request \ {r} : pc'[q] = pc[q]
  BY DEF TypeOK
<1>2. u \in User /\ Here(u) /\ v \in 0..MaxPassword /\ v <= password[u]
  BY RowTypes DEF RequestsHaveAccounts, PasswordsWereSet
<1>3. /\ req' \in [Request -> Carried] /\ mailed' \in [Mailed -> MailedRow \cup {None}]
      /\ req'[r] = own
      /\ \A q \in Request \ {r} :
             /\ pc'[q] # "idle" => /\ req'[q].user \in User /\ Here(req'[q].user)
                                  /\ req'[q].via <= password[req'[q].user]
             /\ pc'[q] = "revoke tokens" => req'[q].via <= cut'[req'[q].user].sessions
             /\ FreshFor(pc[q], req[q])'
      /\ \A k \in Mailed : mailed'[k] # None =>
             /\ mailed'[k].via <= password[mailed'[k].user]
             /\ mailed'[k].kind = "challenge" => Fresh(mailed[k], "sessions")'
             /\ mailed'[k].kind = "verify" => mailed'[k].via = 0
  BY <1>1, <1>2, OthersKept
<1>4. TypeOK'
  BY <1>1, <1>3 DEF TypeOK, CutGrows
<1>5. RequestsHaveAccounts'
  BY <1>1, <1>2, <1>3 DEF RequestsHaveAccounts, Here
<1>6. PasswordsWereSet'
  <2>1. \A q \in Request : /\ pc'[q] # "idle" => req'[q].via <= password[req'[q].user]
                           /\ pc'[q] = "revoke tokens" => req'[q].via <= cut'[req'[q].user].sessions
    BY <1>1, <1>2, <1>3
  <2>2. \A w \in User : cut'[w].tokens <= cut'[w].sessions /\ cut'[w].sessions <= password[w]
    BY DEF CutGrows
  <2>3. \A w \in User : ~Here(w)' => password[w] = 0
    BY DEF PasswordsWereSet, Here
  <2> QED
    BY <1>3, <2>1, <2>2, <2>3 DEF PasswordsWereSet
<1>7. OvertakenMarked'
  BY <1>3 DEF OvertakenMarked
<1> QED
  BY <1>4, <1>5, <1>6, <1>7

\* A reset sweeps the sessions of the account...
LEMMA DropSessionsKeeps ==
    ASSUME CredentialsInvariant, NEW r \in Request, DropSessions(r)
    PROVE  CredentialsInvariant'
<1> DEFINE u == req[r].user
           v == req[r].via
<1>1. /\ pc[r] = "drop sessions" /\ pc' = [pc EXCEPT ![r] = "revoke tokens"]
      /\ session' = [s \in Session |-> IF session[s] # None /\ session[s].user = u
                                       THEN None ELSE session[s]]
      /\ cut' = Raised(u, "sessions", v) /\ Overtake(r, u, v, req[r])
      /\ UNCHANGED <<password, flags, api, proved, vouched, cutOff>>
  BY DEF DropSessions, At, accountVars
<1>2. /\ u \in User /\ v \in 0..MaxPassword /\ req[r] \in Carried
      /\ v <= password[u] /\ Fresh(req[r], "sessions")
  BY <1>1, RowTypes DEF CredentialsInvariant, RequestsHaveAccounts, PasswordsWereSet,
                        OvertakenMarked, FreshFor, Creating
<1>3. /\ CutGrows(u, v) /\ v <= cut'[u].sessions
      /\ \A w \in User : cut'[w].tokens = cut[w].tokens
  BY <1>1, <1>2, SessionsCut
<1>4. \A s \in Session : session'[s] # None => session'[s] = session[s] /\ session[s].user # u
  BY <1>1
<1>5. SweptSessionsGone'
  <2>1. ASSUME NEW s \in Session, session'[s] # None
        PROVE  session'[s].via >= cut'[session'[s].user].sessions \/ session'[s].over
    <3>1. /\ session[s].user \in User /\ session[s].via \in 0..MaxPassword
          /\ session[s].via >= cut[session[s].user].sessions \/ session[s].over
      BY <1>4, <2>1, RowTypes DEF CredentialsInvariant, SweptSessionsGone
    <3> QED
      BY <1>3, <1>4, <2>1, <3>1 DEF CutGrows
  <2> QED
    BY <2>1 DEF SweptSessionsGone
<1>6. SweptTokensRevoked'
  BY <1>1, <1>3, RowTypes DEF CredentialsInvariant, SweptTokensRevoked
<1>7. FreshFor(pc[r], req[r])'
  <2>1. pc'[r] = "revoke tokens" /\ req'[r] = req[r]
    BY <1>1 DEF CredentialsInvariant, TypeOK, Overtake
  <2>2. Fresh(req[r], "sessions")'
    BY <1>2, <1>3, <2>1, OwnStaysFresh DEF Fresh
  <2> QED
    BY <2>1, <2>2 DEF FreshFor
<1>8. /\ session' \in [Session -> SessionRow \cup {None}]
      /\ api' \in [ApiToken -> ApiRow \cup {None}]
      /\ \A s \in Session : session'[s] # None => session'[s].via <= password[session'[s].user]
      /\ \A a \in ApiToken : api'[a] # None => api'[a].via <= password[api'[a].user]
  BY <1>1 DEF CredentialsInvariant, TypeOK, PasswordsWereSet
<1> QED
  BY <1>1, <1>2, <1>3, <1>5, <1>6, <1>7, <1>8, SweepKeeps DEF accountVars, Step

\* ... and then its API tokens, which a session made older ones of is gone for...
LEMMA RevokeTokensKeeps ==
    ASSUME CredentialsInvariant, NEW r \in Request, RevokeTokens(r)
    PROVE  CredentialsInvariant'
<1> DEFINE u == req[r].user
           v == req[r].via
<1>1. /\ pc[r] = "revoke tokens" /\ pc' = [pc EXCEPT ![r] = "sign in"]
      /\ api' = [a \in ApiToken |-> IF api[a] # None /\ api[a].user = u
                                    THEN [api[a] EXCEPT !.revoked = TRUE] ELSE api[a]]
      /\ cut' = Raised(u, "tokens", v) /\ Overtake(r, u, v, req[r])
      /\ UNCHANGED <<password, flags, session, proved, vouched, cutOff>>
  BY DEF RevokeTokens, At, accountVars
<1>2. /\ u \in User /\ v \in 0..MaxPassword /\ req[r] \in Carried
      /\ v <= cut[u].sessions /\ Fresh(req[r], "sessions")
  BY <1>1, RowTypes DEF CredentialsInvariant, RequestsHaveAccounts, PasswordsWereSet,
                        OvertakenMarked, FreshFor, Creating
<1>3. /\ CutGrows(u, v)
      /\ \A w \in User : cut'[w].sessions = cut[w].sessions
  BY <1>1, <1>2, TokensCut
<1>4. \A a \in ApiToken : api'[a] # None =>
          /\ api'[a] \in ApiRow /\ api[a] # None /\ api'[a].user = api[a].user
          /\ api'[a].via = api[a].via /\ api'[a].over = api[a].over
          /\ IF api[a].user = u THEN api'[a].revoked ELSE api'[a].revoked = api[a].revoked
  <2> SUFFICES ASSUME NEW a \in ApiToken, api'[a] # None
               PROVE  /\ api'[a] \in ApiRow /\ api[a] # None /\ api'[a].user = api[a].user
                      /\ api'[a].via = api[a].via /\ api'[a].over = api[a].over
                      /\ IF api[a].user = u THEN api'[a].revoked
                                            ELSE api'[a].revoked = api[a].revoked
    OBVIOUS
  <2>1. api[a] \in ApiRow /\ api[a] # None
    BY <1>1 DEF CredentialsInvariant, TypeOK
  <2> QED
    BY <1>1, <2>1 DEF ApiRow
<1>5. SweptTokensRevoked'
  <2>1. ASSUME NEW a \in ApiToken, api'[a] # None, api[a].user # u
        PROVE  \/ api'[a].via >= cut'[api'[a].user].tokens
               \/ api'[a].over \/ api'[a].revoked
    <3>1. /\ api[a] # None /\ api[a].user \in User /\ api[a].via \in 0..MaxPassword
          /\ api[a].via >= cut[api[a].user].tokens \/ api[a].over \/ api[a].revoked
      BY <1>4, <2>1, RowTypes DEF CredentialsInvariant, SweptTokensRevoked
    <3> QED
      BY <1>3, <1>4, <2>1, <3>1 DEF CutGrows
  <2> QED
    BY <1>4, <2>1 DEF SweptTokensRevoked
<1>6. SweptSessionsGone'
  BY <1>1, <1>3, RowTypes DEF CredentialsInvariant, SweptSessionsGone
<1>7. FreshFor(pc[r], req[r])'
  <2>1. pc'[r] = "sign in" /\ req'[r] = req[r]
    BY <1>1 DEF CredentialsInvariant, TypeOK, Overtake
  <2>2. Fresh(req[r], "sessions")'
    BY <1>2, <1>3, <2>1, OwnStaysFresh DEF Fresh
  <2> QED
    BY <2>1, <2>2 DEF FreshFor
<1>8. /\ session' \in [Session -> SessionRow \cup {None}]
      /\ api' \in [ApiToken -> ApiRow \cup {None}]
      /\ \A s \in Session : session'[s] # None => session'[s].via <= password[session'[s].user]
      /\ \A a \in ApiToken : api'[a] # None => api'[a].via <= password[api'[a].user]
  BY <1>1, <1>4 DEF CredentialsInvariant, TypeOK, PasswordsWereSet
<1> QED
  BY <1>1, <1>2, <1>3, <1>5, <1>6, <1>7, <1>8, SweepKeeps DEF accountVars, Step

\* ... and a change of the password leaves its own session, which knows the new one.
LEMMA DropOthersKeeps ==
    ASSUME CredentialsInvariant, NEW r \in Request, DropOthers(r)
    PROVE  CredentialsInvariant'
<1> DEFINE u == req[r].user
           v == req[r].via
<1>1. /\ pc[r] = "drop others" /\ pc' = [pc EXCEPT ![r] = "idle"]
      /\ session' = [s \in Session |->
             IF session[s] # None /\ session[s].user = u
             THEN IF s = req[r].row THEN [session[s] EXCEPT !.via = Newer(v, @)] ELSE None
             ELSE session[s]]
      /\ cut' = Raised(u, "sessions", v) /\ Overtake(r, u, v, Nothing)
      /\ UNCHANGED <<password, flags, api, proved, vouched, cutOff>>
  BY DEF DropOthers, At, accountVars
<1>2. u \in User /\ v \in 0..MaxPassword /\ v <= password[u] /\ Nothing \in Carried
  BY <1>1, RowTypes, NothingIsCarried
     DEF CredentialsInvariant, RequestsHaveAccounts, PasswordsWereSet
<1>3. /\ CutGrows(u, v) /\ v <= cut'[u].sessions
      /\ \A w \in User : cut'[w].tokens = cut[w].tokens
  BY <1>1, <1>2, SessionsCut
<1>4. ASSUME NEW s \in Session, session'[s] # None
      PROVE  /\ session'[s] \in SessionRow
             /\ session'[s].via >= cut'[session'[s].user].sessions \/ session'[s].over
             /\ session'[s].via <= password[session'[s].user]
  <2>1. /\ session[s] # None /\ session[s] \in SessionRow
        /\ session[s].user \in User /\ session[s].via \in 0..MaxPassword
        /\ session[s].via <= password[session[s].user]
        /\ session[s].via >= cut[session[s].user].sessions \/ session[s].over
    BY <1>1, <1>4, RowTypes DEF CredentialsInvariant, TypeOK, PasswordsWereSet, SweptSessionsGone
  <2>2. CASE session[s].user = u
    <3> DEFINE n == Newer(v, session[s].via)
    <3>1. session'[s] = [session[s] EXCEPT !.via = n]
      BY <1>1, <1>4, <2>1, <2>2
    <3>2. n \in 0..MaxPassword /\ v <= n /\ session[s].via <= n /\ n <= password[u]
      BY <1>2, <2>1, <2>2, RowTypes DEF Newer, CredentialsInvariant
    <3>3. n >= cut'[u].sessions \/ session[s].over
      <4>1. ~(n < v)
        BY <1>2, <3>2
      <4>2. session[s].over \/ n >= cut[u].sessions
        BY <1>2, <2>1, <2>2, <3>2, RowTypes DEF CredentialsInvariant
      <4> QED
        BY <1>2, <1>3, <3>2, <4>1, <4>2 DEF CutGrows
    <3> HIDE DEF n
    <3>4. /\ session'[s] \in SessionRow /\ session'[s].via = n
          /\ session'[s].user = u /\ session'[s].over = session[s].over
      BY <2>1, <2>2, <3>1, <3>2 DEF SessionRow
    <3> QED
      BY <3>2, <3>3, <3>4
  <2>3. CASE session[s].user # u
    <3>1. session'[s] = session[s]
      BY <1>1, <2>3
    <3> QED
      BY <1>3, <2>1, <2>3, <3>1 DEF CutGrows
  <2> QED
    BY <2>2, <2>3
<1>5. SweptSessionsGone'
  BY <1>4 DEF SweptSessionsGone
<1>6. SweptTokensRevoked'
  BY <1>1, <1>3, RowTypes DEF CredentialsInvariant, SweptTokensRevoked
<1>7. FreshFor(pc[r], req[r])'
  <2>1. pc'[r] = "idle"
    BY <1>1 DEF CredentialsInvariant, TypeOK
  <2> QED
    BY <2>1 DEF FreshFor, Creating
<1>8. /\ session' \in [Session -> SessionRow \cup {None}]
      /\ api' \in [ApiToken -> ApiRow \cup {None}]
      /\ \A s \in Session : session'[s] # None => session'[s].via <= password[session'[s].user]
      /\ \A a \in ApiToken : api'[a] # None => api'[a].via <= password[api'[a].user]
  BY <1>1, <1>4 DEF CredentialsInvariant, TypeOK, PasswordsWereSet
<1> QED
  BY <1>1, <1>2, <1>3, <1>5, <1>6, <1>7, <1>8, SweepKeeps DEF accountVars, Step

-----------------------------------------------------------------------------
(* Every step. *)

\* The statements of a request that is under way.
LEMMA RequestStepKeeps ==
    ASSUME CredentialsInvariant, NEW r \in Request, RequestStep(r)
    PROVE  CredentialsInvariant'
<1>1. CASE ClearVerified(r) \/ Drop(r) \/ SetTwoFactor(r)
  <2>1. /\ pc[r] # "idle" /\ (Done(r) \/ (pc[r] = "clear" /\ Goto(r, "mail")))
        /\ UNCHANGED <<password, rowVars, cut, proved, vouched>>
        /\ \/ UNCHANGED flags
           \/ flags' = [flags EXCEPT ![req[r].user] = @ \ {"verified"}]
           \/ flags' = [flags EXCEPT ![req[r].user] = @ \cup {"twoFactor"}]
           \/ flags' = [flags EXCEPT ![req[r].user] = @ \ {"twoFactor"}]
        /\ cutOff' = cutOff \/ cutOff' = cutOff \cup {req[r].user}
    BY <1>1 DEF ClearVerified, Drop, SetTwoFactor, At, historyVars, accountVars
  <2>2. req[r].user \in User /\ TypeOK
    BY <2>1 DEF CredentialsInvariant, RequestsHaveAccounts
  <2>3. proved' \subseteq User /\ vouched' \subseteq User /\ cutOff' \subseteq User
    BY <2>1, <2>2 DEF TypeOK
  <2>4. flags' \in [User -> SUBSET Flag] /\ \A u \in User : Here(u) => Here(u)'
    BY <2>1, <2>2, SMTT(60) DEF TypeOK, Flag, Here
  <2> QED
    BY <2>1, <2>3, <2>4, MoveKeeps
<1>2. CASE MarkUsed(r)
  BY <1>2, MarkUsedKeeps
<1>3. CASE SetVerified(r)
  BY <1>3, SetVerifiedKeeps
<1>4. CASE SetPassword(r)
  <2>1. /\ pc[r] # "idle" /\ NewPassword(r) /\ pc' = [pc EXCEPT ![r] = "set verified"]
        /\ UNCHANGED <<rowVars, historyVars>>
    BY <1>4 DEF SetPassword, At
  <2> QED
    BY <2>1, NewPasswordKeeps
<1>5. CASE ReplacePassword(r)
  <2>1. /\ pc[r] # "idle" /\ NewPassword(r) /\ pc' = [pc EXCEPT ![r] = "drop others"]
        /\ UNCHANGED <<rowVars, historyVars>>
    BY <1>5 DEF ReplacePassword, At
  <2> QED
    BY <2>1, NewPasswordKeeps
<1>6. CASE DropSessions(r)
  BY <1>6, DropSessionsKeeps
<1>7. CASE RevokeTokens(r)
  BY <1>7, RevokeTokensKeeps
<1>8. CASE DropOthers(r)
  BY <1>8, DropOthersKeeps
<1>9. ASSUME NEW k \in Mailed, MailVerification(r, k) PROVE CredentialsInvariant'
  BY <1>9, NewMailedKeeps DEF MailVerification, At, Kind
<1>10. ASSUME NEW k \in Mailed, CreateChallenge(r, k) PROVE CredentialsInvariant'
  BY <1>10, NewMailedKeeps DEF CreateChallenge, At, Kind
<1>11. ASSUME NEW s \in Session, CreateSession(r, s) PROVE CredentialsInvariant'
  BY <1>11, CreateSessionKeeps
<1>12. ASSUME NEW a \in ApiToken, CreateToken(r, a) PROVE CredentialsInvariant'
  BY <1>12, CreateTokenKeeps
<1> QED
  BY <1>1, <1>2, <1>3, <1>4, <1>5, <1>6, <1>7, <1>8, <1>9, <1>10, <1>11, <1>12 DEF RequestStep

\* The requests that arrive.
LEMMA RequestStartKeeps ==
    ASSUME CredentialsInvariant, NEW r \in Request, RequestStart(r)
    PROVE  CredentialsInvariant'
<1> DEFINE Starts(step, c) == /\ Start(r, step, c)
                              /\ UNCHANGED <<accountVars, rowVars, historyVars>>
<1>1. ASSUME NEW u \in User, NEW v \in 0..MaxPassword,
             NEW row \in Session \cup Mailed \cup {None}, NEW step \in Step,
             Starts(step, Carrying(u, v, row)), Here(u), v <= password[u],
             FreshFor(step, Carrying(u, v, row)), step # "revoke tokens"
      PROVE  CredentialsInvariant'
  <2> DEFINE c == Carrying(u, v, row)
  <2>1. c \in Carried /\ c.user = u /\ c.via = v
    BY CarryingType
  <2> HIDE DEF c
  <2> QED
    BY <1>1, <2>1, StartKeeps DEF c
<1>2. ASSUME NEW u \in User
      PROVE  /\ password[u] \in 0..MaxPassword /\ 0 \in 0..MaxPassword /\ 0 <= password[u]
             /\ password[u] <= password[u] /\ password[u] >= cut[u].sessions
  <2>1. cut[u].sessions <= password[u]
    BY DEF CredentialsInvariant, PasswordsWereSet
  <2> QED
    BY <2>1, RowTypes DEF CredentialsInvariant
<1>3. ASSUME NEW u \in User, NEW step \in {"send code", "sign in"}, Here(u),
             Starts(step, Carrying(u, password[u], None))
      PROVE  CredentialsInvariant'
  <2>1. Fresh(Carrying(u, password[u], None), "sessions")
    BY <1>2 DEF Fresh, Carrying
  <2> QED
    BY <1>1, <1>2, <1>3, <2>1 DEF FreshFor, Creating, Step
<1>4. ASSUME NEW u \in User, NEW row \in Session \cup {None},
             NEW step \in {"mail", "change password", "two-factor on", "two-factor off"}, Here(u),
             Starts(step, Carrying(u, 0, row))
      PROVE  CredentialsInvariant'
  <2>1. FreshFor(step, Carrying(u, 0, row))
    BY DEF FreshFor, Creating, Carrying
  <2> QED
    BY <1>1, <1>2, <1>4, <2>1 DEF Step
<1>5. ASSUME NEW u \in User, Login(r, u) \/ OidcLogin(r, u) PROVE CredentialsInvariant'
  <2>1. Here(u) /\ \E step \in {"send code", "sign in"} : Starts(step, Carrying(u, password[u], None))
    BY <1>5 DEF Login, OidcLogin
  <2> QED
    BY <1>3, <2>1
<1>6. ASSUME NEW k \in Mailed, Consume(r, k) PROVE CredentialsInvariant'
  <2> DEFINE c == [user |-> mailed[k].user, via |-> mailed[k].via, over |-> mailed[k].over,
                   row |-> k]
  <2>1. mailed[k] # None /\ Here(mailed[k].user) /\ Starts(mailed[k].kind, c)
    BY <1>6 DEF Consume
  <2>2. mailed[k] \in MailedRow /\ mailed[k].via <= password[mailed[k].user]
    BY <2>1 DEF CredentialsInvariant, TypeOK, PasswordsWereSet
  <2>3. c \in Carried /\ c.user \in User /\ Here(c.user) /\ c.via <= password[c.user]
    BY <2>1, <2>2 DEF MailedRow, Carried
  <2>4. mailed[k].kind \in Kind
    BY <2>2 DEF MailedRow
  <2>5. FreshFor(mailed[k].kind, c)
    BY <2>1, <2>4 DEF CredentialsInvariant, OvertakenMarked, FreshFor, Fresh, Creating, Kind
  <2> HIDE DEF c
  <2> QED
    BY <2>1, <2>3, <2>4, <2>5, StartKeeps DEF Step, Kind
<1>7. ASSUME NEW s \in Session, AskVerification(r, s) PROVE CredentialsInvariant'
  <2>1. /\ session[s].user \in User /\ Here(session[s].user)
        /\ Starts("mail", Carrying(session[s].user, 0, None))
    BY <1>7, RowTypes DEF AskVerification, CredentialsInvariant
  <2> QED
    BY <1>4, <2>1
<1>8. ASSUME NEW s \in Session, NEW on \in BOOLEAN,
             ChangePassword(r, s) \/ SwitchTwoFactor(r, s, on)
      PROVE  CredentialsInvariant'
  <2>1. /\ session[s].user \in User /\ Here(session[s].user)
        /\ \E step \in {"change password", "two-factor on", "two-factor off"} :
              Starts(step, Carrying(session[s].user, 0, s))
    BY <1>8, RowTypes DEF ChangePassword, SwitchTwoFactor, StartFrom, Authenticated,
                          CredentialsInvariant
  <2> QED
    BY <1>4, <2>1
<1>9. ASSUME NEW x, x.user \in User, x.via \in 0..MaxPassword, x.over \in BOOLEAN,
             Here(x.user), x.via <= password[x.user], Fresh(x, "tokens"),
             Starts("new token", [user |-> x.user, via |-> x.via, over |-> x.over, row |-> None])
      PROVE  CredentialsInvariant'
  <2> DEFINE c == [user |-> x.user, via |-> x.via, over |-> x.over, row |-> None]
  <2>1. c \in Carried /\ c.user \in User /\ Here(c.user) /\ c.via <= password[c.user]
    BY <1>9 DEF Carried
  <2>2. FreshFor("new token", c)
    BY <1>9 DEF FreshFor, Fresh, Creating
  <2> HIDE DEF c
  <2> QED
    BY <1>9, <2>1, <2>2, StartKeeps DEF Step, c
<1>10. ASSUME NEW s \in Session, AskToken(r, s) PROVE CredentialsInvariant'
  <2>1. /\ session[s] # None /\ Here(session[s].user)
        /\ Starts("new token", [user |-> session[s].user, via |-> session[s].via,
                                over |-> session[s].over, row |-> None])
    BY <1>10 DEF AskToken, Authenticated
  <2>2. session[s] \in SessionRow
    BY <2>1 DEF CredentialsInvariant, TypeOK
  <2>3. /\ session[s].user \in User /\ session[s].via \in 0..MaxPassword
        /\ session[s].over \in BOOLEAN
    BY <2>2 DEF SessionRow
  <2>4. /\ session[s].via <= password[session[s].user]
        /\ session[s].via >= cut[session[s].user].sessions \/ session[s].over
        /\ cut[session[s].user].tokens <= cut[session[s].user].sessions
    BY <2>1, <2>3 DEF CredentialsInvariant, PasswordsWereSet, SweptSessionsGone
  <2>5. Fresh(session[s], "tokens")
    BY <2>3, <2>4, RowTypes DEF Fresh, CredentialsInvariant
  <2> QED
    BY <1>9, <2>1, <2>3, <2>4, <2>5
<1>11. ASSUME NEW a \in ApiToken, AskTokenApi(r, a) PROVE CredentialsInvariant'
  <2>1. /\ api[a] # None /\ ~api[a].revoked /\ Here(api[a].user)
        /\ Starts("new token", [user |-> api[a].user, via |-> api[a].via,
                                over |-> api[a].over, row |-> None])
    BY <1>11 DEF AskTokenApi
  <2>2. api[a] \in ApiRow
    BY <2>1 DEF CredentialsInvariant, TypeOK
  <2>3. api[a].user \in User /\ api[a].via \in 0..MaxPassword /\ api[a].over \in BOOLEAN
    BY <2>2 DEF ApiRow
  <2>4. api[a].via <= password[api[a].user] /\ Fresh(api[a], "tokens")
    BY <2>1 DEF CredentialsInvariant, PasswordsWereSet, SweptTokensRevoked, Fresh
  <2> QED
    BY <1>9, <2>1, <2>3, <2>4
<1>12. ASSUME NEW u \in User, SignUp(r, u) PROVE CredentialsInvariant'
  BY <1>12, NewAccountKeeps DEF SignUp, historyVars, Start
<1>13. ASSUME NEW u \in User, OidcSignUp(r, u) PROVE CredentialsInvariant'
  BY <1>13, OidcSignUpKeeps
<1> QED
  BY <1>5, <1>6, <1>7, <1>8, <1>10, <1>11, <1>12, <1>13 DEF RequestStart

\* The invariant survives a step.
LEMMA StepInvariant == CredentialsInvariant /\ [Next]_vars => CredentialsInvariant'
<1> SUFFICES ASSUME CredentialsInvariant, [Next]_vars PROVE CredentialsInvariant'
  OBVIOUS
<1>1. ASSUME NEW r \in Request, RequestStart(r) \/ RequestStep(r) PROVE CredentialsInvariant'
  BY <1>1, RequestStartKeeps, RequestStepKeeps
<1>4. ASSUME NEW u \in User, SignUpInvited(u) \/ AdminCreateUser(u) PROVE CredentialsInvariant'
  <2>1. VouchFor(u)
    BY <1>4 DEF SignUpInvited, AdminCreateUser
  <2> QED
    BY <2>1, NewAccountKeeps DEF VouchFor
<1>5. ASSUME NEW u \in User, NEW given \in BOOLEAN, UpsertOwner(u, given)
      PROVE  CredentialsInvariant'
  BY <1>5, UpsertOwnerKeeps
<1>2. ASSUME NEW k \in Mailed, NEW u \in User, AskReset(k, u) PROVE CredentialsInvariant'
  <2>1. /\ mailed' = [mailed EXCEPT ![k] = [user |-> u, via |-> 0, over |-> FALSE,
                                            kind |-> "reset"]]
        /\ UNCHANGED <<password, flags, session, api, pc, req, cut, proved, vouched, cutOff>>
    BY <1>2 DEF AskReset, accountVars, requestVars, historyVars
  <2>2. 0 \in 0..MaxPassword /\ 0 <= password[u]
    BY RowTypes DEF CredentialsInvariant
  <2>3. TypeOK'
    BY <2>1, <2>2 DEF CredentialsInvariant, TypeOK, MailedRow, Kind
  <2>4. SweptSessionsGone' /\ SweptTokensRevoked' /\ RequestsHaveAccounts'
    BY <2>1 DEF CredentialsInvariant, SweptSessionsGone, SweptTokensRevoked,
                RequestsHaveAccounts, Here
  <2>5. PasswordsWereSet'
    BY <2>1, <2>2 DEF CredentialsInvariant, TypeOK, PasswordsWereSet, Here
  <2>6. OvertakenMarked'
    BY <2>1 DEF CredentialsInvariant, TypeOK, OvertakenMarked, FreshFor, Fresh
  <2> QED
    BY <2>3, <2>4, <2>5, <2>6 DEF CredentialsInvariant
<1>3. CASE \/ \E a \in ApiToken : RevokeToken(a)
           \/ \E s \in Session : EndSession(s)
           \/ \E k \in Mailed : EndMailed(k)
           \/ UNCHANGED vars
  <2>1. /\ UNCHANGED <<password, flags, pc, req, cut, proved, vouched, cutOff>>
        /\ UNCHANGED session \/ \E s \in Session : session' = [session EXCEPT ![s] = None]
        /\ UNCHANGED mailed \/ \E k \in Mailed : mailed' = [mailed EXCEPT ![k] = None]
        /\ UNCHANGED api \/ \E a \in ApiToken :
              api[a] # None /\ api' = [api EXCEPT ![a].revoked = TRUE]
    BY <1>3 DEF RevokeToken, EndSession, EndMailed, vars, accountVars, rowVars, requestVars,
                historyVars
  <2>2. /\ session' \in [Session -> SessionRow \cup {None}]
        /\ \A s \in Session : session'[s] # None => session'[s] = session[s]
    BY <2>1 DEF CredentialsInvariant, TypeOK
  <2>3. /\ mailed' \in [Mailed -> MailedRow \cup {None}]
        /\ \A k \in Mailed : mailed'[k] # None => mailed'[k] = mailed[k]
    BY <2>1 DEF CredentialsInvariant, TypeOK
  <2>4. /\ api' \in [ApiToken -> ApiRow \cup {None}]
        /\ \A a \in ApiToken : api'[a] # None =>
              /\ api[a] # None /\ api'[a].user = api[a].user /\ api'[a].via = api[a].via
              /\ api'[a].over = api[a].over /\ (api[a].revoked => api'[a].revoked)
    <3>1. \A a \in ApiToken : api[a] # None => api[a] \in ApiRow
      BY DEF CredentialsInvariant, TypeOK
    <3>2. ASSUME NEW a \in ApiToken, api'[a] # None
          PROVE  /\ api[a] # None /\ api'[a] \in ApiRow
                 /\ api'[a].user = api[a].user /\ api'[a].via = api[a].via
                 /\ api'[a].over = api[a].over /\ (api[a].revoked => api'[a].revoked)
      <4>1. api[a] # None /\ (api'[a] = api[a] \/ api'[a] = [api[a] EXCEPT !.revoked = TRUE])
        BY <2>1, <3>2 DEF CredentialsInvariant, TypeOK
      <4> QED
        BY <3>1, <4>1 DEF ApiRow
    <3> QED
      BY <2>1, <3>2 DEF CredentialsInvariant, TypeOK
  <2>5. TypeOK'
    BY <2>1, <2>2, <2>3, <2>4 DEF CredentialsInvariant, TypeOK
  <2>6. SweptSessionsGone' /\ SweptTokensRevoked' /\ RequestsHaveAccounts'
    BY <2>1, <2>2, <2>4 DEF CredentialsInvariant, SweptSessionsGone, SweptTokensRevoked,
                            RequestsHaveAccounts, Here
  <2>7. PasswordsWereSet'
    BY <2>1, <2>2, <2>3, <2>4, ZenonT(60) DEF CredentialsInvariant, PasswordsWereSet, Here
  <2>8. OvertakenMarked'
    BY <2>1, <2>3 DEF CredentialsInvariant, OvertakenMarked, FreshFor, Fresh
  <2> QED
    BY <2>5, <2>6, <2>7, <2>8 DEF CredentialsInvariant
<1> QED
  BY <1>1, <1>2, <1>3, <1>4, <1>5 DEF Next, OneStep

\* "It drops every session for the account and revokes all of its API tokens"
\* (security-policy.md:120; password_reset_submit, account_change_password): once a reset or
\* a change of the password has swept the sessions, one that knew an older password was made
\* by a sign-in that was still under way, or of a code that had been sent, when it swept; once
\* a reset has swept the API tokens, so was such a token, or made by such a session or token.
\* Nothing is said of what the two sweeps leave alone: one-time links, API tokens at a change
\* of the password, and everything when an owner command writes a password.
THEOREM SweepsAreComplete == Spec => []CredentialsInvariant
<1> QED
  BY InitInvariant, StepInvariant, PTL DEF Spec

\* "Under `open`, registration requires email verification whenever SMTP is enabled"
\* (authentication.md:31; register): nobody who registered openly is verified but by a mailed
\* token or by an owner command, except between the two statements of the registration or
\* because that ended there; nor is anybody else but by an identity, an invite or an
\* administrator.
THEOREM VerifiedIsProved == Spec => []VerifiedForAReason
<1>1. Init => VerifiedForAReason
  BY DEF Init, VerifiedForAReason
<1>2. CredentialsInvariant /\ VerifiedForAReason /\ [Next]_vars => VerifiedForAReason'
  <2> SUFFICES ASSUME CredentialsInvariant, VerifiedForAReason, [Next]_vars
               PROVE  VerifiedForAReason'
    OBVIOUS
  <2> DEFINE ReasonsStay ==
        /\ proved \subseteq proved' /\ vouched \subseteq vouched' /\ cutOff \subseteq cutOff'
        /\ MailEnabled => \A u \in User : "verified" \in flags'[u] =>
               \/ "verified" \in flags[u] \/ u \in proved' \cup vouched'
               \/ \E r \in Request : pc'[r] = "clear" /\ req'[r].user = u
        /\ \A r \in Request : pc[r] = "clear" =>
               \/ pc'[r] = "clear" /\ req'[r].user = req[r].user
               \/ req[r].user \in cutOff' \/ "verified" \notin flags'[req[r].user]
  <2> SUFFICES ReasonsStay
    BY DEF VerifiedForAReason
  <2> USE DEF CredentialsInvariant, TypeOK, accountVars, rowVars, requestVars, historyVars,
              Start, Done, Goto, At
  <2>1. ASSUME NEW r \in Request, NEW u \in User, SignUp(r, u) PROVE ReasonsStay
    BY <2>1 DEF SignUp, NewAccount, Carrying
  <2>2. ASSUME NEW r \in Request, NEW u \in User, OidcSignUp(r, u) PROVE ReasonsStay
    BY <2>2 DEF OidcSignUp
  <2>3. ASSUME NEW r \in Request, ClearVerified(r) PROVE ReasonsStay
    BY <2>3 DEF ClearVerified, RequestsHaveAccounts
  <2>4. ASSUME NEW r \in Request, SetVerified(r) PROVE ReasonsStay
    BY <2>4 DEF SetVerified
  <2>5. ASSUME NEW r \in Request, SetTwoFactor(r) PROVE ReasonsStay
    BY <2>5 DEF SetTwoFactor
  <2>6. ASSUME NEW r \in Request, Drop(r) PROVE ReasonsStay
    BY <2>6 DEF Drop
  <2>7. ASSUME NEW r \in Request,
               MarkUsed(r) \/ DropSessions(r) \/ RevokeTokens(r) \/ DropOthers(r)
        PROVE  ReasonsStay
    BY <2>7, ZenonT(60) DEF MarkUsed, DropSessions, RevokeTokens, DropOthers, Overtake, Kind,
                Creating
  <2>12. ASSUME NEW r \in Request, SetPassword(r) \/ ReplacePassword(r) PROVE ReasonsStay
    <3>1. /\ flags' = [flags EXCEPT ![req[r].user] = @ \cup {"password"}]
          /\ UNCHANGED <<proved, vouched, cutOff>>
          /\ pc[r] # "clear" /\ \A q \in Request \ {r} : pc'[q] = pc[q] /\ req'[q] = req[q]
      BY <2>12 DEF SetPassword, ReplacePassword, NewPassword
    <3>2. \A u \in User : "verified" \in flags'[u] => "verified" \in flags[u]
      BY <3>1
    <3> QED
      BY <3>1, <3>2
  <2>8. ASSUME NEW r \in Request,
               \/ \E k \in Mailed : MailVerification(r, k) \/ CreateChallenge(r, k)
               \/ \E s \in Session : CreateSession(r, s)
               \/ \E a \in ApiToken : CreateToken(r, a)
        PROVE  ReasonsStay
    BY <2>8 DEF MailVerification, CreateChallenge, NewMailed, CreateSession, CreateToken
  <2>9. ASSUME NEW r \in Request,
               \/ \E u \in User : Login(r, u) \/ OidcLogin(r, u)
               \/ \E k \in Mailed : Consume(r, k)
               \/ \E s \in Session : \/ AskVerification(r, s) \/ ChangePassword(r, s) \/ AskToken(r, s)
                                    \/ \E on \in BOOLEAN : SwitchTwoFactor(r, s, on)
               \/ \E a \in ApiToken : AskTokenApi(r, a)
        PROVE  ReasonsStay
    BY <2>9, ZenonT(60) DEF Login, OidcLogin, Consume, AskVerification, ChangePassword, SwitchTwoFactor,
                StartFrom, AskToken, AskTokenApi
  <2>11. ASSUME NEW u \in User, \/ SignUpInvited(u) \/ AdminCreateUser(u)
                                \/ \E given \in BOOLEAN : UpsertOwner(u, given)
         PROVE  ReasonsStay
    BY <2>11 DEF SignUpInvited, AdminCreateUser, VouchFor, NewAccount, UpsertOwner
  <2>10. CASE \/ \E k \in Mailed, u \in User : AskReset(k, u)
              \/ \E a \in ApiToken : RevokeToken(a)
              \/ \E s \in Session : EndSession(s)
              \/ \E k \in Mailed : EndMailed(k)
              \/ UNCHANGED vars
    BY <2>10 DEF AskReset, RevokeToken, EndSession, EndMailed, vars
  <2> QED
    BY <2>1, <2>2, <2>3, <2>4, <2>5, <2>6, <2>7, <2>8, <2>9, <2>10, <2>11, <2>12
       DEF Next, OneStep, RequestStart, RequestStep
<1> QED
  BY <1>1, <1>2, SweepsAreComplete, PTL DEF Spec
=============================================================================
