-------------------------------- MODULE Pastes --------------------------------
(***************************************************************************)
(* Pastes, their texts and revisions, who owns them and who deletes them.  *)
(*                                                                         *)
(* A handler looks the paste up and asks who may do what; the statements   *)
(* that write follow without a transaction around them, by the id of the   *)
(* row.  Moderation has the handlers that withhold an item; here that is   *)
(* one step.                                                               *)
(***************************************************************************)
EXTENDS Naturals, FiniteSets

CONSTANTS Author, Admin,   \* who may be signed in; the administrators among them
          Nobody,          \* the owner of an anonymous paste
          Paste,           \* rows to be
          Request,         \* edits and deletions in flight
          MaxText,         \* bound: texts ever submitted
          Features,        \* what is switched on
          Rules,           \* who may do what: a rule for each action
          TokensGiven,     \* delete_policy hands out and honours delete tokens
          None

ASSUME PastesAssumption ==
    /\ Admin \subseteq Author /\ Nobody \notin Author
    /\ Features \subseteq {"pastes", "paste_editing", "api"}
    /\ Rules \in [{"create_paste", "claim_anonymous_item", "delete_own_item"} ->
                      {"disabled", "anonymous", "authenticated", "admin"}]
    /\ MaxText \in Nat /\ TokensGiven \in BOOLEAN

VARIABLES paste,      \* paste[p]: a record, or None
          revisions,  \* rows of paste_revisions: <<paste, text>>
          request,    \* request[r]: a record, or None
          texts,      \* texts submitted so far; a text is its number
          had, blind, \* history: texts a paste has lost, and those nobody saved (EditWrite)
          verdict     \* history: what a moderator last made of a paste, or None

historyVars == <<had, blind, verdict>>
pasteVars   == <<paste, revisions, request, texts, historyVars>>

Owner == Author \cup {Nobody}
\* "held" is quarantined, taken down or on legal hold: no statement here tells them apart.
ItemStates == {"active", "held", "deleted", "expired"}

PasteRow   == [owner : Owner, token : BOOLEAN, state : ItemStates, due : BOOLEAN,
               text : 1..MaxText]
RequestRow == [step : {"edit", "insert", "update", "delete"}, paste : Paste,
               text : 0..MaxText, base : 0..MaxText, late : BOOLEAN]

\* What is there and the absence of it are told apart.
ASSUME PastesRowsAssumption == None \notin PasteRow \cup RequestRow \cup ItemStates

PastesInit == /\ paste = [p \in Paste |-> None] /\ revisions = {}
              /\ request = [r \in Request |-> None] /\ texts = 0
              /\ had = {} /\ blind = {} /\ verdict = [p \in Paste |-> None]

-----------------------------------------------------------------------------
Begin(r, q) == request[r] = None /\ request' = [request EXCEPT ![r] = q]
DropRequest(r) == /\ request[r] # None
                  /\ request' = [request EXCEPT ![r] = None]
                  /\ UNCHANGED <<paste, revisions, texts, historyVars>>

\* policy::allowed, can_create_paste
Allowed(action, u) == LET rule == Rules[action] IN
    \/ rule = "anonymous"
    \/ rule = "authenticated" /\ u \in Author
    \/ rule = "admin" /\ u \in Admin
MayCreate(u) == "pastes" \in Features /\ Allowed("create_paste", u)

\* paste_by_public_id
Visible(p) == paste[p] # None /\ paste[p].state = "active" /\ ~paste[p].due

CreatePaste(o, p) ==
    /\ paste[p] = None /\ texts < MaxText
    /\ texts' = texts + 1
    /\ paste' = [paste EXCEPT ![p] = [owner |-> o, token |-> o = Nobody /\ TokensGiven,
                                      state |-> "active", due |-> FALSE,
                                      text |-> texts + 1]]
    /\ UNCHANGED <<revisions, historyVars, request>>

\* create_paste of the form, api_create_paste
FormCreate(o, p) == MayCreate(o) /\ CreatePaste(o, p)
ApiCreate(o, p) == "api" \in Features /\ MayCreate(o) /\ CreatePaste(o, p)

\* can_edit_paste
MayEdit(u, p) == "paste_editing" \in Features /\ (u \in Admin \/ paste[p].owner = u)

\* update_paste of the handler: the paste is looked up, and can_edit_paste asked.
EditStart(r, u, p) ==
    /\ Visible(p) /\ MayEdit(u, p) /\ texts < MaxText
    /\ texts' = texts + 1
    /\ Begin(r, [step |-> "edit", paste |-> p, text |-> texts + 1, base |-> 0, late |-> FALSE])
    /\ UNCHANGED <<paste, revisions, historyVars>>

\* update_paste of the database, in three statements: the row is read by its id...
EditRead(r) ==
    /\ request[r] # None /\ request[r].step = "edit"
    /\ request' = [request EXCEPT ![r].step = "insert", ![r].base = paste[request[r].paste].text]
    /\ UNCHANGED <<paste, revisions, texts, historyVars>>

\* Mutant: the revision keeps the text that comes instead of the text that goes.
EditInsertNew(r) ==
    /\ request[r] # None /\ request[r].step = "insert"
    /\ revisions' = revisions \cup {<<request[r].paste, request[r].text>>}
    /\ request' = [request EXCEPT ![r].step = "update"]
    /\ UNCHANGED <<paste, texts, historyVars>>

\* ... what was read becomes a revision...
EditInsert(r) ==
    /\ request[r] # None /\ request[r].step = "insert"
    /\ revisions' = revisions \cup {<<request[r].paste, request[r].base>>}
    /\ request' = [request EXCEPT ![r].step = "update"]
    /\ UNCHANGED <<paste, texts, historyVars>>

\* ... and the row is written, whatever its text and its state have become.
EditWrite(r) ==
    /\ request[r] # None /\ request[r].step = "update"
    /\ LET q == request[r]
           gone == <<q.paste, paste[q.paste].text>>
       IN  /\ paste' = [paste EXCEPT ![q.paste].text = q.text]
           /\ had' = had \cup {gone}
           /\ blind' = IF q.base = paste[q.paste].text THEN blind ELSE blind \cup {gone}
    /\ request' = [request EXCEPT ![r] = None]
    /\ UNCHANGED <<revisions, texts, verdict>>

\* authorize_paste_delete: administrators, the owner, who holds the token.
MayDelete(u, p) ==
    \/ u \in Admin
    \/ u \in Author /\ u = paste[p].owner /\ Allowed("delete_own_item", u)
    \/ TokensGiven /\ paste[p].token

\* The paste is looked up and the right checked, by delete_item or api_delete_paste...
DeleteStart(r, u, p) ==
    /\ Visible(p) /\ MayDelete(u, p)
    /\ Begin(r, [step |-> "delete", paste |-> p, text |-> 0, base |-> 0, late |-> FALSE])
    /\ UNCHANGED <<paste, revisions, texts, historyVars>>

ApiDeleteStart(r, u, p) == "api" \in Features /\ DeleteStart(r, u, p)

\* ... and delete_paste writes unless it is deleted, withheld meanwhile or not.
DeleteWrite(r) ==
    /\ request[r] # None /\ request[r].step = "delete"
    /\ LET p == request[r].paste
       IN  /\ paste' = [paste EXCEPT ![p].state = "deleted"]
           /\ verdict' = [verdict EXCEPT ![p] = IF request[r].late THEN None ELSE @]
    /\ request' = [request EXCEPT ![r] = None]
    /\ UNCHANGED <<revisions, texts, had, blind>>

\* The account's bulk form names pastes of the account, or of anybody for an administrator
\* who deletes, in whatever state; any other name fails the form.
Selectable(u, S, any) ==
    S # {} /\ \A p \in S : paste[p] # None /\ (paste[p].owner = u \/ (any /\ u \in Admin))

\* Mutant: the bulk deletion deletes as delete_paste does.
BulkDeleteAny(u, S) ==
    /\ Selectable(u, S, TRUE)
    /\ paste' = [p \in Paste |-> IF p \in S THEN [paste[p] EXCEPT !.state = "deleted"]
                                            ELSE paste[p]]
    /\ UNCHANGED <<revisions, texts, historyVars, request>>

\* apply_account_bulk: what is not active is passed over.
BulkDelete(u, S) ==
    /\ Selectable(u, S, TRUE)
    /\ paste' = [p \in Paste |-> IF p \in S /\ paste[p].state = "active"
                                 THEN [paste[p] EXCEPT !.state = "deleted"] ELSE paste[p]]
    /\ UNCHANGED <<revisions, texts, historyVars, request>>

\* The owner sets a new expiry, in the future or none; or it arrives.
SetExpiry(u, S) == /\ Selectable(u, S, FALSE)
                   /\ paste' = [p \in Paste |-> IF p \in S THEN [paste[p] EXCEPT !.due = FALSE]
                                                            ELSE paste[p]]
                   /\ UNCHANGED <<revisions, texts, historyVars, request>>
FallDue(p) == /\ paste[p] # None
              /\ paste' = [paste EXCEPT ![p].due = TRUE]
              /\ UNCHANGED <<revisions, texts, historyVars, request>>

\* expire_due_pastes, of the job.
ExpireDuePastes ==
    /\ paste' = [p \in Paste |-> IF paste[p] # None /\ paste[p].state = "active" /\ paste[p].due
                                 THEN [paste[p] EXCEPT !.state = "expired"] ELSE paste[p]]
    /\ UNCHANGED <<revisions, texts, historyVars, request>>

\* apply_item_moderation: a paste takes any state from any state.  The deletions that
\* have looked at the paste before are late.
ModeratePaste(p, to) ==
    /\ paste[p] # None
    /\ paste' = [paste EXCEPT ![p].state = to]
    /\ verdict' = [verdict EXCEPT ![p] = to]
    /\ request' = [r \in Request |-> IF request[r] # None /\ request[r].paste = p
                                     THEN [request[r] EXCEPT !.late = TRUE] ELSE request[r]]
    /\ UNCHANGED <<revisions, texts, had, blind>>

\* Mutant: whoever has the token may take the paste over.
ClaimAnyPaste(u, p) ==
    /\ paste[p] # None /\ paste[p].token /\ paste[p].state = "active"
    /\ paste' = [paste EXCEPT ![p].owner = u]
    /\ UNCHANGED <<revisions, texts, historyVars, request>>

\* claim_paste_by_public_id: that it is due does not matter before the job has run.
Claimable(p) == /\ paste[p] # None /\ paste[p].token
                /\ paste[p].owner = Nobody /\ paste[p].state = "active"
ClaimPaste(u, p) ==
    /\ Claimable(p)
    /\ paste' = [paste EXCEPT ![p].owner = u]
    /\ UNCHANGED <<revisions, texts, historyVars, request>>

\* claim_item, api_claim_item
FormClaim(u, p) == Allowed("claim_anonymous_item", u) /\ ClaimPaste(u, p)
ApiClaim(u, p) == "api" \in Features /\ FormClaim(u, p)

-----------------------------------------------------------------------------

PastesNext ==
    \/ \E p \in Paste : \/ \E o \in Owner : FormCreate(o, p) \/ ApiCreate(o, p)
                        \/ \E u \in Author : FormClaim(u, p) \/ ApiClaim(u, p)
                        \/ FallDue(p)
                        \/ \E to \in ItemStates \ {"expired"} : ModeratePaste(p, to)
    \/ \E r \in Request : \/ \E u \in Author, p \in Paste : EditStart(r, u, p)
                          \/ \E u \in Owner, p \in Paste : \/ DeleteStart(r, u, p)
                                                        \/ ApiDeleteStart(r, u, p)
                          \/ EditRead(r) \/ EditInsert(r) \/ EditWrite(r) \/ DeleteWrite(r)
                          \/ DropRequest(r)
    \/ \E u \in Author, S \in SUBSET Paste : BulkDelete(u, S) \/ SetExpiry(u, S)
    \/ ExpireDuePastes

PastesSpec == PastesInit /\ [][PastesNext]_pasteVars

-----------------------------------------------------------------------------
(* Properties. *)

\* The type invariant.
PastesTypeOK ==
    /\ paste \in [Paste -> PasteRow \cup {None}]
    /\ request \in [Request -> RequestRow \cup {None}]
    /\ revisions \subseteq Paste \X (1..MaxText) /\ texts \in 0..MaxText
    /\ had \subseteq Paste \X (1..MaxText) /\ blind \subseteq had
    /\ verdict \in [Paste -> ItemStates \cup {None}]

\* "Each edit creates a revision record": a text that a paste has had and has no more
\* is among its revisions, unless an edit that had read an older one wrote over it.
HistoryKept == had \subseteq revisions \cup blind

\* What a moderator has made of a paste stands: neither the job, nor a bulk deletion,
\* nor a deletion that starts later undoes a quarantine, a takedown or a legal hold.
VerdictsStand ==
    \A p \in Paste : verdict[p] = "held" => paste[p].state = "held"

\* What a request in flight has found out and relies on: its paste has a row, the text it
\* has read is among the revisions once it has put it there, and no moderator has withheld
\* the paste since a deletion looked at it, unless it is late.
RequestReady(r) == request[r] # None =>
    LET q == request[r] IN
        /\ paste[q.paste] # None
        /\ q.step \in {"edit", "insert", "update"} => q.text \in 1..MaxText
        /\ q.step \in {"insert", "update"} => q.base \in 1..MaxText
        /\ q.step = "update" => <<q.paste, q.base>> \in revisions
        /\ q.step = "delete" /\ ~q.late => verdict[q.paste] # "held"

\* Nobody has judged a paste that is not there.
VerdictsOnRows == \A p \in Paste : paste[p] = None => verdict[p] = None

\* What the run checks.
PastesInvariant == /\ PastesTypeOK /\ VerdictsStand
                   /\ \A r \in Request : RequestReady(r)
                   /\ VerdictsOnRows

\* The owner that an item has got stays its owner, whoever else has the token.
OwnerStays ==
    [][\A p \in Paste : paste[p] # None =>
           paste'[p].owner = paste[p].owner \/ paste[p].owner = Nobody]_pasteVars
=============================================================================
