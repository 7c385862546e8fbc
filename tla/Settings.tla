------------------------------- MODULE Settings -------------------------------
(***************************************************************************)
(* The runtime settings: what the configuration file says, under what is   *)
(* persisted in the table settings, under the fields that the environment  *)
(* of the process owns (db/settings.rs, config.rs).                        *)
(*                                                                         *)
(* Two writers: the settings form of the administrators, which replaces    *)
(* every group by what it was sent, and a moderator who blocks the hash of *)
(* a file, which adds to the row of one group.  Two groups stand for all:  *)
(* "tokens", whose default must not exceed its maximum, and "scanning".    *)
(***************************************************************************)
EXTENDS Naturals

CONSTANTS Admin, Blocker,     \* requests: settings forms, and moderators' block_hash
          BlockHash,               \* hashes to block
          FileSettings,       \* defaults and configuration file: [Field -> value]
          Environments,       \* environments the process may be started with:
                              \* functions of the fields they own
          Typed,              \* Typed[f]: what administrators type into a field but "hashes"
          Idle

Field    == {"default", "max", "scan", "hashes"}
Scanning == {"scan", "hashes"}

ASSUME SettingsAssumption ==
    /\ DOMAIN FileSettings = Field /\ FileSettings.hashes \subseteq BlockHash
    /\ \A e \in Environments : DOMAIN e \subseteq Field \ {"hashes"}
    /\ \A e \in Environments : \A f \in DOMAIN e : e[f] \notin Typed[f] \cup {FileSettings[f]}
    /\ DOMAIN Typed = Field \ {"hashes"}

VARIABLES env,      \* the environment of the process
          stored,   \* the fields with a value in the table: those of the groups with a row
          form,     \* form[a]: the settings form of request a
          block,    \* block[b]: the scanning settings request b was started with
          leaked,   \* history: fields whose value in the table came from an environment
                    \* by a way the code is known to leave open
          moved     \* history: the environment has changed since the table was saved

settingsVars == <<env, stored, form, block, leaked, moved>>

\* The settings s, and for the fields they do not have r.
Over(s, r) == [f \in DOMAIN s \cup DOMAIN r |-> IF f \in DOMAIN s THEN s[f] ELSE r[f]]

\* validate_runtime_settings
Valid(s) == s.default <= s.max

SettingsInit == /\ env \in Environments /\ Valid(Over(env, FileSettings)) /\ stored = <<>>
                /\ form = [a \in Admin |-> Idle] /\ block = [b \in Blocker |-> Idle]
                /\ leaked = {} /\ moved = FALSE

\* persisted_runtime_settings; apply_runtime_env_overrides
Persisted == Over(stored, FileSettings)
Effective == Over(env, Persisted)

\* Every request loads the settings first, and fails if they are not valid.
Serving == Valid(Effective)

-----------------------------------------------------------------------------
\* The process is started with another environment.  AppConfig::load checks it with
\* the file, not with the table.  Forms stay open in browsers.
RestartWith(e) ==
    /\ e # env /\ Valid(Over(e, FileSettings))
    /\ env' = e /\ moved' = TRUE
    /\ form' = [a \in Admin |-> IF form[a] # Idle /\ form[a].at = "save" THEN Idle ELSE form[a]]
    /\ block' = [b \in Blocker |-> Idle]
    /\ UNCHANGED <<stored, leaked>>

\* admin: the form shows the effective settings.
OpenForm(a) ==
    /\ form[a] = Idle /\ Serving
    /\ form' = [form EXCEPT ![a] = [at |-> "open", shown |-> Effective, since |-> {}]]
    /\ UNCHANGED <<env, stored, block, leaked, moved>>

\* Mutant: environment-owned fields are saved as the form has them.
KeepForm(candidate, persisted) == candidate

\* restore_environment_owned_fields
Restore(candidate, persisted) == Over([f \in DOMAIN env |-> persisted[f]], candidate)

\* effective_candidate
Acceptable(candidate) == Valid(Over(env, candidate))

Answers(shown) ==
    [default : Typed["default"] \cup {shown.default}, max : Typed["max"] \cup {shown.max},
     scan : Typed["scan"] \cup {shown.scan}, hashes : SUBSET BlockHash]

\* admin_update_settings reads the persisted settings and checks what it is to save...
SaveRead(a) ==
    /\ form[a] # Idle /\ form[a].at = "open" /\ Serving
    /\ \E answer \in Answers(form[a].shown) :
        LET candidate == Restore(answer, Persisted) IN
        /\ Valid(answer) /\ Acceptable(candidate)
        /\ form' = [form EXCEPT ![a] = [at |-> "save", shown |-> @.shown, since |-> @.since,
                                        candidate |-> candidate]]
    /\ UNCHANGED <<env, stored, block, leaked, moved>>

\* History: the hashes in H are in the table now, and in no form that is open.
Meanwhile(H) == [a \in Admin |-> IF form[a] = Idle THEN Idle
                                 ELSE [form[a] EXCEPT !.since = @ \cup H]]

FromEnvironment(f, value) == \E e \in Environments : f \in DOMAIN e /\ e[f] = value

\* ...and replace_runtime_settings writes every group in one transaction.  A form that
\* was opened in an environment that is gone has its values.
SaveWrite(a) ==
    /\ form[a] # Idle /\ form[a].at = "save"
    /\ stored' = form[a].candidate
    /\ leaked' = leaked \cup {f \in Field \ (DOMAIN env \cup {"hashes"}) :
                                  FromEnvironment(f, form[a].shown[f])}
    /\ moved' = FALSE
    /\ form' = [Meanwhile(form[a].candidate.hashes) EXCEPT ![a] = Idle]
    /\ UNCHANGED <<env, block>>

CloseForm(a) == /\ form[a] # Idle /\ form' = [form EXCEPT ![a] = Idle]
                /\ UNCHANGED <<env, stored, block, leaked, moved>>

\* moderate_item: scanning_fallback, the effective scanning settings.
BlockStart(b) == /\ block[b] = Idle /\ Serving
                 /\ block' = [block EXCEPT ![b] = [f \in Scanning |-> Effective[f]]]
                 /\ UNCHANGED <<env, stored, form, leaked, moved>>

\* Mutant: the fallback is written although there is a row by now.
BlockedAnyway(fallback, h) == Over([fallback EXCEPT !.hashes = @ \cup {h}], stored)

\* INSERT ... ON CONFLICT DO NOTHING, SELECT ... FOR UPDATE, and the hash added.
Blocked(fallback, h) == LET rows == Over(stored, fallback)
                        IN [rows EXCEPT !.hashes = @ \cup {h}]

\* apply_item_moderation, with block_hash
BlockWrite(b) ==
    /\ block[b] # Idle
    /\ \E h \in BlockHash :
        /\ stored' = Blocked(block[b], h)
        /\ form' = Meanwhile({h})
    /\ leaked' = IF "scan" \in DOMAIN stored THEN leaked
                 ELSE leaked \cup (DOMAIN env \cap Scanning)
    /\ block' = [block EXCEPT ![b] = Idle]
    /\ UNCHANGED <<env, moved>>

SettingsNext == \/ \E e \in Environments : RestartWith(e)
                \/ \E a \in Admin : OpenForm(a) \/ SaveRead(a) \/ SaveWrite(a) \/ CloseForm(a)
                \/ \E b \in Blocker : BlockStart(b) \/ BlockWrite(b)

SettingsSpec == SettingsInit /\ [][SettingsNext]_settingsVars

-----------------------------------------------------------------------------
\* Rows come in two ways: the scanning group alone, or every group.
SettingsTypeOK == /\ env \in Environments /\ leaked \subseteq Field /\ moved \in BOOLEAN
                  /\ DOMAIN stored \in {{}, Scanning, Field}
                  /\ DOMAIN form = Admin /\ DOMAIN block = Blocker

\* A form has seen, or been overtaken by, every blocked hash of the table; what it is
\* about to save has been checked with the environment of this process, and has from
\* an environment only what it was shown, or what the table had from one already.
FormsInPlace ==
    \A a \in Admin : form[a] # Idle =>
        /\ {"at", "shown", "since"} \subseteq DOMAIN form[a]
        /\ Persisted.hashes \subseteq form[a].shown.hashes \cup form[a].since
        /\ form[a].at = "save" =>
               /\ "candidate" \in DOMAIN form[a] /\ DOMAIN form[a].candidate = Field
               /\ Valid(Over(env, form[a].candidate))
               /\ \A f \in Field \ {"hashes"} : FromEnvironment(f, form[a].candidate[f]) =>
                      \/ f \in leaked
                      \/ f \notin DOMAIN env /\ FromEnvironment(f, form[a].shown[f])

\* While the scanning group has no row, the fallback of a request to block a hash is
\* what the file and this environment say.
BlocksInPlace ==
    \A b \in Blocker : block[b] # Idle =>
        /\ DOMAIN block[b] = Scanning
        /\ DOMAIN stored = {} =>
               /\ block[b].hashes = FileSettings.hashes
               /\ "scan" \in DOMAIN env \/ block[b].scan = FileSettings.scan

EnvStored == {f \in DOMAIN stored : FromEnvironment(f, stored[f])}

\* The code keeps what an environment says out of the table, but for two ways: the
\* first block_hash, whose row has the other scanning fields as they are in effect
\* (commands.rs:39), and a form opened in an environment that is gone by the time it
\* is sent (admin_update_settings).  And what is in effect is valid, unless the
\* environment changed under settings that had been checked with another one.
SettingsInvariant == /\ SettingsTypeOK /\ FormsInPlace /\ BlocksInPlace
                     /\ EnvStored \subseteq leaked
                     /\ moved \/ Valid(Effective)

\* A blocked hash leaves the table only by a form that showed it, or that was opened
\* before it was blocked (the last form to be sent wins over all that happened since
\* it was opened); a moderator's addition never costs another one (db/mutations.rs:483).
HashesKept == [][\A h \in BlockHash :
    LET gone == "hashes" \in DOMAIN stored /\ h \in stored.hashes /\ h \notin stored'.hashes
    IN gone => \E a \in Admin : /\ form[a] # Idle /\ form'[a] = Idle
                                /\ h \in form[a].shown.hashes \cup form[a].since]_settingsVars

\* docs/src/contributor/runtime-settings.md:14: "so a temporary environment override
\* never becomes permanent as a side effect of another edit".
EnvNeverStored == EnvStored = {}
=============================================================================
