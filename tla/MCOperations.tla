----------------------------- MODULE MCOperations -----------------------------
(* An instance for TLC of what keeps a server going: Housekeeping, and the     *)
(* components that share no state with it or with one another, so nothing is   *)
(* lost when only one of them moves in a behaviour.  The passes are tried with *)
(* uploads that leave scratch files, and with files that have objects.         *)
EXTENDS Housekeeping, Settings, Migrations, Browse, Delivery

CONSTANTS loop, u1, s1, s2, s3, h1, h2, a1, b1, p1, p2, m1, m2, nobody, stranger, owner, mod, admin

VARIABLE part
Idlers == <<settingsVars, migrationsVars, browseVars, deliveryVars>>
mcVars == <<part, housekeepingVars, Idlers>>

\* A default above the maximum can come from the form or from the environment.
Configured   == [default |-> 1, max |-> 2, scan |-> "off", hashes |-> {}]
Environs     == {<<>>, [max |-> 3], [max |-> 5, scan |-> "env"]}
FormValues   == [default |-> {4}, max |-> {4}, scan |-> {}]
OneVersionOn == (p1 :> 5) @@ (p2 :> 6)
Visitors     == (nobody :> "anonymous") @@ (stranger :> "user") @@ (owner :> "user")
                @@ (mod :> "moderator") @@ (admin :> "admin")
EveryMode    == {m \in ModeRow : m.isolated => m.base}

\* A file whose object was lost long ago: every pass ends at it.
Torn == [state |-> "active", image |-> "decodes", verdict |-> "ok",
         metadata |-> FALSE, thumbnail |-> FALSE, object |-> FALSE]

Init == /\ part \in {"scratch", "files", "settings", "migrations", "browse", "delivery"}
        /\ ScratchInit /\ BrowseInit
        /\ job = [r \in Runner |-> Resting] /\ up = FALSE /\ due = FALSE
        /\ row = [f \in Uploads |-> IF part = "scratch" /\ f = 1 THEN Torn ELSE NoFile]
        /\ SettingsInit   /\ (part # "settings" => env = <<>>)
        /\ MigrationsInit /\ (part # "migrations" => db.columns = {})
        /\ DeliveryInit   /\ (part # "delivery" => mode = CHOOSE m \in Modes : TRUE)

ServerMoves == Passes \/ Kill \/ Run
Next == /\ part' = part
        /\ \/ part = "scratch" /\ (ServerMoves \/ UploadMoves \/ ScrapAges) /\ UNCHANGED Idlers
           \/ part = "files" /\ (ServerMoves \/ FilesMove) /\ UNCHANGED Idlers
           \/ part = "settings" /\ SettingsNext
              /\ UNCHANGED <<housekeepingVars, migrationsVars, browseVars, deliveryVars>>
           \/ part = "migrations" /\ MigrationsNext
              /\ UNCHANGED <<housekeepingVars, settingsVars, browseVars, deliveryVars>>
           \/ part = "browse" /\ BrowseNext
              /\ UNCHANGED <<housekeepingVars, settingsVars, migrationsVars, deliveryVars>>
           \/ part = "delivery" /\ DeliveryNext
              /\ UNCHANGED <<housekeepingVars, settingsVars, migrationsVars, browseVars>>

Spec == Init /\ [][Next]_mcVars /\ HousekeepingFairness
=============================================================================
