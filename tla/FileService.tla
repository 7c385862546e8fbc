----------------------------- MODULE FileService -----------------------------
(***************************************************************************)
(* What the file store promises its users, with nothing said about blobs,  *)
(* reference counts, locks or the object store: a file that is published   *)
(* and not yet retired can be read, whatever moderators, owners and jobs   *)
(* do to other files, and a retired file never comes back.                 *)
(***************************************************************************)

CONSTANT File

VARIABLES item,        \* item[f]: the state of the row of file f
          readable     \* the files whose bytes (and thumbnail) can be fetched

vars == <<item, readable>>

LiveStates     == {"active", "quarantined", "withheld"}
TerminalStates == {"deleted", "expired"}

Init == /\ item = [f \in File |-> "none"]
        /\ readable = {}

Publish(f, s) == /\ item[f] = "none"
                 /\ item' = [item EXCEPT ![f] = s]
                 /\ readable' = readable \cup {f}

Moderate(f, s) == /\ item[f] \in LiveStates
                  /\ item' = [item EXCEPT ![f] = s]
                  /\ UNCHANGED readable

Retire(F, s) == /\ \A f \in F : item[f] \in LiveStates
                /\ item' = [f \in File |-> IF f \in F THEN s ELSE item[f]]
                /\ readable' = readable \ F

Relabel(f) == /\ item[f] \in TerminalStates
              /\ item' = [item EXCEPT ![f] = "deleted"]
              /\ UNCHANGED readable

Next == \/ \E f \in File : \/ \E s \in {"active", "quarantined"} : Publish(f, s)
                           \/ \E s \in LiveStates : Moderate(f, s)
                           \/ Relabel(f)
        \/ \E F \in SUBSET File, s \in TerminalStates : Retire(F, s)

Spec == Init /\ [][Next]_vars
=============================================================================
