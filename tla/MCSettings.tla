------------------------------ MODULE MCSettings ------------------------------
(* An instance of Settings for TLC: one process, whose environment sets the    *)
(* scanning mode, from start to end.                                           *)
EXTENDS Settings

CONSTANTS a1, b1, h1

Configured == [default |-> 1, max |-> 2, scan |-> "off", hashes |-> {}]
ScanByEnv  == {[scan |-> "env"]}
FormValues == [default |-> {4}, max |-> {4}, scan |-> {"on"}]

Spec == SettingsSpec
=============================================================================
