---------------------------- MODULE MCCredentials ----------------------------
(* An instance of Credentials for TLC. *)
EXTENDS Credentials, TLC

CONSTANTS a, s1, s2, t1, k1, k2, r1, r2

Symmetries == Permutations(Session) \cup Permutations(Mailed) \cup Permutations(Request)
=============================================================================
