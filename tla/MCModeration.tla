----------------------------- MODULE MCModeration -----------------------------
(* Small instances of Moderation for TLC. *)
EXTENDS Moderation, TLC

CONSTANTS f1, f2, f3, x1, r1, r2, m1, m2, d1, s1, s2

\* Reports before files before pastes.
ById == [x \in Row |-> CASE x = r1 -> 1 [] x = r2 -> 2 [] x = f1 -> 3 [] x = f2 -> 4
                         [] x = f3 -> 5 [] x = x1 -> 6]

\* Files are created in the order opposite to that of their ids.
ByAge == [f \in File |-> 9 - ById[f]]

ModeratorSymmetry == Permutations(Moderator)
=============================================================================
