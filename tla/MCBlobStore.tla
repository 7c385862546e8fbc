----------------------------- MODULE MCBlobStore -----------------------------
(* Small instances of BlobStore for TLC. *)
EXTENDS BlobStore, TLC

CONSTANTS h1, h2, f1, f2, t1, t2, p1, p2

OneProcess  == [t \in Task |-> p1]
EachItsOwn  == (t1 :> p1) @@ (t2 :> p2)

FileSymmetry == Permutations(File)
=============================================================================
