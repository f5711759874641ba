----------------------------- MODULE MCRelease -----------------------------
(* Model-checking instances of Release. *)
EXTENDS Release, FiniteSets, TLC

Symmetry == Permutations(ReleaseId) \cup Permutations(Request) \cup Permutations(Image)
=============================================================================
