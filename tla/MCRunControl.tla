---------------------------- MODULE MCRunControl ----------------------------
(* Instances of RunControl for TLC.  Runs are interchangeable, and so are   *)
(* the endpoints and the versions.                                          *)
EXTENDS RunControl, TLC

Symmetry == Permutations(Runs) \cup Permutations(Endpoints) \cup Permutations(Versions)
=============================================================================
