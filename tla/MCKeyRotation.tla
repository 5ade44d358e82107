---------------------------- MODULE MCKeyRotation ----------------------------
EXTENDS KeyRotation, TLC

(* Replicas, and names, are interchangeable.                               *)
Interchangeable == Permutations(Replica) \cup Permutations(Kid)
=============================================================================
