------------------------------ MODULE MCMemoryFs ------------------------------
(* Instances of MemoryFs for TLC. *)
EXTENDS MemoryFs, TLC

(* Threads differ in nothing but their name. *)
Interchangeable == Permutations(Threads)
=============================================================================
