------------------------------- MODULE MCAdapters -------------------------------
(* Instances of Adapters for TLC: what is of one kind is interchangeable. *)
EXTENDS Adapters, TLC

Symmetry == Permutations(Sessions) \cup Permutations(Requests) \cup Permutations(Http)
================================================================================
