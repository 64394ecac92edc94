--------------------------- MODULE MCBackboneService ---------------------------
(***************************************************************************)
(* Instances of BackboneService for TLC: every request is used once, which *)
(* bounds the states.                                                      *)
(***************************************************************************)
EXTENDS BackboneService, TLC

MCBlank == [k \in Keys |-> 0]
MCContents == {None, Junk, "x" :> 1}

Symmetry == Permutations(Requests)
================================================================================
