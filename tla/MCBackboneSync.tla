---------------------------- MODULE MCBackboneSync ----------------------------
(***************************************************************************)
(* Instances of BackboneSync for TLC: each call is a request of its own,   *)
(* and the number of requests bounds the calls.                            *)
(***************************************************************************)
EXTENDS BackboneSync

MCBlank == [k \in Keys |-> 0]
MCContents == Patches \cup {None, Junk}
===============================================================================
