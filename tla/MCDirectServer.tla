----------------------------- MODULE MCDirectServer -----------------------------
(* Instances of DirectServer for TLC.  No symmetry: liveness is checked. *)
EXTENDS DirectServer
================================================================================
