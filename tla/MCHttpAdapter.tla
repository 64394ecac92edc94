----------------------------- MODULE MCHttpAdapter -----------------------------
(* Instances of HttpAdapter for TLC.  No symmetry: liveness is checked. *)
EXTENDS HttpAdapter
================================================================================
