--------------------------- MODULE MCMiddlewareChain ---------------------------
(***************************************************************************)
(* Instances of MiddlewareChain for TLC.  MaxCalls bounds the chain, so no *)
(* state constraint is needed: at most MaxCalls^(k-1) processing functions *)
(* run at depth k, and each registers at most two back functions.          *)
(***************************************************************************)
EXTENDS MiddlewareChain

\* The head and the tail have a default back function, the middle has none.
EdgesHaveBack == {1, N}

HeadHasBack == {1}
================================================================================
