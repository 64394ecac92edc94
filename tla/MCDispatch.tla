------------------------------- MODULE MCDispatch -------------------------------
(***************************************************************************)
(* Instances of Dispatch for TLC: nested routes that shadow one another,   *)
(* one that breaks off, and urls that match them, or an intermediate one.  *)
(***************************************************************************)
EXTENDS Dispatch

MCRegistrations == {<<"a">>, <<"a", Id>>, <<"a", "b">>, <<"b", Id, "a">>, <<"b", Id, Id>>}

MCUrls == {Star, <<"b">>, <<"a">>, <<"a", "b">>, <<"a", "c">>, <<"b", "c", "a">>,
           <<"a", Id>>, <<"a", Huge>>, <<"c">>}

Symmetry == Permutations(Handlers)
================================================================================
