------------------------------ MODULE MCRouteIndex ------------------------------
(***************************************************************************)
(* Instances of RouteIndex for TLC: routes that nest, shadow one another,  *)
(* repeat a name or break off, and urls that lead to any of them, past     *)
(* them, or are refused.                                                   *)
(***************************************************************************)
EXTENDS RouteIndex

MCRegistrations ==
  {<<>>, <<"a">>, <<"b">>, <<"a", "a">>, <<"a", "b">>, <<"a", Id>>, <<"b", Id>>, <<"a", Id, "b">>,
   <<"a", "b", "a">>, <<"b", Id, "a">>, <<"a", Id, "a", Id>>,
   <<Id>>, <<"a", Id, Id>>, <<"b", Id, "*">>, <<"b", "a", Blank>>, <<"a", Huge>>,
   <<"a", "a", "a", "a", "a">>}

MCUrls ==
  BoundedSeq({"a", "c"}, 2) \cup
  {<<"a", "a", "a">>, <<"a", "b", "a">>, <<"a", "c", "a">>, <<"a", "c", "b">>, <<"b", "c", "a">>,
   <<"a", "b", "a", "c">>, <<"a", "c", "a", "b">>, <<"a", "c", "a", "a">>,
   <<"a", Id>>, <<"a", "c", Id>>, <<"a", Blank, "a">>, <<"c", "c", "c", "c", "c">>, <<"a", Huge>>}
================================================================================
