------------------------------ MODULE MCRouter ------------------------------
(***************************************************************************)
(* An instance of Router for TLC: routes that share prefixes in every way  *)
(* the tree tells apart (one inside the other, forking, a parameter or a   *)
(* wildcard beside a static child), for a method with a field of its own,  *)
(* one that goes into the map of others, and for topics that no route      *)
(* fits, and the topics that tell them apart.                              *)
(***************************************************************************)
EXTENDS Router

MCCharacters == {"/", ":", "*", "\\", "a", "b", "x", "y"}

PubRoutes ==
  { <<"/", "a">>, <<"/", "a", "b">>, <<"/", "a", "/", "b">>, <<"/", ":", "x">>,
    <<"/", ":", "x", "/", "b">>, <<"/", "a", "/", ":", "y">>, <<"*">>,
    <<"/", "a", "/", "*">>, <<"/", ":", "x", "/", "*">>, <<"/", "b", "\\", ":">> }

MsgRoutes == { <<"/", "a">>, <<"/", "a", "/", ":", "y">>, <<"*">> }

NotFoundRoutes == { <<"/", ":", "x">>, <<"/", "a", "/", "*">> }

MCRoutes ==
  ({"PUB"} \X PubRoutes) \cup ({"MSG"} \X MsgRoutes) \cup ({"RouteNotFound"} \X NotFoundRoutes)

MCTopics ==
  { <<"/">>, <<"/", "a">>, <<"/", "b">>, <<"/", "a", "b">>, <<"/", "a", "/">>,
    <<"/", "a", "/", "b">>, <<"/", "a", "/", "a">>, <<"/", "b", "/", "b">>,
    <<"/", "a", "/", "b", "/", "b">>, <<"/", "b", ":">>, <<"a">> }

\* The hypotheses of the theorems about Find hold for these routes.
ASSUME RoutesAssumption == ColonsApart /\ WildcardsLast
=============================================================================
