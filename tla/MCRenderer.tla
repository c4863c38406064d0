----------------------------- MODULE MCRenderer -----------------------------
(***************************************************************************)
(* An instance of Renderer for TLC: a page in a module with a partial in a *)
(* module inside it and the shared layout, and small histories of them.    *)
(***************************************************************************)
EXTENDS Renderer

MCDir ==
  [t \in {"m/p", "m/s/n", "shared/l"} |->
     CASE t = "m/p" -> <<"m">>
       [] t = "m/s/n" -> <<"m", "s">>
       [] t = "shared/l" -> <<"shared">>]

MCUses == [p \in {"m/p"} |-> {"m/p", "m/s/n", "shared/l"}]

MCWalk == <<"app.js", "m/p", "m/s/n", "shared/l">>

\* The page is edited and edited back, or its last piece moves to the partial,
\* which did not exist before; the layout and the asset are edited once.
MCHistory ==
  [f \in {"app.js", "m/p", "m/s/n", "shared/l"} |->
     CASE f = "app.js" -> <<<<"j">>, <<"k">>>>
       [] f = "m/p" -> <<<<"a", "b">>, <<"a">>, <<"a", "b">>>>
       [] f = "m/s/n" -> <<<<>>, <<"b">>>>
       [] f = "shared/l" -> <<<<"x">>, <<"y">>>>]
=============================================================================
