------------------------------- MODULE MCFront ------------------------------
(***************************************************************************)
(* Front on small instances of its parts.                                  *)
(***************************************************************************)
EXTENDS Front

CONSTANTS Budget,
          b1, b2, c1, c2, c3, o1, o2, o3, o4, p1, p2, p3, p4, q1, q2, q3, q4, r1

-----------------------------------------------------------------------------
(* A program in which every way of deriving a status occurs: a chain that   *)
(* identity order visits backwards, an operation with two nodes in each     *)
(* phase, units that hang on a lifecycle node rather than on an action, and *)
(* a pair of operations whose lifecycle nodes make the units, though not    *)
(* the nodes, depend on each other.                                         *)

MCConstructions == {b1, b2}
MCChecks        == {c1, c2, c3}
MCOperations    == {o1, o2, o3, o4}
MCRetained      == {r1}
MCBefore  == (o1 :> <<p1, p2>>) @@ (o2 :> <<>>) @@ (o3 :> <<p3>>) @@ (o4 :> <<p4>>)
MCAfter   == (o1 :> <<q1, q2>>) @@ (o2 :> <<>>) @@ (o3 :> <<q3>>) @@ (o4 :> <<q4>>)
MCEdges   == {<<b1, c1>>, <<c1, o1>>, <<r1, b2>>, <<p1, o1>>, <<p2, o1>>, <<o1, q1>>,
              <<o1, q2>>, <<p1, c2>>, <<b2, c2>>, <<b2, c3>>, <<q1, o2>>, <<p2, o2>>,
              <<o2, o3>>, <<p3, o3>>, <<o3, q3>>, <<p4, o4>>, <<o4, q4>>,
              <<p3, q4>>, <<p4, q3>>}
MCBuildOf == (c1 :> b1) @@ (c2 :> b2) @@ (c3 :> b2)
MCOrder   == <<o4, o3, o2, c3, c2, b2, o1, c1, b1>>

\* Plain cells are 0 to 4, and a collection has at most two items.
Today == INSTANCE RecordFormats WITH TopByte <- 4, MaxItems <- 2
MCCodecs     == Today!Formats
MCCandidates == Today!Records

\* Two runs, j and k, below a runtime root r that some coordinates fall into.
MCNames        == STRING
MCRuntime      == <<"r">>
MCPlaces       == {<<>>, <<"r">>, <<"r", "check-temporary", "j">>, <<"r", "run">>,
                   <<"a">>, <<"a", "b">>, <<"c">>}
MCBuildIds     == {<<"j", "lib">>, <<"j", "app">>, <<"k", "lib">>}
MCCheckIds     == {<<"j", "try">>}
MCOperationIds == {<<"j", "put">>}
MCRecipe       == (<<"j", "lib">> :> "lib") @@ (<<"k", "lib">> :> "lib")
                  @@ (<<"j", "app">> :> "try")
MCBuiltInputs  == (<<"j", "lib">> :> {}) @@ (<<"k", "lib">> :> {})
                  @@ (<<"j", "app">> :> {<<"j", "lib">>})
                  @@ (<<"j", "try">> :> {<<"j", "app">>, <<"j", "lib">>})
                  @@ (<<"j", "put">> :> {<<"j", "app">>})
MCScripts      == {"pre", "post"}

=============================================================================
