---------------------------- MODULE MCGoalGraph ----------------------------
(***************************************************************************)
(* Dependencies on earlier goals, on the goal itself (<<1>> for the first, *)
(* <<2>> for the second, <<3>> for the third), on a later one, and more    *)
(* than MaxDeps of them; titles of every kind, with dependencies of their  *)
(* own that are there or not.                                              *)
(***************************************************************************)
EXTENDS GoalGraph

MCDependencies == {<<>>, <<1>>, <<2, 1>>, <<3>>, <<1, 1, 2>>}

Title(kind, deps) == [kind |-> kind, deps |-> deps]

MCTitles ==
    {Title("plain", <<>>), Title("cut", <<>>), Title("cut", <<2>>), Title("spoiled", <<1>>),
     Title("leading", <<>>), Title("goal", <<>>)}
=============================================================================
