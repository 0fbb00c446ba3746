--------------------------- MODULE MCPackageUpdate --------------------------
(***************************************************************************)
(* One package in two versions over two files and a repair of the first.   *)
(* The second version needs an artifact that only the first one brings,    *)
(* has no complete apply contract and does not build next.exe.             *)
(***************************************************************************)
EXTENDS PackageUpdate

MCPaths == {"a", "b"}
MCBackupOf == [d \in MCPaths |-> d]

V1 == [id |-> "core", requires |-> {}, qa |-> 0, artifacts |-> {},
       contract |-> TRUE, staging |-> TRUE,
       files |-> << [dst |-> "a", new |-> "v1"], [dst |-> "b", new |-> "v1"] >>]
V2 == [id |-> "core", requires |-> {}, qa |-> 7, artifacts |-> {"a"},
       contract |-> FALSE, staging |-> FALSE,
       files |-> << [dst |-> "b", new |-> "v2"] >>]
Repair == [V1 EXCEPT !.artifacts = {"b"}]
MCManifests == {V1, V2, Repair}
MCPathRank == [m \in MCManifests |->
                  IF m = V1 THEN 1 ELSE IF m = Repair THEN 2 ELSE 3]

MCInitialFiles == {[d \in MCPaths |-> IF d = "b" THEN "old" ELSE "absent"]}
=============================================================================
