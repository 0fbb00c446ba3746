--------------------------- MODULE MCPackageApply ---------------------------
(***************************************************************************)
(* One package in two versions over two files; the second version needs an *)
(* artifact that only the first one brings.                                *)
(***************************************************************************)
EXTENDS PackageApply

MCPaths == {"a", "b"}
MCBackupOf == [d \in MCPaths |-> d]

V1 == [id |-> "core", requires |-> {}, qa |-> 0, artifacts |-> {},
       files |-> << [dst |-> "a", new |-> "v1"], [dst |-> "b", new |-> "v1"] >>]
V2 == [id |-> "core", requires |-> {}, qa |-> 7, artifacts |-> {"a"},
       files |-> << [dst |-> "b", new |-> "v2"] >>]
MCManifests == {V1, V2}

MCInitialFiles == {[d \in MCPaths |-> IF d = "b" THEN "old" ELSE "absent"]}
=============================================================================
