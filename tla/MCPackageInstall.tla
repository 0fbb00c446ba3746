-------------------------- MODULE MCPackageInstall --------------------------
(***************************************************************************)
(* One package in two versions over two files: the first changes "a" and   *)
(* adds "b"; the second changes "b" again and leaves "a" as it is.         *)
(***************************************************************************)
EXTENDS PackageInstall

MCPaths == {"a", "b"}
MCBackupOf == [d \in MCPaths |-> d]

V1 == [id |-> "core", requires |-> {},
       files |-> << [dst |-> "a", new |-> "v1"], [dst |-> "b", new |-> "v1"] >>]
V2 == [id |-> "core", requires |-> {},
       files |-> << [dst |-> "b", new |-> "v2"], [dst |-> "a", new |-> "v1"] >>]
MCManifests == {V1, V2}

MCInitialFiles == {[d \in MCPaths |-> IF d = "a" THEN "old" ELSE "absent"]}
=============================================================================
