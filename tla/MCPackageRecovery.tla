-------------------------- MODULE MCPackageRecovery -------------------------
(***************************************************************************)
(* "core" in two versions and "ext", which requires it and overwrites its  *)
(* second file.                                                            *)
(***************************************************************************)
EXTENDS PackageRecovery

MCPaths == {"a", "b", "c"}
MCBackupOf == [d \in MCPaths |-> d]

Core1 == [id |-> "core", requires |-> {},
          files |-> << [dst |-> "a", new |-> "v1"], [dst |-> "b", new |-> "v1"] >>]
Core2 == [id |-> "core", requires |-> {},
          files |-> << [dst |-> "b", new |-> "v2"], [dst |-> "a", new |-> "v2"] >>]
Ext   == [id |-> "ext", requires |-> {"core"},
          files |-> << [dst |-> "b", new |-> "v3"], [dst |-> "c", new |-> "v3"] >>]
MCManifests == {Core1, Core2, Ext}

MCInitialFiles == {[d \in MCPaths |-> IF d = "a" THEN "old" ELSE "absent"]}
=============================================================================
