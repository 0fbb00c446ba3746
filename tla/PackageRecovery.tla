-------------------------- MODULE PackageRecovery ---------------------------
(***************************************************************************)
(* What is recoverable of several packages that share files and depend on  *)
(* each other: PackageInstall with history variables that observe its      *)
(* steps, and the mapping to the atomic package store of AtomicPackages.   *)
(***************************************************************************)
EXTENDS PackageInstall

VARIABLES
    seen,            \* the abstract store as of the last moment no call was running
    preimage,        \* the tree before each transaction of the history
    everInstalled    \* packages with an install that reported success

Dsts(l) == {l[k].dst : k \in DOMAIN l}

\* What replaying transaction.log of p would put back.
UndoOf(p) ==
    LET l == LinesOf(tx[p])
        Line(d) == CHOOSE e \in {l[k] : k \in DOMAIN l} : e.dst = d
    IN  [d \in Dsts(l) |-> IF Line(d).op = "DELETE" THEN Absent
                                                    ELSE backup[p][BackupOf[d]]]

Store ==
    [repo    |-> file,
     undo    |-> [p \in Packages |-> UndoOf(p)],
     touched |-> [p \in Packages |->
                    [id \in 1 .. next[p] - 1 |-> Dsts(LinesOf(archive[p][id]))]]]

RInit ==
    /\ Init
    /\ seen = Store
    /\ preimage = [p \in Packages |-> [id \in 1 .. TxBound |-> file]]
    /\ everInstalled = {}

Observe ==
    /\ seen' = IF pc' = "idle" THEN Store' ELSE seen
    /\ preimage' = [p \in Packages |-> [id \in 1 .. TxBound |->
          IF next'[p] # next[p] /\ id = next[p] THEN before ELSE preimage[p][id]]]
    /\ everInstalled' = everInstalled \cup {p \in Packages : registry'[p] = "installed"}

rvars == <<vars, seen, preimage, everInstalled>>

RNext == Next /\ Observe
RSpec == RInit /\ [][RNext]_rvars /\ WF_rvars((InstallStep \/ ReplayStep) /\ Observe)

-----------------------------------------------------------------------------
Atomic == INSTANCE AtomicPackages
              WITH repo <- seen.repo, undo <- seen.undo, touched <- seen.touched

\* Without a fault the file-by-file installer is the atomic store: each call is
\* one step of it, an install that changes nothing leaves the last rollback
\* point alone, and Rollback puts back exactly what the last install replaced,
\* whatever other packages and earlier recoveries did in between.
ImplementsAtomicStore == Atomic!Spec

\* PACKAGE_DEPENDENCY_RESOLUTION.md:9 "Installation is blocked when any
\* dependency is missing": whatever a running install requires has at some time
\* been installed with success.  The code asks whether there is a registry.txt.
DependenciesInstalled ==
    op = "install" =>
       \E m \in Manifests :
          pkg = m.id /\ files = m.files /\ m.requires \subseteq everInstalled

\* PACKAGE_HISTORY_RECOVERY.md:3 "targeted rollback by transaction ID": the log
\* and the backups of every transaction in the history still hold the content
\* its files had before it.
HistoryRecoverable ==
    pc = "idle" =>
       \A p \in Packages : \A id \in 1 .. next[p] - 1 :
          Undoes(archive[p][id], p, preimage[p][id])
=============================================================================
