--------------------------- MODULE AtomicPackages ---------------------------
(***************************************************************************)
(* What the documents promise of the package manager                       *)
(* (Docs/NCOS/PACKAGE_TRANSACTION_ROLLBACK.md, PACKAGE_HISTORY_RECOVERY.md)*)
(* and a caller may rely on: an install replaces all its files in one step *)
(* or none, a rollback (of the package, or of its newest transaction by    *)
(* id) puts back every file that the last install of the package changed,  *)
(* and the recovery of an older transaction touches only its own files.    *)
(***************************************************************************)
EXTENDS Naturals, Sequences

CONSTANTS Packages, Paths, Contents, Absent, Manifests, InitialFiles

VARIABLES
    repo,     \* [Paths -> Contents \cup {Absent}]
    undo,     \* for each package, what its last install replaced
    touched   \* for each package, the files each transaction in its history changed

Targets(m) == {m.files[k].dst : k \in DOMAIN m.files}
Wanted(m, d) == (CHOOSE x \in {m.files[k] : k \in DOMAIN m.files} : x.dst = d).new
Changed(m) == {d \in Targets(m) : repo[d] # Wanted(m, d)}

Init ==
    /\ repo \in InitialFiles
    /\ undo = [p \in Packages |-> <<>>]
    /\ touched = [p \in Packages |-> <<>>]

Install(m) ==
    /\ Changed(m) # {}
    /\ repo' = [d \in Paths |-> IF d \in Changed(m) THEN Wanted(m, d) ELSE repo[d]]
    /\ undo' = [undo EXCEPT ![m.id] = [d \in Changed(m) |-> repo[d]]]
    /\ touched' = [touched EXCEPT ![m.id] = Append(@, Changed(m))]

Rollback(p) ==
    /\ repo' = [d \in Paths |-> IF d \in DOMAIN undo[p] THEN undo[p][d] ELSE repo[d]]
    /\ UNCHANGED <<undo, touched>>

\* The newest transaction is recovered exactly, an older one within its files.
RollbackTransaction(p, id) ==
    /\ id < Len(touched[p])
    /\ repo' \in [Paths -> Contents \cup {Absent}]
    /\ \A d \in Paths \ touched[p][id] : repo'[d] = repo[d]
    /\ UNCHANGED <<undo, touched>>

Next ==
    \/ \E m \in Manifests : Install(m)
    \/ \E p \in Packages : Rollback(p)
    \/ \E p \in Packages : \E id \in DOMAIN touched[p] : RollbackTransaction(p, id)

Spec == Init /\ [][Next]_<<repo, undo, touched>>
=============================================================================
