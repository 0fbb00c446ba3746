--------------------------- MODULE PackageUpdate ----------------------------
(***************************************************************************)
(* "nexiora_package apply" without a directory (Source/NCOS/               *)
(* NxPackageApply.c: discover the newest pending package, then Apply it),  *)
(* and the detached helper of Tools/NCOS/NxPackageSelfUpdate.c that waits  *)
(* for an apply.log to tell of a completed apply and then moves the        *)
(* executable the build left (nexiora_package.next.exe) over the running   *)
(* one.  Both run on top of PackageApply.                                  *)
(*                                                                         *)
(* The helper keeps no state but its three arguments and anyone may start  *)
(* one at any time, so it is an action that is enabled whenever a waiting  *)
(* helper would succeed.  It gives up after 3000 attempts: nothing here    *)
(* promises that it moves anything.  The death of the process is left to    *)
(* PackageApply.                                                           *)
(***************************************************************************)
EXTENDS PackageApply

CONSTANTS
    Times,      \* mtimes of manifest.npkg; 0 when stat fails
    PathRank    \* the strcmp order of the package directories

ASSUME UpdateAssumption ==
    /\ Times \subseteq Nat
    /\ PathRank \in [Manifests -> Nat]
    /\ \A m, n \in Manifests : PathRank[m] = PathRank[n] => m = n
    /\ \A m \in Manifests : /\ m.contract \in BOOLEAN \* all four apply.* keys
                            /\ m.staging \in BOOLEAN  \* its target builds next.exe

VARIABLES
    scanning,    \* DiscoverPendingPackage is running
    unread,      \* the directories readdir has still to return
    candidates,  \* valid_candidates, with the mtime each was seen with
    selected,    \* result.package_dir and selected_time
    completed,   \* the completion line of each apply.log: no line, or one of
                 \* an apply that built next.exe, or of one that did not
    staged       \* next.exe, in a set: the package whose apply built it, and
                 \* whether an apply went through all its phases afterwards

scan  == <<scanning, unread, candidates, selected>>
uvars == <<avars, scan, completed, staged>>

NoCandidate == [dir |-> NoTarget, time |-> 0]

UpdateInit ==
    /\ AInit
    /\ scanning = FALSE /\ unread = {} /\ candidates = {} /\ selected = NoCandidate
    /\ completed = [p \in Packages |-> "no"]
    /\ staged = {}

-----------------------------------------------------------------------------
(* NxPackageManager_DiscoverPendingPackage and _ApplyNext *)

Discover ==
    /\ ~scanning /\ phase = "idle" /\ pc = "idle"
    /\ \A p \in Packages : next[p] <= TxBound /\ Len(index[p]) < TxBound
    /\ scanning' = TRUE /\ unread' = Manifests
    /\ UNCHANGED <<avars, candidates, selected, completed, staged>>

\* nx_candidate_is_better
Better_Latest(c, s) == s = NoCandidate \/ c.time >= s.time
Better(c, s) ==
    \/ s = NoCandidate
    \/ c.time > s.time
    \/ c.time = s.time /\ PathRank[c.dir] > PathRank[s.dir]

\* Complete contract, no registry.txt of the package, dependencies there.
Pending(m) == m.contract /\ registry[m.id] = "none" /\ DependenciesPresent(m)

\* nx_consider_package on the next entry of readdir, in any order.
\* VerifyPackage may reject the directory.
Consider(m) ==
    /\ scanning /\ m \in unread
    /\ unread' = unread \ {m}
    /\ \/ UNCHANGED <<candidates, selected>>
       \/ \E t \in Times :
             LET c == [dir |-> m, time |-> t] IN
             /\ Pending(m)
             /\ candidates' = candidates \cup {c}
             /\ selected' = IF Better(c, selected) THEN c ELSE selected
    /\ UNCHANGED <<avars, scanning, completed, staged>>

EndScan ==
    /\ scanning /\ unread = {}
    /\ scanning' = FALSE /\ candidates' = {} /\ selected' = NoCandidate
    /\ UNCHANGED <<unread, completed, staged>>

ApplySelected == selected # NoCandidate /\ EndScan /\ Apply(selected.dir)
NothingFound  == selected = NoCandidate /\ EndScan /\ UNCHANGED avars

-----------------------------------------------------------------------------
(* What an Apply does to its log and to next.exe *)

\* nx_pm_write_text starts a new apply.log ...
Truncated_Kept(p) == {completed}
Truncated(p) == {[completed EXCEPT ![p] = "no"]}

\* ... and, when it fails, may have emptied the old one.
LogAfter ==
    IF phase # "verify" THEN {completed}
    ELSE IF phase' = "dependencies" THEN Truncated(target.id)
    ELSE {completed} \cup (IF logged' = 1 THEN Truncated(target.id) ELSE {})

\* A build of a target that includes next.exe links it, also when the build
\* fails later, unless it is up to date.
BuiltBy(p) == {staged, {[by |-> p, tested |-> FALSE]}}

BuildsNext == Build /\ target.staging /\ staged' \in BuiltBy(target.id) /\ UNCHANGED completed

\* The completion line, and with it what was built is tested.
Completes ==
    /\ Documentation
    /\ IF phase' = "certify"
       THEN /\ completed' = [completed EXCEPT ![target.id] =
                                IF target.staging THEN "staged" ELSE "plain"]
            /\ staged' = IF target.staging
                         THEN {[e EXCEPT !.tested = TRUE] : e \in staged} ELSE staged
       ELSE UNCHANGED <<completed, staged>>

ApplyOn ==
    /\ \/ BuildsNext
       \/ Completes
       \/ Build /\ ~target.staging /\ UNCHANGED <<completed, staged>>
       \/ /\ phase \notin {"build", "documentation"}
          /\ ApplyStep
          /\ completed' \in LogAfter
          /\ UNCHANGED staged
    /\ UNCHANGED scan

\* A helper that waits for the log of p (or an operator's --replace-now) moves
\* next.exe; it cannot while the package manager runs.
Replace ==
    /\ phase = "idle" /\ pc = "idle" /\ ~scanning
    /\ staged # {}
    /\ staged' = {}
    /\ UNCHANGED <<avars, scan, completed>>

-----------------------------------------------------------------------------
OperatorOn == ~scanning /\ Operator /\ UNCHANGED <<scan, completed, staged>>

UpdateNext ==
    \/ Discover \/ (\E m \in Manifests : Consider(m)) \/ ApplySelected \/ NothingFound
    \/ (\E m \in Manifests : ~scanning /\ Apply(m) /\ UNCHANGED <<scan, completed, staged>>)
    \/ ApplyOn \/ Replace \/ OperatorOn

UpdateSpec ==
    /\ UpdateInit /\ [][UpdateNext]_uvars
    /\ WF_uvars(ApplyOn)
    /\ WF_uvars(OperatorOn /\ (InstallStep \/ ReplayStep))

-----------------------------------------------------------------------------
(* Properties *)

\* The scan of .ncos_packages picks the newest pending directory, the last by
\* path among the newest, in whatever order readdir returns them: two machines
\* with the same tree apply the same package.
NewestIsChosen ==
    scanning /\ unread = {} =>
       IF candidates = {} THEN selected = NoCandidate
       ELSE /\ selected \in candidates
            /\ \A c \in candidates \ {selected} :
                  \/ c.time < selected.time
                  \/ c.time = selected.time /\ PathRank[c.dir] < PathRank[selected.dir]

\* ADR-0023, "Staged Package Manager self-update": while the log a helper waits
\* for tells of a completed apply that builds next.exe, the executable it would
\* move does not come from an apply of that package that failed its tests,
\* however many applies have run since the helper was started.
ReplacementTested ==
    \A p \in Packages, e \in staged :
       completed[p] = "staged" /\ e.by = p => e.tested
=============================================================================
