------------------------------ MODULE MCImporter ------------------------------
(* Instances of Importer for TLC. *)
EXTENDS Importer, TLC

CONSTANTS n1, n2, a1, a2, c0, c1, c2, w1, w2, p1, p2

\* Commits: c1 and c2 both follow c0.  Those that are ids too are decisions.
TwoBranches == (c0 :> {c0}) @@ (c1 :> {c0, c1}) @@ (c2 :> {c0, c2})
OneCommit   == c0 :> {c0}
NoHistory   == [c \in {} |-> {}]

SourceOfId == [i \in Ids |-> IF i \in {n1, n2} THEN "note" ELSE IF i \in {a1, a2} THEN "adr" ELSE "git"]

OneHome    == [p \in Procs |-> w1]
HomePerProc == [p \in Procs |-> IF p = p1 THEN w1 ELSE w2]

D(readable, names, superseded, resolved) ==
  [readable |-> readable, names |-> names, superseded |-> superseded, resolved |-> resolved]

NoteDocs(i) == {D(TRUE, t, FALSE, FALSE) : t \in {NoId, n2} \ {i}}
\* The first ADR may be superseded by the second, which may be unreadable.
AdrDocs(i)  == IF i = a1 THEN {D(TRUE, NoId, FALSE, FALSE), D(TRUE, a2, TRUE, FALSE)}
                         ELSE {D(r, NoId, FALSE, FALSE) : r \in BOOLEAN}

Notes     == [i \in FileIds |-> IF n2 \in Ids THEN NoteDocs(i) ELSE {D(TRUE, NoId, FALSE, FALSE)}]
Resolved  == [i \in FileIds |-> {D(TRUE, NoId, FALSE, r) : r \in BOOLEAN} \cup {D(FALSE, NoId, FALSE, FALSE)}]
Adrs      == [i \in FileIds |-> AdrDocs(i)]

\* Processes of one worktree are interchangeable, and so are two worktrees with
\* one process each.
ProcSymmetry == Permutations(Procs)
SideSymmetry == {[x \in {w1, w2, p1, p2} |-> x],
                 (w1 :> w2) @@ (w2 :> w1) @@ (p1 :> p2) @@ (p2 :> p1)}

ImportsSpec  == Init /\ [][ImportNext \/ PeopleNext]_vars
WorktreeSpec == Init /\ [][ImportNext \/ PeopleNext \/ WorktreeNext]_vars
FairImportsSpec == ImportsSpec /\ Fairness

=============================================================================
