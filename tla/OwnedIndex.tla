------------------------------ MODULE OwnedIndex ------------------------------
(***************************************************************************)
(* What an index that several worktrees share promises: it holds exactly   *)
(* what some worktree claims.  A process states the claims of its own      *)
(* worktree as a whole, in one step with the index.  The claims of another *)
(* worktree stay as they are, unless that worktree was not listed when     *)
(* this process last looked, when all of them go; a process that has not   *)
(* looked drops nobody's.                                                  *)
(* Importer implements this with four tables, files, and steps that read   *)
(* a worktree long before they use what they read.                         *)
(***************************************************************************)
CONSTANTS Ids, Worktrees, Procs, Home

VARIABLES
  claims,  \* what each worktree claims: [Worktrees -> SUBSET Ids]
  index,   \* what readers see: a subset of Ids
  listed,  \* the worktrees there are
  seen     \* those each process last saw listed; Worktrees if it has not looked

vars == <<claims, index, listed, seen>>

Union(c) == UNION {c[w] : w \in Worktrees}

Init ==
  /\ claims = [w \in Worktrees |-> {}]
  /\ index = {}
  /\ listed = Worktrees
  /\ seen = [p \in Procs |-> Worktrees]

Look(p) ==
  /\ seen' = [seen EXCEPT ![p] = listed]
  /\ UNCHANGED <<claims, index, listed>>

\* Process p states all that its worktree has.
Update(p, mine) ==
  /\ claims' = [v \in Worktrees |-> IF v = Home[p] THEN mine
                                    ELSE IF v \in seen[p] THEN claims[v] ELSE {}]
  /\ index' = Union(claims')
  /\ seen' = [seen EXCEPT ![p] = Worktrees]
  /\ UNCHANGED listed

\* A process that dies forgets what it saw.
Forget(p) ==
  /\ seen' = [seen EXCEPT ![p] = Worktrees]
  /\ UNCHANGED <<claims, index, listed>>

\* People add and remove worktrees.
AddOrRemove(w) ==
  /\ listed' \in {listed \cup {w}, listed \ {w}}
  /\ UNCHANGED <<claims, index, seen>>

Next ==
  \/ \E p \in Procs : Look(p) \/ Forget(p) \/ \E mine \in SUBSET Ids : Update(p, mine)
  \/ \E w \in Worktrees : AddOrRemove(w)

Spec == Init /\ [][Next]_vars

=============================================================================
