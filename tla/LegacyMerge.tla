----------------------------- MODULE LegacyMerge ------------------------------
(***************************************************************************)
(* Folding a worktree's old database into the shared one (src/src/db.rs:   *)
(* legacy_worktree_db, merge_legacy_db; main.rs calls them at every        *)
(* start).                                                                 *)
(*                                                                         *)
(* A process claims the old file by renaming it, copies it in one          *)
(* transaction, and renames it once more: to `.merged`, or back if the     *)
(* copy failed.  It may die between any two of these; a claim that looks   *)
(* abandoned is put back by a later start.  A server of the old build may  *)
(* still have the file open, and its writes go wherever the file is.       *)
(***************************************************************************)
EXTENDS Naturals

CONSTANTS
  Procs,       \* processes that start, do this, and start again
  Claims,      \* names memdag.db.merging-<pid>
  Ids,         \* memories
  Direct,      \* those recorded directly (source IS NULL)
  Edges,       \* relations there may be
  MaxFailures  \* bound on crashes and failed copies

ASSUME DirectAssumption == Direct \subseteq Ids
ASSUME EdgesAssumption  == Edges \subseteq Ids \X Ids
ASSUME NamesAssumption  == Claims \cap {"memdag.db", "merged", ""} = {}
ASSUME BoundAssumption  == MaxFailures \in Nat

Db    == "memdag.db"
Names == {Db, "merged"} \cup Claims

\* A file: none, one without any table, or a database with rows and edges.  `aged`: its
\* content was written more than a minute ago.
File   == [kind : {"none", "blank", "db"}, rows : SUBSET Ids, edges : SUBSET Edges, aged : BOOLEAN]
NoFile == [kind |-> "none", rows |-> {}, edges |-> {}, aged |-> FALSE]
Blank  == [NoFile EXCEPT !.kind = "blank"]
Empty  == [NoFile EXCEPT !.kind = "db"]

VARIABLES
  file,             \* what is under each name
  rows, relations,  \* the shared database
  pc,               \* where each process is
  name,             \* the claim a process found, or made
  server,           \* the old server: "gone", "idle" or "writing"
  held,             \* the name of the file it has open, "" if that was replaced
  recorded,         \* history: direct memories of the old database
  late,             \* history: those written to it after it had been copied
  movedAway,        \* history: a process found a file gone that it was to open
  failures          \* crashes and failed copies so far

shared == <<rows, relations>>
vars   == <<file, rows, relations, pc, name, server, held, recorded, late, movedAway, failures>>

Is(n)     == file[n].kind # "none"
Goto(p, l) == pc' = [pc EXCEPT ![p] = l]

\* rename(2): the old content of the new name is gone; whoever has the file open
\* follows it.
Rename(from, to) ==
  /\ file' = [file EXCEPT ![to] = file[from], ![from] = NoFile]
  /\ held' = CASE held = from -> to
               [] held = to   -> ""
               [] OTHER       -> held
\* move_with_sidecars: nothing happens if the file is not there.
Move(from, to) == IF Is(from) THEN Rename(from, to) ELSE UNCHANGED <<file, held>>

-----------------------------------------------------------------------------
(***************************************************************************)
(* A start                                                                 *)
(***************************************************************************)

\* legacy_worktree_db: an abandoned claim is put back, if its content is old and there
\* is no old database.  (Variant: none is looked for.)
NoClaim  == {}
Stranded == {c \in Claims : Is(c) /\ file[c].aged}

Look(p) ==
  /\ pc[p] = "start"
  /\ IF Is(Db) THEN Goto(p, "open") /\ UNCHANGED name
     ELSE \E c \in Stranded : name' = [name EXCEPT ![p] = c] /\ Goto(p, "restore")
  /\ UNCHANGED <<file, shared, server, held, recorded, late, movedAway, failures>>

Restore(p) ==
  /\ pc[p] = "restore"
  /\ Move(name[p], Db)
  /\ Goto(p, IF Is(Db)' THEN "open" ELSE "start")
  /\ UNCHANGED <<shared, name, server, recorded, late, movedAway, failures>>

\* Opening creates what is not there, and may write (a migration).  A checkpoint that
\* finds the database in use ends the attempt.
OpenOld(p) ==
  /\ pc[p] = "open"
  /\ IF file[Db].kind = "db"
     THEN \E a \in {file[Db].aged, FALSE} : file' = [file EXCEPT ![Db].aged = a]
     ELSE file' = [file EXCEPT ![Db] = Empty]
  /\ movedAway' = (movedAway \/ file[Db].kind = "none")
  /\ Goto(p, IF server = "writing" /\ held = Db THEN "start" ELSE "claim")
  /\ UNCHANGED <<shared, name, server, held, recorded, late, failures>>

\* The claim is named by the process id, which no claim left behind has.
Claim(p) ==
  /\ pc[p] = "claim"
  /\ IF Is(Db)
     THEN \E c \in {d \in Claims : ~Is(d) /\ \A q \in Procs \ {p} : name[q] # d} :
            Rename(Db, c) /\ name' = [name EXCEPT ![p] = c] /\ Goto(p, "copy")
     ELSE Goto(p, "start") /\ UNCHANGED <<file, held, name>>
  /\ UNCHANGED <<shared, server, recorded, late, movedAway, failures>>

\* The copy: direct rows first, then the edges both ends of which are there now.
\* (Variant: edges before rows.)
CopiedRows(d)  == rows \cup (d.rows \cap Direct)
EdgesFirst(d)  == relations \cup {e \in d.edges : {e[1], e[2]} \subseteq rows}
CopiedEdges(d) == relations \cup {e \in d.edges : {e[1], e[2]} \subseteq CopiedRows(d)}

Copy(p) ==
  /\ pc[p] = "copy"
  /\ file[name[p]].kind = "db"
  /\ rows' = CopiedRows(file[name[p]])
  /\ relations' = CopiedEdges(file[name[p]])
  /\ Goto(p, "retire")
  /\ UNCHANGED <<file, name, server, held, recorded, late, movedAway, failures>>

\* ATTACH creates a file that is not there, and then there is no table to copy from.
AttachNothing(p) ==
  /\ pc[p] = "copy"
  /\ file[name[p]].kind # "db"
  /\ file' = [file EXCEPT ![name[p]] = Blank]
  /\ movedAway' = TRUE
  /\ Goto(p, "back")
  /\ UNCHANGED <<shared, name, server, held, recorded, late, failures>>

\* The copy fails for a reason of its own (the shared database is locked, the disk full).
CopyFails(p) ==
  /\ pc[p] = "copy"
  /\ failures < MaxFailures
  /\ failures' = failures + 1
  /\ Goto(p, "back")
  /\ UNCHANGED <<file, shared, name, server, held, recorded, late, movedAway>>

\* What becomes of the claim.  (Variant: a failed merge is retired too.)
Retired(p) == "merged"
Target(p)  == IF pc[p] = "retire" THEN "merged" ELSE Db

Finish(p) ==
  /\ pc[p] \in {"retire", "back"}
  /\ Move(name[p], Target(p))
  /\ Goto(p, "start")
  /\ UNCHANGED <<shared, name, server, recorded, late, movedAway, failures>>

Crash(p) ==
  /\ pc[p] # "start"
  /\ failures < MaxFailures
  /\ failures' = failures + 1
  /\ Goto(p, "start")
  /\ UNCHANGED <<file, shared, name, server, held, recorded, late, movedAway>>

-----------------------------------------------------------------------------
(***************************************************************************)
(* The old server (external), and time                                     *)
(***************************************************************************)

ServerBegins ==
  /\ server = "idle"
  /\ recorded # Direct
  /\ server' = "writing"
  /\ UNCHANGED <<file, shared, pc, name, held, recorded, late, movedAway, failures>>

Copied(n) == n = "merged" \/ \E p \in Procs : pc[p] = "retire" /\ name[p] = n

\* The row and its edges go into the WAL at first, which leaves the file's time alone.
\* A file that was replaced takes them along.
ServerCommits ==
  /\ server = "writing"
  /\ server' = "idle"
  /\ \E id \in Direct \ recorded :
       /\ recorded' = recorded \cup {id}
       /\ late' = late \cup {i \in {id} : held = "" \/ Copied(held)}
       /\ \/ held = "" /\ UNCHANGED file
          \/ held # "" /\ \E es \in SUBSET Edges, a \in {file[held].aged, FALSE} :
               /\ \A e \in es : {e[1], e[2]} \subseteq file[held].rows \cup {id}
               /\ file' = [file EXCEPT ![held].rows = @ \cup {id}, ![held].edges = @ \cup es,
                                       ![held].aged = a]
  /\ UNCHANGED <<shared, pc, name, held, movedAway, failures>>

ServerLeaves ==
  /\ server \in {"idle", "writing"}
  /\ server' = "gone"
  /\ held' = ""
  /\ UNCHANGED <<file, shared, pc, name, recorded, late, movedAway, failures>>

AMinute ==
  /\ file' = [n \in Names |-> [file[n] EXCEPT !.aged = file[n].kind # "none"]]
  /\ file' # file
  /\ UNCHANGED <<shared, pc, name, server, held, recorded, late, movedAway, failures>>

-----------------------------------------------------------------------------

Init ==
  /\ \E r \in SUBSET Ids, a \in BOOLEAN : \E es \in SUBSET (Edges \cap (r \X r)) :
       /\ file = [n \in Names |-> IF n = Db THEN [kind |-> "db", rows |-> r, edges |-> es, aged |-> a]
                                  ELSE NoFile]
       /\ recorded = r \cap Direct
  /\ rows \in SUBSET (Ids \ Direct)
  /\ relations = {}
  /\ pc = [p \in Procs |-> "start"]
  /\ name = [p \in Procs |-> Db]
  /\ server \in {"gone", "idle"}
  /\ held = IF server = "gone" THEN "" ELSE Db
  /\ late = {}
  /\ movedAway = FALSE
  /\ failures = 0

Step(p) == \/ Look(p) \/ Restore(p) \/ OpenOld(p) \/ Claim(p)
           \/ Copy(p) \/ AttachNothing(p) \/ Finish(p)

Next == \/ \E p \in Procs : Step(p) \/ CopyFails(p) \/ Crash(p)
        \/ ServerBegins \/ ServerCommits \/ ServerLeaves
        \/ AMinute

Spec     == Init /\ [][Next]_vars
\* memdag is started again and again, the old server ends its transactions, time passes.
FairSpec == /\ Spec
            /\ \A p \in Procs : WF_vars(Step(p))
            /\ WF_vars(ServerCommits \/ ServerLeaves)
            /\ WF_vars(AMinute)

-----------------------------------------------------------------------------
(***************************************************************************)
(* Properties                                                              *)
(***************************************************************************)

\* Every variable has its type.
TypeOK ==
  /\ file \in [Names -> File]
  /\ rows \subseteq Ids
  /\ relations \subseteq Edges
  /\ pc \in [Procs -> {"start", "restore", "open", "claim", "copy", "retire", "back"}]
  /\ name \in [Procs -> Claims \cup {Db}]
  /\ server \in {"gone", "idle", "writing"}
  /\ held \in Names \cup {""}
  /\ recorded \subseteq Direct
  /\ late \subseteq recorded
  /\ movedAway \in BOOLEAN
  /\ failures \in 0..MaxFailures

Waiting == UNION {file[n].rows : n \in {Db} \cup Claims}
Kept    == recorded \ late \subseteq rows \cup Waiting

\* Every memory that was recorded in the old database is in the shared one, or in a file
\* that is still to be merged, whatever failed or died in between, also if another
\* process took the claim back; but for what an old server wrote after the copy.  (Not
\* if a process found its file gone: see ClaimedByOne.)
NothingLost == movedAway \/ Kept

\* The same of two processes, without that exception: as the comment of merge_legacy_db
\* has it, a claim is its process's alone.
ClaimedByOne == Kept

\* A database is retired only when it is in the shared one: its direct rows, and every
\* edge between memories that are there (merge_legacy_db, docs/adr/0005).
\* (What an old server wrote later excepted.)
MergedMeansCopied ==
  \A n \in Names :
    Copied(n) /\ Is(n) =>
      /\ file[n].rows \cap Direct \subseteq rows \cup late
      /\ \A e \in file[n].edges :
           {e[1], e[2]} \subseteq rows => e \in relations \/ late # {}

\* In the end the shared database has every memory of the old one.
HandedOver == <>[](movedAway \/ recorded \ late \subseteq rows)
=============================================================================
