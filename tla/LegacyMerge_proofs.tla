-------------------------- MODULE LegacyMerge_proofs ---------------------------
(***************************************************************************)
(* Proofs about LegacyMerge, for any number of processes, memories and     *)
(* failures.                                                               *)
(*                                                                         *)
(* The argument: until a process finds a file gone there is only one file, *)
(* and a rename moves it without overwriting another.  No two processes    *)
(* work on a claim of one name, so what a process copied is what it        *)
(* retires.                                                                *)
(***************************************************************************)
EXTENDS LegacyMerge, TLAPS

Working == {"copy", "retire", "back"}

\* The files: only a database has content, an old server has a database open, edges join
\* rows of their file.
FilesAreSound ==
  /\ \A n \in Names : file[n].kind # "db" => file[n].rows = {} /\ file[n].edges = {}
  /\ held # "" => file[held].kind = "db"
  /\ \A n \in Names : \A e \in file[n].edges : e[1] \in file[n].rows /\ e[2] \in file[n].rows
OneFile == \A m, n \in Names : Is(m) /\ Is(n) => m = n

\* The processes: claims have names of their own, and one process each.
ClaimsAreNamed == \A p \in Procs : pc[p] \in Working \cup {"restore"} => name[p] \in Claims
ClaimsAreAlone == \A p, q \in Procs :
                    p # q /\ pc[p] \in Working /\ pc[q] \in Working => name[p] # name[q]

EdgesJoinRows == \A e \in relations : e[1] \in rows /\ e[2] \in rows

IInv == /\ TypeOK
        /\ FilesAreSound
        /\ ClaimsAreNamed /\ ClaimsAreAlone
        /\ movedAway \/ OneFile
        /\ MergedMeansCopied
        /\ NothingLost
        /\ EdgesJoinRows

-----------------------------------------------------------------------------

LEMMA NamesAre ==
  /\ Names = {"memdag.db", "merged"} \cup Claims
  /\ Db \in Names /\ "merged" \in Names /\ Claims \subseteq Names
  /\ Db \notin Claims /\ "merged" \notin Claims /\ "" \notin Names /\ Db # "merged"
BY NamesAssumption DEF Names, Db

LEMMA FilesAre ==
  /\ NoFile \in File /\ Blank \in File /\ Empty \in File
  /\ NoFile.rows = {} /\ NoFile.edges = {} /\ NoFile.kind = "none"
  /\ Blank.rows = {} /\ Blank.edges = {} /\ Blank.kind = "blank"
  /\ Empty.rows = {} /\ Empty.edges = {} /\ Empty.kind = "db"
BY DEF File, NoFile, Blank, Empty

\* What a rename of a file does to what is under each name.
LEMMA RenameMoves ==
  ASSUME TypeOK, NEW from \in Names, NEW to \in Names, from # to, Rename(from, to)
  PROVE  /\ file' \in [Names -> File]
         /\ file'[to] = file[from]
         /\ file'[from] = NoFile
         /\ \A n \in Names : n # from /\ n # to => file'[n] = file[n]
         /\ held' \in Names \cup {""}
         /\ held = from => held' = to
         /\ held # from => held' = "" \/ (held' = held /\ held # to)
<1>1. file \in [Names -> File] /\ held \in Names \cup {""}
  BY DEF TypeOK
<1>2. file' = [file EXCEPT ![to] = file[from], ![from] = NoFile]
  BY DEF Rename
<1>3. held' = IF held = from THEN to ELSE IF held = to THEN "" ELSE held
  BY DEF Rename
<1>4. NoFile \in File
  BY FilesAre
<1>5. /\ file' \in [Names -> File]
      /\ file'[to] = file[from]
      /\ file'[from] = NoFile
      /\ \A n \in Names : n # from /\ n # to => file'[n] = file[n]
  BY <1>1, <1>2, <1>4
<1> QED BY <1>1, <1>3, <1>5

\* It leaves the files sound, and one file one file.
LEMMA RenameKeepsFiles ==
  ASSUME IInv, NEW from \in Names, NEW to \in Names, from # to, Is(from), Rename(from, to)
  PROVE  /\ FilesAreSound'
         /\ OneFile => OneFile'
<1>0. TypeOK /\ FilesAreSound
  BY DEF IInv
<1>r. /\ file'[to] = file[from]
      /\ file'[from] = NoFile
      /\ \A n \in Names : n # from /\ n # to => file'[n] = file[n]
      /\ held' \in Names \cup {""}
      /\ held = from => held' = to
      /\ held # from => held' = "" \/ (held' = held /\ held # to)
  BY <1>0, RenameMoves
<1>1. FilesAreSound'
  <2>1. ASSUME NEW n \in Names
        PROVE  /\ file'[n].kind # "db" => file'[n].rows = {} /\ file'[n].edges = {}
               /\ \A e \in file'[n].edges : e[1] \in file'[n].rows /\ e[2] \in file'[n].rows
    <3>1. CASE n = from
      BY <3>1, <1>r, FilesAre
    <3>2. CASE n = to
      BY <3>2, <1>0, <1>r DEF FilesAreSound
    <3>3. CASE n # from /\ n # to
      BY <3>3, <1>0, <1>r DEF FilesAreSound
    <3> QED BY <3>1, <3>2, <3>3
  <2>2. ASSUME held' # "" PROVE file'[held'].kind = "db"
    <3>1. CASE held = from
      BY <3>1, <1>0, <1>r, NamesAre DEF FilesAreSound
    <3>2. CASE held # from
      BY <3>2, <2>2, <1>0, <1>r, NamesAre DEF FilesAreSound
    <3> QED BY <3>1, <3>2
  <2> QED BY <2>1, <2>2 DEF FilesAreSound
<1>2. ASSUME OneFile PROVE OneFile'
  <2>1. ASSUME NEW k \in Names, file'[k].kind # "none" PROVE k = to
    <3>1. k # from
      BY <2>1, <1>r, FilesAre
    <3>2. CASE k # to
      BY <3>1, <3>2, <2>1, <1>2, <1>r DEF OneFile, Is
    <3> QED BY <3>2
  <2> QED BY <2>1 DEF OneFile, Is
<1> QED BY <1>1, <1>2

\* A file that moves between the old name and a claim stays among those that wait.
LEMMA RenameKeepsWaiting ==
  ASSUME IInv, OneFile, NEW from \in {Db} \cup Claims, NEW to \in {Db} \cup Claims,
         from # to, Is(from), Rename(from, to)
  PROVE  Waiting \subseteq Waiting'
<1> SUFFICES ASSUME NEW id \in Waiting PROVE id \in Waiting'
  OBVIOUS
<1>0. TypeOK /\ FilesAreSound
  BY DEF IInv
<1>1. PICK n \in {Db} \cup Claims : id \in file[n].rows
  BY DEF Waiting
<1>2. from \in Names /\ to \in Names /\ n \in Names
  BY NamesAre
<1>r. /\ file'[to] = file[from]
      /\ \A k \in Names : k # from /\ k # to => file'[k] = file[k]
  BY <1>0, <1>2, RenameMoves
<1>3. n = from
  <2>1. file[n].kind = "db"
    BY <1>0, <1>1, <1>2 DEF FilesAreSound
  <2> QED BY <2>1, <1>2 DEF OneFile, Is
<1>4. id \in file'[to].rows
  BY <1>1, <1>3, <1>r
<1> QED BY <1>4 DEF Waiting

LEMMA EndsOfPairs == ASSUME NEW r, NEW e \in r \X r PROVE e[1] \in r /\ e[2] \in r
  OBVIOUS

LEMMA InitIInv == Init => IInv
<1> SUFFICES ASSUME Init PROVE IInv
  OBVIOUS
<1>1. /\ held \in {"", Db} /\ server \in {"gone", "idle"}
      /\ rows \in SUBSET (Ids \ Direct) /\ relations = {} /\ late = {}
      /\ pc = [p \in Procs |-> "start"] /\ name = [p \in Procs |-> Db]
  BY DEF Init
<1>0. failures = 0
  BY DEF Init
<1>2. movedAway \in BOOLEAN
  BY DEF Init
<1>3. \E r \in SUBSET Ids : \E a \in BOOLEAN : \E es \in SUBSET Edges :
        /\ \A e \in es : e[1] \in r /\ e[2] \in r
        /\ file = [n \in Names |-> IF n = Db THEN [kind |-> "db", rows |-> r, edges |-> es, aged |-> a]
                                   ELSE NoFile]
        /\ recorded = r \cap Direct
  <2>1. \E r \in SUBSET Ids : \E a \in BOOLEAN : \E es \in SUBSET (Edges \cap (r \X r)) :
          /\ file = [n \in Names |-> IF n = Db THEN [kind |-> "db", rows |-> r, edges |-> es, aged |-> a]
                                     ELSE NoFile]
          /\ recorded = r \cap Direct
    BY Zenon DEF Init
  <2> QED BY <2>1, EndsOfPairs, Zenon
<1>4. PICK r \in SUBSET Ids : \E a \in BOOLEAN : \E es \in SUBSET Edges :
        /\ \A e \in es : e[1] \in r /\ e[2] \in r
        /\ file = [n \in Names |-> IF n = Db THEN [kind |-> "db", rows |-> r, edges |-> es, aged |-> a]
                                   ELSE NoFile]
        /\ recorded = r \cap Direct
  BY <1>3
<1>5. PICK a \in BOOLEAN, es \in SUBSET Edges :
        /\ \A e \in es : e[1] \in r /\ e[2] \in r
        /\ file = [n \in Names |-> IF n = Db THEN [kind |-> "db", rows |-> r, edges |-> es, aged |-> a]
                                   ELSE NoFile]
        /\ recorded = r \cap Direct
  BY <1>4
<1>6. /\ file \in [Names -> File]
      /\ file[Db].kind = "db" /\ file[Db].rows = r /\ file[Db].edges = es
      /\ \A n \in Names : n # Db => file[n] = NoFile
  BY <1>5, NamesAre, FilesAre DEF File
<1>7. TypeOK
  <2>1. failures \in 0..MaxFailures
    BY <1>0, BoundAssumption
  <2> QED BY <1>1, <1>2, <1>5, <1>6, <2>1, NamesAre DEF TypeOK
<1>8. FilesAreSound
  BY <1>1, <1>5, <1>6, FilesAre, NamesAre DEF FilesAreSound
<1>9. ClaimsAreNamed /\ ClaimsAreAlone /\ EdgesJoinRows
  BY <1>1 DEF ClaimsAreNamed, ClaimsAreAlone, Working, EdgesJoinRows
<1>10. OneFile
  BY <1>6, FilesAre DEF OneFile, Is
<1>11. MergedMeansCopied
  BY <1>1, <1>6, FilesAre, NamesAre DEF MergedMeansCopied, Copied, Is
<1>12. NothingLost
  BY <1>5, <1>6 DEF NothingLost, Kept, Waiting
<1> QED BY <1>7, <1>8, <1>9, <1>10, <1>11, <1>12 DEF IInv

-----------------------------------------------------------------------------

\* A step that copies nothing and leaves what was copied as it is.
LEMMA MergedStays ==
  ASSUME MergedMeansCopied, rows' = rows, relations' = relations, late \subseteq late',
         \A n \in Names : (Copied(n) /\ Is(n))' =>
           Copied(n) /\ Is(n) /\ file'[n].rows = file[n].rows /\ file'[n].edges = file[n].edges
  PROVE  MergedMeansCopied'
<1> SUFFICES ASSUME NEW n \in Names, (Copied(n) /\ Is(n))'
             PROVE  /\ file'[n].rows \cap Direct \subseteq rows \cup late'
                    /\ \A e \in file'[n].edges :
                         {e[1], e[2]} \subseteq rows => e \in relations \/ late' # {}
  BY DEF MergedMeansCopied
<1>1. /\ file'[n].rows = file[n].rows /\ file'[n].edges = file[n].edges
      /\ file[n].rows \cap Direct \subseteq rows \cup late
      /\ \A e \in file[n].edges : {e[1], e[2]} \subseteq rows => e \in relations \/ late # {}
  BY DEF MergedMeansCopied
<1> QED BY <1>1

\* A step that records nothing and loses sight of no file.
LEMMA KeptStays ==
  ASSUME NothingLost, rows' = rows, recorded' = recorded, late' = late,
         movedAway => movedAway', ~movedAway' => Waiting \subseteq Waiting'
  PROVE  NothingLost'
BY DEF NothingLost, Kept

LEMMA FailuresStayBounded ==
  ASSUME failures \in 0..MaxFailures, failures < MaxFailures, failures' = failures + 1
  PROVE  failures' \in 0..MaxFailures
BY BoundAssumption

\* Steps that leave the files alone: a process goes on, is started again, or fails.
LEMMA MovesKeepIInv ==
  ASSUME IInv, NEW p \in Procs, Look(p) \/ CopyFails(p) \/ Crash(p)
  PROVE  IInv'
<1>0. TypeOK
  BY DEF IInv
<1>1. /\ UNCHANGED <<file, rows, relations, server, held, recorded, late>>
      /\ movedAway' = movedAway
      /\ \A q \in Procs : q # p => pc'[q] = pc[q] /\ name'[q] = name[q]
      /\ pc'[p] \in {"start", "open", "restore", "back"}
      /\ pc'[p] = "back" => pc[p] = "copy" /\ name'[p] = name[p]
      /\ pc'[p] = "restore" => name'[p] \in Claims
      /\ pc' \in [Procs -> {"start", "restore", "open", "claim", "copy", "retire", "back"}]
      /\ name' \in [Procs -> Claims \cup {Db}]
      /\ failures' \in 0..MaxFailures
  <2>1. CASE Look(p)
    <3>1. /\ UNCHANGED <<file, rows, relations, server, held, recorded, late>>
          /\ failures' = failures
      BY <2>1 DEF Look, shared
    <3>2. movedAway' = movedAway
      BY <2>1 DEF Look
    <3>3. CASE Is(Db)
      <4>1. pc' = [pc EXCEPT ![p] = "open"] /\ name' = name
        BY <2>1, <3>3 DEF Look, Goto
      <4> QED BY <4>1, <3>1, <3>2, <1>0 DEF TypeOK
    <3>4. CASE ~Is(Db)
      <4>1. PICK c \in Claims : /\ name' = [name EXCEPT ![p] = c]
                                /\ pc' = [pc EXCEPT ![p] = "restore"]
        BY <2>1, <3>4 DEF Look, Goto, Stranded
      <4> QED BY <4>1, <3>1, <3>2, <1>0 DEF TypeOK
    <3> QED BY <3>3, <3>4
  <2>2. CASE CopyFails(p) \/ Crash(p)
    <3>1. /\ UNCHANGED <<file, rows, relations, name, server, held, recorded, late>>
          /\ failures < MaxFailures /\ failures' = failures + 1
          /\ \/ pc[p] = "copy" /\ pc' = [pc EXCEPT ![p] = "back"]
             \/ pc' = [pc EXCEPT ![p] = "start"]
      BY <2>2 DEF CopyFails, Crash, shared, Goto
    <3>2. movedAway' = movedAway
      BY <2>2 DEF CopyFails, Crash
    <3>3. failures' \in 0..MaxFailures
      <4>1. failures \in 0..MaxFailures
        BY <1>0 DEF TypeOK
      <4> QED BY <4>1, <3>1, FailuresStayBounded
    <3> QED BY <3>1, <3>2, <3>3, <1>0 DEF TypeOK
  <2> QED BY <2>1, <2>2
<1>2. TypeOK'
  BY <1>0, <1>1 DEF TypeOK
<1>3. FilesAreSound' /\ (movedAway \/ OneFile)' /\ EdgesJoinRows'
  BY <1>1 DEF IInv, FilesAreSound, OneFile, Is, EdgesJoinRows
<1>4. ClaimsAreNamed'
  BY <1>1 DEF IInv, ClaimsAreNamed, Working
<1>5. ClaimsAreAlone'
  BY <1>1 DEF IInv, ClaimsAreAlone, Working
<1>6. MergedMeansCopied'
  <2>1. ASSUME NEW n \in Names, Copied(n)', Is(n)' PROVE Copied(n) /\ Is(n)
    BY <2>1, <1>1 DEF Copied, Is
  <2> QED BY <1>1, <2>1, MergedStays DEF IInv
<1>7. NothingLost'
  BY <1>1 DEF IInv, NothingLost, Kept, Waiting
<1> QED BY <1>2, <1>3, <1>4, <1>5, <1>6, <1>7 DEF IInv

\* A claim is put back, or goes back after a failed copy.
LEMMA BackKeepsIInv ==
  ASSUME IInv, NEW p \in Procs, Restore(p) \/ (Finish(p) /\ pc[p] = "back")
  PROVE  IInv'
<1>0. TypeOK /\ FilesAreSound /\ ClaimsAreNamed /\ ClaimsAreAlone /\ MergedMeansCopied
  BY DEF IInv
<1>1. /\ name[p] \in Claims /\ name[p] \in Names /\ name[p] # Db
      /\ IF Is(name[p]) THEN Rename(name[p], Db) ELSE UNCHANGED <<file, held>>
  BY <1>0, NamesAre DEF ClaimsAreNamed, Working, Restore, Finish, Target, Move
<1>2. /\ UNCHANGED <<rows, relations, name, server, recorded, late, failures>>
      /\ movedAway' = movedAway
      /\ \A q \in Procs : q # p => pc'[q] = pc[q]
      /\ pc' \in [Procs -> {"start", "restore", "open", "claim", "copy", "retire", "back"}]
      /\ pc'[p] \in {"start", "open"}
  <2>1. UNCHANGED <<rows, relations, name, server, recorded, late, failures>>
    BY DEF Restore, Finish, shared
  <2>2. movedAway' = movedAway
    BY DEF Restore, Finish
  <2>3. pc' = [pc EXCEPT ![p] = "open"] \/ pc' = [pc EXCEPT ![p] = "start"]
    BY DEF Restore, Finish, Goto
  <2> QED BY <2>1, <2>2, <2>3, <1>0 DEF TypeOK
<1>3. /\ file' \in [Names -> File] /\ held' \in Names \cup {""}
      /\ \A n \in Names : n # Db => file'[n] = file[n] \/ file'[n] = NoFile
  <2>1. CASE Is(name[p])
    <3>1. Db \in Names /\ Rename(name[p], Db)
      BY <2>1, <1>1, NamesAre
    <3> QED BY <3>1, <1>0, <1>1, RenameMoves
  <2>2. CASE ~Is(name[p])
    BY <2>2, <1>0, <1>1 DEF TypeOK
  <2> QED BY <2>1, <2>2
<1>4. TypeOK'
  BY <1>0, <1>2, <1>3 DEF TypeOK
<1>5. FilesAreSound' /\ (OneFile => OneFile')
  <2>1. CASE Is(name[p])
    BY <2>1, <1>1, RenameKeepsFiles, NamesAre
  <2>2. CASE ~Is(name[p])
    BY <2>2, <1>0, <1>1 DEF FilesAreSound, OneFile, Is
  <2> QED BY <2>1, <2>2
<1>6. ClaimsAreNamed' /\ ClaimsAreAlone' /\ EdgesJoinRows'
  BY <1>0, <1>2 DEF IInv, ClaimsAreNamed, ClaimsAreAlone, EdgesJoinRows, Working
<1>7. MergedMeansCopied'
  <2>1. ASSUME NEW n \in Names, Copied(n)', Is(n)'
        PROVE  Copied(n) /\ Is(n) /\ file'[n] = file[n]
    <3>1. Copied(n)
      BY <2>1, <1>2 DEF Copied
    <3>2. n # Db
      BY <3>1, <1>0, NamesAre DEF Copied, ClaimsAreNamed, Working
    <3> QED BY <3>1, <3>2, <2>1, <1>3, FilesAre DEF Is
  <2> QED BY <2>1, <1>0, <1>2, MergedStays
<1>8. NothingLost'
  <2>1. ASSUME ~movedAway PROVE Waiting \subseteq Waiting'
    <3>1. CASE Is(name[p])
      BY <3>1, <2>1, <1>1, RenameKeepsWaiting DEF IInv
    <3>2. CASE ~Is(name[p])
      BY <3>2, <1>1 DEF Waiting
    <3> QED BY <3>1, <3>2
  <2> QED BY <2>1, <1>2, KeptStays DEF IInv
<1>9. (movedAway \/ OneFile)'
  BY <1>2, <1>5 DEF IInv
<1> QED BY <1>4, <1>5, <1>6, <1>7, <1>8, <1>9 DEF IInv

\* The old database is opened, or an empty one made where it was.
LEMMA OpenOldKeepsIInv ==
  ASSUME IInv, NEW p \in Procs, OpenOld(p)
  PROVE  IInv'
<1>0. TypeOK /\ FilesAreSound /\ ClaimsAreNamed /\ ClaimsAreAlone /\ MergedMeansCopied
  BY DEF IInv
<1>1. UNCHANGED <<rows, relations, name, server, held, recorded, late, failures>>
  BY DEF OpenOld, shared
<1>2. PICK f \in File : /\ file' = [file EXCEPT ![Db] = f]
                        /\ f.kind = "db"
                        /\ f.rows = file[Db].rows /\ f.edges = file[Db].edges
  <2>1. file[Db] \in File
    BY <1>0, NamesAre DEF TypeOK
  <2>2. CASE file[Db].kind = "db"
    <3>1. PICK a \in {file[Db].aged, FALSE} : file' = [file EXCEPT ![Db].aged = a]
      BY <2>2 DEF OpenOld
    <3>2. [file[Db] EXCEPT !.aged = a] \in File
      BY <2>1, <3>1 DEF File
    <3>3. file' = [file EXCEPT ![Db] = [file[Db] EXCEPT !.aged = a]]
      BY <3>1
    <3> QED BY <2>1, <2>2, <3>2, <3>3 DEF File
  <2>3. CASE file[Db].kind # "db"
    <3>1. file' = [file EXCEPT ![Db] = Empty]
      BY <2>3 DEF OpenOld
    <3>2. file[Db].rows = {} /\ file[Db].edges = {}
      BY <2>3, <1>0, NamesAre DEF FilesAreSound
    <3> QED BY <3>1, <3>2, FilesAre
  <2> QED BY <2>2, <2>3
<1>3. /\ \A n \in Names : /\ file'[n].rows = file[n].rows /\ file'[n].edges = file[n].edges
                          /\ n # Db => file'[n] = file[n]
      /\ file'[Db].kind = "db"
      /\ file' \in [Names -> File]
  BY <1>0, <1>2, NamesAre DEF TypeOK
<1>4. /\ \A q \in Procs : pc'[q] \in Working \cup {"restore"} => pc'[q] = pc[q]
      /\ pc' \in [Procs -> {"start", "restore", "open", "claim", "copy", "retire", "back"}]
  <2>1. pc' = [pc EXCEPT ![p] = "start"] \/ pc' = [pc EXCEPT ![p] = "claim"]
    BY DEF OpenOld, Goto
  <2> QED BY <2>1, <1>0 DEF TypeOK, Working
<1>5. movedAway' \in BOOLEAN /\ (movedAway => movedAway')
  BY <1>0 DEF OpenOld, TypeOK
<1>6. TypeOK'
  BY <1>0, <1>1, <1>3, <1>4, <1>5 DEF TypeOK
<1>7. FilesAreSound'
  <2>1. ASSUME NEW n \in Names
        PROVE  /\ file'[n].kind # "db" => file'[n].rows = {} /\ file'[n].edges = {}
               /\ \A e \in file'[n].edges : e[1] \in file'[n].rows /\ e[2] \in file'[n].rows
    <3>1. file'[n].kind # "db" => file[n].kind # "db"
      BY <1>3
    <3> QED BY <3>1, <1>0, <1>3 DEF FilesAreSound
  <2>2. ASSUME held' # "" PROVE file'[held'].kind = "db"
    <3>1. held \in Names /\ held' = held /\ file[held].kind = "db"
      BY <2>2, <1>0, <1>1 DEF TypeOK, FilesAreSound
    <3> QED BY <3>1, <1>3
  <2> QED BY <2>1, <2>2 DEF FilesAreSound
<1>8. ClaimsAreNamed' /\ ClaimsAreAlone' /\ EdgesJoinRows'
  BY <1>0, <1>1, <1>4 DEF IInv, ClaimsAreNamed, ClaimsAreAlone, EdgesJoinRows, Working
<1>9. (movedAway \/ OneFile)'
  <2>1. CASE ~movedAway'
    <3>1. OneFile /\ Is(Db)
      BY <2>1, <1>5 DEF IInv, OpenOld, Is
    <3>2. \A n \in Names : Is(n)' => Is(n)
      BY <3>1, <1>3 DEF Is
    <3> QED BY <3>1, <3>2 DEF OneFile
  <2> QED BY <2>1
<1>10. MergedMeansCopied'
  <2>1. ASSUME NEW n \in Names, Copied(n)', Is(n)'
        PROVE  Copied(n) /\ Is(n)
    <3>1. Copied(n)
      BY <2>1, <1>1, <1>4 DEF Copied, Working
    <3>2. n # Db
      BY <3>1, <1>0, NamesAre DEF Copied, ClaimsAreNamed, Working
    <3> QED BY <3>1, <3>2, <2>1, <1>3 DEF Is
  <2> QED BY <2>1, <1>0, <1>1, <1>3, MergedStays
<1>11. NothingLost'
  <2>1. Waiting \subseteq Waiting'
    <3>1. \A n \in {Db} \cup Claims : file'[n].rows = file[n].rows
      BY <1>3, NamesAre
    <3> QED BY <3>1 DEF Waiting
  <2> QED BY <2>1, <1>1, <1>5, KeptStays DEF IInv
<1> QED BY <1>6, <1>7, <1>8, <1>9, <1>10, <1>11 DEF IInv

\* The old database is claimed under a name nobody works on.
LEMMA ClaimKeepsIInv ==
  ASSUME IInv, NEW p \in Procs, Claim(p)
  PROVE  IInv'
<1>0. TypeOK /\ FilesAreSound /\ ClaimsAreNamed /\ ClaimsAreAlone /\ MergedMeansCopied
  BY DEF IInv
<1>1. /\ UNCHANGED <<rows, relations, server, recorded, late, failures>>
      /\ movedAway' = movedAway
  <2>1. UNCHANGED <<rows, relations, server, recorded, late, failures>>
    BY DEF Claim, shared
  <2>2. movedAway' = movedAway
    BY DEF Claim
  <2> QED BY <2>1, <2>2
<1>2. CASE ~Is(Db)
  <2>1. UNCHANGED <<file, held, name>> /\ pc' = [pc EXCEPT ![p] = "start"]
    BY <1>2 DEF Claim, Goto
  <2>2. /\ \A q \in Procs : pc'[q] \in Working \cup {"restore"} => pc'[q] = pc[q]
        /\ pc' \in [Procs -> {"start", "restore", "open", "claim", "copy", "retire", "back"}]
    BY <2>1, <1>0 DEF TypeOK, Working
  <2>3. TypeOK'
    BY <1>0, <1>1, <2>1, <2>2 DEF TypeOK
  <2>4. FilesAreSound' /\ ClaimsAreNamed' /\ ClaimsAreAlone' /\ EdgesJoinRows'
    BY <1>0, <1>1, <2>1, <2>2
       DEF IInv, FilesAreSound, ClaimsAreNamed, ClaimsAreAlone, EdgesJoinRows, Working
  <2>7. (movedAway \/ OneFile)'
    BY <1>1, <2>1 DEF IInv, OneFile, Is
  <2>5. MergedMeansCopied'
    <3>1. \A n \in Names : (Copied(n) /\ Is(n))' => Copied(n) /\ Is(n)
      BY <2>1, <2>2 DEF Copied, Is, Working
    <3> QED BY <3>1, <1>0, <1>1, <2>1, MergedStays
  <2>6. NothingLost'
    BY <1>1, <2>1 DEF IInv, NothingLost, Kept, Waiting
  <2> QED BY <2>3, <2>4, <2>5, <2>6, <2>7 DEF IInv
<1>3. CASE Is(Db)
  <2>1. PICK c \in Claims : /\ \A q \in Procs \ {p} : name[q] # c
                            /\ Rename(Db, c)
                            /\ name' = [name EXCEPT ![p] = c]
                            /\ pc' = [pc EXCEPT ![p] = "copy"]
    BY <1>3 DEF Claim, Goto
  <2>2. c \in Names /\ Db \in Names /\ Db # c
    BY NamesAre
  <2>3. /\ \A q \in Procs : q # p => pc'[q] = pc[q] /\ name'[q] = name[q] /\ name'[q] # c
        /\ pc'[p] = "copy" /\ name'[p] = c
        /\ pc' \in [Procs -> {"start", "restore", "open", "claim", "copy", "retire", "back"}]
        /\ name' \in [Procs -> Claims \cup {Db}]
    BY <2>1, <1>0 DEF TypeOK
  <2>4. /\ file' \in [Names -> File] /\ held' \in Names \cup {""}
        /\ file'[Db] = NoFile
        /\ \A n \in Names : n # Db /\ n # c => file'[n] = file[n]
    BY <2>1, <2>2, <1>0, RenameMoves
  <2>5. TypeOK'
    BY <1>0, <1>1, <2>3, <2>4 DEF TypeOK
  <2>6. FilesAreSound' /\ (OneFile => OneFile')
    BY <2>1, <2>2, <1>3, RenameKeepsFiles
  <2>7. ClaimsAreNamed' /\ ClaimsAreAlone' /\ EdgesJoinRows'
    BY <1>0, <1>1, <2>3 DEF IInv, ClaimsAreNamed, ClaimsAreAlone, EdgesJoinRows, Working
  <2>8. MergedMeansCopied'
    <3>1. ASSUME NEW n \in Names, Copied(n)', Is(n)'
          PROVE  Copied(n) /\ Is(n) /\ file'[n] = file[n]
      <4>1. Copied(n) /\ n # c
        BY <3>1, <2>2, <2>3, NamesAre DEF Copied
      <4>2. n # Db
        BY <3>1, <2>4, FilesAre DEF Is
      <4> QED BY <4>1, <4>2, <3>1, <2>4 DEF Is
    <3> QED BY <3>1, <1>0, <1>1, MergedStays
  <2>9. NothingLost'
    <3>1. ASSUME ~movedAway PROVE Waiting \subseteq Waiting'
      BY <3>1, <2>1, <2>2, <1>3, RenameKeepsWaiting DEF IInv
    <3> QED BY <3>1, <1>1, KeptStays DEF IInv
  <2>10. (movedAway \/ OneFile)'
    BY <1>1, <2>6 DEF IInv
  <2> QED BY <2>5, <2>6, <2>7, <2>8, <2>9, <2>10 DEF IInv
<1> QED BY <1>2, <1>3

\* What is copied: the direct rows of the claim, and the edges between rows there are then.
LEMMA CopyBrings ==
  ASSUME TypeOK, NEW p \in Procs, Copy(p), name[p] \in Names
  PROVE  /\ rows' \subseteq Ids /\ relations' \subseteq Edges
         /\ rows \subseteq rows' /\ relations \subseteq relations'
         /\ rows' \ rows \subseteq file[name[p]].rows \cap Direct
         /\ file[name[p]].rows \cap Direct \subseteq rows'
         /\ \A e \in file[name[p]].edges : e[1] \in rows' /\ e[2] \in rows' => e \in relations'
         /\ \A e \in relations' : e \in relations \/ (e[1] \in rows' /\ e[2] \in rows')
<1>1. file[name[p]] \in File /\ rows \subseteq Ids /\ relations \subseteq Edges
  BY DEF TypeOK
<1>2. /\ rows' = rows \cup (file[name[p]].rows \cap Direct)
      /\ relations' = relations \cup {e \in file[name[p]].edges : {e[1], e[2]} \subseteq rows'}
  BY DEF Copy, CopiedRows, CopiedEdges
<1>3. file[name[p]].rows \subseteq Ids /\ file[name[p]].edges \subseteq Edges
  BY <1>1 DEF File
<1> QED BY <1>1, <1>2, <1>3

LEMMA CopyKeepsIInv ==
  ASSUME IInv, NEW p \in Procs, Copy(p)
  PROVE  IInv'
<1>0. TypeOK /\ FilesAreSound /\ ClaimsAreNamed /\ ClaimsAreAlone /\ MergedMeansCopied
  BY DEF IInv
<1>1. /\ UNCHANGED <<file, name, server, held, recorded, late, failures>>
      /\ pc[p] = "copy" /\ pc' = [pc EXCEPT ![p] = "retire"]
  BY DEF Copy, Goto
<1>2. movedAway' = movedAway
  BY DEF Copy
<1>3. name[p] \in Names
  BY <1>0, <1>1, NamesAre DEF ClaimsAreNamed, Working
<1>4. /\ rows' \subseteq Ids /\ relations' \subseteq Edges
      /\ rows \subseteq rows' /\ relations \subseteq relations'
      /\ rows' \ rows \subseteq file[name[p]].rows \cap Direct
      /\ file[name[p]].rows \cap Direct \subseteq rows'
      /\ \A e \in file[name[p]].edges : e[1] \in rows' /\ e[2] \in rows' => e \in relations'
      /\ \A e \in relations' : e \in relations \/ (e[1] \in rows' /\ e[2] \in rows')
  BY <1>0, <1>3, CopyBrings
<1>5. TypeOK'
  <2>1. pc' \in [Procs -> {"start", "restore", "open", "claim", "copy", "retire", "back"}]
    BY <1>0, <1>1 DEF TypeOK
  <2> QED BY <2>1, <1>0, <1>1, <1>2, <1>4 DEF TypeOK
<1>6. FilesAreSound' /\ ClaimsAreNamed' /\ ClaimsAreAlone'
  BY <1>0, <1>1 DEF TypeOK, FilesAreSound, ClaimsAreNamed, ClaimsAreAlone, Working
<1>7. (movedAway \/ OneFile)'
  BY <1>1, <1>2 DEF IInv, OneFile, Is
<1>8. EdgesJoinRows'
  BY <1>4 DEF IInv, EdgesJoinRows
<1>9. MergedMeansCopied'
  <2> SUFFICES ASSUME NEW n \in Names, (Copied(n) /\ Is(n))'
               PROVE  /\ file'[n].rows \cap Direct \subseteq rows' \cup late'
                      /\ \A e \in file'[n].edges :
                           {e[1], e[2]} \subseteq rows' => e \in relations' \/ late' # {}
    BY DEF MergedMeansCopied
  <2>1. CASE n = name[p]
    BY <2>1, <1>1, <1>4
  <2>2. CASE n # name[p]
    <3>1. Copied(n) /\ Is(n)
      BY <2>2, <1>0, <1>1 DEF Copied, Is, TypeOK
    <3>2. /\ file[n].rows \cap Direct \subseteq rows \cup late
          /\ \A e \in file[n].edges : {e[1], e[2]} \subseteq rows => e \in relations \/ late # {}
      BY <3>1, <1>0 DEF MergedMeansCopied
    <3>3. ASSUME NEW e \in file[n].edges, {e[1], e[2]} \subseteq rows'
          PROVE  e \in relations' \/ late' # {}
      <4>1. e[1] \in file[n].rows /\ e[2] \in file[n].rows
        BY <1>0 DEF FilesAreSound
      <4>2. CASE {e[1], e[2]} \subseteq rows
        BY <4>2, <3>2, <1>1, <1>4
      <4>3. CASE ~({e[1], e[2]} \subseteq rows)
        <5>1. \E x \in Direct : x \in file[n].rows /\ x \notin rows
          BY <4>1, <4>3, <3>3, <1>4
        <5> QED BY <5>1, <3>2, <1>1
      <4> QED BY <4>2, <4>3
    <3> QED BY <3>2, <3>3, <1>1, <1>4
  <2> QED BY <2>1, <2>2
<1>10. NothingLost'
  <2>1. Kept => Kept'
    BY <1>1, <1>4 DEF Kept, Waiting
  <2> QED BY <2>1, <1>2 DEF IInv, NothingLost
<1> QED BY <1>5, <1>6, <1>7, <1>8, <1>9, <1>10 DEF IInv

\* A copy from a file that is not there makes an empty one.
LEMMA AttachKeepsIInv ==
  ASSUME IInv, NEW p \in Procs, AttachNothing(p)
  PROVE  IInv'
<1>0. TypeOK /\ FilesAreSound /\ ClaimsAreNamed /\ ClaimsAreAlone /\ MergedMeansCopied
  BY DEF IInv
<1>1. /\ UNCHANGED <<rows, relations, name, server, held, recorded, late, failures>>
      /\ pc[p] = "copy" /\ pc' = [pc EXCEPT ![p] = "back"]
      /\ file[name[p]].kind # "db"
      /\ file' = [file EXCEPT ![name[p]] = Blank]
  BY DEF AttachNothing, shared, Goto
<1>2. movedAway' = TRUE
  BY DEF AttachNothing
<1>3. name[p] \in Claims /\ name[p] \in Names
  BY <1>0, <1>1, NamesAre DEF ClaimsAreNamed, Working
<1>4. /\ file' \in [Names -> File] /\ file'[name[p]] = Blank
      /\ \A n \in Names : n # name[p] => file'[n] = file[n]
  BY <1>0, <1>1, <1>3, FilesAre DEF TypeOK
<1>5. /\ pc' \in [Procs -> {"start", "restore", "open", "claim", "copy", "retire", "back"}]
      /\ \A q \in Procs : q # p => pc'[q] = pc[q]
      /\ pc'[p] = "back"
  BY <1>0, <1>1 DEF TypeOK
<1>6. TypeOK'
  BY <1>0, <1>1, <1>2, <1>4, <1>5 DEF TypeOK
<1>7. FilesAreSound'
  <2>1. ASSUME NEW n \in Names
        PROVE  /\ file'[n].kind # "db" => file'[n].rows = {} /\ file'[n].edges = {}
               /\ \A e \in file'[n].edges : e[1] \in file'[n].rows /\ e[2] \in file'[n].rows
    BY <1>0, <1>4, FilesAre DEF FilesAreSound
  <2>2. ASSUME held' # "" PROVE file'[held'].kind = "db"
    BY <2>2, <1>0, <1>1, <1>4 DEF TypeOK, FilesAreSound
  <2> QED BY <2>1, <2>2 DEF FilesAreSound
<1>8. ClaimsAreNamed' /\ ClaimsAreAlone' /\ EdgesJoinRows'
  BY <1>0, <1>1, <1>3, <1>5 DEF IInv, ClaimsAreNamed, ClaimsAreAlone, EdgesJoinRows, Working
<1>9. MergedMeansCopied'
  <2>1. ASSUME NEW n \in Names, Copied(n)', Is(n)'
        PROVE  Copied(n) /\ Is(n) /\ file'[n] = file[n]
    <3>1. Copied(n)
      BY <2>1, <1>1, <1>5 DEF Copied
    <3>2. n # name[p]
      BY <3>1, <1>0, <1>1, <1>3, NamesAre DEF Copied, ClaimsAreAlone, Working
    <3> QED BY <3>1, <3>2, <2>1, <1>4 DEF Is
  <2> QED BY <2>1, <1>0, <1>1, MergedStays
<1> QED BY <1>2, <1>6, <1>7, <1>8, <1>9 DEF IInv, NothingLost

\* A copied claim is retired.
LEMMA RetireKeepsIInv ==
  ASSUME IInv, NEW p \in Procs, Finish(p), pc[p] = "retire"
  PROVE  IInv'
<1>0. TypeOK /\ FilesAreSound /\ ClaimsAreNamed /\ ClaimsAreAlone /\ MergedMeansCopied
  BY DEF IInv
<1>1. /\ UNCHANGED <<rows, relations, name, server, recorded, late, failures>>
      /\ pc' = [pc EXCEPT ![p] = "start"]
      /\ IF Is(name[p]) THEN Rename(name[p], "merged") ELSE UNCHANGED <<file, held>>
  BY DEF Finish, shared, Goto, Move, Target
<1>2. movedAway' = movedAway
  BY DEF Finish
<1>3. /\ name[p] \in Claims /\ name[p] \in Names /\ name[p] # "merged" /\ "merged" \in Names
      /\ Copied(name[p])
  BY <1>0, NamesAre DEF ClaimsAreNamed, Working, Copied
<1>4. /\ file' \in [Names -> File] /\ held' \in Names \cup {""}
      /\ \A n \in Names : n # "merged" => file'[n] = file[n] \/ (file'[n] = NoFile /\ n = name[p])
      /\ file'["merged"] = file["merged"] \/ (file'["merged"] = file[name[p]] /\ Is(name[p]))
  <2>1. CASE Is(name[p])
    <3>1. Rename(name[p], "merged")
      BY <2>1, <1>1
    <3>2. /\ file' \in [Names -> File] /\ held' \in Names \cup {""}
          /\ file'[name[p]] = NoFile /\ file'["merged"] = file[name[p]]
          /\ \A n \in Names : n # name[p] /\ n # "merged" => file'[n] = file[n]
      BY <3>1, <1>0, <1>3, RenameMoves
    <3> QED BY <3>2, <2>1
  <2>2. CASE ~Is(name[p])
    BY <2>2, <1>0, <1>1 DEF TypeOK
  <2> QED BY <2>1, <2>2
<1>5. /\ pc' \in [Procs -> {"start", "restore", "open", "claim", "copy", "retire", "back"}]
      /\ \A q \in Procs : pc'[q] \in Working \cup {"restore"} => pc'[q] = pc[q]
  BY <1>0, <1>1 DEF TypeOK, Working
<1>6. TypeOK'
  BY <1>0, <1>1, <1>2, <1>4, <1>5 DEF TypeOK
<1>7. FilesAreSound' /\ (OneFile => OneFile')
  <2>1. CASE Is(name[p])
    BY <2>1, <1>1, <1>3, RenameKeepsFiles
  <2>2. CASE ~Is(name[p])
    BY <2>2, <1>0, <1>1 DEF FilesAreSound, OneFile, Is
  <2> QED BY <2>1, <2>2
<1>8. ClaimsAreNamed' /\ ClaimsAreAlone' /\ EdgesJoinRows'
  BY <1>0, <1>1, <1>5 DEF IInv, ClaimsAreNamed, ClaimsAreAlone, EdgesJoinRows, Working
<1>9. MergedMeansCopied'
  <2> SUFFICES ASSUME NEW n \in Names, (Copied(n) /\ Is(n))'
               PROVE  /\ file'[n].rows \cap Direct \subseteq rows \cup late
                      /\ \A e \in file'[n].edges :
                           {e[1], e[2]} \subseteq rows => e \in relations \/ late # {}
    BY <1>1 DEF MergedMeansCopied
  <2>1. PICK m \in Names : Copied(m) /\ Is(m) /\ file'[n] = file[m]
    <3>1. Copied(n)
      BY <1>1, <1>5 DEF Copied, Working
    <3> QED BY <3>1, <1>3, <1>4, FilesAre DEF Is
  <2> QED BY <2>1, <1>0 DEF MergedMeansCopied
<1>10. NothingLost'
  <2>1. ASSUME NEW id \in recorded \ late, id \in Waiting PROVE id \in rows \cup Waiting'
    <3>1. PICK n \in {Db} \cup Claims : id \in file[n].rows
      BY <2>1 DEF Waiting
    <3>2. n \in Names /\ n # "merged"
      BY NamesAre
    <3>3. CASE file'[n] = file[n]
      BY <3>1, <3>3 DEF Waiting
    <3>4. CASE n = name[p]
      <4>1. file[n].kind = "db"
        BY <3>1, <3>2, <1>0 DEF FilesAreSound
      <4>2. file[n].rows \cap Direct \subseteq rows \cup late
        BY <4>1, <3>2, <3>4, <1>0, <1>3 DEF MergedMeansCopied, Is
      <4> QED BY <4>2, <3>1, <2>1, <1>0 DEF TypeOK
    <3> QED BY <3>2, <3>3, <3>4, <1>4
  <2>2. Kept => Kept'
    BY <2>1, <1>1 DEF Kept
  <2> QED BY <2>2, <1>2 DEF IInv, NothingLost
<1>11. (movedAway \/ OneFile)'
  BY <1>2, <1>7 DEF IInv
<1> QED BY <1>6, <1>7, <1>8, <1>9, <1>10, <1>11 DEF IInv

\* The old server commits a row: into a file that waits, or too late.
LEMMA CommitKeepsIInv ==
  ASSUME IInv, ServerCommits
  PROVE  IInv'
<1>0. TypeOK /\ FilesAreSound /\ ClaimsAreNamed /\ ClaimsAreAlone /\ MergedMeansCopied
  BY DEF IInv
<1>1. /\ UNCHANGED <<rows, relations, pc, name, held, failures>> /\ server' = "idle"
  BY DEF ServerCommits, shared
<1>2. movedAway' = movedAway
  BY DEF ServerCommits
<1>3. PICK id \in Direct \ recorded :
        /\ recorded' = recorded \cup {id}
        /\ late' = late \cup {i \in {id} : held = "" \/ Copied(held)}
        /\ \/ held = "" /\ UNCHANGED file
           \/ held # "" /\ \E es \in SUBSET Edges, a \in {file[held].aged, FALSE} :
                /\ \A e \in es : {e[1], e[2]} \subseteq file[held].rows \cup {id}
                /\ file' = [file EXCEPT ![held].rows = @ \cup {id}, ![held].edges = @ \cup es,
                                        ![held].aged = a]
  BY DEF ServerCommits
<1>4. /\ late \subseteq late' /\ late' \subseteq recorded' /\ recorded' \subseteq Direct
      /\ held = "" \/ Copied(held) => id \in late'
  BY <1>0, <1>3 DEF TypeOK
<1>5. /\ file' \in [Names -> File]
      /\ \A n \in Names : n # held => file'[n] = file[n]
      /\ held # "" => /\ file'[held].kind = "db" /\ file[held].kind = "db"
                      /\ file'[held].rows = file[held].rows \cup {id}
                      /\ \A e \in file'[held].edges :
                           e \in file[held].edges
                             \/ (e[1] \in file'[held].rows /\ e[2] \in file'[held].rows)
  <2>1. CASE held = ""
    BY <2>1, <1>0, <1>3 DEF TypeOK
  <2>2. CASE held # ""
    <3>1. PICK es \in SUBSET Edges, a \in {file[held].aged, FALSE} :
                /\ \A e \in es : {e[1], e[2]} \subseteq file[held].rows \cup {id}
                /\ file' = [file EXCEPT ![held].rows = @ \cup {id}, ![held].edges = @ \cup es,
                                        ![held].aged = a]
      BY <2>2, <1>3
    <3>2. held \in Names /\ file \in [Names -> File] /\ file[held] \in File
          /\ file[held].kind = "db" /\ id \in Ids
      BY <2>2, <1>0, DirectAssumption DEF TypeOK, FilesAreSound
    <3>3. file' = [file EXCEPT ![held] = [file[held] EXCEPT !.rows = @ \cup {id},
                                             !.edges = @ \cup es, !.aged = a]]
      BY <3>1, <3>2 DEF File
    <3>4. [file[held] EXCEPT !.rows = @ \cup {id}, !.edges = @ \cup es, !.aged = a] \in File
      BY <3>1, <3>2 DEF File
    <3>5. /\ file'[held].kind = "db"
          /\ file'[held].rows = file[held].rows \cup {id}
          /\ file'[held].edges = file[held].edges \cup es
      BY <3>2, <3>3 DEF File
    <3>6. \A n \in Names : n # held => file'[n] = file[n]
      BY <3>2, <3>3
    <3>7. file' \in [Names -> File]
      BY <3>2, <3>3, <3>4
    <3> QED BY <3>1, <3>2, <3>5, <3>6, <3>7
  <2> QED BY <2>1, <2>2
<1>6. TypeOK'
  BY <1>0, <1>1, <1>2, <1>4, <1>5 DEF TypeOK
<1>7. FilesAreSound'
  <2>1. ASSUME NEW n \in Names
        PROVE  /\ file'[n].kind # "db" => file'[n].rows = {} /\ file'[n].edges = {}
               /\ \A e \in file'[n].edges : e[1] \in file'[n].rows /\ e[2] \in file'[n].rows
    <3>1. CASE n # held
      BY <3>1, <1>0, <1>5 DEF FilesAreSound
    <3>2. CASE n = held
      <4>1. held # ""
        BY <3>2, NamesAre
      <4> QED BY <3>2, <4>1, <1>0, <1>5 DEF FilesAreSound
    <3> QED BY <3>1, <3>2
  <2>2. held' # "" => file'[held'].kind = "db"
    BY <1>1, <1>5
  <2> QED BY <2>1, <2>2 DEF FilesAreSound
<1>8. ClaimsAreNamed' /\ ClaimsAreAlone' /\ EdgesJoinRows'
  BY <1>0, <1>1 DEF IInv, ClaimsAreNamed, ClaimsAreAlone, EdgesJoinRows, Working
<1>9. \A n \in Names : Is(n)' => Is(n)
  BY <1>5, NamesAre DEF Is
<1>10. (movedAway \/ OneFile)'
  BY <1>2, <1>9 DEF IInv, OneFile
<1>11. MergedMeansCopied'
  <2>1. CASE held # "" /\ ~Copied(held)
    <3>1. ASSUME NEW n \in Names, Copied(n)', Is(n)'
          PROVE  Copied(n) /\ Is(n) /\ file'[n] = file[n]
      <4>1. Copied(n)
        BY <3>1, <1>1 DEF Copied
      <4> QED BY <4>1, <3>1, <2>1, <1>5, <1>9
    <3> QED BY <3>1, <1>0, <1>1, <1>4, MergedStays
  <2>2. CASE ~(held # "" /\ ~Copied(held))
    <3>1. late' # {}
      BY <2>2, <1>4
    <3>2. ASSUME NEW n \in Names, Copied(n)', Is(n)'
          PROVE  file'[n].rows \cap Direct \subseteq rows \cup late'
      <4>1. file[n].rows \cap Direct \subseteq rows \cup late
        BY <3>2, <1>0, <1>1, <1>9 DEF MergedMeansCopied, Copied
      <4>2. file'[n].rows \subseteq file[n].rows \cup {id}
        BY <1>5, NamesAre
      <4> QED BY <4>1, <4>2, <2>2, <1>4
    <3> QED BY <3>1, <3>2, <1>1 DEF MergedMeansCopied
  <2> QED BY <2>1, <2>2
<1>12. NothingLost'
  <2>1. Waiting \subseteq Waiting'
    <3>1. \A n \in {Db} \cup Claims : file[n].rows \subseteq file'[n].rows
      BY <1>5, NamesAre
    <3> QED BY <3>1 DEF Waiting
  <2>2. id \in late' \/ id \in Waiting'
    <3>1. CASE held \in {Db} \cup Claims
      BY <3>1, <1>5, NamesAre DEF Waiting
    <3>2. CASE held \notin {Db} \cup Claims
      BY <3>2, <1>0, <1>4, NamesAre DEF TypeOK, Copied, Db
    <3> QED BY <3>1, <3>2
  <2>3. Kept => Kept'
    BY <2>1, <2>2, <1>1, <1>3, <1>4 DEF Kept
  <2> QED BY <2>3, <1>2 DEF IInv, NothingLost
<1> QED BY <1>6, <1>7, <1>8, <1>10, <1>11, <1>12 DEF IInv

\* The server begins or leaves; time passes.
LEMMA OthersKeepIInv ==
  ASSUME IInv, ServerBegins \/ ServerLeaves \/ AMinute
  PROVE  IInv'
<1>0. TypeOK /\ FilesAreSound /\ ClaimsAreNamed /\ ClaimsAreAlone /\ MergedMeansCopied
  BY DEF IInv
<1>1. UNCHANGED <<rows, relations, pc, name, recorded, late, failures>>
  BY DEF ServerBegins, ServerLeaves, AMinute, shared
<1>2. movedAway' = movedAway
  BY DEF ServerBegins, ServerLeaves, AMinute
<1>3. /\ server' \in {"gone", "idle", "writing"}
      /\ held' = held \/ held' = ""
  BY <1>0 DEF TypeOK, ServerBegins, ServerLeaves, AMinute
<1>4. /\ file' \in [Names -> File]
      /\ \A n \in Names : /\ file'[n].kind = file[n].kind
                          /\ file'[n].rows = file[n].rows
                          /\ file'[n].edges = file[n].edges
  <2>1. CASE AMinute
    <3>1. file' = [n \in Names |-> [file[n] EXCEPT !.aged = file[n].kind # "none"]]
      BY <2>1 DEF AMinute
    <3>2. ASSUME NEW n \in Names
          PROVE  /\ [file[n] EXCEPT !.aged = file[n].kind # "none"] \in File
                 /\ file'[n].kind = file[n].kind
                 /\ file'[n].rows = file[n].rows
                 /\ file'[n].edges = file[n].edges
      <4>1. file[n] \in File
        BY <1>0 DEF TypeOK
      <4>2. PICK a \in BOOLEAN : a = (file[n].kind # "none")
        OBVIOUS
      <4> QED BY <3>1, <4>1, <4>2 DEF File
    <3> QED BY <3>1, <3>2
  <2>2. CASE ServerBegins \/ ServerLeaves
    BY <2>2, <1>0 DEF TypeOK, ServerBegins, ServerLeaves
  <2> QED BY <2>1, <2>2
<1>5. TypeOK'
  BY <1>0, <1>1, <1>2, <1>3, <1>4 DEF TypeOK
<1>6. FilesAreSound'
  BY <1>0, <1>3, <1>4 DEF TypeOK, FilesAreSound
<1>7. ClaimsAreNamed' /\ ClaimsAreAlone' /\ EdgesJoinRows'
  BY <1>0, <1>1 DEF IInv, ClaimsAreNamed, ClaimsAreAlone, EdgesJoinRows
<1>8. (movedAway \/ OneFile)'
  BY <1>2, <1>4 DEF IInv, OneFile, Is
<1>9. MergedMeansCopied'
  <2>1. \A n \in Names : (Copied(n) /\ Is(n))' => Copied(n) /\ Is(n)
    BY <1>1, <1>4 DEF Copied, Is
  <2> QED BY <2>1, <1>0, <1>1, <1>4, MergedStays
<1>10. NothingLost'
  <2>1. Waiting \subseteq Waiting'
    <3>1. \A n \in {Db} \cup Claims : file'[n].rows = file[n].rows
      BY <1>4, NamesAre
    <3> QED BY <3>1 DEF Waiting
  <2> QED BY <2>1, <1>1, <1>2, KeptStays DEF IInv
<1> QED BY <1>5, <1>6, <1>7, <1>8, <1>9, <1>10 DEF IInv

-----------------------------------------------------------------------------

LEMMA NextKeepsIInv == IInv /\ [Next]_vars => IInv'
<1> SUFFICES ASSUME IInv, [Next]_vars PROVE IInv'
  OBVIOUS
<1>1. ASSUME NEW p \in Procs, Step(p) \/ CopyFails(p) \/ Crash(p) PROVE IInv'
  <2>1. CASE Look(p) \/ CopyFails(p) \/ Crash(p)
    BY <2>1, MovesKeepIInv
  <2>2. CASE Restore(p)
    BY <2>2, BackKeepsIInv
  <2>3. CASE OpenOld(p)
    BY <2>3, OpenOldKeepsIInv
  <2>4. CASE Claim(p)
    BY <2>4, ClaimKeepsIInv
  <2>5. CASE Copy(p)
    BY <2>5, CopyKeepsIInv
  <2>6. CASE AttachNothing(p)
    BY <2>6, AttachKeepsIInv
  <2>7. CASE Finish(p)
    <3>1. pc[p] \in {"retire", "back"}
      BY <2>7 DEF Finish
    <3> QED BY <2>7, <3>1, BackKeepsIInv, RetireKeepsIInv
  <2> QED BY <1>1, <2>1, <2>2, <2>3, <2>4, <2>5, <2>6, <2>7 DEF Step
<1>2. CASE ServerCommits
  BY <1>2, CommitKeepsIInv
<1>3. CASE ServerBegins \/ ServerLeaves \/ AMinute
  BY <1>3, OthersKeepIInv
<1>4. CASE UNCHANGED vars
  <2>1. /\ UNCHANGED <<file, rows, relations, pc, name, server, held, recorded, late, failures>>
    BY <1>4 DEF vars
  <2>2. movedAway' = movedAway
    BY <1>4 DEF vars
  <2>3. TypeOK' /\ FilesAreSound' /\ ClaimsAreNamed' /\ ClaimsAreAlone' /\ EdgesJoinRows'
    BY <2>1, <2>2
       DEF IInv, TypeOK, FilesAreSound, ClaimsAreNamed, ClaimsAreAlone, EdgesJoinRows
  <2>4. (movedAway \/ OneFile)' /\ MergedMeansCopied' /\ NothingLost'
    BY <2>1, <2>2 DEF IInv, OneFile, Is, MergedMeansCopied, Copied, NothingLost, Kept, Waiting
  <2> QED BY <2>3, <2>4 DEF IInv
<1> QED BY <1>1, <1>2, <1>3, <1>4 DEF Next

LEMMA Invariance == Spec => []IInv
BY InitIInv, NextKeepsIInv, PTL DEF Spec

\* Every file, claim and table keeps its type, for any number of processes (merge_legacy_db).
THEOREM TypeCorrect == Spec => []TypeOK
<1>1. IInv => TypeOK
  BY DEF IInv
<1> QED BY <1>1, Invariance, PTL

\* Until a process finds its file gone, no recorded memory is lost: every rename, crash,
\* failed copy and restored claim leaves it in the shared database or in a file that is
\* still to be merged (merge_legacy_db, legacy_worktree_db).
THEOREM NoMemoryIsLost == Spec => []NothingLost
<1>1. IInv => NothingLost
  BY DEF IInv
<1> QED BY <1>1, Invariance, PTL

\* Only what was copied is retired, whatever happens to the files meanwhile
\* (merge_legacy_db, the rename to `.merged`).
THEOREM RetiredIsCopied == Spec => []MergedMeansCopied
<1>1. IInv => MergedMeansCopied
  BY DEF IInv
<1> QED BY <1>1, Invariance, PTL

=============================================================================
