---------------------------- MODULE GitSyncProofs ----------------------------
(* What holds of a shared project for every number of machines, branches,  *)
(* rows, commits and lost imports.                                         *)
EXTENDS GitSync, TLAPS

-----------------------------------------------------------------------------
(* The operations on project files, for every set of rows.                 *)

(* A document, row by row.                                                 *)
LEMMA DocRow ==
    ASSUME NEW d \in Docs, NEW r \in Rows
    PROVE  /\ d[r] \in Row /\ d[r].v \in Nat /\ d[r].up \in Rows \cup {Root}
           /\ d[r].v = 0 => d[r] = Absent
           /\ d[r].v # 0 => d[r].up \in Parents(r)
BY DEF Docs, Row

(* Moving a row to the root leaves its content.                            *)
LEMMA MovedRow ==
    ASSUME NEW row \in Row
    PROVE  /\ [row EXCEPT !.up = Root] \in Row
           /\ [row EXCEPT !.up = Root].v = row.v
           /\ [row EXCEPT !.up = Root].up = Root
BY DEF Row

(* A function whose rows are those of documents is a document.             *)
LEMMA DocOf ==
    ASSUME NEW d, d = [r \in Rows |-> d[r]],
           \A r \in Rows : d[r] = Absent \/ (d[r] \in Row /\ d[r].v # 0 /\ d[r].up \in Parents(r))
    PROVE  d \in Docs
<1>1. Absent \in Row /\ Absent.v = 0
  BY DEF Absent, Row
<1>2. \A r \in Rows : d[r] \in Row
  BY <1>1
<1>3. d \in [Rows -> Row]
  BY <1>2
<1>4. \A r \in Rows : IF d[r].v = 0 THEN d[r] = Absent ELSE d[r].up \in Parents(r)
  BY <1>1
<1> QED
  BY <1>3, <1>4 DEF Docs

(* No rows are a document too, the base of a merge that has none.          *)
LEMMA EmptyIsDoc == EmptyDoc \in Docs /\ \A r \in Rows : EmptyDoc[r].v = 0
BY DocOf DEF EmptyDoc, Absent

(* The row of a row is of another kind, or a folder.                       *)
LEMMA ParentKinds ==
    ASSUME NEW r \in Rows, NEW up \in Parents(r)
    PROVE  /\ r \in Cases => up \in Requests
           /\ r \notin Cases => up \in Folders \cup {Root}
           /\ up \in Requests => r \in Cases
           /\ up \in Folders => r \notin Cases
BY RowKinds DEF Parents, Rows

-----------------------------------------------------------------------------
(* A merge takes each row from one of the sides, and what the repair       *)
(* leaves resolves.                                                        *)
LEMMA RepairResolves ==
    ASSUME NEW d \in Docs
    PROVE  Repair(d) \in Docs /\ Resolved(Repair(d))
<1> DEFINE e == Repair(d)
<1>1. \A r \in Rows : e[r] = IF d[r].v = 0 \/ d[r].up \in Present(d) THEN d[r]
                             ELSE IF r \in Cases THEN Absent
                             ELSE [d[r] EXCEPT !.up = Root]
  BY DEF Repair
<1>2. e = [r \in Rows |-> e[r]]
  BY DEF Repair
<1> HIDE DEF e
<1>3. ASSUME NEW r \in Rows
      PROVE  e[r] = Absent \/ (e[r] \in Row /\ e[r].v = d[r].v /\ d[r].v # 0 /\ e[r].up \in Parents(r))
  <2>1. CASE d[r].v = 0 \/ d[r].up \in Present(d)
    BY <1>1, <2>1, DocRow
  <2>2. CASE ~(d[r].v = 0 \/ d[r].up \in Present(d)) /\ r \in Cases
    BY <1>1, <2>2
  <2>3. CASE ~(d[r].v = 0 \/ d[r].up \in Present(d)) /\ r \notin Cases
    <3>1. e[r] = [d[r] EXCEPT !.up = Root]
      BY <1>1, <2>3
    <3>2. e[r] \in Row /\ e[r].v = d[r].v /\ e[r].up = Root
      BY <3>1, DocRow DEF Row
    <3> QED
      BY <2>3, <3>2 DEF Parents
  <2> QED
    BY <2>1, <2>2, <2>3
<1>4. e \in Docs
  BY <1>2, <1>3, DocOf
<1>5. ASSUME NEW r \in Present(d), r \notin Cases PROVE r \in Present(e)
  <2>1. r \in Rows /\ d[r].v # 0
    BY DEF Present
  <2>2. e[r].v = d[r].v
    BY <1>1, <1>5, <2>1, DocRow DEF Row
  <2> QED
    BY <2>1, <2>2 DEF Present
<1>6. ASSUME NEW r \in Present(e) PROVE e[r].up \in Present(e) \cup {Root}
  <2>1. r \in Rows /\ e[r].v # 0
    BY DEF Present
  <2>2. d[r].v # 0 /\ e[r] # Absent
    BY <1>3, <2>1 DEF Absent
  <2>3. CASE d[r].up \in Present(d)
    <3>1. e[r] = d[r] /\ d[r].up \in Parents(r)
      BY <1>1, <2>1, <2>2, <2>3, DocRow
    <3>2. d[r].up \notin Cases
      BY <2>1, <3>1, ParentKinds, RowKinds DEF Rows
    <3> QED
      BY <1>5, <2>3, <3>1, <3>2
  <2>4. CASE d[r].up \notin Present(d)
    BY <1>1, <2>1, <2>2, <2>4, DocRow DEF Row
  <2> QED
    BY <2>3, <2>4
<1> QED
  BY <1>4, <1>6 DEF Resolved, e

(* mergeProjects(): whatever three files it is given, the merged one       *)
(* resolves, although each row is chosen by itself.                        *)
THEOREM MergeResolves ==
    ASSUME NEW base \in Docs, NEW mine \in Docs, NEW yours \in Docs
    PROVE  MergeDocs(base, mine, yours) \in Docs /\ Resolved(MergeDocs(base, mine, yours))
<1> DEFINE d == [r \in Rows |-> Pick(base, mine, yours, r)]
<1>1. \A r \in Rows : d[r] \in {mine[r], yours[r]}
  BY DEF Pick
<1>2. d = [r \in Rows |-> d[r]]
  OBVIOUS
<1> HIDE DEF d
<1>3. \A r \in Rows : d[r] = Absent \/ (d[r] \in Row /\ d[r].v # 0 /\ d[r].up \in Parents(r))
  BY <1>1, DocRow
<1>4. d \in Docs
  BY <1>2, <1>3, DocOf
<1> QED
  BY <1>4, RepairResolves DEF MergeDocs, d

-----------------------------------------------------------------------------
(* withRequiredChanges() adds what its selection requires, and no change   *)
(* that is not there.                                                      *)
LEMMA SelectionIsClosed ==
    ASSUME NEW only, NEW head, NEW live
    PROVE  /\ WithRequired(only, head, live) \subseteq Changed(head, live)
           /\ \A r \in WithRequired(only, head, live) :
                 Requires(head, live, r) \subseteq WithRequired(only, head, live)
<1> DEFINE Chosen == WithRequired(only, head, live)
           Change == Changed(head, live)
           Closed(S) == \A r \in S : Requires(head, live, r) \subseteq S
<1>1. Chosen = {r \in Change : \A S \in SUBSET Change : (only \cap Change \subseteq S /\ Closed(S)) => r \in S}
  BY DEF WithRequired
<1>2. ASSUME NEW r \in Chosen, NEW t \in Requires(head, live, r) PROVE t \in Chosen
  <2>1. t \in Change
    BY DEF Requires
  <2>2. ASSUME NEW S \in SUBSET Change, only \cap Change \subseteq S, Closed(S) PROVE t \in S
    <3>1. r \in S
      BY <1>1, <2>2
    <3> QED
      BY <2>2, <3>1
  <2> QED
    BY <1>1, <2>1, <2>2
<1> QED
  BY <1>1, <1>2

(* applySelectedChanges(): the file of HEAD with a selection of the        *)
(* changes of the database resolves, whatever was selected.                *)
THEOREM SelectionResolves ==
    ASSUME NEW head \in Docs, NEW live \in Docs, Resolved(head), Resolved(live), NEW only
    PROVE  LET file == Apply(head, live, WithRequired(only, head, live))
           IN  file \in Docs /\ Resolved(file)
<1> DEFINE chosen == WithRequired(only, head, live)
           file == Apply(head, live, chosen)
<1>1. /\ chosen \subseteq Changed(head, live)
      /\ \A r \in chosen : Requires(head, live, r) \subseteq chosen
  BY SelectionIsClosed
<1> HIDE DEF chosen
<1>2. /\ \A r \in Rows : file[r] = IF r \in chosen THEN live[r] ELSE head[r]
      /\ file = [r \in Rows |-> file[r]]
  BY DEF Apply
<1> HIDE DEF file
<1>3. \A r \in Rows : file[r] = Absent \/ (file[r] \in Row /\ file[r].v # 0 /\ file[r].up \in Parents(r))
  BY <1>2, DocRow
<1>4. file \in Docs
  BY <1>2, <1>3, DocOf
<1>5. ASSUME NEW r \in Present(file), file[r].up # Root PROVE file[r].up \in Present(file)
  <2> DEFINE t == file[r].up
  <2>1. r \in Rows /\ file[r].v # 0
    BY DEF Present
  <2>2. CASE r \in chosen
    <3>1. file[r] = live[r] /\ t \in Present(live) /\ t \in Rows
      BY <1>2, <1>5, <2>1, <2>2 DEF Resolved, Present
    <3>2. CASE t \in chosen
      BY <1>2, <3>1, <3>2 DEF Present
    <3>3. CASE t \notin chosen /\ head[t].v # 0
      BY <1>2, <3>1, <3>3 DEF Present
    <3>4. CASE t \notin chosen /\ head[t].v = 0
      <4>1. t \in Changed(head, live)
        BY <3>1, <3>4 DEF Changed, Present
      <4>2. t \in Requires(head, live, r)
        BY <2>1, <3>1, <3>4, <4>1 DEF Requires
      <4> QED
        BY <1>1, <2>2, <3>4, <4>2
    <3> QED
      BY <3>2, <3>3, <3>4
  <2>3. CASE r \notin chosen
    <3>1. file[r] = head[r] /\ t \in Present(head) /\ t \in Rows
      BY <1>2, <1>5, <2>1, <2>3 DEF Resolved, Present
    <3>2. CASE t \notin chosen
      BY <1>2, <3>1, <3>2 DEF Present
    <3>3. CASE t \in chosen /\ live[t].v # 0
      BY <1>2, <3>1, <3>3 DEF Present
    <3>4. CASE t \in chosen /\ live[t].v = 0
      <4>1. r \notin Changed(head, live)
        <5>1. r \in Changed(head, live) => r \in Requires(head, live, t)
          BY <3>1, <3>4 DEF Requires, Present
        <5> QED
          BY <1>1, <2>3, <3>4, <5>1
      <4>2. live[r] = head[r]
        BY <2>1, <4>1 DEF Changed
      <4>3. t \in Present(live)
        BY <1>5, <2>1, <3>1, <4>2 DEF Resolved, Present
      <4> QED
        BY <3>4, <4>3 DEF Present
    <3> QED
      BY <3>2, <3>3, <3>4
  <2> QED
    BY <2>2, <2>3
<1>6. Resolved(file)
  BY <1>5 DEF Resolved
<1> QED
  BY <1>4, <1>6 DEF file, chosen

(* A selection of no change is HEAD's file.                                *)
LEMMA NothingToSelect ==
    ASSUME NEW head \in Docs, NEW only
    PROVE  Apply(head, head, WithRequired(only, head, head)) = head
<1>1. head = [r \in Rows |-> head[r]]
  BY DEF Docs
<1> QED
  BY <1>1 DEF Apply

-----------------------------------------------------------------------------
(* The cascade takes the folders it is given, and only folders.            *)
LEMMA BelowFolders ==
    ASSUME NEW d, NEW leaving
    PROVE  Below(d, leaving) \subseteq Folders /\ leaving \cap Folders \subseteq Below(d, leaving)
BY DEF Below

(* A database from which rows were deleted resolves, as the keys of the    *)
(* tables demand.                                                          *)
LEMMA DropResolves ==
    ASSUME NEW d \in Docs, Resolved(d), NEW leaving
    PROVE  Drop(d, leaving) \in Docs /\ Resolved(Drop(d, leaving))
<1> DEFINE folders == Below(d, leaving)
           requests == leaving \cap Requests
           e == Drop(d, leaving)
<1>1. folders \subseteq Folders /\ leaving \cap Folders \subseteq folders
  BY BelowFolders
<1>2. \A r \in Rows : e[r] = IF r \in leaving \cup folders \/ d[r].up \in requests THEN Absent
                             ELSE IF d[r].v # 0 /\ d[r].up \in folders THEN [d[r] EXCEPT !.up = Root]
                             ELSE d[r]
  BY DEF Drop
<1>3. e = [r \in Rows |-> e[r]]
  BY DEF Drop
<1> HIDE DEF e, folders
<1>4. ASSUME NEW r \in Rows
      PROVE  e[r] = Absent \/ (e[r] \in Row /\ e[r].v = d[r].v /\ d[r].v # 0 /\ e[r].up \in Parents(r))
  <2>1. CASE r \in leaving \cup folders \/ d[r].up \in requests
    BY <1>2, <2>1
  <2>2. CASE ~(r \in leaving \cup folders \/ d[r].up \in requests) /\ ~(d[r].v # 0 /\ d[r].up \in folders)
    BY <1>2, <2>2, DocRow
  <2>3. CASE ~(r \in leaving \cup folders \/ d[r].up \in requests) /\ d[r].v # 0 /\ d[r].up \in folders
    <3>1. e[r] = [d[r] EXCEPT !.up = Root]
      BY <1>2, <2>3
    <3>2. e[r] \in Row /\ e[r].v = d[r].v /\ e[r].up = Root
      BY <3>1, DocRow DEF Row
    <3>3. r \notin Cases
      BY <1>1, <2>3, DocRow, ParentKinds
    <3> QED
      BY <2>3, <3>2, <3>3 DEF Parents
  <2> QED
    BY <2>1, <2>2, <2>3
<1>5. e \in Docs
  BY <1>3, <1>4, DocOf
<1>6. ASSUME NEW r \in Present(e), e[r].up # Root PROVE e[r].up \in Present(e)
  <2>1. r \in Rows /\ e[r].v # 0
    BY DEF Present
  <2>2. r \notin leaving \cup folders /\ d[r].up \notin requests
    <3>1. ASSUME r \in leaving \cup folders \/ d[r].up \in requests PROVE FALSE
      <4>1. e[r] = Absent
        BY <1>2, <2>1, <3>1
      <4> QED
        BY <2>1, <4>1 DEF Absent
    <3> QED
      BY <3>1
  <2>3. d[r].up \notin folders /\ e[r] = d[r] /\ d[r].v # 0
    <3>1. d[r].v # 0
      BY <1>4, <2>1 DEF Absent
    <3>2. ASSUME d[r].up \in folders PROVE FALSE
      <4>1. e[r] = [d[r] EXCEPT !.up = Root]
        BY <1>2, <2>1, <2>2, <3>1, <3>2
      <4> QED
        BY <1>6, <2>1, <4>1, DocRow DEF Row
    <3> QED
      BY <1>2, <2>1, <2>2, <3>1, <3>2
  <2> DEFINE t == d[r].up
  <2>4. t \in Present(d) /\ t \in Rows /\ t \in Parents(r) /\ d[t].v # 0
    BY <1>6, <2>1, <2>3, DocRow DEF Resolved, Present
  <2>5. t \in Folders \cup Requests /\ t \notin Cases
    BY <2>1, <2>4, ParentKinds, RowKinds DEF Rows
  <2>6. t \notin leaving \cup folders
    BY <1>1, <2>2, <2>3, <2>5
  <2>7. d[t].up \notin requests
    BY <2>4, <2>5, DocRow, ParentKinds
  <2>8. e[t].v = d[t].v
    <3>1. e[t] = [d[t] EXCEPT !.up = Root] \/ e[t] = d[t]
      BY <1>2, <2>4, <2>6, <2>7
    <3>2. d[t] \in Row
      BY <2>4, DocRow
    <3>3. [d[t] EXCEPT !.up = Root].v = d[t].v
      BY <3>2, Zenon, MovedRow
    <3> QED
      BY <3>1, <3>3, Zenon
  <2> QED
    BY <2>3, <2>4, <2>8 DEF Present
<1>7. Resolved(e)
  BY <1>6 DEF Resolved
<1> QED
  BY <1>5, <1>7 DEF e

(* The upsert of an import resolves: a row of the file comes with the row  *)
(* it belongs to, and no row goes.                                         *)
LEMMA UpsertResolves ==
    ASSUME NEW held \in Docs, NEW file \in Docs, Resolved(held), Resolved(file)
    PROVE  Upsert(held, file) \in Docs /\ Resolved(Upsert(held, file))
<1> DEFINE d == Upsert(held, file)
<1>1. /\ \A r \in Rows : d[r] = IF file[r].v # 0 THEN file[r] ELSE held[r]
      /\ d = [r \in Rows |-> d[r]]
  BY DEF Upsert
<1> HIDE DEF d
<1>2. \A r \in Rows : d[r] = Absent \/ (d[r] \in Row /\ d[r].v # 0 /\ d[r].up \in Parents(r))
  BY <1>1, DocRow
<1>3. d \in Docs
  BY <1>1, <1>2, DocOf
<1>4. Present(file) \subseteq Present(d) /\ Present(held) \subseteq Present(d)
  BY <1>1 DEF Present
<1>5. \A r \in Present(d) : d[r].up \in Present(d) \cup {Root}
  BY <1>1, <1>4 DEF Resolved, Present
<1> QED
  BY <1>3, <1>5 DEF Resolved, d

(* reimportProjectFromDir() leaves a database that resolves, whether it    *)
(* replaces the project or merges the file in.                             *)
THEOREM ImportResolves ==
    ASSUME NEW held \in Docs, NEW file \in Docs, NEW base, Resolved(held), Resolved(file)
    PROVE  /\ Replace(held, file) \in Docs /\ Resolved(Replace(held, file))
           /\ MergeIn(held, file, base) \in Docs /\ Resolved(MergeIn(held, file, base))
BY UpsertResolves, DropResolves DEF Replace, MergeIn

(* A deletion that takes no row of a file leaves the rows of the file as   *)
(* they are.                                                               *)
LEMMA DropSparesFile ==
    ASSUME NEW d, NEW file, Resolved(file), NEW leaving,
           \A r \in Present(file) : d[r] = file[r] /\ r \notin leaving
    PROVE  \A r \in Present(file) : Drop(d, leaving)[r] = file[r]
<1> DEFINE folders == Below(d, leaving)
           requests == leaving \cap Requests
           other == Folders \ Present(file)
<1>1. ASSUME NEW g \in Folders, d[g].v # 0, d[g].up \in other PROVE g \in other
  <2>1. ASSUME g \in Present(file) PROVE FALSE
    <3>1. file[g].up \in Present(file) \cup {Root}
      BY <2>1 DEF Resolved
    <3>2. d[g].up = file[g].up
      BY <2>1
    <3> QED
      BY <1>1, <3>1, <3>2, RowKinds DEF Rows
  <2> QED
    BY <2>1
<1>2. leaving \cap Folders \subseteq other
  OBVIOUS
<1>3. folders \subseteq other
  BY <1>1, <1>2 DEF Below
<1> SUFFICES ASSUME NEW r \in Present(file) PROVE Drop(d, leaving)[r] = file[r]
  OBVIOUS
<1>4. r \in Rows /\ d[r] = file[r] /\ r \notin leaving \cup folders
  BY <1>3 DEF Present
<1>5. file[r].up \in Present(file) \cup {Root}
  BY DEF Resolved
<1>6. file[r].up \notin requests /\ file[r].up \notin folders
  BY <1>3, <1>5, RowKinds DEF Rows
<1> HIDE DEF folders
<1> QED
  BY <1>4, <1>6 DEF Drop, folders

(* What an import leaves when it removes every row but the file's, and no  *)
(* row of the file.                                                        *)
LEMMA DropLeavesFile ==
    ASSUME NEW d, NEW file \in Docs, Resolved(file), NEW leaving,
           \A r \in Present(file) : d[r] = file[r] /\ r \notin leaving,
           \A r \in Rows \ Present(file) : r \in leaving \/ d[r] = Absent
    PROVE  Drop(d, leaving) = file
<1>1. \A r \in Present(file) : Drop(d, leaving)[r] = file[r]
  BY DropSparesFile
<1>2. ASSUME NEW r \in Rows \ Present(file) PROVE Drop(d, leaving)[r] = file[r]
  <2>1. file[r] = Absent
    BY DocRow DEF Present
  <2>2. CASE r \in leaving
    BY <2>1, <2>2 DEF Drop
  <2>3. CASE d[r] = Absent
    BY <2>1, <2>3 DEF Drop, Absent
  <2> QED
    BY <2>2, <2>3
<1>3. /\ Drop(d, leaving) = [r \in Rows |-> Drop(d, leaving)[r]]
      /\ file = [r \in Rows |-> file[r]]
  BY DEF Drop, Docs
<1>4. \A r \in Rows : Drop(d, leaving)[r] = file[r]
  BY <1>1, <1>2
<1> QED
  BY <1>3, <1>4

(* An import with `replace` leaves the file's rows and no other.           *)
THEOREM ReplaceIsExact ==
    ASSUME NEW held \in Docs, NEW file \in Docs, Resolved(file)
    PROVE  Replace(held, file) = file
<1>1. \A r \in Present(file) : Upsert(held, file)[r] = file[r]
  BY DEF Upsert, Present
<1>2. Present(file) \subseteq Rows
  BY DEF Present
<1> QED
  BY <1>1, <1>2, DropLeavesFile DEF Replace

(* An import after a pull, over a database that holds what the file had    *)
(* before, leaves exactly the rows of the file.                            *)
THEOREM MergeInIsExact ==
    ASSUME NEW base \in Docs, NEW file \in Docs, Resolved(file)
    PROVE  MergeIn(base, file, base) = file
<1> DEFINE d == Upsert(base, file)
           leaving == Present(base) \ Present(file)
<1>1. \A r \in Present(file) : d[r] = file[r] /\ r \notin leaving
  BY DEF Upsert, Present
<1>2. \A r \in Rows \ Present(file) : r \in leaving \/ d[r] = Absent
  BY DocRow DEF Upsert, Present
<1> HIDE DEF d, leaving
<1>3. Drop(d, leaving) = file
  BY <1>1, <1>2, DropLeavesFile
<1> QED
  BY <1>3 DEF MergeIn, d, leaving

(* A request that neither the file nor the file before it lists survives   *)
(* the import of a pull, and so does a case whose request does.            *)
THEOREM UnsharedRowsSurvive ==
    ASSUME NEW held \in Docs, NEW file, NEW base,
           NEW r \in Present(held) \ Folders, file[r].v = 0, base[r].v = 0
    PROVE  \/ MergeIn(held, file, base)[r].v = held[r].v
           \/ r \in Cases /\ MergeIn(held, file, base)[held[r].up].v = 0
<1> DEFINE d == Upsert(held, file)
           leaving == Present(base) \ Present(file)
           folders == Below(d, leaving)
           e == Drop(d, leaving)
<1>0. r \in Rows /\ held[r].v # 0
  BY DEF Present
<1>1. d[r] = held[r] /\ r \notin leaving
  BY <1>0 DEF Upsert, Present
<1>2. r \notin folders
  BY BelowFolders
<1>3. \A x \in Rows : e[x] = IF x \in leaving \cup folders \/ d[x].up \in leaving \cap Requests THEN Absent
                             ELSE IF d[x].v # 0 /\ d[x].up \in folders THEN [d[x] EXCEPT !.up = Root]
                             ELSE d[x]
  BY DEF Drop
<1>4. e = MergeIn(held, file, base)
  BY DEF MergeIn
<1> HIDE DEF d, leaving, folders, e
<1>5. CASE held[r].up \in leaving \cap Requests
  <2>1. r \in Cases
    BY <1>0, <1>5, DocRow, ParentKinds
  <2>2. held[r].up \in Rows
    BY <1>5 DEF Rows
  <2>3. e[held[r].up] = Absent
    BY <1>3, <1>5, <2>2
  <2> QED
    BY <1>4, <2>1, <2>3 DEF Absent
<1>6. CASE held[r].up \notin leaving \cap Requests
  <2>1. e[r].v = d[r].v
    <3>1. e[r] = [d[r] EXCEPT !.up = Root] \/ e[r] = d[r]
      BY <1>0, <1>1, <1>2, <1>3, <1>6
    <3>2. d[r] \in Row
      BY <1>0, <1>1, DocRow
    <3>3. [d[r] EXCEPT !.up = Root].v = d[r].v
      BY <3>2, Zenon, MovedRow
    <3> QED
      BY <3>1, <3>3, Zenon
  <2> QED
    BY <1>1, <1>4, <2>1
<1> QED
  BY <1>5, <1>6

-----------------------------------------------------------------------------
(* What is kept of an older file, with what users deleted as a parameter.  *)
DeletedBy(G, r, since) == \E g \in G : g[1] = r /\ g[2] >= since

KeptBy(G, r, old, new) ==
    \/ new.v # 0 /\ (r \in Requests => new.v >= old.v)
    \/ DeletedBy(G, r, IF r \in Requests THEN old.v ELSE 0)
    \/ r \in Cases /\ DeletedBy(G, old.up, 0)

Keeps(G, old, new) == \A r \in Present(old) : KeptBy(G, r, old[r], new[r])

(* A case is one request's in both documents.                              *)
Agree(d, e) == \A q \in Cases : d[q].v # 0 /\ e[q].v # 0 => d[q].up = e[q].up

LEMMA KeepsItself ==
    ASSUME NEW G, NEW d \in Docs
    PROVE  Keeps(G, d, d)
BY DocRow DEF Keeps, KeptBy, Present

(* A row that is kept although it is not there is kept by what users       *)
(* deleted, whatever comes to be there.                                    *)
LEMMA KeptAbsent ==
    ASSUME NEW G, NEW r, NEW old, NEW new, NEW other, KeptBy(G, r, old, new), new.v = 0
    PROVE  KeptBy(G, r, old, other)
BY DEF KeptBy

LEMMA KeptOn ==
    ASSUME NEW G, NEW H, G \subseteq H, NEW r, NEW old, NEW new, KeptBy(G, r, old, new)
    PROVE  KeptBy(H, r, old, new)
BY DEF KeptBy, DeletedBy

LEMMA KeepsOn ==
    ASSUME NEW G, NEW H, G \subseteq H, NEW old, NEW new, Keeps(G, old, new)
    PROVE  Keeps(H, old, new)
BY KeptOn DEF Keeps

(* What is kept is kept on from one step to the next, but for a case that  *)
(* moved: its request would be another one.                                *)
LEMMA KeptThrough ==
    ASSUME NEW G, NEW r, NEW a \in Row, NEW b \in Row, NEW c \in Row, G \subseteq Rows \X Nat,
           KeptBy(G, r, a, b), KeptBy(G, r, b, c), r \in Cases /\ b.v # 0 => a.up = b.up
    PROVE  KeptBy(G, r, a, c)
<1>0. a.v \in Nat /\ b.v \in Nat /\ c.v \in Nat
  BY DEF Row
<1>1. CASE b.v = 0
  BY <1>1, KeptAbsent
<1>2. CASE b.v # 0 /\ ~(r \in Requests => b.v >= a.v)
  BY <1>2 DEF KeptBy
<1>3. CASE b.v # 0 /\ (r \in Requests => b.v >= a.v)
  <2>1. CASE c.v # 0 /\ (r \in Requests => c.v >= b.v)
    BY <1>0, <1>3, <2>1 DEF KeptBy
  <2>2. CASE DeletedBy(G, r, IF r \in Requests THEN b.v ELSE 0)
    <3>1. PICK g \in G : g[1] = r /\ g[2] >= IF r \in Requests THEN b.v ELSE 0
      BY <2>2 DEF DeletedBy
    <3>2. g[2] \in Nat
      OBVIOUS
    <3>3. g[2] >= IF r \in Requests THEN a.v ELSE 0
      BY <1>0, <1>3, <3>1, <3>2
    <3> QED
      BY <3>1, <3>3 DEF KeptBy, DeletedBy
  <2>3. CASE r \in Cases /\ DeletedBy(G, b.up, 0)
    BY <1>3, <2>3 DEF KeptBy
  <2> QED
    BY <2>1, <2>2, <2>3 DEF KeptBy
<1> QED
  BY <1>1, <1>2, <1>3

(* mergeProjects(): what both sides keep of the base, and one side of an   *)
(* older file, the merge keeps of that file.                               *)
LEMMA PickKeeps ==
    ASSUME NEW G, G \subseteq Rows \X Nat,
           NEW old \in Docs, NEW base \in Docs, NEW mine \in Docs, NEW yours \in Docs,
           Keeps(G, base, mine), Keeps(G, base, yours),
           Keeps(G, old, mine) \/ Keeps(G, old, yours),
           Agree(old, base), NEW r \in Present(old)
    PROVE  KeptBy(G, r, old[r], Pick(base, mine, yours, r))
<1> DEFINE row == Pick(base, mine, yours, r)
<1>0. /\ r \in Rows /\ old[r] \in Row /\ base[r] \in Row /\ mine[r] \in Row /\ yours[r] \in Row
      /\ mine[r].v \in Nat /\ yours[r].v \in Nat /\ Absent.v = 0
  BY DocRow DEF Present, Absent
<1>1. KeptBy(G, r, old[r], base[r]) /\ base[r].v # 0 /\ row \in {mine[r], yours[r]}
          => KeptBy(G, r, old[r], row)
  <2> SUFFICES ASSUME KeptBy(G, r, old[r], base[r]), base[r].v # 0, row \in {mine[r], yours[r]}
               PROVE  KeptBy(G, r, old[r], row)
    OBVIOUS
  <2>1. KeptBy(G, r, base[r], row)
    BY <1>0 DEF Keeps, Present
  <2>2. r \in Cases => old[r].up = base[r].up
    BY DEF Agree, Present
  <2> HIDE DEF row
  <2> QED
    BY <1>0, <2>1, <2>2, KeptThrough
<1>2. row \in {mine[r], yours[r]}
  BY DEF Pick
<1>3. CASE KeptBy(G, r, old[r], mine[r])
  <2>1. CASE row = mine[r]
    BY <1>3, <2>1
  <2>2. CASE mine[r].v = 0
    BY <1>3, <2>2, KeptAbsent
  <2>3. CASE row # mine[r] /\ mine[r].v # 0 /\ mine[r] = base[r]
    <3>1. KeptBy(G, r, old[r], base[r]) /\ base[r].v # 0
      BY <1>3, <2>3
    <3> QED
      BY <1>1, <1>2, <3>1
  <2>4. CASE row # mine[r] /\ mine[r].v # 0 /\ mine[r] # base[r]
    <3>1. row = yours[r] /\ yours[r] # Absent /\ UpdatedAt(r, yours[r]) > UpdatedAt(r, mine[r])
      BY <1>0, <2>4 DEF Pick
    <3>2. r \in Requests /\ yours[r].v > mine[r].v
      BY <3>1 DEF UpdatedAt
    <3>3. KeptBy(G, r, mine[r], yours[r])
      BY <1>0, <3>2 DEF KeptBy
    <3>4. r \notin Cases
      BY <3>2, RowKinds
    <3>5. KeptBy(G, r, old[r], yours[r])
      BY <1>0, <1>3, <3>3, <3>4, KeptThrough
    <3> QED
      BY <3>1, <3>5
  <2> QED
    BY <2>1, <2>2, <2>3, <2>4
<1>4. CASE KeptBy(G, r, old[r], yours[r])
  <2>1. CASE row = yours[r]
    BY <1>4, <2>1
  <2>2. CASE yours[r].v = 0
    BY <1>4, <2>2, KeptAbsent
  <2>3. CASE row # yours[r] /\ yours[r].v # 0 /\ yours[r] = base[r]
    <3>1. KeptBy(G, r, old[r], base[r]) /\ base[r].v # 0
      BY <1>4, <2>3
    <3> QED
      BY <1>1, <1>2, <3>1
  <2>4. CASE row # yours[r] /\ yours[r].v # 0 /\ yours[r] # base[r]
    <3>1. row = mine[r] /\ mine[r] # Absent /\ ~(UpdatedAt(r, yours[r]) > UpdatedAt(r, mine[r]))
      BY <1>0, <2>4 DEF Pick
    <3>2. mine[r].v # 0
      BY <1>0, <3>1, DocRow
    <3>3. KeptBy(G, r, yours[r], mine[r])
      BY <1>0, <3>1, <3>2 DEF KeptBy, UpdatedAt
    <3>4. CASE r \notin Cases
      <4>1. KeptBy(G, r, old[r], mine[r])
        BY <1>0, <1>4, <3>3, <3>4, KeptThrough
      <4> QED
        BY <3>1, <4>1
    <3>5. CASE r \in Cases
      <4>1. r \notin Requests
        BY <3>5, RowKinds
      <4> QED
        BY <3>1, <3>2, <4>1 DEF KeptBy
    <3> QED
      BY <3>4, <3>5
  <2> QED
    BY <2>1, <2>2, <2>3, <2>4
<1> QED
  BY <1>3, <1>4 DEF Keeps

(* A request one of the sides has, and the merge has not, was deleted.     *)
LEMMA PickDeletes ==
    ASSUME NEW G, G \subseteq Rows \X Nat,
           NEW base \in Docs, NEW mine \in Docs, NEW yours \in Docs,
           Keeps(G, base, mine), Keeps(G, base, yours), NEW e \in Requests,
           mine[e].v # 0 \/ yours[e].v # 0, Pick(base, mine, yours, e).v = 0
    PROVE  DeletedBy(G, e, 0)
<1>0. /\ e \in Rows /\ e \notin Cases /\ base[e].v \in Nat /\ Absent.v = 0
      /\ mine[e].v = 0 => mine[e] = Absent
      /\ yours[e].v = 0 => yours[e] = Absent
  BY DocRow, RowKinds DEF Rows, Absent
<1>1. base[e].v # 0 /\ (mine[e].v = 0 \/ yours[e].v = 0)
  <2>1. CASE mine[e].v # 0
    <3>1. yours[e] = Absent /\ mine[e] = base[e]
      BY <1>0, <2>1 DEF Pick
    <3> QED
      BY <1>0, <2>1, <3>1
  <2>2. CASE mine[e].v = 0
    <3>1. yours[e] = base[e] /\ yours[e].v # 0
      BY <1>0, <2>2 DEF Pick
    <3> QED
      BY <2>2, <3>1
  <2> QED
    BY <2>1, <2>2
<1>2. DeletedBy(G, e, base[e].v)
  BY <1>0, <1>1 DEF Keeps, KeptBy, Present
<1>3. PICK g \in G : g[1] = e /\ g[2] >= base[e].v
  BY <1>2 DEF DeletedBy
<1>4. g[2] \in Nat
  OBVIOUS
<1>5. g[2] >= 0
  BY <1>4
<1> QED
  BY <1>3, <1>5 DEF DeletedBy

(* mergeProjects(): what both sides keep of the base, and one side of an   *)
(* older file, the merged file keeps of that file, the repair included.    *)
THEOREM MergeKeeps ==
    ASSUME NEW G, G \subseteq Rows \X Nat,
           NEW old \in Docs, NEW base \in Docs, NEW mine \in Docs, NEW yours \in Docs,
           Resolved(mine), Resolved(yours),
           Keeps(G, base, mine), Keeps(G, base, yours),
           Keeps(G, old, mine) \/ Keeps(G, old, yours),
           Agree(old, base), Agree(old, mine), Agree(old, yours)
    PROVE  Keeps(G, old, MergeDocs(base, mine, yours))
<1> DEFINE d == [r \in Rows |-> Pick(base, mine, yours, r)]
           file == MergeDocs(base, mine, yours)
<1>1. \A r \in Rows : /\ d[r] = Pick(base, mine, yours, r)
                      /\ d[r] \in {mine[r], yours[r]}
                      /\ d[r] \in Row
  BY DocRow DEF Pick
<1>2. \A r \in Rows : file[r] = IF d[r].v = 0 \/ d[r].up \in Present(d) THEN d[r]
                                ELSE IF r \in Cases THEN Absent
                                ELSE [d[r] EXCEPT !.up = Root]
  BY DEF MergeDocs, Repair
<1> HIDE DEF d, file
<1>3. ASSUME NEW r \in Present(old) PROVE KeptBy(G, r, old[r], file[r])
  <2>0. r \in Rows /\ old[r].v # 0
    BY DEF Present
  <2>1. KeptBy(G, r, old[r], d[r])
    BY <1>1, <2>0, PickKeeps
  <2>2. CASE d[r].v = 0 \/ d[r].up \in Present(d)
    BY <1>2, <2>0, <2>1, <2>2
  <2>3. CASE ~(d[r].v = 0 \/ d[r].up \in Present(d)) /\ r \notin Cases
    <3>1. file[r] = [d[r] EXCEPT !.up = Root]
      BY <1>2, <2>0, <2>3
    <3>2. file[r].v = d[r].v
      BY <1>1, <2>0, <3>1, MovedRow
    <3> QED
      BY <2>1, <3>2 DEF KeptBy
  <2>4. CASE ~(d[r].v = 0 \/ d[r].up \in Present(d)) /\ r \in Cases
    <3> DEFINE e == d[r].up
    <3>1. /\ old[r].up = e
          /\ e \in Requests
          /\ mine[e].v # 0 \/ yours[e].v # 0
      <4>1. ASSUME NEW side \in Docs, Resolved(side), Agree(old, side), d[r] = side[r]
            PROVE  old[r].up = e /\ e \in Requests /\ side[e].v # 0
        <5>1. r \in Present(side) /\ old[r].up = side[r].up
          BY <2>0, <2>4, <4>1 DEF Agree, Present
        <5>2. side[r].up \in Requests
          BY <2>0, <2>4, <4>1, DocRow, ParentKinds
        <5>3. side[r].up \in Present(side)
          BY <4>1, <5>1, <5>2, RowKinds DEF Resolved, Rows
        <5> QED
          BY <4>1, <5>1, <5>2, <5>3 DEF Present
      <4>2. d[r] = mine[r] \/ d[r] = yours[r]
        BY <1>1, <2>0
      <4> QED
        BY <4>1, <4>2
    <3> HIDE DEF e
    <3>2. Pick(base, mine, yours, e).v = 0
      BY <1>1, <2>4, <3>1 DEF Present, Rows, e
    <3>3. DeletedBy(G, e, 0)
      BY <3>1, <3>2, PickDeletes
    <3> QED
      BY <2>4, <3>1, <3>3 DEF KeptBy
  <2> QED
    BY <2>2, <2>3, <2>4
<1> QED
  BY <1>3 DEF Keeps, file

(* A document whose rows are each another's, or one of two.                *)
LEMMA MixKeeps ==
    ASSUME NEW G, NEW old \in Docs, NEW a, NEW b, NEW new,
           Keeps(G, old, a), Keeps(G, old, b), \A r \in Rows : new[r] \in {a[r], b[r]}
    PROVE  Keeps(G, old, new)
BY DEF Keeps, Present

(* What a deletion leaves of a row that stays.                             *)
LEMMA DropKeepsContent ==
    ASSUME NEW d \in Docs, NEW leaving, NEW r \in Present(Drop(d, leaving))
    PROVE  /\ r \in Present(d)
           /\ Drop(d, leaving)[r].v = d[r].v
           /\ r \in Cases => Drop(d, leaving)[r].up = d[r].up
<1> DEFINE folders == Below(d, leaving)
           requests == leaving \cap Requests
           e == Drop(d, leaving)
<1>1. e[r] = IF r \in leaving \cup folders \/ d[r].up \in requests THEN Absent
             ELSE IF d[r].v # 0 /\ d[r].up \in folders THEN [d[r] EXCEPT !.up = Root]
             ELSE d[r]
  BY DEF Drop, Present
<1>2. e[r].v # 0 /\ r \in Rows /\ d[r] \in Row
  BY DocRow DEF Present
<1>3. folders \subseteq Folders
  BY BelowFolders
<1> HIDE DEF folders, requests, e
<1>4. (e[r] = [d[r] EXCEPT !.up = Root] /\ d[r].v # 0 /\ d[r].up \in folders) \/ e[r] = d[r]
  BY <1>1, <1>2 DEF Absent
<1>5. CASE e[r] = d[r]
  BY <1>2, <1>5 DEF Present, e
<1>6. CASE e[r] = [d[r] EXCEPT !.up = Root] /\ d[r].v # 0 /\ d[r].up \in folders
  <2>1. e[r].v = d[r].v
    BY <1>2, <1>6, MovedRow
  <2>2. r \notin Cases
    BY <1>2, <1>3, <1>6, DocRow, ParentKinds
  <2> QED
    BY <1>2, <1>6, <2>1, <2>2 DEF Present, e
<1> QED
  BY <1>4, <1>5, <1>6

(* An import has the rows of the file, and others only of the database.    *)
LEMMA ImportHasFile ==
    ASSUME NEW held \in Docs, NEW file \in Docs, Resolved(held), Resolved(file), NEW base, NEW new,
           new = Replace(held, file) \/ new = MergeIn(held, file, base)
    PROVE  /\ \A r \in Present(file) : new[r] = file[r]
           /\ \A r \in Present(new) \ Present(file) :
                 /\ r \in Present(held) /\ new[r].v = held[r].v
                 /\ r \in Cases => new[r].up = held[r].up
<1> DEFINE d == Upsert(held, file)
<1>1. \A r \in Rows : d[r] = IF file[r].v # 0 THEN file[r] ELSE held[r]
  BY DEF Upsert
<1>2. d \in Docs
  BY UpsertResolves
<1>3. PICK leaving : new = Drop(d, leaving) /\ leaving \cap Present(file) = {}
  BY DEF Replace, MergeIn
<1> HIDE DEF d
<1>4. \A r \in Present(file) : d[r] = file[r] /\ r \notin leaving
  BY <1>1, <1>3 DEF Present
<1>5. \A r \in Present(file) : new[r] = file[r]
  BY <1>3, <1>4, DropSparesFile
<1>6. ASSUME NEW r \in Present(new) \ Present(file)
      PROVE  /\ r \in Present(held) /\ new[r].v = held[r].v
             /\ r \in Cases => new[r].up = held[r].up
  <2>1. r \in Present(d) /\ new[r].v = d[r].v /\ (r \in Cases => new[r].up = d[r].up)
    BY <1>2, <1>3, DropKeepsContent
  <2>2. d[r] = held[r]
    BY <1>1, <2>1 DEF Present
  <2> QED
    BY <2>1, <2>2 DEF Present
<1> QED
  BY <1>5, <1>6

LEMMA ImportKeeps ==
    ASSUME NEW G, NEW old \in Docs, NEW held \in Docs, NEW file \in Docs, Resolved(held), Resolved(file),
           NEW base, NEW new, new = Replace(held, file) \/ new = MergeIn(held, file, base),
           Keeps(G, old, file)
    PROVE  Keeps(G, old, new)
<1>1. \A r \in Present(file) : new[r] = file[r]
  BY ImportHasFile
<1>2. ASSUME NEW r \in Present(old) PROVE KeptBy(G, r, old[r], new[r])
  <2>1. KeptBy(G, r, old[r], file[r]) /\ r \in Rows
    BY DEF Keeps, Present
  <2>2. CASE r \in Present(file)
    BY <1>1, <2>1, <2>2
  <2>3. CASE r \notin Present(file)
    BY <2>1, <2>3, KeptAbsent DEF Present
  <2> QED
    BY <2>2, <2>3
<1> QED
  BY <1>2 DEF Keeps

-----------------------------------------------------------------------------
(* The documents of one project: no content is from the future, and a case *)
(* is one request's in all of them.                                        *)
OneProject(D, now) ==
    /\ \A d \in D, r \in Rows : d[r].v <= now
    /\ \A d \in D, e \in D : Agree(d, e)

(* Every row of a document is a row of some document, moved at most.       *)
Traced(new, D) ==
    \A r \in Present(new) : \E d \in D :
        d[r].v = new[r].v /\ (r \in Cases => d[r].up = new[r].up)

LEMMA TracedOne ==
    ASSUME NEW D, NEW d \in D PROVE Traced(d, D)
BY DEF Traced

LEMMA TracedProject ==
    ASSUME NEW D \in SUBSET Docs, NEW E \in SUBSET Docs, NEW now \in Nat, OneProject(D, now),
           \A e \in E : Traced(e, D)
    PROVE  OneProject(E, now)
<1>1. ASSUME NEW e \in E, NEW r \in Rows PROVE e[r].v <= now
  <2>1. CASE e[r].v = 0
    BY <2>1
  <2>2. CASE e[r].v # 0
    BY <2>2 DEF Traced, OneProject, Present
  <2> QED
    BY <2>1, <2>2
<1>2. ASSUME NEW e \in E, NEW f \in E, NEW q \in Cases, e[q].v # 0, f[q].v # 0
      PROVE  e[q].up = f[q].up
  <2>0. q \in Present(e) /\ q \in Present(f)
    BY <1>2 DEF Present, Rows
  <2>1. PICK d \in D : d[q].v = e[q].v /\ d[q].up = e[q].up
    BY <2>0 DEF Traced
  <2>2. PICK g \in D : g[q].v = f[q].v /\ g[q].up = f[q].up
    BY <2>0 DEF Traced
  <2> QED
    BY <1>2, <2>1, <2>2 DEF OneProject, Agree
<1> QED
  BY <1>1, <1>2 DEF OneProject, Agree

(* A merge, a selection and an import only have rows there were.           *)
LEMMA MergeTraced ==
    ASSUME NEW D, NEW base \in Docs, NEW mine \in Docs, NEW yours \in Docs, mine \in D, yours \in D
    PROVE  Traced(MergeDocs(base, mine, yours), D)
<1> DEFINE d == [r \in Rows |-> Pick(base, mine, yours, r)]
           file == MergeDocs(base, mine, yours)
<1>1. \A r \in Rows : d[r] \in {mine[r], yours[r]} /\ d[r] \in Row
  BY DocRow DEF Pick
<1>2. \A r \in Rows : file[r] = IF d[r].v = 0 \/ d[r].up \in Present(d) THEN d[r]
                                ELSE IF r \in Cases THEN Absent
                                ELSE [d[r] EXCEPT !.up = Root]
  BY DEF MergeDocs, Repair
<1> HIDE DEF d, file
<1>3. ASSUME NEW r \in Present(file) PROVE file[r].v = d[r].v /\ (r \in Cases => file[r].up = d[r].up)
  <2>1. r \in Rows /\ file[r].v # 0
    BY DEF Present
  <2>2. CASE d[r].v = 0 \/ d[r].up \in Present(d)
    BY <1>2, <2>1, <2>2
  <2>3. CASE ~(d[r].v = 0 \/ d[r].up \in Present(d))
    <3>1. r \notin Cases /\ file[r] = [d[r] EXCEPT !.up = Root]
      BY <1>2, <2>1, <2>3 DEF Absent
    <3>2. file[r].v = d[r].v
      BY <1>1, <2>1, <3>1, MovedRow
    <3> QED
      BY <3>1, <3>2
  <2> QED
    BY <2>2, <2>3
<1>4. ASSUME NEW r \in Present(file) PROVE d[r] = mine[r] \/ d[r] = yours[r]
  BY <1>1 DEF Present
<1> QED
  BY <1>3, <1>4 DEF Traced, file

LEMMA MixTraced ==
    ASSUME NEW D, NEW a \in D, NEW b \in D, NEW new, \A r \in Rows : new[r] \in {a[r], b[r]}
    PROVE  Traced(new, D)
BY DEF Traced, Present

LEMMA ImportTraced ==
    ASSUME NEW D, NEW held \in Docs, NEW file \in Docs, Resolved(held), Resolved(file),
           held \in D, file \in D, NEW base, NEW new,
           new = Replace(held, file) \/ new = MergeIn(held, file, base)
    PROVE  Traced(new, D)
<1>1. /\ \A r \in Present(file) : new[r] = file[r]
      /\ \A r \in Present(new) \ Present(file) :
            /\ r \in Present(held) /\ new[r].v = held[r].v
            /\ r \in Cases => new[r].up = held[r].up
  BY ImportHasFile
<1> QED
  BY <1>1 DEF Traced

LEMMA DropTraced ==
    ASSUME NEW D, NEW d \in Docs, d \in D, NEW leaving
    PROVE  Traced(Drop(d, leaving), D)
BY DropKeepsContent DEF Traced

-----------------------------------------------------------------------------
(* The shared project.                                                     *)

CommitType == [file : Docs, past : SUBSET Nat]

(* A list of commits as the repository can have it: each commit only has   *)
(* earlier ones before it, and a file that resolves.                       *)
GoodList(list) ==
    /\ list \in Seq(CommitType)
    /\ \A c \in 1..Len(list) : list[c].past \subseteq 1..(c - 1) /\ Resolved(list[c].file)

(* Commits are never rewritten.                                            *)
Grows(list, new) ==
    /\ Len(new) >= Len(list)
    /\ \A c \in 1..Len(list) : new[c] = list[c]

(* A machine without an edit has what its HEAD has, or, between a pull and *)
(* its import, what HEAD had before: that makes the import exact.          *)
SyncOf(m) ==
    /\ (Idle(m) /\ m \notin edited \cup lost) => db[m] = FileOf(HEAD(m))
    /\ (pending[m].how = "merge" /\ m \notin edited \cup lost) => db[m] = FileOf(pending[m].base)

GitInv == TypeOK /\ FilesResolve /\ \A m \in Machines : SyncOf(m)

LEMMA HeadAndFile ==
    ASSUME GitInv, NEW m \in Machines
    PROVE  /\ GoodList(commits)
           /\ at[m] \in Branches /\ HEAD(m) \in Commit /\ HEAD(m) \in Nat \ {0}
           /\ FileOf(HEAD(m)) \in Docs /\ Resolved(FileOf(HEAD(m)))
           /\ db[m] \in Docs /\ Resolved(db[m])
           /\ pending[m] \in Pending
<1>1. GoodList(commits)
  BY DEF GitInv, TypeOK, FilesResolve, GoodList, CommitType, Commit
<1>2. at[m] \in Branches /\ HEAD(m) \in Names(Commit) /\ HEAD(m) # 0
  BY DEF GitInv, TypeOK, HEAD
<1>3. HEAD(m) \in Commit /\ HEAD(m) \in Nat \ {0}
  BY <1>2 DEF Names, Commit
<1>4. db[m] \in Docs /\ Resolved(db[m]) /\ pending[m] \in Pending
  BY DEF GitInv, TypeOK, FilesResolve
<1>5. commits[HEAD(m)] \in CommitType
  BY <1>1, <1>3 DEF GoodList, Commit
<1>6. Resolved(commits[HEAD(m)].file)
  BY <1>1, <1>3 DEF GoodList, Commit
<1> QED
  BY <1>1, <1>2, <1>3, <1>4, <1>5, <1>6 DEF FileOf, CommitType

-----------------------------------------------------------------------------
(* Commits and merges.                                                     *)

(* A list with one more commit.                                            *)
WithCommit(list, file, past) == Append(list, [file |-> file, past |-> past])

LEMMA AppendGood ==
    ASSUME NEW list, GoodList(list), NEW file \in Docs, Resolved(file), NEW past,
           past \subseteq 1..Len(list)
    PROVE  /\ GoodList(WithCommit(list, file, past)) /\ Grows(list, WithCommit(list, file, past))
           /\ Len(WithCommit(list, file, past)) = Len(list) + 1 /\ Len(list) \in Nat
           /\ WithCommit(list, file, past)[Len(list) + 1].file = file
<1> DEFINE c == [file |-> file, past |-> past]
           new == WithCommit(list, file, past)
<1>1. list \in Seq(CommitType) /\ Len(list) \in Nat
  BY DEF GoodList
<1>2. c \in CommitType
  BY <1>1 DEF CommitType
<1>3. c.file = file /\ c.past = past
  OBVIOUS
<1>4. new = Append(list, c)
  BY DEF WithCommit
<1> HIDE DEF c, new
<1>5. /\ new \in Seq(CommitType) /\ Len(new) = Len(list) + 1 /\ new[Len(list) + 1] = c
      /\ \A k \in 1..Len(list) : new[k] = list[k]
  BY <1>1, <1>2, <1>4
<1>6. \A k \in 1..Len(new) : new[k].past \subseteq 1..(k - 1) /\ Resolved(new[k].file)
  <2> SUFFICES ASSUME NEW k \in 1..Len(new)
               PROVE  new[k].past \subseteq 1..(k - 1) /\ Resolved(new[k].file)
    OBVIOUS
  <2>1. CASE k = Len(list) + 1
    <3>1. new[k] = c /\ k - 1 = Len(list)
      BY <1>1, <1>5, <2>1
    <3> QED
      BY <1>3, <3>1
  <2>2. CASE k # Len(list) + 1
    BY <1>1, <1>5, <2>2 DEF GoodList
  <2> QED
    BY <2>1, <2>2
<1> QED
  BY <1>1, <1>3, <1>5, <1>6 DEF GoodList, Grows, new

LEMMA GrowsOn ==
    ASSUME NEW a, NEW b, NEW c, GoodList(a), GoodList(b), GoodList(c), Grows(a, b), Grows(b, c)
    PROVE  Grows(a, c)
<1>1. Len(a) \in Nat /\ Len(b) \in Nat /\ Len(c) \in Nat
  BY DEF GoodList
<1> QED
  BY <1>1 DEF Grows

(* What a commit of an export leaves.                                      *)
LEMMA CommittedGood ==
    ASSUME GitInv, NEW m \in Machines, NEW file \in Docs, Resolved(file)
    PROVE  /\ GoodList(Committed(m, file)) /\ Grows(commits, Committed(m, file))
           /\ HeadAfter(m, file) \in 1..Len(Committed(m, file))
           /\ Committed(m, file)[HeadAfter(m, file)].file = file
<1>1. /\ GoodList(commits) /\ HEAD(m) \in Commit /\ HEAD(m) \in Nat \ {0}
  BY HeadAndFile
<1>2. CASE file = FileOf(HEAD(m))
  BY <1>1, <1>2 DEF Committed, HeadAfter, Grows, Commit, FileOf, GoodList
<1>3. CASE file # FileOf(HEAD(m))
  <2>1. Past(HEAD(m)) \subseteq 1..Len(commits)
    <3>1. commits[HEAD(m)].past \subseteq 1..(HEAD(m) - 1) /\ HEAD(m) \in 1..Len(commits)
      BY <1>1 DEF GoodList, Commit
    <3>2. Len(commits) \in Nat
      BY <1>1 DEF GoodList
    <3> QED
      BY <3>1, <3>2 DEF Past
  <2>2. Committed(m, file) = WithCommit(commits, file, Past(HEAD(m)))
    BY <1>3 DEF Committed, WithCommit
  <2>3. HeadAfter(m, file) = Len(commits) + 1
    BY <1>3 DEF HeadAfter
  <2>4. /\ GoodList(Committed(m, file)) /\ Grows(commits, Committed(m, file))
        /\ Len(Committed(m, file)) = Len(commits) + 1 /\ Len(commits) \in Nat
        /\ Committed(m, file)[Len(commits) + 1].file = file
    BY <1>1, <2>1, <2>2, AppendGood
  <2> QED
    BY <2>3, <2>4
<1> QED
  BY <1>2, <1>3

(* What a merge leaves, from whichever base.                               *)
LEMMA MergesGood ==
    ASSUME NEW list, GoodList(list), NEW h \in 1..Len(list), NEW c \in 0..Len(list),
           NEW x \in Merges(list, h, c)
    PROVE  GoodList(x[1]) /\ Grows(list, x[1]) /\ x[2] \in 1..Len(x[1])
<1> DEFINE past(k) == list[k].past \cup {k}
           common == past(h) \cap past(c)
           bases == {k \in common : \A y \in common : k \notin list[y].past}
           merged(d) == [file |-> MergeDocs(d, list[h].file, list[c].file),
                         past |-> past(h) \cup past(c)]
           ancestors == {list[k].file : k \in bases} \cup {EmptyDoc}
<1>1. Len(list) \in Nat /\ list \in Seq(CommitType)
  BY DEF GoodList
<1>2. \/ x = <<list, h>>
      \/ x = <<list, c>> /\ c # 0
      \/ c # 0 /\ \E d \in ancestors : x = <<Append(list, merged(d)), Len(list) + 1>>
  BY DEF Merges
<1>3. CASE x = <<list, h>>
  BY <1>1, <1>3 DEF Grows
<1>4. CASE x = <<list, c>> /\ c # 0
  BY <1>1, <1>4 DEF Grows
<1>5. CASE c # 0 /\ \E d \in ancestors : x = <<Append(list, merged(d)), Len(list) + 1>>
  <2>1. PICK base \in ancestors : x = <<Append(list, merged(base)), Len(list) + 1>>
    BY <1>5
  <2>2. \A j \in 1..Len(list) : list[j].file \in Docs /\ past(j) \subseteq 1..Len(list)
    <3> SUFFICES ASSUME NEW j \in 1..Len(list)
                 PROVE  list[j].file \in Docs /\ past(j) \subseteq 1..Len(list)
      OBVIOUS
    <3>1. list[j] \in CommitType
      BY <1>1
    <3>2. list[j].past \subseteq 1..(j - 1)
      BY DEF GoodList
    <3> QED
      BY <1>1, <3>1, <3>2 DEF CommitType
  <2>3. c \in 1..Len(list) /\ h \in 1..Len(list)
    BY <1>1, <1>5
  <2>4. base \in Docs
    BY <2>2, <2>3, EmptyIsDoc
  <2> DEFINE file == MergeDocs(base, list[h].file, list[c].file)
  <2>5. file \in Docs /\ Resolved(file)
    BY <2>2, <2>3, <2>4, MergeResolves
  <2>6. past(h) \cup past(c) \subseteq 1..Len(list)
    BY <2>2, <2>3
  <2>7. x[1] = WithCommit(list, file, past(h) \cup past(c)) /\ x[2] = Len(list) + 1
    BY <2>1 DEF WithCommit
  <2> HIDE DEF file, past
  <2>8. GoodList(x[1]) /\ Grows(list, x[1]) /\ Len(x[1]) = Len(list) + 1
    BY <2>5, <2>6, <2>7, AppendGood
  <2> QED
    BY <1>1, <2>7, <2>8
<1> QED
  BY <1>2, <1>3, <1>4, <1>5

-----------------------------------------------------------------------------
(* A step of one machine: the repositories only grow, and nothing of the   *)
(* others changes.                                                         *)
Shared ==
    /\ GoodList(commits') /\ Len(commits') \in 1..MaxCommits /\ Grows(commits, commits')
    /\ remote' \in [Branches -> Names(Commit')]
    /\ edits' \in 0..MaxEdits /\ moves' \in 0..MaxMoves
    /\ edited' \subseteq Machines /\ gone' \subseteq Rows \X Nat /\ lost' \subseteq Losers

Own(m) ==
    /\ heads'[m] \in [Branches -> Names(Commit')]
    /\ at'[m] \in Branches /\ heads'[m][at'[m]] # 0
    /\ db'[m] \in Docs /\ Resolved(db'[m])
    /\ pending'[m] \in Pending'

Frame(m) ==
    /\ heads' = [n \in Machines |-> heads'[n]] /\ at' = [n \in Machines |-> at'[n]]
    /\ db' = [n \in Machines |-> db'[n]] /\ pending' = [n \in Machines |-> pending'[n]]
    /\ \A n \in Machines \ {m} :
          /\ heads'[n] = heads[n] /\ at'[n] = at[n] /\ db'[n] = db[n] /\ pending'[n] = pending[n]
          /\ (n \in edited <=> n \in edited') /\ (n \in lost <=> n \in lost')

LEMMA StepOfOne ==
    ASSUME GitInv, NEW m \in Machines, Shared, Own(m), Frame(m), SyncOf(m)'
    PROVE  GitInv'
<1>0. GoodList(commits) /\ Len(commits) \in Nat /\ Len(commits') \in Nat
  <2>1. GoodList(commits) /\ GoodList(commits')
    BY HeadAndFile DEF Shared
  <2> QED
    BY <2>1 DEF GoodList
<1>1. Commit \subseteq Commit' /\ Names(Commit) \subseteq Names(Commit') /\ Pending \subseteq Pending'
  BY <1>0 DEF Shared, Grows, Commit, Names, Pending
<1>2. ASSUME NEW n \in Machines \ {m}
      PROVE  /\ heads'[n] \in [Branches -> Names(Commit')] /\ at'[n] \in Branches
             /\ heads'[n][at'[n]] # 0 /\ db'[n] \in Docs /\ Resolved(db'[n])
             /\ pending'[n] \in Pending' /\ SyncOf(n)'
  <2>1. /\ heads'[n] = heads[n] /\ at'[n] = at[n] /\ db'[n] = db[n] /\ pending'[n] = pending[n]
        /\ (n \in edited <=> n \in edited') /\ (n \in lost <=> n \in lost')
    BY DEF Frame
  <2>2. /\ heads[n] \in [Branches -> Names(Commit)] /\ at[n] \in Branches /\ HEAD(n) \in Commit
        /\ HEAD(n) # 0 /\ db[n] \in Docs /\ Resolved(db[n]) /\ pending[n] \in Pending
    BY HeadAndFile DEF GitInv, TypeOK
  <2>3. \A b \in Branches : heads[n][b] \in Names(Commit')
    BY <1>1, <2>2
  <2>4. heads[n] \in [Branches -> Names(Commit')]
    BY <2>2, <2>3
  <2>5. \A c \in Commit : commits'[c] = commits[c]
    BY DEF Shared, Grows, Commit
  <2>6. HEAD(n)' = HEAD(n) /\ FileOf(HEAD(n))' = FileOf(HEAD(n)) /\ Idle(n)' = Idle(n)
    BY <2>1, <2>2, <2>5 DEF HEAD, FileOf, Idle
  <2>7. pending[n].how = "merge" => pending[n].base \in Commit
    BY <2>2 DEF Pending, NoImport, ReplaceAll
  <2>8. pending[n].how = "merge" => FileOf(pending[n].base)' = FileOf(pending[n].base)
    BY <2>1, <2>5, <2>7 DEF FileOf
  <2>9. SyncOf(n)'
    <3>1. SyncOf(n)
      BY DEF GitInv
    <3> QED
      BY <2>1, <2>6, <2>8, <3>1 DEF SyncOf
  <2> QED
    BY <1>1, <2>1, <2>2, <2>4, <2>9 DEF HEAD
<1>3. \A n \in Machines :
          /\ heads'[n] \in [Branches -> Names(Commit')] /\ at'[n] \in Branches
          /\ heads'[n][at'[n]] # 0 /\ db'[n] \in Docs /\ Resolved(db'[n])
          /\ pending'[n] \in Pending' /\ SyncOf(n)'
  BY <1>2 DEF Own
<1>4. /\ heads' \in [Machines -> [Branches -> Names(Commit')]] /\ at' \in [Machines -> Branches]
      /\ db' \in [Machines -> Docs] /\ pending' \in [Machines -> Pending']
  BY <1>3 DEF Frame
<1>5. TypeOK'
  BY <1>3, <1>4 DEF TypeOK, Shared, GoodList, CommitType, Commit, HEAD
<1>6. FilesResolve'
  BY <1>3 DEF FilesResolve, Shared, GoodList, Commit
<1> QED
  BY <1>3, <1>5, <1>6 DEF GitInv

(* What a step that does not touch the repositories leaves them.           *)
LEMMA SharedStays ==
    ASSUME GitInv, UNCHANGED <<commits, remote, moves>>, edits' \in 0..MaxEdits,
           edited' \subseteq Machines, gone' \subseteq Rows \X Nat, lost' \subseteq Losers
    PROVE  Shared
<1>1. GoodList(commits) /\ Len(commits) \in Nat
  BY DEF GitInv, TypeOK, FilesResolve, GoodList, CommitType, Commit
<1>2. Grows(commits, commits')
  BY <1>1 DEF Grows
<1> QED
  BY <1>1, <1>2 DEF Shared, GitInv, TypeOK, Commit

(* The user's edits keep the keys of the tables.                           *)
LEMMA WriteStep ==
    ASSUME GitInv, NEW m \in Machines, NEW r \in Rows, NEW up \in Rows \cup {Root}, Write(m, r, up)
    PROVE  GitInv'
<1>1. db[m] \in Docs /\ Resolved(db[m]) /\ db \in [Machines -> Docs] /\ edits \in Nat
  BY HeadAndFile DEF GitInv, TypeOK
<1> DEFINE d == [db[m] EXCEPT ![r] = [v |-> edits + 2, up |-> up]]
<1>2. /\ up \in Parents(r) /\ up \in Present(db[m]) \cup {Root}
      /\ db' = [db EXCEPT ![m] = d]
      /\ edited' = edited \cup {m} /\ UNCHANGED <<commits, remote, heads, at, pending, moves, lost, gone>>
      /\ edits < MaxEdits /\ edits' = edits + 1
  BY DEF Write, Edits
<1>3. /\ \A q \in Rows : d[q] = IF q = r THEN [v |-> edits + 2, up |-> up] ELSE db[m][q]
      /\ d = [q \in Rows |-> d[q]]
  BY <1>1 DEF Docs
<1>4. [v |-> edits + 2, up |-> up] \in Row /\ edits + 2 # 0
  BY <1>1 DEF Row
<1>5. db'[m] = d
  BY <1>1, <1>2
<1> HIDE DEF d
<1>6. \A q \in Rows : d[q] = Absent \/ (d[q] \in Row /\ d[q].v # 0 /\ d[q].up \in Parents(q))
  BY <1>1, <1>2, <1>3, <1>4, DocRow
<1>7. d \in Docs
  BY <1>3, <1>6, DocOf
<1>8. Present(db[m]) \subseteq Present(d)
  BY <1>3, <1>4 DEF Present
<1>9. Resolved(d)
  BY <1>1, <1>2, <1>3, <1>8 DEF Resolved, Present
<1>10. edits' \in 0..MaxEdits
  BY <1>1, <1>2, GitConstants DEF GitConstants
<1>11. Shared
  BY <1>2, <1>10, SharedStays DEF GitInv, TypeOK
<1>12. Frame(m)
  BY <1>2 DEF Frame, GitInv, TypeOK
<1>13. Own(m)
  BY <1>2, <1>5, <1>7, <1>9, HeadAndFile DEF Own, GitInv, TypeOK, HEAD, Pending, Commit, Names
<1>14. SyncOf(m)'
  BY <1>2 DEF SyncOf
<1> QED
  BY <1>11, <1>12, <1>13, <1>14, StepOfOne

LEMMA DeleteStep ==
    ASSUME GitInv, NEW m \in Machines, NEW r \in Rows, Delete(m, r)
    PROVE  GitInv'
<1>1. db[m] \in Docs /\ Resolved(db[m]) /\ db \in [Machines -> Docs] /\ edits \in Nat
  BY HeadAndFile DEF GitInv, TypeOK
<1> DEFINE requests == {q \in Requests : db[m][q].up \in Below(db[m], {r})}
           left == Drop(db[m], {r} \cup requests)
           deleted == Present(db[m]) \ Present(left)
<1>2. /\ db' = [db EXCEPT ![m] = left]
      /\ gone' = gone \cup {<<x, db[m][x].v>> : x \in deleted}
      /\ edited' = edited \cup {m} /\ UNCHANGED <<commits, remote, heads, at, pending, moves, lost>>
      /\ edits < MaxEdits /\ edits' = edits + 1
  BY DEF Delete, Edits
<1>3. left \in Docs /\ Resolved(left)
  BY <1>1, DropResolves
<1>4. \A x \in deleted : x \in Rows /\ db[m][x].v \in Nat
  BY <1>1, DocRow DEF Present
<1> HIDE DEF left, deleted
<1>5. gone' \subseteq Rows \X Nat
  BY <1>2, <1>4 DEF GitInv, TypeOK
<1>6. db'[m] = left
  BY <1>1, <1>2
<1>7. edits' \in 0..MaxEdits
  BY <1>1, <1>2, GitConstants DEF GitConstants
<1>8. Shared
  BY <1>2, <1>5, <1>7, SharedStays DEF GitInv, TypeOK
<1>9. Frame(m)
  BY <1>2 DEF Frame, GitInv, TypeOK
<1>10. Own(m)
  BY <1>2, <1>3, <1>6, HeadAndFile DEF Own, GitInv, TypeOK, HEAD, Pending, Commit, Names
<1>11. SyncOf(m)'
  BY <1>2 DEF SyncOf
<1> QED
  BY <1>8, <1>9, <1>10, <1>11, StepOfOne

-----------------------------------------------------------------------------
(* Commits and pushes.                                                     *)

(* What a step that commits on the branch checked out, or on it and the    *)
(* remote, leaves.                                                         *)
LEMMA CommitStep ==
    ASSUME GitInv, NEW m \in Machines, NEW file \in Docs, Resolved(file), Idle(m),
           file = db[m] \/ file = FileOf(HEAD(m)) \/ (m \notin edited => db[m] = file \/ m \in lost),
           commits' = Committed(m, file), Bounded,
           heads' = [heads EXCEPT ![m][at[m]] = HeadAfter(m, file)],
           edited' = IF file = db[m] THEN edited \ {m} ELSE edited,
           remote' = remote \/ remote' = [remote EXCEPT ![at[m]] = HeadAfter(m, file)],
           UNCHANGED <<at, db, pending, edits, moves, gone, lost>>
    PROVE  GitInv'
<1>1. /\ GoodList(commits') /\ Grows(commits, commits')
      /\ HeadAfter(m, file) \in Commit' /\ commits'[HeadAfter(m, file)].file = file
  BY CommittedGood DEF Commit
<1>2. /\ GoodList(commits) /\ at[m] \in Branches /\ db[m] \in Docs /\ Resolved(db[m])
      /\ pending[m] \in Pending
  BY HeadAndFile
<1>3. Len(commits) \in Nat /\ Len(commits') \in Nat /\ Len(commits) >= 1
  BY <1>1, <1>2 DEF GoodList, GitInv, TypeOK
<1>4. Names(Commit) \subseteq Names(Commit') /\ Commit \subseteq Commit' /\ HeadAfter(m, file) # 0
  BY <1>1, <1>3 DEF Grows, Commit, Names
<1> DEFINE k == HeadAfter(m, file)
<1> HIDE DEF k
<1>5. k \in Commit' /\ k # 0 /\ k \in Names(Commit')
  BY <1>1, <1>4 DEF k, Names
<1>6. /\ heads' = [heads EXCEPT ![m] = [heads[m] EXCEPT ![at[m]] = k]]
      /\ heads \in [Machines -> [Branches -> Names(Commit)]]
  BY DEF k, GitInv, TypeOK
<1>7. heads'[m] = [heads[m] EXCEPT ![at[m]] = k] /\ heads[m] \in [Branches -> Names(Commit)]
  BY <1>6
<1>8. heads'[m] \in [Branches -> Names(Commit')] /\ heads'[m][at[m]] = k
  <2>1. \A b \in Branches : heads'[m][b] \in Names(Commit')
    BY <1>2, <1>4, <1>5, <1>7
  <2>2. heads'[m] = [b \in Branches |-> heads'[m][b]]
    BY <1>7
  <2> QED
    BY <1>2, <1>7, <2>1, <2>2
<1>9. remote' \in [Branches -> Names(Commit')]
  <2>1. remote \in [Branches -> Names(Commit)]
    BY DEF GitInv, TypeOK
  <2>2. remote' = remote \/ remote' = [remote EXCEPT ![at[m]] = k]
    BY DEF k
  <2>3. \A b \in Branches : remote'[b] \in Names(Commit')
    BY <1>2, <1>4, <1>5, <2>1, <2>2
  <2>4. remote' = [b \in Branches |-> remote'[b]]
    BY <2>1, <2>2
  <2> QED
    BY <2>3, <2>4
<1>10. Shared
  BY <1>1, <1>3, <1>9 DEF Shared, Bounded, Grows, GitInv, TypeOK
<1>11. Own(m)
  BY <1>2, <1>4, <1>5, <1>8 DEF Own, Pending
<1>12. Frame(m)
  BY <1>6 DEF Frame, GitInv, TypeOK
<1>13. SyncOf(m)'
  <2>1. FileOf(HEAD(m))' = file /\ db'[m] = db[m] /\ Idle(m)' /\ pending'[m] = pending[m]
    BY <1>1, <1>8 DEF FileOf, HEAD, Idle, k
  <2>2. ASSUME m \notin edited', m \notin lost PROVE db[m] = file
    <3>1. CASE file # db[m]
      <4>1. m \notin edited
        BY <2>2, <3>1
      <4>2. db[m] = FileOf(HEAD(m))
        BY <2>2, <4>1 DEF GitInv, SyncOf
      <4> QED
        BY <2>2, <3>1, <4>1, <4>2
    <3> QED
      BY <3>1
  <2> QED
    BY <2>1, <2>2 DEF SyncOf, Idle
<1> QED
  BY <1>10, <1>11, <1>12, <1>13, StepOfOne

LEMMA CommitSelectionStep ==
    ASSUME GitInv, NEW m \in Machines, NEW only, CommitSelection(m, only)
    PROVE  GitInv'
<1> DEFINE head == FileOf(HEAD(m))
           file == Apply(head, db[m], WithRequired(only, head, db[m]))
<1>1. head \in Docs /\ Resolved(head) /\ db[m] \in Docs /\ Resolved(db[m])
  BY HeadAndFile
<1>2. file \in Docs /\ Resolved(file)
  BY <1>1, SelectionResolves
<1>3. Idle(m)
  BY DEF CommitSelection
<1>4. m \notin edited => db[m] = file \/ m \in lost
  <2> SUFFICES ASSUME m \notin edited, m \notin lost PROVE db[m] = file
    OBVIOUS
  <2>1. db[m] = head
    BY <1>3 DEF GitInv, SyncOf
  <2> QED
    BY <1>1, <2>1, NothingToSelect
<1>5. /\ commits' = Committed(m, file) /\ Bounded
      /\ heads' = [heads EXCEPT ![m][at[m]] = HeadAfter(m, file)]
      /\ edited' = IF file = db[m] THEN edited \ {m} ELSE edited
      /\ UNCHANGED <<remote, at, db, pending, edits, moves, gone, lost>>
  BY DEF CommitSelection
<1> HIDE DEF file
<1> QED
  BY <1>2, <1>3, <1>4, <1>5, CommitStep

LEMMA PushStep ==
    ASSUME GitInv, NEW m \in Machines, NEW pendingToo \in BOOLEAN, Push(m, pendingToo)
    PROVE  GitInv'
<1> DEFINE file == IF pendingToo THEN db[m] ELSE FileOf(HEAD(m))
<1>1. file \in Docs /\ Resolved(file) /\ (file = db[m] \/ file = FileOf(HEAD(m)))
  BY HeadAndFile
<1>2. /\ Idle(m) /\ commits' = Committed(m, file) /\ Bounded
      /\ heads' = [heads EXCEPT ![m][at[m]] = HeadAfter(m, file)]
      /\ edited' = IF file = db[m] THEN edited \ {m} ELSE edited
      /\ remote' = remote \/ remote' = [remote EXCEPT ![at[m]] = HeadAfter(m, file)]
      /\ UNCHANGED <<at, db, pending, edits, moves, gone, lost>>
  BY DEF Push
<1> HIDE DEF file
<1> QED
  BY <1>1, <1>2, CommitStep

-----------------------------------------------------------------------------
(* The checkout changes and the import is still to come: what is left to   *)
(* show of a pull, a switch and a merge is that their commits are good.    *)
LEMMA CheckoutStep ==
    ASSUME GitInv, NEW m \in Machines,
           GoodList(commits'), Grows(commits, commits'), Bounded,
           heads' = [heads EXCEPT ![m] = heads'[m]],
           heads'[m] \in [Branches -> Names(Commit')],
           at' = [at EXCEPT ![m] = at'[m]], at'[m] \in Branches, heads'[m][at'[m]] # 0,
           NEW import, pending' = [pending EXCEPT ![m] = import],
           \/ import = ReplaceAll /\ edited' = edited \ {m}
           \/ /\ import = [how |-> "merge", base |-> HEAD(m)] /\ edited' = edited
              /\ m \notin edited \cup lost => db[m] = FileOf(HEAD(m)),
           moves' \in 0..MaxMoves, UNCHANGED <<remote, db, edits, gone, lost>>
    PROVE  GitInv'
<1>1. /\ GoodList(commits) /\ HEAD(m) \in Commit /\ HEAD(m) \in Nat \ {0}
      /\ db[m] \in Docs /\ Resolved(db[m])
  BY HeadAndFile
<1>2. Len(commits) \in Nat /\ Len(commits') \in Nat /\ Len(commits) >= 1
  BY <1>1 DEF GoodList, GitInv, TypeOK
<1>3. Names(Commit) \subseteq Names(Commit') /\ Commit \subseteq Commit'
  BY <1>2 DEF Grows, Commit, Names
<1>4. remote' \in [Branches -> Names(Commit')]
  <2>1. \A b \in Branches : remote[b] \in Names(Commit')
    BY <1>3 DEF GitInv, TypeOK
  <2> QED
    BY <2>1 DEF GitInv, TypeOK
<1>5. Shared
  BY <1>2, <1>4 DEF Shared, Bounded, Grows, GitInv, TypeOK
<1>6. pending'[m] = import
  BY DEF GitInv, TypeOK
<1>7. import \in Pending'
  BY <1>1, <1>3 DEF Pending, ReplaceAll
<1>8. Own(m)
  BY <1>1, <1>6, <1>7 DEF Own
<1>9. Frame(m)
  BY DEF Frame, GitInv, TypeOK
<1>10. SyncOf(m)'
  <2>1. commits'[HEAD(m)] = commits[HEAD(m)]
    BY <1>1 DEF Grows, Commit
  <2>2. CASE import = ReplaceAll
    BY <1>6, <2>2 DEF SyncOf, Idle, ReplaceAll
  <2>3. CASE import = [how |-> "merge", base |-> HEAD(m)] /\ edited' = edited
             /\ (m \notin edited \cup lost => db[m] = FileOf(HEAD(m)))
    <3>1. pending'[m].how = "merge" /\ pending'[m].base = HEAD(m)
      BY <1>6, <2>3
    <3>2. FileOf(pending[m].base)' = FileOf(HEAD(m))
      BY <2>1, <3>1 DEF FileOf
    <3> QED
      BY <2>3, <3>1, <3>2 DEF SyncOf, Idle
  <2> QED
    BY <2>2, <2>3
<1> QED
  BY <1>5, <1>8, <1>9, <1>10, StepOfOne

LEMMA PullStep ==
    ASSUME GitInv, NEW m \in Machines, Pull(m)
    PROVE  GitInv'
<1>1. /\ GoodList(commits) /\ at[m] \in Branches /\ HEAD(m) \in 1..Len(commits)
      /\ Len(commits) \in Nat
  BY HeadAndFile DEF Commit, GoodList
<1>2. PICK x \in Merges(commits, HEAD(m), remote[at[m]]), online \in BOOLEAN :
         /\ commits' = x[1] /\ Bounded
         /\ heads' = [heads EXCEPT ![m] = [b \in Branches |->
               IF b = at[m] THEN x[2]
               ELSE IF online /\ heads[m][b] # 0 /\ heads[m][b] \in Past(remote[b]) THEN remote[b]
               ELSE heads[m][b]]]
         /\ pending' = [pending EXCEPT ![m] = [how |-> "merge", base |-> HEAD(m)]]
  BY DEF Pull
<1>3. remote[at[m]] \in 0..Len(commits)
  BY <1>1 DEF GitInv, TypeOK, Names, Commit
<1>4. GoodList(commits') /\ Grows(commits, commits') /\ x[2] \in 1..Len(commits')
  BY <1>1, <1>2, <1>3, MergesGood
<1>5. Names(Commit) \subseteq Names(Commit') /\ Len(commits') \in Nat
  BY <1>1, <1>4 DEF GoodList, Grows, Commit, Names
<1>6. heads'[m] = [b \in Branches |->
               IF b = at[m] THEN x[2]
               ELSE IF online /\ heads[m][b] # 0 /\ heads[m][b] \in Past(remote[b]) THEN remote[b]
               ELSE heads[m][b]]
  BY <1>2 DEF GitInv, TypeOK
<1>7. \A b \in Branches : remote[b] \in Names(Commit') /\ heads[m][b] \in Names(Commit')
  BY <1>5 DEF GitInv, TypeOK
<1>8. x[2] \in Names(Commit') /\ x[2] # 0
  BY <1>4, <1>5 DEF Names, Commit
<1>9. heads'[m] \in [Branches -> Names(Commit')] /\ heads'[m][at[m]] = x[2]
  BY <1>1, <1>6, <1>7, <1>8
<1>10. /\ heads' = [heads EXCEPT ![m] = heads'[m]] /\ at' = [at EXCEPT ![m] = at'[m]]
       /\ at'[m] = at[m]
       /\ UNCHANGED <<remote, db, edits, gone, lost, edited, moves>>
  BY <1>2, <1>6 DEF Pull, GitInv, TypeOK
<1>11. m \notin edited \cup lost => db[m] = FileOf(HEAD(m))
  BY DEF Pull, GitInv, SyncOf
<1>12. moves' \in 0..MaxMoves
  BY <1>10 DEF GitInv, TypeOK
<1> QED
  BY <1>1, <1>2, <1>4, <1>8, <1>9, <1>10, <1>11, <1>12, CheckoutStep

(* What is recorded before a switch or a merge resolves.                   *)
LEMMA SavedResolves ==
    ASSUME GitInv, NEW m \in Machines
    PROVE  Saved(m) \in Docs /\ Resolved(Saved(m))
BY HeadAndFile DEF Saved

LEMMA SwitchStep ==
    ASSUME GitInv, NEW m \in Machines, NEW b \in Branches, Switch(m, b)
    PROVE  GitInv'
<1>1. /\ GoodList(commits') /\ Grows(commits, commits') /\ GoodList(commits) /\ Bounded
      /\ HeadAfter(m, Saved(m)) \in 1..Len(commits')
  <2>1. commits' = Committed(m, Saved(m)) /\ Bounded
    BY DEF Switch
  <2> QED
    BY <2>1, CommittedGood, SavedResolves, HeadAndFile
<1>2. PICK to \in Names(Commit) :
         to # 0 /\ heads' = [heads EXCEPT ![m][at[m]] = HeadAfter(m, Saved(m)), ![m][b] = to]
  <2> DEFINE there == IF heads[m][b] # 0 THEN heads[m][b] ELSE remote[b]
  <2>1. there # 0 /\ there \in Names(Commit) /\ remote[b] \in Names(Commit)
    BY DEF Switch, GitInv, TypeOK
  <2>2. PICK to \in {there} \cup (IF there \in Past(remote[b]) THEN {remote[b]} ELSE {}) :
           heads' = [heads EXCEPT ![m][at[m]] = HeadAfter(m, Saved(m)), ![m][b] = to]
    BY DEF Switch
  <2>3. remote[b] = 0 => there \notin Past(remote[b])
    BY DEF Past
  <2>4. to \in Names(Commit) /\ to # 0
    BY <2>1, <2>2, <2>3
  <2> QED
    BY <2>2, <2>4
<1>3. Names(Commit) \subseteq Names(Commit') /\ HeadAfter(m, Saved(m)) \in Names(Commit')
  BY <1>1 DEF GoodList, Grows, Commit, Names
<1> DEFINE k == HeadAfter(m, Saved(m))
<1>4. heads[m] \in [Branches -> Names(Commit)] /\ at[m] \in Branches
  BY DEF GitInv, TypeOK
<1>5. /\ heads'[m] = [[heads[m] EXCEPT ![at[m]] = k] EXCEPT ![b] = to]
      /\ heads' = [heads EXCEPT ![m] = heads'[m]]
  BY <1>2 DEF GitInv, TypeOK
<1> HIDE DEF k
<1>6. heads'[m] \in [Branches -> Names(Commit')] /\ heads'[m][b] = to
  <2>1. k \in Names(Commit') /\ to \in Names(Commit')
    BY <1>3 DEF k
  <2>2. \A a \in Branches : heads'[m][a] \in Names(Commit')
    BY <1>3, <1>4, <1>5, <2>1
  <2>3. heads'[m] = [a \in Branches |-> heads'[m][a]]
    BY <1>4, <1>5
  <2> QED
    BY <1>4, <1>5, <2>2, <2>3
<1>7. /\ at' = [at EXCEPT ![m] = b] /\ at'[m] = b
      /\ pending' = [pending EXCEPT ![m] = ReplaceAll]
      /\ edited' = edited \ {m} /\ UNCHANGED <<remote, db, edits, gone, lost>>
  BY DEF Switch, GitInv, TypeOK
<1>8. moves' \in 0..MaxMoves
  BY GitConstants DEF Switch, Moves, GitInv, TypeOK, GitConstants
<1> QED
  BY <1>1, <1>2, <1>5, <1>6, <1>7, <1>8, CheckoutStep

LEMMA MergeStep ==
    ASSUME GitInv, NEW m \in Machines, NEW b \in Branches, Merge(m, b)
    PROVE  GitInv'
<1> DEFINE list == Committed(m, Saved(m))
           head == HeadAfter(m, Saved(m))
           from == IF heads[m][b] # 0 THEN heads[m][b] ELSE remote[b]
<1>1. GoodList(list) /\ Grows(commits, list) /\ head \in 1..Len(list) /\ GoodList(commits)
  BY CommittedGood, SavedResolves, HeadAndFile
<1>2. PICK x \in Merges(list, head, from) :
         commits' = x[1] /\ Bounded /\ heads' = [heads EXCEPT ![m][at[m]] = x[2]]
  BY DEF Merge
<1>3. from \in 0..Len(list)
  <2>1. from \in Names(Commit)
    BY DEF GitInv, TypeOK
  <2> QED
    BY <1>1, <2>1 DEF Names, Commit, GoodList, Grows
<1> HIDE DEF list, head, from
<1>4. GoodList(commits') /\ Grows(list, commits') /\ x[2] \in 1..Len(commits')
  BY <1>1, <1>2, <1>3, MergesGood
<1>5. Grows(commits, commits')
  BY <1>1, <1>4, GrowsOn
<1>6. Names(Commit) \subseteq Names(Commit') /\ x[2] \in Names(Commit') /\ x[2] # 0
  BY <1>1, <1>4, <1>5 DEF GoodList, Grows, Commit, Names
<1>7. heads[m] \in [Branches -> Names(Commit)] /\ at[m] \in Branches
  BY DEF GitInv, TypeOK
<1>8. heads'[m] = [heads[m] EXCEPT ![at[m]] = x[2]] /\ heads' = [heads EXCEPT ![m] = heads'[m]]
  BY <1>2 DEF GitInv, TypeOK
<1>9. heads'[m] \in [Branches -> Names(Commit')] /\ heads'[m][at[m]] # 0
  <2>1. \A a \in Branches : heads'[m][a] \in Names(Commit')
    BY <1>6, <1>7, <1>8
  <2>2. heads'[m] = [a \in Branches |-> heads'[m][a]]
    BY <1>7, <1>8
  <2> QED
    BY <1>6, <1>7, <1>8, <2>1, <2>2
<1>10. /\ at' = [at EXCEPT ![m] = at'[m]] /\ at'[m] = at[m]
       /\ pending' = [pending EXCEPT ![m] = ReplaceAll]
       /\ edited' = edited \ {m} /\ UNCHANGED <<remote, db, edits, gone, lost>>
  BY DEF Merge, GitInv, TypeOK
<1>11. moves' \in 0..MaxMoves
  BY GitConstants DEF Merge, Moves, GitInv, TypeOK, GitConstants
<1> QED
  BY <1>2, <1>4, <1>5, <1>7, <1>8, <1>9, <1>10, <1>11, CheckoutStep

LEMMA CreateBranchStep ==
    ASSUME GitInv, NEW m \in Machines, NEW b \in Branches, CreateBranch(m, b)
    PROVE  GitInv'
<1>1. /\ GoodList(commits) /\ HEAD(m) \in Names(Commit) /\ HEAD(m) # 0 /\ HEAD(m) \in Commit
      /\ db[m] \in Docs /\ Resolved(db[m]) /\ pending[m] \in Pending
      /\ Len(commits) \in 1..MaxCommits
  BY HeadAndFile DEF Names, GitInv, TypeOK
<1>2. /\ heads' = [heads EXCEPT ![m] = [heads[m] EXCEPT ![b] = HEAD(m)]]
      /\ at' = [at EXCEPT ![m] = b]
      /\ remote' = remote \/ remote' = [remote EXCEPT ![b] = HEAD(m)]
      /\ Idle(m) /\ UNCHANGED <<commits, db, pending, edits, edited, gone, lost>>
  BY DEF CreateBranch
<1> DEFINE k == HEAD(m)
<1> HIDE DEF k
<1>3. /\ heads'[m] = [heads[m] EXCEPT ![b] = k] /\ at'[m] = b
      /\ heads[m] \in [Branches -> Names(Commit)] /\ remote \in [Branches -> Names(Commit)]
  BY <1>2 DEF k, GitInv, TypeOK
<1>4. heads'[m] \in [Branches -> Names(Commit)] /\ heads'[m][b] = k
  BY <1>1, <1>3 DEF k
<1>5. remote' \in [Branches -> Names(Commit)]
  BY <1>1, <1>2, <1>3 DEF k
<1>6. moves' \in 0..MaxMoves
  BY GitConstants DEF CreateBranch, Moves, GitInv, TypeOK, GitConstants
<1>7. Shared
  BY <1>1, <1>2, <1>5, <1>6 DEF Shared, Grows, GitInv, TypeOK, Commit, GoodList
<1>8. Own(m)
  BY <1>1, <1>2, <1>3, <1>4 DEF Own, k, Commit, Pending
<1>9. Frame(m)
  <2> DEFINE own == [heads[m] EXCEPT ![b] = HEAD(m)]
  <2>1. heads' = [heads EXCEPT ![m] = own]
    BY <1>2
  <2> HIDE DEF own
  <2>2. /\ heads \in [Machines -> [Branches -> Names(Commit)]] /\ at \in [Machines -> Branches]
        /\ db \in [Machines -> Docs] /\ pending \in [Machines -> Pending]
    BY DEF GitInv, TypeOK
  <2>3. /\ heads' = [n \in Machines |-> heads'[n]]
        /\ \A n \in Machines \ {m} : heads'[n] = heads[n]
    BY <2>1, <2>2
  <2> QED
    BY <1>2, <2>2, <2>3 DEF Frame
<1>10. SyncOf(m)'
  <2>1. HEAD(m)' = HEAD(m) /\ FileOf(HEAD(m))' = FileOf(HEAD(m))
    BY <1>2, <1>3, <1>4 DEF HEAD, FileOf, k
  <2>2. SyncOf(m)
    BY DEF GitInv
  <2> QED
    BY <1>2, <2>1, <2>2 DEF SyncOf, Idle
<1> QED
  BY <1>7, <1>8, <1>9, <1>10, StepOfOne

-----------------------------------------------------------------------------
(* Imports.                                                                *)

(* A step that only writes the database of a machine.                      *)
LEMMA DatabaseStep ==
    ASSUME GitInv, NEW m \in Machines, NEW rows \in Docs, Resolved(rows),
           db' = [db EXCEPT ![m] = rows],
           pending' = [pending EXCEPT ![m] = NoImport],
           edited' \subseteq Machines, edited' \ {m} = edited \ {m},
           m \notin edited' \cup lost => rows = FileOf(HEAD(m)),
           UNCHANGED <<commits, remote, heads, at, edits, moves, gone, lost>>
    PROVE  GitInv'
<1>1. /\ db'[m] = rows /\ pending'[m] = NoImport
  BY DEF GitInv, TypeOK
<1>2. Shared
  BY SharedStays DEF GitInv, TypeOK
<1>3. Own(m)
  BY <1>1, HeadAndFile DEF Own, GitInv, TypeOK, HEAD, Pending, Commit, Names
<1>4. Frame(m)
  BY DEF Frame, GitInv, TypeOK
<1>5. SyncOf(m)'
  BY <1>1 DEF SyncOf, NoImport, HEAD, FileOf, Idle
<1> QED
  BY <1>2, <1>3, <1>4, <1>5, StepOfOne

LEMMA DiscardStep ==
    ASSUME GitInv, NEW m \in Machines, Discard(m)
    PROVE  GitInv'
<1> DEFINE file == FileOf(HEAD(m))
           rows == Replace(db[m], file)
<1>1. file \in Docs /\ Resolved(file) /\ db[m] \in Docs /\ Resolved(db[m]) /\ pending[m] \in Pending
  BY HeadAndFile
<1>2. rows = file
  BY <1>1, ReplaceIsExact
<1>3. pending[m] = NoImport
  BY <1>1 DEF Discard, Idle, Pending, NoImport, ReplaceAll
<1>4. pending' = [pending EXCEPT ![m] = NoImport]
  BY <1>3 DEF Discard, GitInv, TypeOK
<1>5. /\ db' = [db EXCEPT ![m] = rows] /\ edited' = edited \ {m}
      /\ UNCHANGED <<commits, remote, heads, at, edits, moves, gone, lost>>
  BY DEF Discard
<1>6. edited' \subseteq Machines /\ edited' \ {m} = edited \ {m}
  BY <1>5 DEF GitInv, TypeOK
<1> HIDE DEF rows, file
<1>7. m \notin edited' \cup lost => rows = FileOf(HEAD(m))
  BY <1>2 DEF file
<1> QED
  BY <1>1, <1>2, <1>4, <1>5, <1>6, <1>7, DatabaseStep

LEMMA ImportStep ==
    ASSUME GitInv, NEW m \in Machines, Import(m)
    PROVE  GitInv'
<1> DEFINE file == FileOf(HEAD(m))
           rows == IF pending[m].how = "replace" THEN Replace(db[m], file)
                   ELSE MergeIn(db[m], file, FileOf(pending[m].base))
<1>1. file \in Docs /\ Resolved(file) /\ db[m] \in Docs /\ Resolved(db[m]) /\ pending[m] \in Pending
  BY HeadAndFile
<1>2. rows \in Docs /\ Resolved(rows)
  BY <1>1, ImportResolves
<1>3. /\ db' = [db EXCEPT ![m] = rows] /\ pending' = [pending EXCEPT ![m] = NoImport]
      /\ edited' = IF pending[m].how = "replace" THEN edited \ {m} ELSE edited
      /\ UNCHANGED <<commits, remote, heads, at, edits, moves, gone, lost>>
      /\ ~Idle(m)
  BY DEF Import
<1>4. edited' \subseteq Machines /\ edited' \ {m} = edited \ {m}
  BY <1>3 DEF GitInv, TypeOK
<1>5. ASSUME m \notin edited' \cup lost PROVE rows = file
  <2>1. CASE pending[m].how = "replace"
    BY <1>1, <2>1, ReplaceIsExact
  <2>2. CASE pending[m].how # "replace"
    <3>1. pending[m].how = "merge"
      BY <1>1, <1>3, <2>2 DEF Pending, NoImport, ReplaceAll, Idle
    <3>2. db[m] = FileOf(pending[m].base)
      BY <1>3, <1>5, <2>2, <3>1 DEF GitInv, SyncOf
    <3>3. rows = MergeIn(db[m], file, db[m])
      BY <2>2, <3>2
    <3> QED
      BY <1>1, <3>3, MergeInIsExact
  <2> QED
    BY <2>1, <2>2
<1> HIDE DEF rows, file
<1>6. m \notin edited' \cup lost => rows = FileOf(HEAD(m))
  BY <1>5 DEF file
<1> QED
  BY <1>2, <1>3, <1>4, <1>6, DatabaseStep

LEMMA ImportLostStep ==
    ASSUME GitInv, NEW m \in Machines, ImportLost(m)
    PROVE  GitInv'
<1>1. /\ pending' = [pending EXCEPT ![m] = NoImport] /\ lost' = lost \cup {m} /\ m \in Losers
      /\ UNCHANGED <<commits, remote, heads, at, db, edits, moves, edited, gone>>
  BY DEF ImportLost
<1>2. pending'[m] = NoImport
  BY <1>1 DEF GitInv, TypeOK
<1>3. Shared
  BY <1>1, SharedStays DEF GitInv, TypeOK
<1>4. Own(m)
  BY <1>1, <1>2, HeadAndFile DEF Own, GitInv, TypeOK, HEAD, Pending, Commit, Names
<1>5. Frame(m)
  BY <1>1 DEF Frame, GitInv, TypeOK
<1>6. SyncOf(m)'
  BY <1>1 DEF SyncOf
<1> QED
  BY <1>3, <1>4, <1>5, <1>6, StepOfOne

-----------------------------------------------------------------------------
(* Every machine starts with the shared project.                           *)
LEMMA InitHolds == ASSUME Init PROVE GitInv
<1>1. /\ Start \in Docs /\ Resolved(Start) /\ Main \in Branches /\ MaxCommits \in Nat \ {0}
      /\ MaxEdits \in Nat /\ MaxMoves \in Nat
  BY GitConstants DEF GitConstants
<1> DEFINE first == [file |-> Start, past |-> {}]
<1>2. first \in CommitType /\ first.file = Start /\ first.past = {}
  BY <1>1 DEF CommitType
<1>3. commits = <<first>>
  BY DEF Init
<1> HIDE DEF first
<1>4. /\ commits \in Seq(CommitType) /\ Len(commits) = 1 /\ commits[1] = first /\ Commit = {1}
  BY <1>2, <1>3 DEF Commit
<1>5. /\ remote \in [Branches -> Names(Commit)] /\ heads \in [Machines -> [Branches -> Names(Commit)]]
      /\ \A m \in Machines : HEAD(m) = 1
  BY <1>1, <1>4 DEF Init, Names, HEAD
<1>6. pending \in [Machines -> Pending] /\ \A m \in Machines : pending[m].how = "none"
  BY DEF Init, Pending, NoImport
<1>7. TypeOK
  BY <1>1, <1>2, <1>4, <1>5, <1>6 DEF Init, TypeOK, CommitType
<1>8. FilesResolve
  BY <1>1, <1>2, <1>4 DEF Init, FilesResolve
<1>9. ASSUME NEW m \in Machines PROVE SyncOf(m)
  BY <1>2, <1>4, <1>5, <1>6 DEF Init, SyncOf, FileOf
<1> QED
  BY <1>7, <1>8, <1>9 DEF GitInv

LEMMA GitInvHolds == Spec => []GitInv
<1>1. Init => GitInv
  BY InitHolds
<1>2. GitInv /\ [Next]_vars => GitInv'
  <2> SUFFICES ASSUME GitInv, [Next]_vars PROVE GitInv'
    OBVIOUS
  <2>1. ASSUME NEW m \in Machines, NEW r \in Rows, NEW up \in Rows \cup {Root}, Write(m, r, up)
        PROVE  GitInv'
    BY <2>1, WriteStep
  <2>2. ASSUME NEW m \in Machines, NEW r \in Rows, Delete(m, r) PROVE GitInv'
    BY <2>2, DeleteStep
  <2>3. ASSUME NEW m \in Machines, NEW only, CommitSelection(m, only) PROVE GitInv'
    BY <2>3, CommitSelectionStep
  <2>4. ASSUME NEW m \in Machines, NEW pendingToo \in BOOLEAN, Push(m, pendingToo) PROVE GitInv'
    BY <2>4, PushStep
  <2>5. ASSUME NEW m \in Machines, NEW b \in Branches, Switch(m, b) \/ CreateBranch(m, b) \/ Merge(m, b)
        PROVE  GitInv'
    BY <2>5, SwitchStep, CreateBranchStep, MergeStep
  <2>6. ASSUME NEW m \in Machines, Discard(m) \/ Pull(m) \/ Import(m) \/ ImportLost(m) PROVE GitInv'
    BY <2>6, DiscardStep, PullStep, ImportStep, ImportLostStep
  <2>7. CASE UNCHANGED vars
    <3>1. ASSUME NEW m \in Machines PROVE SyncOf(m)'
      BY <2>7 DEF vars, GitInv, SyncOf, Idle, HEAD, FileOf
    <3>2. TypeOK' /\ FilesResolve'
      BY <2>7 DEF vars, GitInv, TypeOK, FilesResolve, HEAD, Commit, Pending
    <3> QED
      BY <3>1, <3>2 DEF GitInv
  <2> QED
    BY <2>1, <2>2, <2>3, <2>4, <2>5, <2>6, <2>7 DEF Next
<1> QED
  BY <1>1, <1>2, PTL DEF Spec

(* The repositories, databases and observations keep their types, and the  *)
(* branch that is checked out has a commit.                                *)
THEOREM GitTypeCorrect == Spec => []TypeOK
<1>1. GitInv => TypeOK
  BY DEF GitInv
<1> QED
  BY <1>1, GitInvHolds, PTL

(* Every file ever committed and every database resolves, after any        *)
(* merges, selections and deletions by any number of machines.             *)
THEOREM FilesAlwaysResolve == Spec => []FilesResolve
<1>1. GitInv => FilesResolve
  BY DEF GitInv
<1> QED
  BY <1>1, GitInvHolds, PTL

(* The database of a machine that edited nothing is its HEAD's file.       *)
THEOREM DatabasesInSync == Spec => []InSync
<1>1. GitInv => InSync
  BY DEF GitInv, SyncOf, InSync
<1> QED
  BY <1>1, GitInvHolds, PTL

(* No pull loses a request that was never in a commit.                     *)
THEOREM UnpushedRowsSurvive == Spec => UnpushedRowsStay
<1> DEFINE Survive ==
             \A m \in Machines : Pulled(m) =>
                 \A r \in Present(db[m]) \ Folders :
                     (\A c \in Commit : commits[c].file[r].v = 0) =>
                         \/ db'[m][r].v = db[m][r].v
                         \/ r \in Cases /\ db'[m][db[m][r].up].v = 0
<1>1. GitInv /\ [Next]_vars => Survive
  <2> SUFFICES ASSUME GitInv, [Next]_vars, NEW m \in Machines, Pulled(m),
                      NEW r \in Present(db[m]) \ Folders, \A c \in Commit : commits[c].file[r].v = 0
               PROVE  \/ db'[m][r].v = db[m][r].v
                      \/ r \in Cases /\ db'[m][db[m][r].up].v = 0
    OBVIOUS
  <2>0. pending[m].how = "merge" /\ pending'[m] # pending[m] /\ m \notin lost'
    BY DEF Pulled, Idle
  <2>1. Import(m)
    <3>0. pending \in [Machines -> Pending] /\ pending'[m].how = "none"
      BY DEF GitInv, TypeOK, Pulled, Idle
    <3>1. ASSUME NEW n \in Machines,
                 \/ \E q \in Rows, up \in Rows \cup {Root} : Write(n, q, up)
                 \/ \E q \in Rows : Delete(n, q)
          PROVE  FALSE
      BY <2>0, <3>1 DEF Write, Delete, Edits
    <3>2. ASSUME NEW n \in Machines, (\E only : CommitSelection(n, only)) \/ Discard(n) PROVE FALSE
      BY <2>0, <3>2 DEF CommitSelection, Discard
    <3>3. ASSUME NEW n \in Machines, \E pendingToo \in BOOLEAN : Push(n, pendingToo) PROVE FALSE
      BY <2>0, <3>3 DEF Push
    <3>4. ASSUME NEW n \in Machines, \E b \in Branches : Switch(n, b) \/ Merge(n, b) PROVE FALSE
      BY <2>0, <3>0, <3>4 DEF Switch, Merge, ReplaceAll
    <3>5. ASSUME NEW n \in Machines, \E b \in Branches : CreateBranch(n, b) PROVE FALSE
      BY <2>0, <3>5 DEF CreateBranch
    <3>6. ASSUME NEW n \in Machines, Pull(n) PROVE FALSE
      BY <2>0, <3>0, <3>6 DEF Pull
    <3>7. ASSUME NEW n \in Machines, ImportLost(n) PROVE FALSE
      BY <2>0, <3>0, <3>7 DEF ImportLost
    <3>8. ASSUME NEW n \in Machines, Import(n) PROVE n = m
      BY <2>0, <3>0, <3>8 DEF Import
    <3>9. ~UNCHANGED vars
      BY <2>0 DEF vars
    <3> QED
      BY <3>1, <3>2, <3>3, <3>4, <3>5, <3>6, <3>7, <3>8, <3>9 DEF Next
  <2> DEFINE file == FileOf(HEAD(m))
             base == FileOf(pending[m].base)
  <2>2. HEAD(m) \in Commit /\ pending[m].base \in Commit /\ db[m] \in Docs
    BY <2>0, HeadAndFile DEF Pending, NoImport, ReplaceAll
  <2>3. file[r].v = 0 /\ base[r].v = 0
    BY <2>2 DEF FileOf
  <2>4. db'[m] = MergeIn(db[m], file, base)
    BY <2>0, <2>1 DEF Import, GitInv, TypeOK
  <2> HIDE DEF file, base
  <2> QED
    BY <2>2, <2>3, <2>4, UnsharedRowsSurvive
<1>2. Survive <=> \A m \in Machines : Pulled(m) =>
                   \A r \in Present(db[m]) \ Folders :
                       (\A c \in Commit : commits[c].file[r].v = 0) =>
                           \/ db'[m][r].v = db[m][r].v
                           \/ r \in Cases /\ db'[m][db[m][r].up].v = 0
  OBVIOUS
<1> QED
  BY <1>1, GitInvHolds, PTL DEF Spec, UnpushedRowsStay

-----------------------------------------------------------------------------
(* Every commit keeps what the commits before it have, and an idle         *)
(* database what the commits of its branch have - unless an import was     *)
(* lost: then what is exported next is older than the HEAD it comes after. *)
Files(list) == {list[c].file : c \in 1..Len(list)}

AllDocs == Files(commits) \cup {db[m] : m \in Machines}

ListKeeps(G, list) ==
    \A c \in 1..Len(list) : \A p \in list[c].past : Keeps(G, list[p].file, list[c].file)

HeadKept(m) == Idle(m) => \A p \in Past(HEAD(m)) : Keeps(gone, commits[p].file, db[m])

HistoryInv ==
    /\ OneProject(AllDocs, edits + 1)
    /\ lost = {} => ListKeeps(gone, commits) /\ \A m \in Machines : HeadKept(m)

LEMMA ListOfFiles ==
    ASSUME NEW list, GoodList(list)
    PROVE  /\ Len(list) \in Nat /\ Files(list) \subseteq Docs
           /\ \A c \in 1..Len(list) : /\ list[c].file \in Docs /\ list[c].file \in Files(list)
                                      /\ Resolved(list[c].file)
                                      /\ list[c].past \cup {c} \subseteq 1..Len(list)
<1>1. list \in Seq(CommitType) /\ Len(list) \in Nat
  BY DEF GoodList
<1>2. ASSUME NEW c \in 1..Len(list)
      PROVE  list[c].file \in Docs /\ Resolved(list[c].file) /\ list[c].past \cup {c} \subseteq 1..Len(list)
  <2>1. list[c] \in CommitType /\ list[c].past \subseteq 1..(c - 1) /\ Resolved(list[c].file)
    BY <1>1 DEF GoodList
  <2> QED
    BY <1>1, <2>1 DEF CommitType
<1> QED
  BY <1>1, <1>2 DEF Files

LEMMA AppendKeeps ==
    ASSUME NEW list, GoodList(list), NEW file, NEW past, past \subseteq 1..Len(list)
    PROVE  /\ Files(WithCommit(list, file, past)) \subseteq Files(list) \cup {file}
           /\ WithCommit(list, file, past)[Len(list) + 1].past = past
           /\ \A G : /\ ListKeeps(G, list)
                     /\ \A p \in past : Keeps(G, list[p].file, file)
                     => ListKeeps(G, WithCommit(list, file, past))
<1> DEFINE new == WithCommit(list, file, past)
           c == [file |-> file, past |-> past]
<1>1. list \in Seq(CommitType) /\ Len(list) \in Nat
  BY DEF GoodList
<1>2. c.file = file /\ c.past = past
  OBVIOUS
<1>3. new = Append(list, c)
  BY DEF WithCommit
<1> HIDE DEF new, c
<1>4. /\ Len(new) = Len(list) + 1 /\ new[Len(list) + 1] = c
      /\ \A k \in 1..Len(list) : new[k] = list[k]
  BY <1>1, <1>3
<1>5. \A k \in 1..Len(new) : k \in 1..Len(list) \/ k = Len(list) + 1
  BY <1>1, <1>4
<1>6. Files(new) \subseteq Files(list) \cup {file}
  BY <1>2, <1>4, <1>5 DEF Files
<1>7. ASSUME NEW G, ListKeeps(G, list), \A p \in past : Keeps(G, list[p].file, file)
      PROVE  ListKeeps(G, new)
  <2> SUFFICES ASSUME NEW k \in 1..Len(new), NEW p \in new[k].past
               PROVE  Keeps(G, new[p].file, new[k].file)
    BY DEF ListKeeps
  <2>1. CASE k \in 1..Len(list)
    <3>1. new[k] = list[k] /\ p \in 1..Len(list)
      BY <1>4, <2>1, ListOfFiles
    <3> QED
      BY <1>4, <1>7, <2>1, <3>1 DEF ListKeeps
  <2>2. CASE k = Len(list) + 1
    BY <1>2, <1>4, <1>7, <2>2
  <2> QED
    BY <1>5, <2>1, <2>2
<1> QED
  BY <1>2, <1>4, <1>6, <1>7 DEF new

(* A commit of an export that keeps what its branch has.                   *)
LEMMA CommittedKeeps ==
    ASSUME GitInv, NEW m \in Machines, NEW file \in Docs
    PROVE  /\ Files(Committed(m, file)) \subseteq Files(commits) \cup {file}
           /\ Committed(m, file)[HeadAfter(m, file)].past \cup {HeadAfter(m, file)}
                 = Past(HEAD(m)) \cup {HeadAfter(m, file)}
           /\ \A G : /\ ListKeeps(G, commits)
                     /\ \A p \in Past(HEAD(m)) : Keeps(G, commits[p].file, file)
                     => ListKeeps(G, Committed(m, file))
<1>1. GoodList(commits) /\ HEAD(m) \in 1..Len(commits) /\ HEAD(m) # 0
  BY HeadAndFile DEF Commit
<1>2. Past(HEAD(m)) = commits[HEAD(m)].past \cup {HEAD(m)}
  BY <1>1 DEF Past
<1>3. CASE file = FileOf(HEAD(m))
  BY <1>2, <1>3 DEF Committed, HeadAfter
<1>4. CASE file # FileOf(HEAD(m))
  <2>1. Past(HEAD(m)) \subseteq 1..Len(commits)
    BY <1>1, <1>2, ListOfFiles
  <2>2. Committed(m, file) = WithCommit(commits, file, Past(HEAD(m)))
    BY <1>4 DEF Committed, WithCommit
  <2>3. HeadAfter(m, file) = Len(commits) + 1
    BY <1>4 DEF HeadAfter
  <2> QED
    BY <1>1, <2>1, <2>2, <2>3, AppendKeeps
<1> QED
  BY <1>3, <1>4

(* A merge, from whichever base.                                           *)
LEMMA MergesKeep ==
    ASSUME NEW list, GoodList(list), NEW h \in 1..Len(list), NEW c \in 0..Len(list),
           NEW x \in Merges(list, h, c)
    PROVE  /\ \A d \in Files(x[1]) : Traced(d, Files(list))
           /\ \A G, now : /\ G \subseteq Rows \X Nat
                          /\ OneProject(Files(list), now)
                          /\ ListKeeps(G, list)
                          => ListKeeps(G, x[1])
<1> DEFINE past(k) == list[k].past \cup {k}
           common == past(h) \cap past(c)
           bases == {k \in common : \A y \in common : k \notin list[y].past}
           merged(d) == [file |-> MergeDocs(d, list[h].file, list[c].file),
                         past |-> past(h) \cup past(c)]
           ancestors == {list[k].file : k \in bases} \cup {EmptyDoc}
<1>1. Len(list) \in Nat
  BY DEF GoodList
<1>2. \/ x = <<list, h>>
      \/ x = <<list, c>>
      \/ c # 0 /\ \E d \in ancestors : x = <<Append(list, merged(d)), Len(list) + 1>>
  BY DEF Merges
<1>3. CASE x = <<list, h>> \/ x = <<list, c>>
  BY <1>3, TracedOne
<1>4. CASE c # 0 /\ \E d \in ancestors : x = <<Append(list, merged(d)), Len(list) + 1>>
  <2>1. PICK base \in ancestors : x = <<Append(list, merged(base)), Len(list) + 1>>
    BY <1>4
  <2>2. c \in 1..Len(list) /\ h \in 1..Len(list)
    BY <1>1, <1>4
  <2>3. past(h) \subseteq 1..Len(list) /\ past(c) \subseteq 1..Len(list)
    BY <2>2, ListOfFiles
  <2>0. base = EmptyDoc \/ \E k \in past(h) \cap past(c) : base = list[k].file
    OBVIOUS
  <2> DEFINE mine == list[h].file
             yours == list[c].file
             file == MergeDocs(base, mine, yours)
  <2>4. x[1] = WithCommit(list, file, past(h) \cup past(c))
    BY <2>1 DEF WithCommit
  <2>5. /\ base \in Docs /\ mine \in Docs /\ yours \in Docs /\ Resolved(mine) /\ Resolved(yours)
        /\ base = EmptyDoc \/ base \in Files(list)
        /\ mine \in Files(list) /\ yours \in Files(list)
    BY <2>0, <2>2, <2>3, ListOfFiles, EmptyIsDoc
  <2>6. Traced(file, Files(list))
    BY <2>5, MergeTraced
  <2>7. ASSUME NEW G, NEW now, G \subseteq Rows \X Nat, OneProject(Files(list), now), ListKeeps(G, list),
               NEW p \in past(h) \cup past(c)
        PROVE  Keeps(G, list[p].file, file)
    <3> DEFINE old == list[p].file
    <3>1. old \in Docs /\ old \in Files(list)
      BY <2>3, ListOfFiles
    <3>2. ASSUME NEW j \in 1..Len(list), NEW i \in past(j)
          PROVE  Keeps(G, list[i].file, list[j].file)
      BY <2>7, <3>2, ListOfFiles, KeepsItself DEF ListKeeps
    <3>3. Keeps(G, base, mine) /\ Keeps(G, base, yours)
      <4>1. CASE base = EmptyDoc
        BY <4>1, EmptyIsDoc DEF Keeps, Present
      <4>2. ASSUME NEW k \in past(h) \cap past(c), base = list[k].file
            PROVE  Keeps(G, base, mine) /\ Keeps(G, base, yours)
        BY <2>2, <3>2, <4>2
      <4> QED
        BY <2>0, <4>1, <4>2
    <3>4. Keeps(G, old, mine) \/ Keeps(G, old, yours)
      BY <2>2, <2>7, <3>2
    <3>5. Agree(old, base) /\ Agree(old, mine) /\ Agree(old, yours)
      <4>1. \A e \in Files(list) : Agree(old, e)
        BY <2>7, <3>1 DEF OneProject
      <4>2. Agree(old, mine) /\ Agree(old, yours)
        BY <2>5, <4>1
      <4>3. CASE base = EmptyDoc
        BY <4>2, <4>3, EmptyIsDoc DEF Agree, Rows
      <4>4. CASE base \in Files(list)
        BY <4>1, <4>2, <4>4
      <4> QED
        BY <2>5, <4>3, <4>4
    <3> HIDE DEF old, mine, yours
    <3> QED
      BY <2>5, <2>7, <3>1, <3>3, <3>4, <3>5, MergeKeeps DEF old
  <2> HIDE DEF file, past
  <2>8. Files(x[1]) \subseteq Files(list) \cup {file}
    BY <2>3, <2>4, AppendKeeps
  <2>9. \A d \in Files(x[1]) : Traced(d, Files(list))
    BY <2>6, <2>8, TracedOne
  <2>10. ASSUME NEW G, NEW now, G \subseteq Rows \X Nat, OneProject(Files(list), now), ListKeeps(G, list)
         PROVE  ListKeeps(G, x[1])
    <3>1. \A p \in past(h) \cup past(c) : Keeps(G, list[p].file, file)
      BY <2>7, <2>10
    <3> QED
      BY <2>3, <2>4, <2>10, <3>1, AppendKeeps
  <2> QED
    BY <2>9, <2>10
<1> QED
  BY <1>2, <1>3, <1>4

-----------------------------------------------------------------------------
(* A step of one machine, and what it has to show of the documents and of  *)
(* the history.                                                            *)
Others(m) ==
    \A n \in Machines \ {m} :
        heads'[n] = heads[n] /\ at'[n] = at[n] /\ db'[n] = db[n] /\ pending'[n] = pending[n]

LEMMA AllAreDocs == ASSUME GitInv PROVE AllDocs \in SUBSET Docs
<1>1. Files(commits) \subseteq Docs
  BY ListOfFiles DEF GitInv, TypeOK, FilesResolve, GoodList, CommitType, Commit
<1> QED
  BY <1>1 DEF AllDocs, GitInv, TypeOK

LEMMA SameProject ==
    ASSUME GitInv, GitInv', HistoryInv, NEW m \in Machines, Others(m), edits' \in Nat, edits' >= edits,
           \A d \in Files(commits)' : Traced(d, AllDocs), Traced(db'[m], AllDocs)
    PROVE  OneProject(AllDocs, edits + 1)'
<1>1. AllDocs \in SUBSET Docs /\ AllDocs' \in SUBSET Docs /\ edits \in Nat
  <2>0. commits' \in Seq(CommitType)
    BY DEF GitInv, TypeOK, CommitType
  <2>1. \A c \in 1..Len(commits') : commits'[c].file \in Docs
    <3>1. \A c \in 1..Len(commits') : commits'[c] \in CommitType
      BY <2>0
    <3> QED
      BY <3>1 DEF CommitType
  <2>2. Files(commits)' \subseteq Docs
    BY <2>1 DEF Files
  <2>3. \A n \in Machines : db'[n] \in Docs
    BY DEF GitInv, TypeOK
  <2> QED
    BY <2>2, <2>3, AllAreDocs DEF AllDocs, GitInv, TypeOK
<1>2. ASSUME NEW d \in AllDocs' PROVE Traced(d, AllDocs)
  <2>1. CASE d \in Files(commits)'
    BY <2>1
  <2>2. ASSUME NEW n \in Machines, d = db'[n] PROVE Traced(d, AllDocs)
    <3>1. n = m \/ db'[n] = db[n]
      BY DEF Others
    <3>2. db[n] \in AllDocs
      BY DEF AllDocs
    <3> QED
      BY <2>2, <3>1, <3>2, TracedOne
  <2> QED
    BY <2>1, <2>2 DEF AllDocs
<1>3. OneProject(AllDocs', edits + 1)
  BY <1>1, <1>2, TracedProject DEF HistoryInv
<1>4. \A d \in AllDocs', r \in Rows : d[r].v \in Nat
  BY <1>1, DocRow
<1> QED
  BY <1>1, <1>3, <1>4 DEF OneProject

LEMMA HistoryStep ==
    ASSUME GitInv, GitInv', HistoryInv, NEW m \in Machines, Others(m), Grows(commits, commits'),
           OneProject(AllDocs, edits + 1)', gone \subseteq gone', lost \subseteq lost',
           lost' = {} => ListKeeps(gone, commits)' /\ HeadKept(m)'
    PROVE  HistoryInv'
<1> SUFFICES ASSUME lost' = {}, NEW n \in Machines, n # m PROVE HeadKept(n)'
  BY DEF HistoryInv
<1>1. lost = {} /\ HeadKept(n)
  BY DEF HistoryInv
<1>2. /\ heads'[n] = heads[n] /\ at'[n] = at[n] /\ db'[n] = db[n] /\ pending'[n] = pending[n]
  BY DEF Others
<1>3. HEAD(n) \in 1..Len(commits) /\ HEAD(n) # 0 /\ GoodList(commits)
  BY HeadAndFile DEF Commit
<1>4. HEAD(n)' = HEAD(n) /\ Idle(n)' = Idle(n)
  BY <1>2 DEF HEAD, Idle
<1>5. Past(HEAD(n)) \subseteq 1..Len(commits)
  BY <1>3, ListOfFiles DEF Past
<1>6. \A p \in 1..Len(commits) : commits'[p] = commits[p]
  BY DEF Grows
<1>7. Past(HEAD(n))' = Past(HEAD(n))
  BY <1>3, <1>4, <1>6 DEF Past
<1>8. ASSUME Idle(n), NEW p \in Past(HEAD(n)) PROVE Keeps(gone', commits'[p].file, db'[n])
  <2>1. Keeps(gone, commits[p].file, db[n])
    BY <1>1, <1>8 DEF HeadKept
  <2> QED
    BY <1>2, <1>5, <1>6, <2>1, KeepsOn
<1> QED
  BY <1>4, <1>7, <1>8 DEF HeadKept

(* What is known of a machine's HEAD: all before it is kept by its file,   *)
(* and by the database if no operation is under way.                       *)
LEMMA HeadKeeps ==
    ASSUME GitInv, HistoryInv, lost = {}, NEW m \in Machines, NEW p \in Past(HEAD(m))
    PROVE  /\ Keeps(gone, commits[p].file, FileOf(HEAD(m)))
           /\ Idle(m) => Keeps(gone, commits[p].file, db[m])
           /\ commits[p].file \in Docs
<1>1. HEAD(m) \in 1..Len(commits) /\ HEAD(m) # 0 /\ GoodList(commits) /\ FileOf(HEAD(m)) \in Docs
  BY HeadAndFile DEF Commit
<1>2. p \in commits[HEAD(m)].past \/ p = HEAD(m)
  BY <1>1 DEF Past
<1>3. ListKeeps(gone, commits) /\ HeadKept(m)
  BY DEF HistoryInv
<1> QED
  BY <1>1, <1>2, <1>3, KeepsItself, ListOfFiles DEF ListKeeps, HeadKept, FileOf

(* Documents that are there.                                               *)
LEMMA InUse ==
    ASSUME GitInv, NEW m \in Machines
    PROVE  /\ db[m] \in AllDocs /\ FileOf(HEAD(m)) \in AllDocs /\ Saved(m) \in AllDocs
           /\ \A c \in Commit : commits[c].file \in AllDocs
<1>1. HEAD(m) \in Commit
  BY HeadAndFile
<1> QED
  BY <1>1 DEF AllDocs, Files, Commit, FileOf, Saved

LEMMA WriteHistory ==
    ASSUME GitInv, GitInv', HistoryInv,
           NEW m \in Machines, NEW r \in Rows, NEW up \in Rows \cup {Root}, Write(m, r, up)
    PROVE  HistoryInv'
<1>1. db[m] \in Docs /\ db \in [Machines -> Docs] /\ edits \in Nat
  BY HeadAndFile DEF GitInv, TypeOK
<1> DEFINE row == [v |-> edits + 2, up |-> up]
           d == [db[m] EXCEPT ![r] = row]
<1>2. /\ db' = [db EXCEPT ![m] = d] /\ edits' = edits + 1
      /\ UNCHANGED <<commits, remote, heads, at, pending, moves, lost, gone>>
      /\ r \in Cases /\ db[m][r].v # 0 => up = db[m][r].up
      /\ \/ db[m][r].v # 0
         \/ /\ \A x \in Machines : db[x][r].v = 0
            /\ \A c \in Commit : commits[c].file[r].v = 0
  BY DEF Write, Edits
<1>3. \A q \in Rows : d[q] = IF q = r THEN row ELSE db[m][q]
  BY <1>1 DEF Docs
<1>4. row.v = edits + 2 /\ row.up = up /\ edits + 2 \in Nat
  BY <1>1
<1>5. db'[m] = d
  BY <1>1, <1>2
<1>6. Others(m)
  BY <1>1, <1>2 DEF Others
<1> HIDE DEF d, row
<1>7. OneProject(AllDocs, edits + 1)'
  <2>1. \A e \in AllDocs' : e \in AllDocs \/ e = d
    <3>1. Files(commits)' = Files(commits)
      BY <1>2 DEF Files
    <3>2. \A n \in Machines : db'[n] = d \/ db'[n] = db[n]
      BY <1>5, <1>6 DEF Others
    <3> QED
      BY <3>1, <3>2 DEF AllDocs
  <2>2. AllDocs \in SUBSET Docs
    BY AllAreDocs
  <2>3. \A e \in AllDocs, q \in Rows : e[q].v \in Nat /\ e[q].v <= edits + 1
    BY <2>2, DocRow DEF HistoryInv, OneProject
  <2>4. db[m] \in AllDocs
    BY InUse
  <2>5. ASSUME NEW e \in AllDocs', NEW q \in Rows PROVE e[q].v <= edits' + 1
    <3>1. CASE e \in AllDocs
      BY <1>1, <1>2, <2>3, <3>1
    <3>2. CASE e = d
      BY <1>1, <1>2, <1>3, <1>4, <2>3, <2>4, <3>2
    <3> QED
      BY <2>1, <3>1, <3>2
  <2>6. ASSUME NEW e \in AllDocs PROVE Agree(d, e) /\ Agree(e, d)
    <3> SUFFICES ASSUME NEW q \in Cases, d[q].v # 0, e[q].v # 0 PROVE d[q].up = e[q].up
      BY DEF Agree
    <3>1. q \in Rows /\ Agree(db[m], e)
      BY <2>4 DEF Rows, HistoryInv, OneProject
    <3>2. CASE q # r
      BY <1>3, <3>1, <3>2 DEF Agree
    <3>3. CASE q = r
      <4>1. db[m][r].v # 0
        <5> SUFFICES ASSUME \A x \in Machines : db[x][r].v = 0,
                            \A c \in Commit : commits[c].file[r].v = 0
                     PROVE  FALSE
          BY <1>2
        <5> QED
          BY <3>3 DEF AllDocs, Files, Commit
      <4> QED
        BY <1>2, <1>3, <1>4, <3>1, <3>3, <4>1 DEF Agree
    <3> QED
      BY <3>2, <3>3
  <2>7. Agree(d, d)
    BY DEF Agree
  <2>8. \A e \in AllDocs', f \in AllDocs' : Agree(e, f)
    BY <2>1, <2>6, <2>7 DEF HistoryInv, OneProject
  <2> QED
    BY <2>5, <2>8 DEF OneProject
<1>8. ASSUME lost' = {} PROVE ListKeeps(gone, commits)' /\ HeadKept(m)'
  <2>1. lost = {} /\ ListKeeps(gone, commits)
    BY <1>2, <1>8 DEF HistoryInv
  <2>2. ASSUME Idle(m), NEW p \in Past(HEAD(m)) PROVE Keeps(gone, commits[p].file, d)
    <3>1. Keeps(gone, commits[p].file, db[m]) /\ commits[p].file \in Docs
      BY <2>1, <2>2, HeadKeeps
    <3>2. HEAD(m) \in 1..Len(commits) /\ HEAD(m) # 0 /\ GoodList(commits)
      BY HeadAndFile DEF Commit
    <3>3. p \in Commit
      BY <3>2, ListOfFiles DEF Past, Commit
    <3>4. commits[p].file[r].v <= edits + 1 /\ commits[p].file[r].v \in Nat
      BY <3>1, <3>3, InUse, DocRow DEF HistoryInv, OneProject
    <3>5. KeptBy(gone, r, commits[p].file[r], row)
      BY <1>1, <1>4, <3>4 DEF KeptBy
    <3> QED
      BY <1>3, <3>1, <3>5 DEF Keeps, Present
  <2>3. HeadKept(m)'
    BY <1>2, <1>5, <2>2 DEF HeadKept, Idle, Past, HEAD
  <2> QED
    BY <1>2, <2>1, <2>3 DEF ListKeeps
<1>9. Grows(commits, commits')
  BY <1>2 DEF Grows, GitInv, TypeOK
<1> QED
  BY <1>2, <1>6, <1>7, <1>8, <1>9, HistoryStep

LEMMA DeleteHistory ==
    ASSUME GitInv, GitInv', HistoryInv, NEW m \in Machines, NEW r \in Rows, Delete(m, r)
    PROVE  HistoryInv'
<1>1. db[m] \in Docs /\ db \in [Machines -> Docs] /\ edits \in Nat
  BY HeadAndFile DEF GitInv, TypeOK
<1> DEFINE requests == {q \in Requests : db[m][q].up \in Below(db[m], {r})}
           left == Drop(db[m], {r} \cup requests)
           deleted == Present(db[m]) \ Present(left)
<1>2. /\ db' = [db EXCEPT ![m] = left] /\ edits' = edits + 1
      /\ gone' = gone \cup {<<x, db[m][x].v>> : x \in deleted}
      /\ UNCHANGED <<commits, remote, heads, at, pending, moves, lost>>
  BY DEF Delete, Edits
<1>3. Traced(left, AllDocs)
  BY <1>1, InUse, DropTraced
<1>4. \A q \in Present(left) : q \in Present(db[m]) /\ left[q].v = db[m][q].v
  BY <1>1, DropKeepsContent
<1> HIDE DEF left
<1>5. db'[m] = left
  BY <1>1, <1>2
<1>6. Others(m)
  BY <1>1, <1>2 DEF Others
<1>7. OneProject(AllDocs, edits + 1)'
  <2>1. \A d \in Files(commits)' : Traced(d, AllDocs)
    BY <1>2, TracedOne DEF Files, AllDocs
  <2> QED
    BY <1>1, <1>2, <1>3, <1>5, <1>6, <2>1, SameProject
<1>8. ASSUME lost' = {} PROVE ListKeeps(gone, commits)' /\ HeadKept(m)'
  <2>1. lost = {} /\ ListKeeps(gone, commits)
    BY <1>2, <1>8 DEF HistoryInv
  <2>2. gone \subseteq gone'
    BY <1>2
  <2>3. ListKeeps(gone, commits)'
    BY <1>2, <2>1, <2>2, KeepsOn DEF ListKeeps
  <2>4. ASSUME Idle(m), NEW p \in Past(HEAD(m)) PROVE Keeps(gone', commits[p].file, left)
    <3>1. Keeps(gone, commits[p].file, db[m]) /\ commits[p].file \in Docs
      BY <2>1, <2>4, HeadKeeps
    <3> SUFFICES ASSUME NEW q \in Present(commits[p].file)
                 PROVE  KeptBy(gone', q, commits[p].file[q], left[q])
      BY DEF Keeps
    <3>2. q \in Rows /\ KeptBy(gone', q, commits[p].file[q], db[m][q])
      BY <2>2, <3>1, KeptOn DEF Keeps, Present
    <3>3. CASE q \in Present(left)
      BY <1>4, <3>2, <3>3 DEF KeptBy
    <3>4. CASE q \notin Present(db[m])
      BY <3>2, <3>4, KeptAbsent DEF Present
    <3>5. CASE q \in deleted
      <4>1. <<q, db[m][q].v>> \in gone' /\ db[m][q].v \in Nat /\ db[m][q].v # 0
        BY <1>1, <1>2, <3>2, <3>5, DocRow DEF Present
      <4>2. CASE db[m][q].v # 0 /\ (q \in Requests => db[m][q].v >= commits[p].file[q].v)
        <5>1. db[m][q].v >= IF q \in Requests THEN commits[p].file[q].v ELSE 0
          BY <4>1, <4>2
        <5> DEFINE g == <<q, db[m][q].v>>
        <5>2. g \in gone' /\ g[1] = q /\ g[2] = db[m][q].v
          BY <4>1
        <5> HIDE DEF g
        <5> QED
          BY <5>1, <5>2 DEF KeptBy, DeletedBy
      <4>3. CASE ~(db[m][q].v # 0 /\ (q \in Requests => db[m][q].v >= commits[p].file[q].v))
        BY <3>2, <4>3 DEF KeptBy
      <4> QED
        BY <4>2, <4>3
    <3> QED
      BY <3>3, <3>4, <3>5
  <2>5. HeadKept(m)'
    BY <1>2, <1>5, <2>4 DEF HeadKept, Idle, Past, HEAD
  <2> QED
    BY <2>3, <2>5
<1>9. Grows(commits, commits')
  BY <1>2 DEF Grows, GitInv, TypeOK
<1> QED
  BY <1>2, <1>6, <1>7, <1>8, <1>9, HistoryStep

(* A commit of rows of HEAD and of the database, pushed or not.            *)
LEMMA CommitHistory ==
    ASSUME GitInv, GitInv', HistoryInv, NEW m \in Machines, NEW file \in Docs, Resolved(file), Idle(m),
           \A r \in Rows : file[r] \in {db[m][r], FileOf(HEAD(m))[r]},
           commits' = Committed(m, file),
           heads' = [heads EXCEPT ![m][at[m]] = HeadAfter(m, file)],
           UNCHANGED <<at, db, pending, edits, gone, lost>>
    PROVE  HistoryInv'
<1>1. /\ Grows(commits, commits') /\ GoodList(commits)
      /\ HeadAfter(m, file) \in 1..Len(commits') /\ commits'[HeadAfter(m, file)].file = file
  BY CommittedGood, HeadAndFile
<1>2. /\ Files(commits)' \subseteq Files(commits) \cup {file}
      /\ commits'[HeadAfter(m, file)].past \cup {HeadAfter(m, file)} = Past(HEAD(m)) \cup {HeadAfter(m, file)}
      /\ /\ ListKeeps(gone, commits)
         /\ \A p \in Past(HEAD(m)) : Keeps(gone, commits[p].file, file)
         => ListKeeps(gone, commits')
  BY CommittedKeeps DEF Files
<1>3. /\ HEAD(m) \in 1..Len(commits) /\ HEAD(m) # 0 /\ Len(commits) \in Nat /\ at[m] \in Branches
      /\ FileOf(HEAD(m)) \in Docs
  BY <1>1, HeadAndFile DEF Commit, GoodList
<1>4. heads' = [heads EXCEPT ![m] = [heads[m] EXCEPT ![at[m]] = HeadAfter(m, file)]]
  BY DEF GitInv, TypeOK
<1> DEFINE k == HeadAfter(m, file)
<1> HIDE DEF k
<1>5. HEAD(m)' = k /\ k # 0
  <2>1. heads'[m] = [heads[m] EXCEPT ![at[m]] = k] /\ heads[m] \in [Branches -> Names(Commit)]
    BY <1>4 DEF k, GitInv, TypeOK
  <2>2. heads'[m][at[m]] = k
    BY <1>3, <2>1
  <2>3. k # 0
    BY <1>1 DEF k
  <2> QED
    BY <2>2, <2>3 DEF HEAD
<1>6. Others(m)
  <2> DEFINE own == [heads[m] EXCEPT ![at[m]] = HeadAfter(m, file)]
  <2>1. heads' = [heads EXCEPT ![m] = own] /\ heads \in [Machines -> [Branches -> Names(Commit)]]
    BY <1>4 DEF GitInv, TypeOK
  <2> HIDE DEF own
  <2> QED
    BY <2>1 DEF Others
<1>7. OneProject(AllDocs, edits + 1)'
  <2>1. Traced(file, AllDocs)
    BY InUse, MixTraced
  <2>2. \A d \in Files(commits)' : Traced(d, AllDocs)
    BY <1>2, <2>1, TracedOne DEF AllDocs
  <2>3. Traced(db'[m], AllDocs)
    BY InUse, TracedOne
  <2>4. edits' \in Nat /\ edits' >= edits
    BY DEF GitInv, TypeOK
  <2> QED
    BY <1>6, <2>2, <2>3, <2>4, SameProject
<1>8. ASSUME lost' = {} PROVE ListKeeps(gone, commits)' /\ HeadKept(m)'
  <2>1. lost = {} /\ ListKeeps(gone, commits)
    BY <1>8 DEF HistoryInv
  <2>2. ASSUME NEW p \in Past(HEAD(m))
        PROVE  Keeps(gone, commits[p].file, file) /\ Keeps(gone, commits[p].file, db[m])
    BY <2>1, HeadKeeps, MixKeeps
  <2>3. ListKeeps(gone, commits)'
    BY <1>2, <2>1, <2>2 DEF ListKeeps
  <2>4. ASSUME NEW p \in commits'[k].past \cup {k} PROVE Keeps(gone, commits'[p].file, db[m])
    <3>1. p \in Past(HEAD(m)) \/ p = k
      BY <1>2, <2>4 DEF k
    <3>2. CASE p \in Past(HEAD(m))
      <4>1. p \in 1..Len(commits)
        BY <1>1, <1>3, <3>2, ListOfFiles DEF Past
      <4> QED
        BY <1>1, <2>2, <3>2, <4>1 DEF Grows
    <3>3. CASE p = k
      <4>1. HEAD(m) \in Past(HEAD(m))
        BY <1>3 DEF Past
      <4>2. Keeps(gone, FileOf(HEAD(m)), db[m]) /\ Keeps(gone, FileOf(HEAD(m)), file)
        BY <2>2, <4>1 DEF FileOf
      <4>3. db[m] \in Docs /\ Keeps(gone, db[m], db[m])
        BY HeadAndFile, KeepsItself
      <4>4. Keeps(gone, file, db[m])
        <5> SUFFICES ASSUME NEW r \in Present(file) PROVE KeptBy(gone, r, file[r], db[m][r])
          BY DEF Keeps
        <5>1. r \in Rows /\ file[r].v # 0
          BY DEF Present
        <5> QED
          BY <4>2, <4>3, <5>1 DEF Keeps, Present
      <4> QED
        BY <1>1, <3>3, <4>4 DEF k
    <3> QED
      BY <3>1, <3>2, <3>3
  <2>5. Past(HEAD(m))' = commits'[k].past \cup {k}
    BY <1>5 DEF Past
  <2>6. HeadKept(m)'
    BY <2>4, <2>5 DEF HeadKept
  <2> QED
    BY <2>3, <2>6
<1> QED
  BY <1>1, <1>6, <1>7, <1>8, HistoryStep

LEMMA CommitSelectionHistory ==
    ASSUME GitInv, GitInv', HistoryInv, NEW m \in Machines, NEW only, CommitSelection(m, only)
    PROVE  HistoryInv'
<1> DEFINE head == FileOf(HEAD(m))
           file == Apply(head, db[m], WithRequired(only, head, db[m]))
<1>1. head \in Docs /\ Resolved(head) /\ db[m] \in Docs /\ Resolved(db[m])
  BY HeadAndFile
<1>2. file \in Docs /\ Resolved(file)
  BY <1>1, SelectionResolves
<1>3. \A r \in Rows : file[r] \in {db[m][r], head[r]}
  BY DEF Apply
<1>4. /\ Idle(m) /\ commits' = Committed(m, file)
      /\ heads' = [heads EXCEPT ![m][at[m]] = HeadAfter(m, file)]
      /\ UNCHANGED <<at, db, pending, edits, gone, lost>>
  BY DEF CommitSelection
<1> HIDE DEF file
<1> QED
  BY <1>2, <1>3, <1>4, CommitHistory

LEMMA PushHistory ==
    ASSUME GitInv, GitInv', HistoryInv, NEW m \in Machines, NEW pendingToo \in BOOLEAN, Push(m, pendingToo)
    PROVE  HistoryInv'
<1> DEFINE file == IF pendingToo THEN db[m] ELSE FileOf(HEAD(m))
<1>1. file \in Docs /\ Resolved(file) /\ \A r \in Rows : file[r] \in {db[m][r], FileOf(HEAD(m))[r]}
  BY HeadAndFile
<1>2. /\ Idle(m) /\ commits' = Committed(m, file)
      /\ heads' = [heads EXCEPT ![m][at[m]] = HeadAfter(m, file)]
      /\ UNCHANGED <<at, db, pending, edits, gone, lost>>
  BY DEF Push
<1> HIDE DEF file
<1> QED
  BY <1>1, <1>2, CommitHistory

(* The checkout changes and the import is still to come.                   *)
LEMMA CheckoutHistory ==
    ASSUME GitInv, GitInv', HistoryInv, NEW m \in Machines, Grows(commits, commits'),
           \A d \in Files(commits)' : Traced(d, AllDocs),
           lost = {} => ListKeeps(gone, commits'),
           NEW own, heads' = [heads EXCEPT ![m] = own],
           NEW branch, at' = [at EXCEPT ![m] = branch],
           NEW import, pending' = [pending EXCEPT ![m] = import], import.how # "none",
           UNCHANGED <<db, edits, gone, lost>>
    PROVE  HistoryInv'
<1>1. Others(m)
  BY DEF Others, GitInv, TypeOK
<1>2. edits' \in Nat /\ edits' >= edits /\ Traced(db'[m], AllDocs)
  BY InUse, TracedOne DEF GitInv, TypeOK
<1>3. OneProject(AllDocs, edits + 1)'
  BY <1>1, <1>2, SameProject
<1>4. HeadKept(m)'
  BY DEF HeadKept, Idle, GitInv, TypeOK
<1> QED
  BY <1>1, <1>3, <1>4, HistoryStep DEF ListKeeps

LEMMA PullHistory ==
    ASSUME GitInv, GitInv', HistoryInv, NEW m \in Machines, Pull(m)
    PROVE  HistoryInv'
<1>1. GoodList(commits) /\ HEAD(m) \in 1..Len(commits) /\ at[m] \in Branches
  BY HeadAndFile DEF Commit
<1>2. PICK x \in Merges(commits, HEAD(m), remote[at[m]]) :
         /\ commits' = x[1]
         /\ \E own : heads' = [heads EXCEPT ![m] = own]
         /\ pending' = [pending EXCEPT ![m] = [how |-> "merge", base |-> HEAD(m)]]
  BY DEF Pull
<1>3. remote[at[m]] \in 0..Len(commits)
  BY <1>1 DEF GitInv, TypeOK, Names, Commit, GoodList
<1>4. Grows(commits, commits')
  BY <1>1, <1>2, <1>3, MergesGood
<1>5. /\ \A d \in Files(commits)' : Traced(d, Files(commits))
      /\ /\ gone \subseteq Rows \X Nat /\ OneProject(Files(commits), edits + 1) /\ ListKeeps(gone, commits)
         => ListKeeps(gone, commits')
  BY <1>1, <1>2, <1>3, MergesKeep DEF Files
<1>6. gone \subseteq Rows \X Nat /\ OneProject(Files(commits), edits + 1)
  BY DEF GitInv, TypeOK, HistoryInv, OneProject, AllDocs
<1>7. \A d \in Files(commits)' : Traced(d, AllDocs)
  BY <1>5 DEF Traced, AllDocs
<1>8. lost = {} => ListKeeps(gone, commits')
  BY <1>5, <1>6 DEF HistoryInv
<1>9. at' = [at EXCEPT ![m] = at[m]] /\ UNCHANGED <<db, edits, gone, lost>>
  BY DEF Pull, GitInv, TypeOK
<1> DEFINE import == [how |-> "merge", base |-> HEAD(m)]
<1>10. import.how # "none" /\ pending' = [pending EXCEPT ![m] = import]
  BY <1>2
<1> HIDE DEF import
<1>11. PICK own : heads' = [heads EXCEPT ![m] = own]
  BY <1>2
<1> QED
  BY <1>4, <1>7, <1>8, <1>9, <1>10, <1>11, CheckoutHistory

(* What a switch or a merge records first.                                 *)
LEMMA SavedHistory ==
    ASSUME GitInv, HistoryInv, NEW m \in Machines, Idle(m)
    PROVE  /\ GoodList(Committed(m, Saved(m))) /\ Grows(commits, Committed(m, Saved(m)))
           /\ HeadAfter(m, Saved(m)) \in 1..Len(Committed(m, Saved(m)))
           /\ Files(Committed(m, Saved(m))) \subseteq AllDocs
           /\ lost = {} => ListKeeps(gone, Committed(m, Saved(m)))
<1>1. Saved(m) \in Docs /\ Resolved(Saved(m)) /\ Saved(m) \in AllDocs
  BY SavedResolves, InUse
<1>2. /\ Files(Committed(m, Saved(m))) \subseteq Files(commits) \cup {Saved(m)}
      /\ /\ ListKeeps(gone, commits)
         /\ \A p \in Past(HEAD(m)) : Keeps(gone, commits[p].file, Saved(m))
         => ListKeeps(gone, Committed(m, Saved(m)))
  BY <1>1, CommittedKeeps
<1>3. ASSUME lost = {}, NEW p \in Past(HEAD(m)) PROVE Keeps(gone, commits[p].file, Saved(m))
  BY <1>3, HeadKeeps DEF Saved
<1> QED
  BY <1>1, <1>2, <1>3, CommittedGood DEF AllDocs, HistoryInv

LEMMA SwitchHistory ==
    ASSUME GitInv, GitInv', HistoryInv, NEW m \in Machines, NEW b \in Branches, Switch(m, b)
    PROVE  HistoryInv'
<1>1. Idle(m) /\ commits' = Committed(m, Saved(m))
  BY DEF Switch
<1>2. /\ Grows(commits, commits')
      /\ lost = {} => ListKeeps(gone, commits')
      /\ Files(commits)' \subseteq AllDocs
  BY <1>1, SavedHistory DEF Files
<1>3. PICK to : heads' = [heads EXCEPT ![m][at[m]] = HeadAfter(m, Saved(m)), ![m][b] = to]
  BY DEF Switch
<1>4. heads' = [heads EXCEPT ![m] = [[heads[m] EXCEPT ![at[m]] = HeadAfter(m, Saved(m))] EXCEPT ![b] = to]]
  BY <1>3 DEF GitInv, TypeOK
<1>5. PICK own : heads' = [heads EXCEPT ![m] = own]
  BY <1>4
<1>6. /\ at' = [at EXCEPT ![m] = b] /\ pending' = [pending EXCEPT ![m] = ReplaceAll]
      /\ UNCHANGED <<db, edits, gone, lost>> /\ ReplaceAll.how # "none"
  BY DEF Switch, ReplaceAll
<1>7. \A d \in Files(commits)' : Traced(d, AllDocs)
  BY <1>2, TracedOne
<1> QED
  BY <1>2, <1>5, <1>6, <1>7, CheckoutHistory

LEMMA MergeHistory ==
    ASSUME GitInv, GitInv', HistoryInv, NEW m \in Machines, NEW b \in Branches, Merge(m, b)
    PROVE  HistoryInv'
<1> DEFINE list == Committed(m, Saved(m))
           head == HeadAfter(m, Saved(m))
           from == IF heads[m][b] # 0 THEN heads[m][b] ELSE remote[b]
<1>1. /\ GoodList(list) /\ Grows(commits, list) /\ head \in 1..Len(list) /\ GoodList(commits)
      /\ Files(list) \subseteq AllDocs
      /\ lost = {} => ListKeeps(gone, list)
  BY SavedHistory, HeadAndFile DEF Merge
<1>2. PICK x \in Merges(list, head, from) :
         commits' = x[1] /\ heads' = [heads EXCEPT ![m][at[m]] = x[2]]
  BY DEF Merge
<1>3. from \in 0..Len(list)
  <2>1. from \in Names(Commit)
    BY DEF GitInv, TypeOK
  <2> QED
    BY <1>1, <2>1 DEF Names, Commit, GoodList, Grows
<1> HIDE DEF list, head, from
<1>4. GoodList(commits') /\ Grows(list, commits')
  BY <1>1, <1>2, <1>3, MergesGood
<1>5. Grows(commits, commits')
  BY <1>1, <1>4, GrowsOn
<1>6. /\ \A d \in Files(commits)' : Traced(d, Files(list))
      /\ /\ gone \subseteq Rows \X Nat /\ OneProject(Files(list), edits + 1) /\ ListKeeps(gone, list)
         => ListKeeps(gone, commits')
  BY <1>1, <1>2, <1>3, MergesKeep DEF Files
<1>7. gone \subseteq Rows \X Nat /\ OneProject(Files(list), edits + 1)
  BY <1>1 DEF GitInv, TypeOK, HistoryInv, OneProject
<1>8. \A d \in Files(commits)' : Traced(d, AllDocs)
  BY <1>1, <1>6 DEF Traced
<1>9. lost = {} => ListKeeps(gone, commits')
  BY <1>1, <1>6, <1>7
<1>10. heads' = [heads EXCEPT ![m] = [heads[m] EXCEPT ![at[m]] = x[2]]]
  BY <1>2 DEF GitInv, TypeOK
<1>11. PICK own : heads' = [heads EXCEPT ![m] = own]
  BY <1>10
<1>12. /\ at' = [at EXCEPT ![m] = at[m]] /\ pending' = [pending EXCEPT ![m] = ReplaceAll]
       /\ UNCHANGED <<db, edits, gone, lost>> /\ ReplaceAll.how # "none"
  BY DEF Merge, ReplaceAll, GitInv, TypeOK
<1> QED
  BY <1>5, <1>8, <1>9, <1>11, <1>12, CheckoutHistory

LEMMA CreateBranchHistory ==
    ASSUME GitInv, GitInv', HistoryInv, NEW m \in Machines, NEW b \in Branches, CreateBranch(m, b)
    PROVE  HistoryInv'
<1>1. /\ heads' = [heads EXCEPT ![m] = [heads[m] EXCEPT ![b] = HEAD(m)]]
      /\ at' = [at EXCEPT ![m] = b]
      /\ UNCHANGED <<commits, db, pending, edits, gone, lost>>
  BY DEF CreateBranch
<1>2. HEAD(m)' = HEAD(m)
  <2>1. heads'[m] = [heads[m] EXCEPT ![b] = HEAD(m)] /\ at'[m] = b /\ heads[m] \in [Branches -> Names(Commit)]
    BY <1>1 DEF GitInv, TypeOK
  <2>2. heads'[m][b] = HEAD(m)
    BY <2>1
  <2> QED
    BY <2>1, <2>2 DEF HEAD
<1>3. Others(m)
  <2> DEFINE own == [heads[m] EXCEPT ![b] = HEAD(m)]
  <2>1. heads' = [heads EXCEPT ![m] = own] /\ heads \in [Machines -> [Branches -> Names(Commit)]]
    BY <1>1 DEF GitInv, TypeOK
  <2> HIDE DEF own
  <2> QED
    BY <1>1, <2>1 DEF Others, GitInv, TypeOK
<1>4. OneProject(AllDocs, edits + 1)' /\ ListKeeps(gone, commits)' = ListKeeps(gone, commits)
  BY <1>1 DEF HistoryInv, AllDocs, Files, ListKeeps
<1>5. Grows(commits, commits')
  BY <1>1 DEF Grows, GitInv, TypeOK
<1>6. lost' = {} => ListKeeps(gone, commits)' /\ HeadKept(m)'
  BY <1>1, <1>2, <1>4 DEF HistoryInv, HeadKept, Idle, Past
<1> QED
  BY <1>1, <1>3, <1>4, <1>5, <1>6, HistoryStep

(* The file of HEAD is imported.                                           *)
LEMMA DatabaseHistory ==
    ASSUME GitInv, GitInv', HistoryInv, NEW m \in Machines, NEW base, NEW rows,
           rows = Replace(db[m], FileOf(HEAD(m))) \/ rows = MergeIn(db[m], FileOf(HEAD(m)), base),
           db' = [db EXCEPT ![m] = rows],
           NEW import, pending' = [pending EXCEPT ![m] = import],
           UNCHANGED <<commits, heads, at, edits, gone, lost>>
    PROVE  HistoryInv'
<1> DEFINE file == FileOf(HEAD(m))
<1>1. file \in Docs /\ Resolved(file) /\ db[m] \in Docs /\ Resolved(db[m])
  BY HeadAndFile
<1>2. db'[m] = rows /\ Others(m)
  BY DEF Others, GitInv, TypeOK
<1>3. Traced(rows, AllDocs)
  BY <1>1, InUse, ImportTraced
<1>4. OneProject(AllDocs, edits + 1)'
  <2>1. \A d \in Files(commits)' : Traced(d, AllDocs)
    BY TracedOne DEF Files, AllDocs
  <2>2. edits' \in Nat /\ edits' >= edits
    BY DEF GitInv, TypeOK
  <2> QED
    BY <1>2, <1>3, <2>1, <2>2, SameProject
<1>5. ASSUME lost' = {} PROVE ListKeeps(gone, commits)' /\ HeadKept(m)'
  <2>1. lost = {} /\ ListKeeps(gone, commits)
    BY <1>5 DEF HistoryInv
  <2>2. ASSUME NEW p \in Past(HEAD(m)) PROVE Keeps(gone, commits[p].file, rows)
    BY <1>1, <2>1, HeadKeeps, ImportKeeps
  <2>3. HeadKept(m)'
    BY <1>2, <2>2 DEF HeadKept, Past, HEAD
  <2> QED
    BY <2>1, <2>3 DEF ListKeeps
<1>6. Grows(commits, commits')
  BY DEF Grows, GitInv, TypeOK
<1> QED
  BY <1>2, <1>4, <1>5, <1>6, HistoryStep

LEMMA ImportsHistory ==
    ASSUME GitInv, GitInv', HistoryInv, NEW m \in Machines, Discard(m) \/ Import(m)
    PROVE  HistoryInv'
<1>1. CASE Discard(m)
  <2>1. /\ db' = [db EXCEPT ![m] = Replace(db[m], FileOf(HEAD(m)))]
        /\ pending' = [pending EXCEPT ![m] = pending[m]]
        /\ UNCHANGED <<commits, heads, at, edits, gone, lost>>
    BY <1>1 DEF Discard, GitInv, TypeOK
  <2> QED
    BY <2>1, DatabaseHistory
<1>2. CASE Import(m)
  <2> DEFINE file == FileOf(HEAD(m))
             base == FileOf(pending[m].base)
             rows == IF pending[m].how = "replace" THEN Replace(db[m], file) ELSE MergeIn(db[m], file, base)
  <2>1. /\ db' = [db EXCEPT ![m] = rows] /\ pending' = [pending EXCEPT ![m] = NoImport]
        /\ UNCHANGED <<commits, heads, at, edits, gone, lost>>
    BY <1>2 DEF Import
  <2>2. rows = Replace(db[m], file) \/ rows = MergeIn(db[m], file, base)
    OBVIOUS
  <2> HIDE DEF rows, base
  <2> QED
    BY <2>1, <2>2, DatabaseHistory
<1> QED
  BY <1>1, <1>2

LEMMA ImportLostHistory ==
    ASSUME GitInv, GitInv', HistoryInv, NEW m \in Machines, ImportLost(m)
    PROVE  HistoryInv'
<1>1. /\ lost' # {}
      /\ UNCHANGED <<commits, heads, at, db, edits, gone>>
  BY DEF ImportLost
<1> QED
  BY <1>1 DEF HistoryInv, AllDocs, Files

LEMMA HistoryBegins == ASSUME Init, GitInv PROVE HistoryInv
<1>1. Start \in Docs /\ edits = 0 /\ \A r \in Rows : Start[r].v <= 1
  BY GitConstants DEF Init, GitConstants
<1> DEFINE first == [file |-> Start, past |-> {}]
<1>2. first.file = Start /\ first.past = {}
  OBVIOUS
<1>3. commits = <<first>>
  BY DEF Init
<1> HIDE DEF first
<1>4. Len(commits) = 1 /\ commits[1] = first
  BY <1>3
<1>5. \A m \in Machines : HEAD(m) = 1 /\ db[m] = Start
  BY GitConstants DEF Init, HEAD, GitConstants
<1>6. AllDocs \subseteq {Start}
  BY <1>2, <1>4, <1>5 DEF AllDocs, Files
<1>7. OneProject(AllDocs, edits + 1)
  BY <1>1, <1>6 DEF OneProject, Agree
<1>8. ListKeeps(gone, commits)
  BY <1>2, <1>4 DEF ListKeeps
<1>9. ASSUME NEW m \in Machines PROVE HeadKept(m)
  BY <1>1, <1>2, <1>4, <1>5, KeepsItself DEF HeadKept, Past
<1> QED
  BY <1>7, <1>8, <1>9 DEF HistoryInv

LEMMA HistoryHolds == Spec => [](GitInv /\ HistoryInv)
<1>1. Init => GitInv /\ HistoryInv
  BY InitHolds, HistoryBegins
<1>2. GitInv /\ GitInv' /\ HistoryInv /\ [Next]_vars => HistoryInv'
  <2> SUFFICES ASSUME GitInv, GitInv', HistoryInv, [Next]_vars PROVE HistoryInv'
    OBVIOUS
  <2>1. ASSUME NEW m \in Machines, NEW r \in Rows, NEW up \in Rows \cup {Root}, Write(m, r, up)
        PROVE  HistoryInv'
    BY <2>1, WriteHistory
  <2>2. ASSUME NEW m \in Machines, NEW r \in Rows, Delete(m, r) PROVE HistoryInv'
    BY <2>2, DeleteHistory
  <2>3. ASSUME NEW m \in Machines, NEW only, CommitSelection(m, only) PROVE HistoryInv'
    BY <2>3, CommitSelectionHistory
  <2>4. ASSUME NEW m \in Machines, NEW pendingToo \in BOOLEAN, Push(m, pendingToo) PROVE HistoryInv'
    BY <2>4, PushHistory
  <2>5. ASSUME NEW m \in Machines, NEW b \in Branches, Switch(m, b) \/ CreateBranch(m, b) \/ Merge(m, b)
        PROVE  HistoryInv'
    BY <2>5, SwitchHistory, CreateBranchHistory, MergeHistory
  <2>6. ASSUME NEW m \in Machines, Discard(m) \/ Pull(m) \/ Import(m) \/ ImportLost(m)
        PROVE  HistoryInv'
    BY <2>6, ImportsHistory, PullHistory, ImportLostHistory
  <2>7. CASE UNCHANGED vars
    BY <2>7 DEF vars, HistoryInv, AllDocs, Files, ListKeeps, HeadKept, Idle, Past, HEAD
  <2> QED
    BY <2>1, <2>2, <2>3, <2>4, <2>5, <2>6, <2>7 DEF Next
<1> QED
  BY <1>1, <1>2, GitInvHolds, PTL DEF Spec

(* Only a push and a new branch change the remote, each to a commit that   *)
(* comes after the one that was there.                                     *)
LEMMA RemoteMovesOn ==
    ASSUME GitInv, HistoryInv, NEW m \in Machines, remote' # remote,
           (\E pendingToo \in BOOLEAN : Push(m, pendingToo)) \/ (\E b \in Branches : CreateBranch(m, b)),
           GitInv', HistoryInv', NEW x \in Branches, remote[x] # 0
    PROVE  /\ Grows(commits, commits') /\ lost' = lost /\ gone' = gone
           /\ remote[x] \in 1..Len(commits) /\ remote'[x] \in 1..Len(commits')
           /\ remote'[x] = remote[x] \/ remote[x] \in commits'[remote'[x]].past
<1>1. /\ GoodList(commits) /\ Len(commits) \in Nat /\ HEAD(m) \in 1..Len(commits) /\ HEAD(m) # 0
      /\ at[m] \in Branches /\ remote[x] \in 1..Len(commits)
      /\ remote \in [Branches -> Names(Commit)]
  BY HeadAndFile DEF GoodList, Commit, GitInv, TypeOK, Names
<1>2. Past(HEAD(m)) = commits[HEAD(m)].past \cup {HEAD(m)}
  BY <1>1 DEF Past
<1>3. ASSUME NEW pendingToo \in BOOLEAN, Push(m, pendingToo)
      PROVE  /\ Grows(commits, commits') /\ lost' = lost /\ gone' = gone
             /\ remote'[x] \in 1..Len(commits')
             /\ remote'[x] = remote[x] \/ remote[x] \in commits'[remote'[x]].past
  <2> DEFINE file == IF pendingToo THEN db[m] ELSE FileOf(HEAD(m))
             head == HeadAfter(m, file)
  <2>1. file \in Docs /\ Resolved(file)
    BY HeadAndFile
  <2>2. /\ commits' = Committed(m, file) /\ lost' = lost /\ gone' = gone
        /\ remote[at[m]] \in Past(HEAD(m)) \cup {head} \cup {0}
        /\ remote' = [remote EXCEPT ![at[m]] = head]
    BY <1>3 DEF Push
  <2> HIDE DEF file
  <2>3. /\ Grows(commits, commits') /\ head \in 1..Len(commits')
        /\ commits'[head].past \cup {head} = Past(HEAD(m)) \cup {head}
    BY <2>1, <2>2, CommittedGood, CommittedKeeps
  <2> HIDE DEF head
  <2>4. CASE x = at[m]
    BY <1>1, <2>2, <2>3, <2>4
  <2>5. CASE x # at[m]
    BY <1>1, <2>2, <2>3, <2>5 DEF Grows
  <2> QED
    BY <2>2, <2>3, <2>4, <2>5
<1>4. ASSUME NEW b \in Branches, CreateBranch(m, b)
      PROVE  /\ Grows(commits, commits') /\ lost' = lost /\ gone' = gone
             /\ remote'[x] \in 1..Len(commits')
             /\ remote'[x] = remote[x] \/ remote[x] \in commits'[remote'[x]].past
  <2>1. /\ commits' = commits /\ lost' = lost /\ gone' = gone
        /\ remote[b] \in Past(HEAD(m)) \cup {0}
        /\ remote' = [remote EXCEPT ![b] = HEAD(m)]
    BY <1>4 DEF CreateBranch
  <2>2. Grows(commits, commits')
    BY <1>1, <2>1 DEF Grows
  <2> QED
    BY <1>1, <1>2, <2>1, <2>2
<1> QED
  BY <1>1, <1>3, <1>4

(* What is pushed is kept: the file that replaces another on the remote    *)
(* has every row of it, a request with an edit that is no older, unless a  *)
(* user deleted the row or, of a case, the request.                        *)
THEOREM PushedWorkIsKept == Spec => PushedWorkStays
<1> DEFINE Stays ==
             (lost = {} /\ remote' # remote) =>
                 \A b \in Branches : remote[b] # 0 =>
                     LET old == FileOf(remote[b])
                         new == commits'[remote'[b]].file
                     IN  \A r \in Present(old) : Kept(r, old[r], new[r])
<1>1. GitInv /\ HistoryInv /\ GitInv' /\ HistoryInv' /\ [Next]_vars => Stays
  <2> SUFFICES ASSUME GitInv, HistoryInv, GitInv', HistoryInv', [Next]_vars, lost = {}, remote' # remote,
                      NEW b \in Branches, remote[b] # 0,
                      NEW r \in Present(commits[remote[b]].file)
               PROVE  Kept(r, commits[remote[b]].file[r], commits'[remote'[b]].file[r])
    BY DEF FileOf
  <2>1. PICK m \in Machines : (\E pendingToo \in BOOLEAN : Push(m, pendingToo))
                              \/ (\E c \in Branches : CreateBranch(m, c))
    <3>1. \A m \in Machines :
             /\ \A q \in Rows, up \in Rows \cup {Root} : ~Write(m, q, up)
             /\ \A q \in Rows : ~Delete(m, q)
             /\ \A only : ~CommitSelection(m, only)
             /\ \A c \in Branches : ~Switch(m, c) /\ ~Merge(m, c)
             /\ ~Discard(m) /\ ~Pull(m) /\ ~Import(m) /\ ~ImportLost(m)
      BY DEF Write, Delete, Edits, CommitSelection, Switch, Merge, Discard, Pull, Import, ImportLost
    <3>2. ~UNCHANGED vars
      BY DEF vars
    <3> QED
      BY <3>1, <3>2 DEF Next
  <2>2. /\ Grows(commits, commits') /\ lost' = lost /\ gone' = gone
        /\ remote[b] \in 1..Len(commits) /\ remote'[b] \in 1..Len(commits')
        /\ remote'[b] = remote[b] \/ remote[b] \in commits'[remote'[b]].past
    BY <2>1, RemoteMovesOn
  <2>3. commits'[remote[b]] = commits[remote[b]] /\ commits[remote[b]].file \in Docs
    BY <2>2, ListOfFiles DEF Grows, GitInv, TypeOK, FilesResolve, GoodList, CommitType, Commit
  <2>4. CASE remote'[b] = remote[b]
    <3>1. Keeps(gone, commits[remote[b]].file, commits'[remote'[b]].file)
      BY <2>3, <2>4, KeepsItself
    <3> QED
      BY <3>1 DEF Keeps, KeptBy, Kept, DeletedBy, Deleted
  <2>5. CASE remote[b] \in commits'[remote'[b]].past
    <3>1. ListKeeps(gone', commits')
      BY <2>2 DEF HistoryInv, ListKeeps
    <3>2. Keeps(gone, commits[remote[b]].file, commits'[remote'[b]].file)
      BY <2>2, <2>3, <2>5, <3>1 DEF ListKeeps
    <3> QED
      BY <3>2 DEF Keeps, KeptBy, Kept, DeletedBy, Deleted
  <2> QED
    BY <2>2, <2>4, <2>5
<1>2. Stays <=> ((lost = {} /\ remote' # remote) =>
                    \A b \in Branches : remote[b] # 0 =>
                        LET old == FileOf(remote[b])
                            new == commits'[remote'[b]].file
                        IN  \A r \in Present(old) : Kept(r, old[r], new[r]))
  OBVIOUS
<1> QED
  BY <1>1, HistoryHolds, PTL DEF Spec, PushedWorkStays

=============================================================================
