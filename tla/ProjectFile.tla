----------------------------- MODULE ProjectFile -----------------------------
(***************************************************************************)
(* The project file and what is done with it, row by row: the three-way    *)
(* merge (main/lib/project-merge.ts), the changes a commit may select      *)
(* (main/lib/project-changes.ts) and the import into the database          *)
(* (main/ipc/save.handler.ts, writeProjectRows).                           *)
(*                                                                         *)
(* A document gives every row its content and the row it belongs to: a     *)
(* folder or a request (endpoint) to a folder or to the root, a case to    *)
(* its request.  The content of a row is the time of its last edit.        *)
(***************************************************************************)
EXTENDS Integers

CONSTANTS Folders, Requests, Cases, Root

Rows == Folders \cup Requests \cup Cases

ASSUME RowKinds ==
    /\ Root \notin Rows
    /\ Folders \cap Requests = {} /\ Folders \cap Cases = {} /\ Requests \cap Cases = {}

Absent == [v |-> 0, up |-> Root]
Row == [v : Nat, up : Rows \cup {Root}]

(* Where a row of the database may be: the columns parent_id, folder_id    *)
(* and endpoint_id.                                                        *)
Parents(r) == IF r \in Cases THEN Requests ELSE Folders \cup {Root}

Docs ==
    {d \in [Rows -> Row] :
        \A r \in Rows : IF d[r].v = 0 THEN d[r] = Absent ELSE d[r].up \in Parents(r)}

EmptyDoc == [r \in Rows |-> Absent]

Present(d) == {r \in Rows : d[r].v # 0}

(* Every row belongs to a row that is there: what the foreign keys demand. *)
Resolved(d) == \A r \in Present(d) : d[r].up \in Present(d) \cup {Root}

-----------------------------------------------------------------------------
(* project-merge.ts *)

(* Only requests carry an updated_at; it is 0 for the others.              *)
UpdatedAt(r, row) == IF r \in Requests THEN row.v ELSE 0

(* Mutant: a deletion wins over a change.                                  *)
Pick_DeletionWins(base, mine, yours, r) ==
    IF mine[r] = yours[r] \/ yours[r] = base[r] THEN mine[r]
    ELSE IF mine[r] = base[r] THEN yours[r]
    ELSE IF mine[r] = Absent \/ yours[r] = Absent THEN Absent
    ELSE IF UpdatedAt(r, yours[r]) > UpdatedAt(r, mine[r]) THEN yours[r] ELSE mine[r]

(* pick(): the side that changed the row; when both did, a change wins     *)
(* over a deletion and the newer change over the older.                    *)
Pick(base, mine, yours, r) ==
    IF mine[r] = yours[r] \/ yours[r] = base[r] THEN mine[r]
    ELSE IF mine[r] = base[r] \/ mine[r] = Absent THEN yours[r]
    ELSE IF yours[r] = Absent THEN mine[r]
    ELSE IF UpdatedAt(r, yours[r]) > UpdatedAt(r, mine[r]) THEN yours[r] ELSE mine[r]

(* repairReferences(): what lost its folder goes to the root, a case that  *)
(* lost its request goes.                                                  *)
Repair(d) ==
    [r \in Rows |->
        IF d[r].v = 0 \/ d[r].up \in Present(d) THEN d[r]
        ELSE IF r \in Cases THEN Absent
        ELSE [d[r] EXCEPT !.up = Root]]

MergeDocs(base, mine, yours) == Repair([r \in Rows |-> Pick(base, mine, yours, r)])

-----------------------------------------------------------------------------
(* project-changes.ts *)

Changed(head, live) == {r \in Rows : head[r] # live[r]}

(* linkRequirements(): a row needs the new row it belongs to, a deletion   *)
(* needs the changes of what belonged to the row.                          *)
Requires(head, live, r) ==
    {t \in Changed(head, live) :
        \/ live[r].v # 0 /\ live[r].up = t /\ head[t].v = 0
        \/ live[r].v = 0 /\ head[t].v # 0 /\ head[t].up = r}

(* withRequiredChanges(): the least selection that has what it requires.   *)
WithRequired(only, head, live) ==
    LET Closed(S) == \A r \in S : Requires(head, live, r) \subseteq S
    IN  {r \in Changed(head, live) :
            \A S \in SUBSET Changed(head, live) :
                (only \cap Changed(head, live) \subseteq S /\ Closed(S)) => r \in S}

(* applySelectedChanges() *)
Apply(head, live, chosen) == [r \in Rows |-> IF r \in chosen THEN live[r] ELSE head[r]]

-----------------------------------------------------------------------------
(* save.handler.ts, and the keys of the tables *)

(* The folders that go with the folders of a set: ON DELETE CASCADE.       *)
Below(d, gone) ==
    {f \in Folders :
        \A S \in SUBSET Folders :
            (gone \cap Folders \subseteq S /\ \A g \in Folders : d[g].v # 0 /\ d[g].up \in S => g \in S)
                => f \in S}

(* DELETE: folders and cases go with what they belong to, requests move to *)
(* the root (ON DELETE SET NULL).                                          *)
Drop(d, gone) ==
    LET folders == Below(d, gone)
        requests == gone \cap Requests
    IN  [r \in Rows |->
            IF r \in gone \cup folders \/ d[r].up \in requests THEN Absent
            ELSE IF d[r].v # 0 /\ d[r].up \in folders THEN [d[r] EXCEPT !.up = Root]
            ELSE d[r]]

Upsert(db, file) == [r \in Rows |-> IF file[r].v # 0 THEN file[r] ELSE db[r]]

(* pruneRowsMissingFromFile(): every row the file does not have, or, with  *)
(* the file as it was before, only those that file had.                    *)
Replace(db, file) == Drop(Upsert(db, file), Rows \ Present(file))

(* Mutant: what the file had before is not looked at.                      *)
MergeIn_Always(db, file, base) == Replace(db, file)

MergeIn(db, file, base) == Drop(Upsert(db, file), Present(base) \ Present(file))

(* The folders that belong to themselves, over others.                     *)
Looped(d) ==
    {f \in Folders :
        /\ d[f].v # 0
        /\ \A S \in SUBSET Folders :
              (d[f].up \in S /\ \A g \in S : d[g].up \in Folders => d[g].up \in S) => f \in S
        /\ d[f].up # Root}

(* parentsFirst() finds no order for a loop: a folder of one that the      *)
(* database does not have yet may break the key.                           *)
Imports(db, file) == Looped(file) \subseteq Present(db)

=============================================================================
