------------------------------- MODULE GitSync -------------------------------
(***************************************************************************)
(* A project shared over a git repository (main/ipc/git.handler.ts): on    *)
(* every machine the rows of a project in the database, the branches of    *)
(* the checkout, and one remote.  What git commits is the export of the    *)
(* database, and what it checks out, merges or pulls is imported.          *)
(*                                                                         *)
(* A git operation is two steps, what happens in the checkout and then the *)
(* import; the user edits in between, and the app may end in between.      *)
(* Both sides of a merge carry another exportedAt, so git never merges the *)
(* text of a project file: it conflicts and is merged by row.              *)
(***************************************************************************)
EXTENDS ProjectFile, Sequences, FiniteSets

CONSTANTS
    Machines,
    Branches, Main,     \* names of branches, and the configured one
    Branchers,          \* bound: machines whose user works with branches
    Start,              \* the project as it was shared first
    MaxEdits,           \* bound: edits of rows
    MaxCommits,         \* bound: commits
    MaxMoves,           \* bound: operations on branches
    Losers              \* bound: machines that lose an import, once

ASSUME GitConstants ==
    /\ Main \in Branches /\ MaxEdits \in Nat
    /\ Start \in Docs /\ Resolved(Start)
    /\ \A r \in Rows : Start[r].v <= 1       \* older than every edit
    /\ MaxCommits \in Nat \ {0} /\ MaxMoves \in Nat /\ Branchers \cup Losers \subseteq Machines

VARIABLES
    commits,    \* what was committed: the file, and the commits before it
    remote,     \* [Branches -> commit, or 0]
    heads,      \* [Machines -> [Branches -> commit, or 0]], the local branches
    at,         \* [Machines -> the branch checked out]
    db,         \* [Machines -> the rows of the project]
    pending,    \* [Machines -> the import an operation has still to do]
    edits, moves,
    \* (observed only)
    edited,     \* machines with an edit since the database and HEAD agreed
    gone,       \* <<row, time>> of what users deleted
    lost        \* machines that lost an import

vars == <<commits, remote, heads, at, db, pending, edits, moves, edited, gone, lost>>

Commit == 1..Len(commits)
Past(c) == IF c = 0 THEN {} ELSE commits[c].past \cup {c}
FileOf(c) == commits[c].file
HEAD(m) == heads[m][at[m]]

NoImport == [how |-> "none", base |-> 0]
ReplaceAll == [how |-> "replace", base |-> 0]

Init ==
    /\ commits = <<[file |-> Start, past |-> {}]>>
    /\ remote = [b \in Branches |-> 1]
    /\ heads = [m \in Machines |-> [b \in Branches |-> IF b = Main THEN 1 ELSE 0]]
    /\ at = [m \in Machines |-> Main]
    /\ db = [m \in Machines |-> Start]
    /\ pending = [m \in Machines |-> NoImport]
    /\ edits = 0 /\ moves = 0
    /\ edited = {} /\ gone = {} /\ lost = {}

-----------------------------------------------------------------------------
(* The user edits rows, with the keys of the tables.                       *)

Edits ==
    /\ edits < MaxEdits /\ edits' = edits + 1
    /\ UNCHANGED <<commits, remote, heads, at, pending, moves, lost>>

Write(m, r, up) ==
    /\ Edits
    /\ \/ db[m][r].v # 0
       \/ /\ \A x \in Machines : db[x][r].v = 0       \* a new row has a new id
          /\ \A c \in Commit : commits[c].file[r].v = 0
          /\ \A g \in gone : g[1] # r
    /\ up \in Parents(r) /\ up \in Present(db[m]) \cup {Root}
    /\ r \in Folders => up # r /\ up \notin Below(db[m], {r})
    /\ r \in Cases /\ db[m][r].v # 0 => up = db[m][r].up     \* a case stays with its request
    /\ db' = [db EXCEPT ![m][r] = [v |-> edits + 2, up |-> up]]
    /\ edited' = edited \cup {m}
    /\ UNCHANGED gone

(* deleteFolder() takes the requests of its folders along.                 *)
Delete(m, r) ==
    /\ Edits
    /\ r \in Present(db[m])
    /\ LET folders == Below(db[m], {r})
           requests == {q \in Requests : db[m][q].up \in folders}
           left == Drop(db[m], {r} \cup requests)
           deleted == Present(db[m]) \ Present(left)
       IN  /\ db' = [db EXCEPT ![m] = left]
           /\ gone' = gone \cup {<<x, db[m][x].v>> : x \in deleted}
           /\ edited' = edited \cup {m}

-----------------------------------------------------------------------------
(* A commit of the export, when it differs from HEAD: syncWorkingTreeFrom- *)
(* Db() and commit.  The new commits and the branch they are on:           *)

Committed(m, file) ==
    IF file = FileOf(HEAD(m)) THEN commits
    ELSE Append(commits, [file |-> file, past |-> Past(HEAD(m))])

HeadAfter(m, file) == IF file = FileOf(HEAD(m)) THEN HEAD(m) ELSE Len(commits) + 1

Bounded == Len(commits') <= MaxCommits

Idle(m) == pending[m].how = "none"

(* Mutant: what the selected changes require is left out.                  *)
CommitSelection_AsAsked(m, only) ==
    LET file == Apply(FileOf(HEAD(m)), db[m], only \cap Changed(FileOf(HEAD(m)), db[m]))
    IN  /\ Idle(m)
        /\ commits' = Committed(m, file) /\ Bounded
        /\ heads' = [heads EXCEPT ![m][at[m]] = HeadAfter(m, file)]
        /\ edited' = IF file = db[m] THEN edited \ {m} ELSE edited
        /\ UNCHANGED <<remote, at, db, pending, edits, moves, gone, lost>>

(* git:commit of some changes, with what they require; git:commit of all.  *)
CommitSelection(m, only) ==
    LET head == FileOf(HEAD(m))
        chosen == WithRequired(only, head, db[m])
        file == Apply(head, db[m], chosen)
    IN  /\ Idle(m)
        /\ commits' = Committed(m, file) /\ Bounded
        /\ heads' = [heads EXCEPT ![m][at[m]] = HeadAfter(m, file)]
        /\ edited' = IF file = db[m] THEN edited \ {m} ELSE edited
        /\ UNCHANGED <<remote, at, db, pending, edits, moves, gone, lost>>

(* git:push commits everything, or nothing, and is rejected when the       *)
(* remote moved on; a network that fails looks the same.                   *)
Push(m, pendingToo) ==
    LET file == IF pendingToo THEN db[m] ELSE FileOf(HEAD(m))
        head == HeadAfter(m, file)
        past == Past(HEAD(m)) \cup {head}
    IN  /\ Idle(m)
        /\ commits' = Committed(m, file) /\ Bounded
        /\ heads' = [heads EXCEPT ![m][at[m]] = head]
        /\ edited' = IF file = db[m] THEN edited \ {m} ELSE edited
        /\ \/ remote[at[m]] \in past \cup {0} /\ remote' = [remote EXCEPT ![at[m]] = head]
           \/ UNCHANGED remote
        /\ UNCHANGED <<at, db, pending, edits, moves, gone, lost>>

(* git:discard: HEAD's file is imported as the whole project.              *)
Discard(m) ==
    /\ Idle(m) /\ Imports(db[m], FileOf(HEAD(m)))
    /\ db' = [db EXCEPT ![m] = Replace(db[m], FileOf(HEAD(m)))]
    /\ edited' = edited \ {m}
    /\ UNCHANGED <<commits, remote, heads, at, pending, edits, moves, gone, lost>>

-----------------------------------------------------------------------------
(* `git merge` of a commit into a branch.                                  *)

(* What merging commit c, of the list before, into commit h of the list    *)
(* can leave: the list and the new head.  The base is the best common      *)
(* ancestor.  Of several, after a criss-cross, git merges a base that is   *)
(* no project file, which counts as none.                                  *)
Merges(list, h, c) ==
    LET past(x) == list[x].past \cup {x}
        common == past(h) \cap past(c)
        bases == {x \in common : \A y \in common : x \notin list[y].past}
        ancestors == IF \A x, y \in bases : x = y THEN {list[x].file : x \in bases} ELSE {EmptyDoc}
        merged(base) ==
            [file |-> MergeDocs(base, list[h].file, list[c].file), past |-> past(h) \cup past(c)]
    IN  IF c = 0 \/ c \in past(h) THEN {<<list, h>>}
        ELSE IF h \in past(c) THEN {<<list, c>>}
        ELSE {<<Append(list, merged(base)), Len(list) + 1>> : base \in ancestors}

(* Mutant: the base is read after the pull.                                *)
Pull_BaseAfter(m) ==
    LET r == remote[at[m]]
    IN  /\ Idle(m)
        /\ \E x \in Merges(commits, HEAD(m), r) :
              /\ commits' = x[1] /\ Bounded
              /\ heads' = [heads EXCEPT ![m][at[m]] = x[2]]
              /\ pending' = [pending EXCEPT ![m] = [how |-> "merge", base |-> x[2]]]
        /\ UNCHANGED <<remote, at, db, edits, moves, edited, gone, lost>>

(* git:pull: the database is not exported; the file HEAD had is the base   *)
(* of the import.  The other branches that can be are fast-forwarded, if   *)
(* the network is still there.                                             *)
Pull(m) ==
    /\ Idle(m)
    /\ \E x \in Merges(commits, HEAD(m), remote[at[m]]), online \in BOOLEAN :
          /\ commits' = x[1] /\ Bounded
          /\ heads' = [heads EXCEPT ![m] = [b \in Branches |->
                IF b = at[m] THEN x[2]
                ELSE IF online /\ heads[m][b] # 0 /\ heads[m][b] \in Past(remote[b]) THEN remote[b]
                ELSE heads[m][b]]]
          /\ pending' = [pending EXCEPT ![m] = [how |-> "merge", base |-> HEAD(m)]]
    /\ UNCHANGED <<remote, at, db, edits, moves, edited, gone, lost>>

(* Switch and merge record the database first: autoCommit(), not for an    *)
(* empty project.                                                          *)
Saved(m) == IF db[m] = EmptyDoc THEN FileOf(HEAD(m)) ELSE db[m]

(* Operations on branches.                                                 *)
Moves == moves < MaxMoves /\ moves' = moves + 1

(* git:switchBranch: a remote branch gets a local one, and a fast-forward  *)
(* is taken along when the network is there.                               *)
Switch(m, b) ==
    /\ Moves /\ Idle(m) /\ b # at[m]
    /\ LET there == IF heads[m][b] # 0 THEN heads[m][b] ELSE remote[b]
       IN  /\ there # 0
           /\ commits' = Committed(m, Saved(m)) /\ Bounded
           /\ \E to \in {there} \cup (IF there \in Past(remote[b]) THEN {remote[b]} ELSE {}) :
                 heads' = [heads EXCEPT ![m][at[m]] = HeadAfter(m, Saved(m)), ![m][b] = to]
    /\ at' = [at EXCEPT ![m] = b]
    /\ pending' = [pending EXCEPT ![m] = ReplaceAll]
    /\ edited' = edited \ {m}
    /\ UNCHANGED <<remote, db, edits, gone, lost>>

(* git:createBranch: from HEAD, the database stays; pushed if that works.  *)
CreateBranch(m, b) ==
    /\ Moves /\ Idle(m) /\ heads[m][b] = 0
    /\ heads' = [heads EXCEPT ![m][b] = HEAD(m)]
    /\ at' = [at EXCEPT ![m] = b]
    /\ \/ remote[b] \in Past(HEAD(m)) \cup {0} /\ remote' = [remote EXCEPT ![b] = HEAD(m)]
       \/ UNCHANGED remote
    /\ UNCHANGED <<commits, db, pending, edits, edited, gone, lost>>

(* git:merge of another branch, local or, without one, of the remote.      *)
Merge(m, b) ==
    LET list == Committed(m, Saved(m))
        head == HeadAfter(m, Saved(m))
        from == IF heads[m][b] # 0 THEN heads[m][b] ELSE remote[b]
    IN  /\ Moves /\ Idle(m) /\ b # at[m] /\ from # 0
        /\ \E x \in Merges(list, head, from) :
              /\ commits' = x[1] /\ Bounded
              /\ heads' = [heads EXCEPT ![m][at[m]] = x[2]]
        /\ pending' = [pending EXCEPT ![m] = ReplaceAll]
        /\ edited' = edited \ {m}
        /\ UNCHANGED <<remote, at, db, edits, gone, lost>>

-----------------------------------------------------------------------------
(* reimportProjectFromDir(), one transaction.                              *)
Import(m) ==
    LET file == FileOf(HEAD(m))
        rows == IF pending[m].how = "replace" THEN Replace(db[m], file)
                ELSE MergeIn(db[m], file, FileOf(pending[m].base))
    IN  /\ ~Idle(m) /\ Imports(db[m], file)
        /\ db' = [db EXCEPT ![m] = rows]
        /\ pending' = [pending EXCEPT ![m] = NoImport]
        /\ edited' = IF pending[m].how = "replace" THEN edited \ {m} ELSE edited
        /\ UNCHANGED <<commits, remote, heads, at, edits, moves, gone, lost>>

(* The import fails, or the app ends before it: nothing does it later.     *)
ImportLost(m) ==
    /\ ~Idle(m) /\ m \in Losers \ lost
    /\ pending' = [pending EXCEPT ![m] = NoImport]
    /\ lost' = lost \cup {m}
    /\ UNCHANGED <<commits, remote, heads, at, db, edits, moves, edited, gone>>

Next ==
    \E m \in Machines :
        \/ \E r \in Rows, up \in Rows \cup {Root} : Write(m, r, up)
        \/ \E r \in Rows : Delete(m, r)
        \/ \E only \in SUBSET Changed(FileOf(HEAD(m)), db[m]) : CommitSelection(m, only)
        \/ \E pendingToo \in BOOLEAN : Push(m, pendingToo)
        \/ m \in Branchers /\ \E b \in Branches : Switch(m, b) \/ CreateBranch(m, b) \/ Merge(m, b)
        \/ Discard(m) \/ Pull(m) \/ Import(m) \/ ImportLost(m)

Spec == Init /\ [][Next]_vars

-----------------------------------------------------------------------------
Names(S) == S \cup {0}
Pending ==
    {NoImport, ReplaceAll} \cup [how : {"merge"}, base : Commit]

(* The repositories, databases and observations keep their types; a branch *)
(* that is checked out has a commit.                                       *)
TypeOK ==
    /\ commits \in Seq([file : Docs, past : SUBSET Nat]) /\ Len(commits) \in 1..MaxCommits
    /\ \A c \in Commit : commits[c].past \subseteq 1..(c - 1)
    /\ remote \in [Branches -> Names(Commit)] /\ heads \in [Machines -> [Branches -> Names(Commit)]]
    /\ at \in [Machines -> Branches] /\ \A m \in Machines : HEAD(m) # 0
    /\ db \in [Machines -> Docs] /\ pending \in [Machines -> Pending]
    /\ edits \in 0..MaxEdits /\ moves \in 0..MaxMoves /\ edited \subseteq Machines
    /\ gone \subseteq Rows \X Nat /\ lost \subseteq Losers

(* Whatever is committed - all, a selection or a merge - every row of the  *)
(* file belongs to a row of the file, and so it is in the database.        *)
FilesResolve ==
    /\ \A c \in Commit : Resolved(commits[c].file)
    /\ \A m \in Machines : Resolved(db[m])

(* A machine that did not edit since has what its HEAD has: no operation   *)
(* leaves rows behind or brings deleted ones back.                         *)
InSync ==
    \A m \in Machines :
        (Idle(m) /\ m \notin edited \cup lost) => db[m] = FileOf(HEAD(m))

(* What became of a row of an older file: it is there, a request with an   *)
(* edit that is no older; or a user deleted it, a request knowing that     *)
(* edit; or it is a case of a request a user deleted.                      *)
Deleted(r, since) == \E g \in gone : g[1] = r /\ g[2] >= since

Kept(r, old, new) ==
    \/ new.v # 0 /\ (r \in Requests => new.v >= old.v)
    \/ Deleted(r, IF r \in Requests THEN old.v ELSE 0)
    \/ r \in Cases /\ Deleted(old.up, 0)

(* A push replaces what is on the remote by a file in which everything is  *)
(* kept, however the two came to differ.                                   *)
PushedWorkStays ==
    [][(lost = {} /\ remote' # remote) =>
        \A b \in Branches : remote[b] # 0 =>
            LET old == FileOf(remote[b])
                new == commits'[remote'[b]].file
            IN  \A r \in Present(old) : Kept(r, old[r], new[r])]_vars

Pulled(m) == pending[m].how = "merge" /\ Idle(m)' /\ m \notin lost'

(* A request that was never shared survives a pull, and a case as long as  *)
(* its request does.                                                       *)
UnpushedRowsStay ==
    [][\A m \in Machines : Pulled(m) =>
        \A r \in Present(db[m]) \ Folders :
            (\A c \in Commit : commits[c].file[r].v = 0) =>
                \/ db'[m][r].v = db[m][r].v
                \/ r \in Cases /\ db'[m][db[m][r].up].v = 0]_vars

(* An edit that was not pushed survives a pull that brings nothing for its *)
(* row: "it must not discard unpushed work" (save.handler.ts:713).         *)
UnpushedEditsStay ==
    [][\A m \in Machines : Pulled(m) =>
        \A r \in Rows :
            FileOf(HEAD(m))[r] = FileOf(pending[m].base)[r] => db'[m][r] = db[m][r]]_vars

=============================================================================
