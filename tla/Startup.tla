------------------------------- MODULE Startup -------------------------------
(***************************************************************************)
(* The start of the main process up to an open database                    *)
(* (main/db/database.ts, initDatabase) and the copy it takes before a new  *)
(* build migrates the file (main/db/pre-migration-backup.ts).              *)
(*                                                                         *)
(* A crash may come between any two steps and loses the memory of the      *)
(* process, not the disk.  What a database holds is told by the edits the  *)
(* user made, the builds whose migrations touched it, and whether it has   *)
(* plaintext secrets.                                                      *)
(***************************************************************************)
EXTENDS Integers, Sequences

CONSTANTS
    Builds,         \* builds (version and build id) the user may install
    Keep,           \* BACKUPS_TO_KEEP
    MaxEdits,       \* bound: edits of the user
    MaxStarts       \* bound: starts of the app

ASSUME StartupConstants ==
    Builds # {} /\ 0 \notin Builds /\ Keep \in Nat \ {0} /\ MaxEdits \in Nat /\ MaxStarts \in Nat

VARIABLES
    \* on disk
    installed,  \* the build that starts next
    marker,     \* last-started-build.json, or 0
    file,       \* testnizer.db: "none", "good" or "corrupt"
    content,    \* what it holds
    copies,     \* backups/, from the oldest timestamp to the newest
    \* the process
    at,         \* the step it is at
    partial,    \* what the copy under way holds
    keychain,   \* whether secrets can be encrypted in this start
    retried,    \* whether the file was put aside in this start
    starts,
    clean       \* (observed only) this installation copied the database before
                \* its build touched it

process == <<at, partial, keychain, retried>>
vars == <<installed, marker, file, content, copies, process, starts, clean>>

Empty == [edits |-> 0, touched |-> {}, plain |-> FALSE]

Init ==
    /\ installed \in Builds /\ marker = 0
    /\ file \in {"none", "good"}
    /\ content \in IF file = "none" THEN {Empty} ELSE [edits : {0}, touched : {{}}, plain : BOOLEAN]
    /\ copies = <<>>
    /\ at = "off" /\ partial = Empty /\ keychain = FALSE /\ retried = FALSE /\ starts = 0
    /\ clean = FALSE

Step(from, to) == at = from /\ at' = to

-----------------------------------------------------------------------------
Start ==
    /\ Step("off", "check") /\ starts < MaxStarts
    /\ starts' = starts + 1 /\ keychain' \in BOOLEAN /\ retried' = FALSE /\ partial' = Empty
    /\ UNCHANGED <<installed, marker, file, content, copies, clean>>

Labels == {copies[k].label : k \in DOMAIN copies}

(* Mutant: a copy of this build does not count.                            *)
NeedsCopy_Always == file # "none" /\ marker # installed

(* backupBeforeMigration(): not for a first start, the build that started  *)
(* last, or one that has its copy.                                         *)
NeedsCopy == file # "none" /\ marker # installed /\ installed \notin Labels

CheckCopy ==
    /\ at = "check"
    /\ IF NeedsCopy THEN at' \in {"copy", "open"} ELSE at' = "open"    \* low disk space
    /\ UNCHANGED <<installed, marker, file, content, copies, partial, keychain, retried, starts, clean>>

(* VACUUM INTO a .partial file: a corrupt database or a full disk fails.   *)
CopyFile ==
    /\ at = "copy"
    /\ \/ file = "good" /\ at' = "seal" /\ partial' = content
       \/ at' = "open" /\ UNCHANGED partial
    /\ UNCHANGED <<installed, marker, file, content, copies, keychain, retried, starts, clean>>

(* Mutant: a copy whose secrets cannot be sealed is kept.                  *)
SealCopy_KeepsFailed ==
    /\ at = "seal"
    /\ IF keychain
       THEN partial' \in {[partial EXCEPT !.plain = FALSE], partial} /\ at' = "rename"
       ELSE at' = "rename" /\ UNCHANGED partial
    /\ UNCHANGED <<installed, marker, file, content, copies, keychain, retried, starts, clean>>

(* sealSecretsInCopy(): without a keychain the copy is as the database is; *)
(* when it fails the copy is deleted.                                      *)
SealCopy ==
    /\ at = "seal"
    /\ IF keychain
       THEN \/ partial' = [partial EXCEPT !.plain = FALSE] /\ at' = "rename"
            \/ partial' = Empty /\ at' = "open"
       ELSE at' = "rename" /\ UNCHANGED partial
    /\ UNCHANGED <<installed, marker, file, content, copies, keychain, retried, starts, clean>>

Newest == IF Len(copies) > Keep THEN SubSeq(copies, Len(copies) - Keep + 1, Len(copies)) ELSE copies

(* Mutant: room is made for the copy before it has its name.               *)
RenameCopy_PrunesFirst ==
    LET room == IF Len(copies) < Keep THEN copies ELSE Tail(Newest)
    IN  /\ at = "rename" /\ at' = "open"
        /\ \/ /\ copies' = Append(room, [label |-> installed, of |-> partial, sealed |-> keychain])
              /\ clean' = (clean \/ installed \notin partial.touched)
           \/ copies' = room /\ UNCHANGED clean
        /\ partial' = Empty
        /\ UNCHANGED <<installed, marker, file, content, keychain, retried, starts>>

RenameCopy ==
    /\ at = "rename"
    /\ \/ /\ at' = "prune"
          /\ copies' = Append(copies, [label |-> installed, of |-> partial, sealed |-> keychain])
          /\ clean' = (clean \/ installed \notin partial.touched)
       \/ at' = "open" /\ UNCHANGED <<copies, clean>>
    /\ partial' = Empty
    /\ UNCHANGED <<installed, marker, file, content, keychain, retried, starts>>

(* pruneBackups(): the older ones go, from the newest of them on; an error *)
(* leaves the rest of them.                                                *)
PruneCopies ==
    /\ Step("prune", "open")
    /\ \E left \in 0..(Len(copies) - Len(Newest)) : copies' = SubSeq(copies, 1, left) \o Newest
    /\ UNCHANGED <<installed, marker, file, content, partial, keychain, retried, starts, clean>>

-----------------------------------------------------------------------------
(* openAndMigrate(): a file that is not there is created; the migrations   *)
(* of this build change one that is.                                       *)
OpenFile ==
    /\ at = "open" /\ file # "corrupt"
    /\ at' = "migrate" /\ file' = "good"
    /\ content' = [content EXCEPT !.touched = @ \cup {installed}]
    /\ UNCHANGED <<installed, marker, copies, partial, keychain, retried, starts, clean>>

(* quarantineCorruptDb(), and once more with a fresh file.                 *)
Quarantine ==
    /\ at = "open" /\ file = "corrupt" /\ ~retried
    /\ file' = "none" /\ content' = Empty /\ retried' = TRUE
    /\ UNCHANGED <<installed, marker, copies, at, partial, keychain, starts, clean>>

(* Any other error of the migrations quits the app.                        *)
MigrationFails ==
    /\ Step("migrate", "off")
    /\ keychain' = FALSE /\ retried' = FALSE
    /\ UNCHANGED <<installed, marker, file, content, copies, partial, starts, clean>>

Migrated ==
    /\ Step("migrate", "mark")
    /\ UNCHANGED <<installed, marker, file, content, copies, partial, keychain, retried, starts, clean>>

(* writeBuildMarker(), which may fail.                                     *)
WriteMarker ==
    /\ Step("mark", "running")
    /\ marker' \in {installed, marker}
    /\ UNCHANGED <<installed, file, content, copies, partial, keychain, retried, starts, clean>>

-----------------------------------------------------------------------------
(* The user, and the machine.                                              *)

Edit ==
    /\ at = "running" /\ content.edits < MaxEdits
    /\ content' = [content EXCEPT !.edits = @ + 1, !.plain = @ \/ ~keychain]
    /\ UNCHANGED <<installed, marker, file, copies, process, starts, clean>>

(* Quit or crash: the process is gone.                                     *)
Stops ==
    /\ at # "off"
    /\ at' = "off" /\ partial' = Empty /\ keychain' = FALSE /\ retried' = FALSE
    /\ UNCHANGED <<installed, marker, file, content, copies, starts, clean>>

Install(b) ==
    /\ at = "off" /\ b # installed
    /\ installed' = b /\ clean' = FALSE
    /\ UNCHANGED <<marker, file, content, copies, process, starts>>

Corrupts ==
    /\ at = "off" /\ file = "good" /\ starts > 0
    /\ file' = "corrupt"
    /\ UNCHANGED <<installed, marker, content, copies, process, starts, clean>>

Next ==
    \/ Start \/ CheckCopy \/ CopyFile \/ SealCopy \/ RenameCopy \/ PruneCopies
    \/ OpenFile \/ Quarantine \/ MigrationFails \/ Migrated \/ WriteMarker
    \/ Edit \/ Stops \/ Corrupts
    \/ \E b \in Builds : Install(b)

Spec == Init /\ [][Next]_vars

-----------------------------------------------------------------------------
Contents == [edits : 0..MaxEdits, touched : SUBSET Builds, plain : BOOLEAN]
Steps == {"off", "check", "copy", "seal", "rename", "prune", "open", "migrate", "mark", "running"}

(* The disk and the process keep their types.                              *)
TypeOK ==
    /\ installed \in Builds /\ marker \in Builds \cup {0}
    /\ file \in {"none", "good", "corrupt"} /\ content \in Contents
    /\ copies \in Seq([label : Builds, of : Contents, sealed : BOOLEAN])
    /\ at \in Steps /\ partial \in Contents
    /\ keychain \in BOOLEAN /\ retried \in BOOLEAN
    /\ starts \in 0..MaxStarts /\ clean \in BOOLEAN

(* However often the migrations of a build fail or crash, the copy that    *)
(* was taken before it touched the database stays.                         *)
CleanCopyStays ==
    clean => \E k \in DOMAIN copies :
                copies[k].label = installed /\ installed \notin copies[k].of.touched

(* A copy made with a keychain at hand holds no plaintext secret.          *)
CopiesAreSealed ==
    \A k \in DOMAIN copies : copies[k].sealed => ~copies[k].of.plain

(* Copies are only ever lost to newer ones: the last Keep stay, the one    *)
(* just made among them, and a start whose copy fails loses none.          *)
OnlyOldCopiesGo ==
    [][Len(copies') < Len(copies) =>
          /\ copies[Len(copies)].label = installed
          /\ \A k \in 0..(Keep - 1) : copies'[Len(copies') - k] = copies[Len(copies) - k]]_vars

=============================================================================
