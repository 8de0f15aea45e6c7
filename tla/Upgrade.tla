------------------------------- MODULE Upgrade -------------------------------
(***************************************************************************)
(* The steps that run once, after the database is open (main/index.ts):    *)
(* the active environment (db/active-environment-migration.ts), the files  *)
(* outside the working directory (db/files-outside-wd-migration.ts), the   *)
(* masking of History (db/history-mask-migration.ts) and the sealing of    *)
(* secrets (db/secret-at-rest-migration.ts).  The first two end before     *)
(* anything can run; the other two share the app with its user.  Each is   *)
(* done when its marker is in the settings table of the database, and a    *)
(* crash may come between any two steps.                                   *)
(***************************************************************************)
EXTENDS Integers, FiniteSets

CONSTANTS
    Projects,       \* projects with environments and an absolute file path
    Rows,           \* History and Runner rows, as an old build wrote them
    Secrets,        \* values marked secret
    MaxActs,        \* bound: what the user does
    MaxStarts       \* bound: starts of the app

ASSUME UpgradeConstants == MaxActs \in Nat /\ MaxStarts \in Nat

VARIABLES
    \* on disk
    marks,          \* the markers in the settings table
    active,         \* projects with an active environment
    allowed,        \* projects that may read files outside (electron-store)
    rows,           \* [Rows -> "raw", "masked", "poison" (cannot be masked) or "none"]
    secrets,        \* [Secrets -> "plain", "sealed", "bad" (cannot be sealed) or "none"]
    traces,         \* an old plaintext secret is in freed pages or the WAL
    \* the process
    at,             \* the step it is at
    todo,           \* what the step has still to visit
    failed,         \* a write of the store failed
    swept,          \* the sweep sealed something
    keychain,       \* whether secrets can be encrypted in this start
    \* (observed only)
    settled,        \* the environments were seen to, without an error
    noEnv,          \* projects set to "No environment" since then
    refused,        \* projects whose files were switched off since the marker
    acts, starts

process == <<at, todo, failed, swept, keychain>>
disk == <<marks, active, allowed, rows, secrets, traces>>
observed == <<settled, noEnv, refused>>
vars == <<disk, process, observed, acts, starts>>

Init ==
    /\ marks = {} /\ active \in SUBSET Projects /\ allowed = {}
    /\ rows \in [Rows -> {"raw", "masked", "poison"}]
    /\ secrets \in [Secrets -> {"plain", "sealed", "bad", "none"}]
    /\ traces = (\E s \in Secrets : secrets[s] \in {"plain", "bad"})
    /\ at = "off" /\ todo = {} /\ failed = FALSE /\ swept = FALSE /\ keychain = FALSE
    /\ settled = FALSE /\ noEnv = {} /\ refused = {} /\ acts = 0 /\ starts = 0

Start ==
    /\ at = "off" /\ starts < MaxStarts
    /\ at' = "env" /\ starts' = starts + 1
    /\ keychain' \in BOOLEAN
    /\ UNCHANGED <<disk, todo, failed, swept, observed, acts>>

Mark(m) == marks' = marks \cup {m}

-----------------------------------------------------------------------------
(* Mutant: nothing to do leaves no marker.                                 *)
ActivateEnvironments_MarksWork ==
    /\ at = "env" /\ at' = "files" /\ todo' = Projects
    /\ \/ "env" \notin marks /\ active # Projects /\ active' = Projects /\ Mark("env") /\ settled' = TRUE
       \/ ("env" \in marks \/ active = Projects) /\ settled' = TRUE /\ UNCHANGED <<marks, active>>
    /\ UNCHANGED <<allowed, rows, secrets, traces, failed, swept, keychain, noEnv, refused, acts, starts>>

(* runActiveEnvironmentMigration(): one transaction with the marker, which *)
(* an error rolls back.                                                    *)
ActivateEnvironments ==
    /\ at = "env" /\ at' = "files" /\ todo' = Projects
    /\ \/ "env" \notin marks /\ active' = Projects /\ Mark("env") /\ settled' = TRUE
       \/ UNCHANGED <<marks, active, settled>>
    /\ UNCHANGED <<allowed, rows, secrets, traces, failed, swept, keychain, noEnv, refused, acts, starts>>

(* allowFilesOutsideWorkingDirectory(): the write of the store may fail.   *)
AllowFiles(p) ==
    /\ at = "files" /\ "files" \notin marks /\ p \in todo
    /\ todo' = todo \ {p}
    /\ \/ allowed' = allowed \cup {p} /\ UNCHANGED failed
       \/ p \notin allowed /\ failed' = TRUE /\ UNCHANGED allowed
    /\ UNCHANGED <<marks, active, rows, secrets, traces, at, swept, keychain, observed, acts, starts>>

(* The marker comes last, and only when every write succeeded; then the    *)
(* handlers, the Scheduler and the window start.                           *)
FilesAllowed ==
    /\ at = "files" /\ at' = "waiting"
    /\ \/ "files" \in marks /\ UNCHANGED marks
       \/ todo = {} /\ ~failed /\ Mark("files")
       \/ todo = {} /\ UNCHANGED marks         \* a write failed, or the marker's did
    /\ todo' = {}
    /\ UNCHANGED <<active, allowed, rows, secrets, traces, failed, swept, keychain, observed, acts, starts>>

-----------------------------------------------------------------------------
(* runHistoryMaskMigration(), once the window is painted.                  *)
MaskBegins ==
    /\ at = "waiting"
    /\ IF "mask" \in marks
       THEN at' = "masked" /\ UNCHANGED todo
       ELSE at' = "mask" /\ todo' = {r \in Rows : rows[r] # "none"}
    /\ UNCHANGED <<disk, failed, swept, keychain, observed, acts, starts>>

(* A batch is one transaction and yields; a row that throws is skipped.    *)
MaskRow(r) ==
    /\ at = "mask" /\ r \in todo
    /\ todo' = todo \ {r}
    /\ rows' = [rows EXCEPT ![r] = IF @ = "raw" THEN "masked" ELSE @]
    /\ UNCHANGED <<marks, active, allowed, secrets, traces, at, failed, swept, keychain, observed, acts, starts>>

(* Mutant: the marker is written although the pass threw.                  *)
MaskEnds_Finally ==
    /\ at = "mask" /\ at' = "masked" /\ todo' = {} /\ Mark("mask")
    /\ UNCHANGED <<active, allowed, rows, secrets, traces, failed, swept, keychain, observed, acts, starts>>

(* The marker comes after the last row; an error of the database ends the  *)
(* pass without it, and the next step starts all the same.                 *)
MaskEnds ==
    /\ at = "mask" /\ at' = "masked" /\ todo' = {}
    /\ \/ todo = {} /\ Mark("mask")
       \/ UNCHANGED marks
    /\ UNCHANGED <<active, allowed, rows, secrets, traces, failed, swept, keychain, observed, acts, starts>>

-----------------------------------------------------------------------------
Plaintext == {s \in Secrets : secrets[s] \in {"plain", "bad"}}
SealedExist == \E s \in Secrets : secrets[s] = "sealed"

(* runSecretAtRestMigration(): every start that has a keychain sweeps.     *)
SweepBegins ==
    /\ at = "masked"
    /\ IF keychain THEN at' = "sweep" /\ todo' = Plaintext ELSE at' = "idle" /\ UNCHANGED todo
    /\ swept' = FALSE
    /\ UNCHANGED <<disk, failed, keychain, observed, acts, starts>>

SweepRow(s) ==
    /\ at = "sweep" /\ s \in todo
    /\ todo' = todo \ {s}
    /\ IF secrets[s] = "plain"
       THEN secrets' = [secrets EXCEPT ![s] = "sealed"] /\ swept' = TRUE
       ELSE UNCHANGED <<secrets, swept>>
    /\ UNCHANGED <<marks, active, allowed, rows, traces, at, failed, keychain, observed, acts, starts>>

SweepFails ==
    /\ at = "sweep" /\ at' = "idle" /\ todo' = {}
    /\ UNCHANGED <<disk, failed, swept, keychain, observed, acts, starts>>

(* Mutant: the file is compacted for what this sweep sealed only.          *)
SweepEnds_OwnOnly ==
    /\ at = "sweep" /\ todo = {} /\ UNCHANGED todo
    /\ \/ ("seal" \in marks \/ Plaintext # {}) /\ at' = "idle" /\ UNCHANGED marks
       \/ "seal" \notin marks /\ Plaintext = {} /\ swept /\ at' = "vacuum" /\ UNCHANGED marks
       \/ "seal" \notin marks /\ Plaintext = {} /\ ~swept /\ at' = "idle" /\ Mark("seal")
    /\ UNCHANGED <<active, allowed, rows, secrets, traces, failed, swept, keychain, observed, acts, starts>>

(* The one-time part waits until no plaintext is left, and compacts the    *)
(* file when this sweep, or an earlier one, sealed something.              *)
SweepEnds ==
    /\ at = "sweep" /\ todo = {} /\ UNCHANGED todo
    /\ LET compact == swept \/ SealedExist
       IN  \/ ("seal" \in marks \/ Plaintext # {}) /\ at' = "idle" /\ UNCHANGED marks
           \/ "seal" \notin marks /\ Plaintext = {} /\ compact /\ at' = "vacuum" /\ UNCHANGED marks
           \/ "seal" \notin marks /\ Plaintext = {} /\ ~compact /\ at' = "idle" /\ Mark("seal")
    /\ UNCHANGED <<active, allowed, rows, secrets, traces, failed, swept, keychain, observed, acts, starts>>

(* wal_checkpoint(TRUNCATE) and VACUUM, then the marker, in one go: nobody *)
(* else runs in between.                                                   *)
Vacuum ==
    /\ at = "vacuum" /\ at' \in {"vacuumed", "idle"}
    /\ traces' = (traces /\ at' = "idle")
    /\ UNCHANGED <<marks, active, allowed, rows, secrets, todo, failed, swept, keychain, observed, acts, starts>>

MarkSealed ==
    /\ at = "vacuumed" /\ at' = "idle" /\ Mark("seal")
    /\ UNCHANGED <<active, allowed, rows, secrets, traces, todo, failed, swept, keychain, observed, acts, starts>>

-----------------------------------------------------------------------------
(* The user, and the machine.                                              *)

Acts ==
    /\ at \in {"waiting", "mask", "masked", "sweep", "idle"} /\ acts < MaxActs
    /\ acts' = acts + 1
    /\ UNCHANGED <<process, starts>>

ChooseEnvironment(p) ==
    /\ Acts
    /\ \/ active' = active \cup {p} /\ noEnv' = noEnv \ {p}
       \/ /\ p \in active /\ active' = active \ {p}
          /\ noEnv' = IF settled THEN noEnv \cup {p} ELSE noEnv
    /\ UNCHANGED <<marks, allowed, rows, secrets, traces, settled, refused>>

ChooseFiles(p) ==
    /\ Acts
    /\ \/ allowed' = allowed \cup {p} /\ refused' = refused \ {p}
       \/ /\ p \in allowed /\ allowed' = allowed \ {p}
          /\ refused' = IF "files" \in marks THEN refused \cup {p} ELSE refused
    /\ UNCHANGED <<marks, active, rows, secrets, traces, settled, noEnv>>

(* Every writer seals, when there is a keychain; without one the plaintext *)
(* is in the file, and stays in freed pages when it is sealed later.       *)
SaveSecret(s) ==
    /\ Acts
    /\ secrets' = [secrets EXCEPT ![s] = IF keychain THEN "sealed" ELSE "plain"]
    /\ traces' = (traces \/ ~keychain)
    /\ UNCHANGED <<marks, active, allowed, rows, observed>>

DeleteSecret(s) ==
    /\ Acts
    /\ secrets[s] # "none" /\ secrets' = [secrets EXCEPT ![s] = "none"]
    /\ UNCHANGED <<marks, active, allowed, rows, traces, observed>>

(* Every writer masks.                                                     *)
RecordRow(r) ==
    /\ Acts
    /\ rows[r] = "none" /\ rows' = [rows EXCEPT ![r] = "masked"]
    /\ UNCHANGED <<marks, active, allowed, secrets, traces, observed>>

DeleteRow(r) ==
    /\ Acts
    /\ rows[r] # "none" /\ rows' = [rows EXCEPT ![r] = "none"]
    /\ UNCHANGED <<marks, active, allowed, secrets, traces, observed>>

Stops ==
    /\ at # "off"
    /\ at' = "off" /\ todo' = {} /\ failed' = FALSE /\ swept' = FALSE /\ keychain' = FALSE
    /\ UNCHANGED <<disk, observed, acts, starts>>

Next ==
    \/ Start \/ ActivateEnvironments \/ FilesAllowed
    \/ MaskBegins \/ MaskEnds \/ SweepBegins \/ SweepFails \/ SweepEnds \/ Vacuum \/ MarkSealed
    \/ Stops
    \/ \E p \in Projects : AllowFiles(p) \/ ChooseEnvironment(p) \/ ChooseFiles(p)
    \/ \E r \in Rows : MaskRow(r) \/ RecordRow(r) \/ DeleteRow(r)
    \/ \E s \in Secrets : SweepRow(s) \/ SaveSecret(s) \/ DeleteSecret(s)

Spec == Init /\ [][Next]_vars

-----------------------------------------------------------------------------
(* The disk and the process keep their types; only a known marker exists.  *)
TypeOK ==
    /\ marks \subseteq {"env", "files", "mask", "seal"}
    /\ active \subseteq Projects /\ allowed \subseteq Projects
    /\ rows \in [Rows -> {"raw", "masked", "poison", "none"}]
    /\ secrets \in [Secrets -> {"plain", "sealed", "bad", "none"}]
    /\ traces \in BOOLEAN
    /\ at \in {"off", "env", "files", "waiting", "mask", "masked", "sweep", "vacuum",
               "vacuumed", "idle"}
    /\ todo \subseteq Projects \cup Rows \cup Secrets
    /\ failed \in BOOLEAN /\ swept \in BOOLEAN /\ keychain \in BOOLEAN
    /\ settled \in BOOLEAN /\ noEnv \subseteq Projects /\ refused \subseteq Projects
    /\ acts \in 0..MaxActs /\ starts \in 0..MaxStarts

(* What the upgrade settles is settled once, whatever later starts do: a   *)
(* project set to "No environment" after it stays so; and once its marker  *)
(* is written, a project that uploads files reads them until its user says *)
(* no, and then the no stays.                                              *)
ChoicesStay ==
    /\ noEnv \cap active = {}
    /\ "files" \in marks => allowed = Projects \ refused

(* With the marker of the masking, what is left unmasked is what could not *)
(* be masked.                                                              *)
MaskMarkMeansMasked == "mask" \in marks => \A r \in Rows : rows[r] # "raw"

(* The marker of the sealing comes when no plaintext is left and, if there *)
(* are sealed values, their old plaintext is gone from the file too, also  *)
(* when they were sealed by a start whose VACUUM failed.                   *)
SealMarkMeansClean ==
    [][("seal" \in marks' /\ "seal" \notin marks) =>
          Plaintext = {} /\ (SealedExist => ~traces)]_vars

=============================================================================
