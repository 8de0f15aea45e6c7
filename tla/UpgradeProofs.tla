---------------------------- MODULE UpgradeProofs ----------------------------
(* What holds of the one-time passes for every set of projects, rows and   *)
(* secrets, and every number of starts and acts of the user.               *)
EXTENDS Upgrade, TLAPS

(* What a pass leaves half done, and what the observed variables say of    *)
(* the markers: nobody can have refused what the upgrade has not settled.  *)
EnvironmentsInv ==
    /\ settled <=> "env" \in marks
    /\ ~settled => noEnv = {}

FilesInv ==
    /\ "files" \notin marks => refused = {}
    /\ (at = "files" /\ "files" \notin marks /\ ~failed) => Projects \ todo \subseteq allowed

MaskInv == at = "mask" => \A r \in Rows : rows[r] = "raw" => r \in todo

SealInv ==
    /\ at \in {"vacuum", "vacuumed"} => Plaintext = {}
    /\ at = "vacuumed" => ~traces

UpgradeInv ==
    /\ TypeOK
    /\ EnvironmentsInv /\ FilesInv /\ ChoicesStay
    /\ MaskInv /\ MaskMarkMeansMasked
    /\ SealInv

(* The first start finds no marker and nothing under way.                  *)
LEMMA InitHolds == ASSUME UpgradeConstants, Init PROVE UpgradeInv
<1>1. traces \in BOOLEAN
  <2>1. CASE \E s \in Secrets : secrets[s] \in {"plain", "bad"}
    BY <2>1 DEF Init
  <2>2. CASE ~\E s \in Secrets : secrets[s] \in {"plain", "bad"}
    BY <2>2 DEF Init
  <2> QED
    BY <2>1, <2>2
<1>2. rows \in [Rows -> {"raw", "masked", "poison", "none"}]
  BY DEF Init
<1>3. acts \in 0..MaxActs /\ starts \in 0..MaxStarts
  BY DEF UpgradeConstants, Init
<1>4. TypeOK
  BY <1>1, <1>2, <1>3 DEF Init, TypeOK
<1>5. marks = {} /\ at = "off" /\ settled = FALSE /\ noEnv = {} /\ refused = {}
  BY DEF Init
<1>6. EnvironmentsInv
  BY <1>5 DEF EnvironmentsInv
<1> QED
  <2>1. FilesInv /\ ChoicesStay
    BY <1>5, Zenon DEF FilesInv, ChoicesStay
  <2>2. MaskInv /\ MaskMarkMeansMasked /\ SealInv
    BY <1>5, Zenon DEF MaskInv, MaskMarkMeansMasked, SealInv
  <2> QED
    BY <1>4, <1>6, <2>1, <2>2 DEF UpgradeInv

(* Every step keeps the types.                                             *)
LEMMA TypeStep == ASSUME UpgradeConstants, TypeOK, [Next]_vars PROVE TypeOK'
<1> USE DEF UpgradeConstants, TypeOK, disk, process, observed
<1>1. CASE Start
  BY <1>1 DEF Start
<1>2. CASE ActivateEnvironments
  BY <1>2 DEF ActivateEnvironments, Mark
<1>3. ASSUME NEW p \in Projects, AllowFiles(p) PROVE TypeOK'
  BY <1>3 DEF AllowFiles
<1>4. CASE FilesAllowed
  BY <1>4 DEF FilesAllowed, Mark
<1>5. CASE MaskBegins
  BY <1>5 DEF MaskBegins
<1>6. ASSUME NEW r \in Rows, MaskRow(r) PROVE TypeOK'
  BY <1>6 DEF MaskRow
<1>7. CASE MaskEnds
  BY <1>7 DEF MaskEnds, Mark
<1>8. CASE SweepBegins
  BY <1>8 DEF SweepBegins, Plaintext
<1>9. ASSUME NEW s \in Secrets, SweepRow(s) PROVE TypeOK'
  BY <1>9 DEF SweepRow
<1>10. CASE SweepFails
  BY <1>10 DEF SweepFails
<1>11. CASE SweepEnds
  BY <1>11 DEF SweepEnds, Mark
<1>12. CASE Vacuum
  <2>1. traces' \in BOOLEAN
    BY <1>12, Zenon DEF Vacuum
  <2>2. at' \in {"vacuumed", "idle"}
        /\ UNCHANGED <<marks, active, allowed, rows, secrets, todo, failed, swept, keychain, observed,
                       acts, starts>>
    BY <1>12 DEF Vacuum
  <2> QED
    BY <2>1, <2>2
<1>13. CASE MarkSealed
  BY <1>13 DEF MarkSealed, Mark
<1>14. ASSUME NEW p \in Projects, ChooseEnvironment(p) PROVE TypeOK'
  BY <1>14 DEF ChooseEnvironment, Acts
<1>15. ASSUME NEW p \in Projects, ChooseFiles(p) PROVE TypeOK'
  BY <1>15 DEF ChooseFiles, Acts
<1>16. ASSUME NEW s \in Secrets, SaveSecret(s) \/ DeleteSecret(s) PROVE TypeOK'
  <2>1. secrets' \in [Secrets -> {"plain", "sealed", "bad", "none"}]
    BY <1>16 DEF SaveSecret, DeleteSecret
  <2>2. acts < MaxActs /\ acts' = acts + 1
        /\ UNCHANGED <<marks, active, allowed, rows, process, observed, starts>>
    BY <1>16 DEF SaveSecret, DeleteSecret, Acts
  <2>3. traces' \in BOOLEAN
    <3>1. CASE SaveSecret(s)
      BY <3>1, Zenon DEF SaveSecret
    <3>2. CASE DeleteSecret(s)
      BY <3>2, Zenon DEF DeleteSecret
    <3> QED
      BY <1>16, <3>1, <3>2
  <2> QED
    BY <2>1, <2>2, <2>3
<1>17. ASSUME NEW r \in Rows, RecordRow(r) \/ DeleteRow(r) PROVE TypeOK'
  <2>1. rows' \in [Rows -> {"raw", "masked", "poison", "none"}]
    BY <1>17 DEF RecordRow, DeleteRow
  <2>2. acts < MaxActs /\ acts' = acts + 1
        /\ UNCHANGED <<marks, active, allowed, secrets, traces, process, observed, starts>>
    BY <1>17 DEF RecordRow, DeleteRow, Acts
  <2> QED
    BY <2>1, <2>2
<1>18. CASE Stops
  BY <1>18 DEF Stops
<1>19. CASE UNCHANGED vars
  BY <1>19 DEF vars
<1> QED
  BY <1>1, <1>2, <1>3, <1>4, <1>5, <1>6, <1>7, <1>8, <1>9, <1>10, <1>11, <1>12, <1>13, <1>14,
     <1>15, <1>16, <1>17, <1>18, <1>19 DEF Next

(* The environments and the files: a choice is only ever made, and kept,   *)
(* under the marker of its pass.                                           *)
LEMMA ChoicesStep ==
    ASSUME TypeOK, EnvironmentsInv, FilesInv, ChoicesStay, [Next]_vars
    PROVE  EnvironmentsInv' /\ FilesInv' /\ ChoicesStay'
<1> DEFINE Kept == EnvironmentsInv' /\ FilesInv' /\ ChoicesStay'
<1> USE DEF EnvironmentsInv, FilesInv, ChoicesStay, observed
<1>1. CASE ActivateEnvironments
  BY <1>1 DEF ActivateEnvironments, Mark, TypeOK
<1>2. ASSUME NEW p \in Projects, AllowFiles(p) PROVE Kept
  BY <1>2 DEF AllowFiles
<1>3. CASE FilesAllowed
  BY <1>3 DEF FilesAllowed, Mark, TypeOK
<1>4. ASSUME NEW p \in Projects, ChooseEnvironment(p) PROVE Kept
  <2>1. UNCHANGED <<marks, allowed, refused, at, failed, todo, settled>>
    BY <1>4 DEF ChooseEnvironment, Acts, process
  <2>2. noEnv' \cap active' = {} /\ (~settled => noEnv' = {})
    BY <1>4 DEF ChooseEnvironment
  <2> QED
    BY <2>1, <2>2
<1>5. ASSUME NEW p \in Projects, ChooseFiles(p) PROVE Kept
  <2>1. UNCHANGED <<marks, active, noEnv, settled, at>> /\ at # "files"
    BY <1>5 DEF ChooseFiles, Acts, process
  <2>2. "files" \notin marks => refused' = {}
    BY <1>5 DEF ChooseFiles
  <2>3. "files" \in marks => allowed' = Projects \ refused'
    BY <1>5 DEF ChooseFiles
  <2> QED
    BY <2>1, <2>2, <2>3
<1>6. CASE MaskEnds \/ SweepEnds \/ MarkSealed
  <2>1. /\ at # "files" /\ at' # "files"
        /\ marks' \ {"mask", "seal"} = marks \ {"mask", "seal"}
        /\ UNCHANGED <<active, allowed, observed>>
    BY <1>6 DEF MaskEnds, SweepEnds, MarkSealed, Mark
  <2> QED
    BY <2>1
<1>7. CASE Start \/ MaskBegins \/ SweepBegins \/ SweepFails \/ Vacuum \/ Stops
  <2>1. at' # "files" /\ UNCHANGED <<marks, active, allowed, observed>>
    BY <1>7 DEF Start, MaskBegins, SweepBegins, SweepFails, Vacuum, Stops, disk
  <2> QED
    BY <2>1
<1>8. ASSUME NEW r \in Rows, MaskRow(r) \/ RecordRow(r) \/ DeleteRow(r) PROVE Kept
  <2>1. at # "files" /\ UNCHANGED <<marks, active, allowed, observed, at>>
    BY <1>8 DEF MaskRow, RecordRow, DeleteRow, Acts, process
  <2> QED
    BY <2>1
<1>9. ASSUME NEW s \in Secrets, SweepRow(s) \/ SaveSecret(s) \/ DeleteSecret(s) PROVE Kept
  <2>1. at # "files" /\ UNCHANGED <<marks, active, allowed, observed, at>>
    BY <1>9 DEF SweepRow, SaveSecret, DeleteSecret, Acts, process
  <2> QED
    BY <2>1
<1>10. CASE UNCHANGED vars
  BY <1>10 DEF vars, disk, process
<1> QED
  BY <1>1, <1>2, <1>3, <1>4, <1>5, <1>6, <1>7, <1>8, <1>9, <1>10 DEF Next

(* The masking: a raw row is one the pass has still to visit, and no step  *)
(* makes a row raw again.                                                  *)
LEMMA MaskStep ==
    ASSUME TypeOK, MaskInv, MaskMarkMeansMasked, [Next]_vars
    PROVE  MaskInv' /\ MaskMarkMeansMasked'
<1> DEFINE Kept == MaskInv' /\ MaskMarkMeansMasked'
<1> USE DEF MaskInv, MaskMarkMeansMasked
<1>1. CASE MaskBegins
  BY <1>1 DEF MaskBegins, disk
<1>2. ASSUME NEW r \in Rows, MaskRow(r) PROVE Kept
  BY <1>2 DEF MaskRow, TypeOK
<1>3. CASE MaskEnds
  BY <1>3 DEF MaskEnds, Mark
<1>4. ASSUME NEW r \in Rows, RecordRow(r) \/ DeleteRow(r) PROVE Kept
  <2>1. \A q \in Rows : rows'[q] = "raw" => rows[q] = "raw"
    BY <1>4 DEF RecordRow, DeleteRow, TypeOK
  <2> QED
    BY <1>4, <2>1 DEF RecordRow, DeleteRow, Acts, process
<1>5. CASE Start \/ ActivateEnvironments \/ FilesAllowed \/ SweepBegins \/ SweepFails \/ SweepEnds
           \/ Vacuum \/ MarkSealed \/ Stops
  <2>1. at' # "mask" /\ rows' = rows /\ marks' \ {"env", "files", "seal"} = marks \ {"env", "files", "seal"}
    BY <1>5 DEF Start, ActivateEnvironments, FilesAllowed, SweepBegins, SweepFails, SweepEnds,
                Vacuum, MarkSealed, Stops, Mark, disk
  <2> QED
    BY <2>1
<1>6. ASSUME NEW p \in Projects, AllowFiles(p) \/ ChooseEnvironment(p) \/ ChooseFiles(p) PROVE Kept
  <2>1. UNCHANGED <<marks, rows, at>> /\ (at = "mask" => todo' = todo)
    BY <1>6 DEF AllowFiles, ChooseEnvironment, ChooseFiles, Acts, process
  <2> QED
    BY <2>1
<1>7. ASSUME NEW s \in Secrets, SweepRow(s) \/ SaveSecret(s) \/ DeleteSecret(s) PROVE Kept
  <2>1. UNCHANGED <<marks, rows, at>> /\ (at = "mask" => todo' = todo)
    BY <1>7 DEF SweepRow, SaveSecret, DeleteSecret, Acts, process
  <2> QED
    BY <2>1
<1>8. CASE UNCHANGED vars
  BY <1>8 DEF vars, disk, process
<1> QED
  BY <1>1, <1>2, <1>3, <1>4, <1>5, <1>6, <1>7, <1>8 DEF Next

(* The sealing: nobody runs between the sweep that found nothing left and  *)
(* the marker.                                                             *)
LEMMA SealStep == ASSUME TypeOK, SealInv, [Next]_vars PROVE SealInv'
<1> USE DEF SealInv, Plaintext
<1>1. CASE SweepEnds
  BY <1>1 DEF SweepEnds
<1>2. CASE Vacuum
  BY <1>2 DEF Vacuum
<1>3. CASE \/ Start \/ ActivateEnvironments \/ FilesAllowed \/ MaskBegins \/ MaskEnds
           \/ SweepBegins \/ SweepFails \/ MarkSealed \/ Stops
  <2>1. at' \notin {"vacuum", "vacuumed"}
    BY <1>3 DEF Start, ActivateEnvironments, FilesAllowed, MaskBegins, MaskEnds, SweepBegins,
                SweepFails, MarkSealed, Stops
  <2> QED
    BY <2>1
<1>4. ASSUME NEW p \in Projects, AllowFiles(p) \/ ChooseEnvironment(p) \/ ChooseFiles(p) PROVE SealInv'
  BY <1>4 DEF AllowFiles, ChooseEnvironment, ChooseFiles, Acts, process
<1>5. ASSUME NEW r \in Rows, MaskRow(r) \/ RecordRow(r) \/ DeleteRow(r) PROVE SealInv'
  BY <1>5 DEF MaskRow, RecordRow, DeleteRow, Acts, process
<1>6. ASSUME NEW s \in Secrets, SweepRow(s) \/ SaveSecret(s) \/ DeleteSecret(s) PROVE SealInv'
  BY <1>6 DEF SweepRow, SaveSecret, DeleteSecret, Acts, process
<1>7. CASE UNCHANGED vars
  BY <1>7 DEF vars, disk, process
<1> QED
  BY <1>1, <1>2, <1>3, <1>4, <1>5, <1>6, <1>7 DEF Next

(* The invariant holds of every start, crash and act of the user.          *)
LEMMA UpgradeInvHolds == Spec => []UpgradeInv
<1>1. Init => UpgradeInv
  BY InitHolds, UpgradeConstants
<1>2. UpgradeInv /\ [Next]_vars => UpgradeInv'
  BY TypeStep, ChoicesStep, MaskStep, SealStep, UpgradeConstants DEF UpgradeInv
<1> QED
  BY <1>1, <1>2, PTL DEF Spec

-----------------------------------------------------------------------------
(* The disk and the process keep their types, and only known markers are   *)
(* ever written.                                                           *)
THEOREM UpgradeTypeCorrect == Spec => []TypeOK
<1>1. UpgradeInv => TypeOK
  BY DEF UpgradeInv
<1> QED
  BY <1>1, UpgradeInvHolds, PTL

(* No later start undoes "No environment" once the environments are        *)
(* settled, or a file access refused once its marker is written; and that  *)
(* marker is written only when every project has been allowed its files.   *)
THEOREM ChoicesAreKept == Spec => []ChoicesStay
<1>1. UpgradeInv => ChoicesStay
  BY DEF UpgradeInv
<1> QED
  BY <1>1, UpgradeInvHolds, PTL

(* The marker of the masking is never written over a row it could mask.    *)
THEOREM MaskingIsDone == Spec => []MaskMarkMeansMasked
<1>1. UpgradeInv => MaskMarkMeansMasked
  BY DEF UpgradeInv
<1> QED
  BY <1>1, UpgradeInvHolds, PTL

(* The marker of the sealing comes after the plaintext is gone from the    *)
(* rows and, when anything was sealed, from the freed pages.               *)
THEOREM SealingIsDone == Spec => SealMarkMeansClean
<1> DEFINE Clean == ("seal" \in marks' /\ "seal" \notin marks) =>
                       Plaintext = {} /\ (SealedExist => ~traces)
<1>1. UpgradeInv /\ [Next]_vars => Clean
  <2> SUFFICES ASSUME UpgradeInv, [Next]_vars, "seal" \in marks', "seal" \notin marks
               PROVE  Plaintext = {} /\ (SealedExist => ~traces)
    OBVIOUS
  <2>1. CASE SweepEnds
    BY <2>1 DEF SweepEnds, Mark
  <2>2. CASE MarkSealed
    BY <2>2 DEF MarkSealed, UpgradeInv, SealInv
  <2>3. CASE ActivateEnvironments \/ FilesAllowed \/ MaskEnds
    BY <2>3 DEF ActivateEnvironments, FilesAllowed, MaskEnds, Mark
  <2>4. CASE ~(SweepEnds \/ MarkSealed \/ ActivateEnvironments \/ FilesAllowed \/ MaskEnds)
    <3>1. marks' = marks
      BY <2>4 DEF Next, Start, MaskBegins, SweepBegins, SweepFails, Vacuum, Stops, AllowFiles,
                  ChooseEnvironment, ChooseFiles, MaskRow, RecordRow, DeleteRow, SweepRow,
                  SaveSecret, DeleteSecret, Acts, disk, vars
    <3> QED
      BY <3>1
  <2> QED
    BY <2>1, <2>2, <2>3, <2>4
<1>2. Clean <=> (("seal" \in marks' /\ "seal" \notin marks) =>
                    Plaintext = {} /\ (SealedExist => ~traces))
  OBVIOUS
<1> QED
  BY <1>1, UpgradeInvHolds, PTL DEF Spec, SealMarkMeansClean

=============================================================================
