---------------------------- MODULE StartupProofs ----------------------------
(* What holds of the copies for every set of builds, every number of kept  *)
(* copies, and every sequence of starts, crashes and installations.        *)
EXTENDS Startup, SequenceTheorems, TLAPS

CopyType == [label : Builds, of : Contents, sealed : BOOLEAN]

(* A copy is only under way when this build has none, so the one pruning   *)
(* follows is this build's and the newest; and what a keychain could seal  *)
(* is sealed before the copy gets its name.                                *)
CopyInv ==
    /\ at \in {"copy", "seal", "rename"} => installed \notin Labels
    /\ at = "prune" =>
          /\ copies # <<>> /\ copies[Len(copies)].label = installed
          /\ clean => installed \notin copies[Len(copies)].of.touched
    /\ at = "rename" /\ keychain => ~partial.plain

StartupInv == TypeOK /\ CopyInv /\ CleanCopyStays /\ CopiesAreSealed

-----------------------------------------------------------------------------
(* What pruning leaves: the newest copies, Keep of them if there are so    *)
(* many, each at its place counted from the end, and nothing new.          *)
Pruned(kept) ==
    /\ kept \in Seq(CopyType)
    /\ Len(Newest) = IF Len(copies) > Keep THEN Keep ELSE Len(copies)
    /\ Len(kept) >= Len(Newest)
    /\ \A k \in 0..(Len(Newest) - 1) : kept[Len(kept) - k] = copies[Len(copies) - k]
    /\ \A i \in DOMAIN kept : \E j \in DOMAIN copies : kept[i] = copies[j]

(* That is what PruneCopies leaves, wherever it ends.                      *)
LEMMA NewestStay ==
    ASSUME StartupConstants, copies \in Seq(CopyType),
           NEW left \in 0..(Len(copies) - Len(Newest)),
           NEW kept, kept = SubSeq(copies, 1, left) \o Newest
    PROVE  Pruned(kept)
<1>0. Keep \in Nat /\ Keep > 0 /\ Len(copies) \in Nat
  BY DEF StartupConstants
<1>1. /\ Newest \in Seq(CopyType)
      /\ Len(Newest) = IF Len(copies) > Keep THEN Keep ELSE Len(copies)
      /\ \A i \in 1..Len(Newest) : Newest[i] = copies[Len(copies) - Len(Newest) + i]
  <2>1. CASE Len(copies) > Keep
    BY <1>0, <2>1 DEF Newest
  <2>2. CASE ~(Len(copies) > Keep)
    BY <1>0, <2>2 DEF Newest
  <2> QED
    BY <2>1, <2>2
<1> DEFINE older == SubSeq(copies, 1, left)
<1>2. left \in Nat /\ left <= Len(copies) /\ Len(Newest) \in Nat
  BY <1>0, <1>1
<1>3. /\ older \in Seq(CopyType) /\ Len(older) = left
      /\ \A i \in 1..left : older[i] = copies[i]
  BY <1>0, <1>2
<1> HIDE DEF older
<1>4. kept = older \o Newest
  BY DEF older
<1>5. /\ kept \in Seq(CopyType) /\ Len(kept) = left + Len(Newest)
      /\ \A i \in 1..Len(kept) : kept[i] = IF i <= left THEN older[i] ELSE Newest[i - left]
  <2>1. Len(older) + Len(Newest) = left + Len(Newest)
    BY <1>3
  <2>2. DOMAIN kept = 1..Len(kept)
    BY <1>1, <1>3, <1>4
  <2>3. kept \in Seq(CopyType) /\ Len(kept) = Len(older) + Len(Newest)
    BY <1>1, <1>3, <1>4, ConcatProperties
  <2>4. \A i \in 1..(Len(older) + Len(Newest)) :
           kept[i] = IF i <= Len(older) THEN older[i] ELSE Newest[i - Len(older)]
    BY <1>1, <1>3, <1>4, ConcatProperties
  <2> QED
    BY <1>3, <2>1, <2>2, <2>3, <2>4
<1>6. ASSUME NEW k \in 0..(Len(Newest) - 1) PROVE kept[Len(kept) - k] = copies[Len(copies) - k]
  <2>1. /\ Len(kept) - k \in 1..Len(kept) /\ ~(Len(kept) - k <= left)
        /\ (Len(kept) - k) - left = Len(Newest) - k /\ Len(Newest) - k \in 1..Len(Newest)
    BY <1>2, <1>5
  <2>2. kept[Len(kept) - k] = Newest[Len(Newest) - k]
    BY <1>5, <2>1
  <2>3. Newest[Len(Newest) - k] = copies[Len(copies) - Len(Newest) + (Len(Newest) - k)]
    BY <1>1, <2>1
  <2>4. Len(copies) - Len(Newest) + (Len(Newest) - k) = Len(copies) - k
    BY <1>0, <1>2
  <2> QED
    BY <2>2, <2>3, <2>4
<1>7. ASSUME NEW i \in DOMAIN kept PROVE \E j \in DOMAIN copies : kept[i] = copies[j]
  <2>0. i \in 1..Len(kept) /\ DOMAIN copies = 1..Len(copies)
    BY <1>5
  <2>1. CASE i <= left
    <3>1. i \in 1..left /\ i \in DOMAIN copies
      BY <1>0, <1>2, <2>0, <2>1
    <3> QED
      BY <1>3, <1>5, <2>0, <2>1, <3>1
  <2>2. CASE ~(i <= left)
    <3>1. i - left \in 1..Len(Newest) /\ Len(copies) - Len(Newest) + (i - left) \in DOMAIN copies
      BY <1>0, <1>1, <1>2, <1>5, <2>0, <2>2
    <3>2. kept[i] = copies[Len(copies) - Len(Newest) + (i - left)]
      BY <1>1, <1>5, <2>0, <2>2, <3>1
    <3> QED
      BY <3>1, <3>2
  <2> QED
    BY <2>1, <2>2
<1> QED
  BY <1>1, <1>2, <1>5, <1>6, <1>7 DEF Pruned

(* The first start finds no copy.                                          *)
LEMMA InitHolds == ASSUME StartupConstants, Init PROVE StartupInv
<1>1. copies = <<>> /\ at = "off" /\ clean = FALSE
  BY DEF Init
<1>2. content \in Contents /\ partial \in Contents
  <2>1. Empty \in Contents
    BY DEF StartupConstants, Empty, Contents
  <2>2. [edits : {0}, touched : {{}}, plain : BOOLEAN] \subseteq Contents
    BY DEF StartupConstants, Contents
  <2>3. content \in {Empty} \cup [edits : {0}, touched : {{}}, plain : BOOLEAN]
    BY DEF Init
  <2> QED
    BY <2>1, <2>2, <2>3 DEF Init
<1>3. copies \in Seq(CopyType)
  BY <1>1
<1>4. TypeOK
  <2>1. starts \in 0..MaxStarts
    BY DEF Init, StartupConstants
  <2> QED
    BY <1>2, <1>3, <2>1 DEF Init, TypeOK, Steps, CopyType
<1> QED
  BY <1>1, <1>4 DEF StartupInv, CopyInv, CleanCopyStays, CopiesAreSealed

(* Every step keeps the types.                                             *)
LEMMA TypeStep == ASSUME StartupConstants, TypeOK, [Next]_vars PROVE TypeOK'
<1> USE DEF StartupConstants, TypeOK, Steps, process
<1>0. Empty \in Contents
  BY DEF Empty, Contents
<1>1. CASE Start
  <2>1. starts' \in 0..MaxStarts
    BY <1>1 DEF Start
  <2> QED
    BY <1>0, <1>1, <2>1 DEF Start, Step
<1>2. CASE CheckCopy
  BY <1>2 DEF CheckCopy
<1>3. CASE CopyFile
  BY <1>3 DEF CopyFile
<1>4. CASE SealCopy
  <2>1. [partial EXCEPT !.plain = FALSE] \in Contents
    BY DEF Contents
  <2> QED
    BY <1>0, <1>4, <2>1 DEF SealCopy
<1>5. CASE RenameCopy
  <2>1. clean' \in BOOLEAN
    BY <1>5 DEF RenameCopy
  <2>2. copies' \in Seq([label : Builds, of : Contents, sealed : BOOLEAN])
    <3> DEFINE new == [label |-> installed, of |-> partial, sealed |-> keychain]
               set == [label : Builds, of : Contents, sealed : BOOLEAN]
    <3>1. new \in set
      OBVIOUS
    <3>2. copies' = copies \/ copies' = Append(copies, new)
      BY <1>5 DEF RenameCopy
    <3>3. copies \in Seq(set)
      OBVIOUS
    <3> HIDE DEF new, set
    <3>4. copies' \in Seq(set)
      BY <3>1, <3>2, <3>3
    <3> QED
      BY <3>4 DEF set
  <2> QED
    BY <1>0, <1>5, <2>1, <2>2 DEF RenameCopy
<1>6. CASE PruneCopies
  <2>1. copies' \in Seq(CopyType)
    BY <1>6, NewestStay DEF PruneCopies, CopyType, Pruned
  <2> QED
    BY <1>6, <2>1 DEF PruneCopies, Step, CopyType
<1>7. CASE OpenFile
  <2>1. content' \in Contents
    BY <1>7 DEF OpenFile, Contents
  <2> QED
    BY <1>7, <2>1 DEF OpenFile
<1>8. CASE Quarantine
  BY <1>0, <1>8 DEF Quarantine
<1>9. CASE MigrationFails \/ Migrated \/ WriteMarker
  BY <1>9 DEF MigrationFails, Migrated, WriteMarker, Step
<1>10. CASE Edit
  <2>1. content' \in Contents
    <3>1. content.plain \in BOOLEAN /\ content.edits \in Nat /\ content.edits + 1 \in 0..MaxEdits
      BY <1>10 DEF Edit, Contents
    <3>2. (content.plain \/ ~keychain) \in BOOLEAN
      OBVIOUS
    <3>3. content' = [content EXCEPT !.edits = content.edits + 1, !.plain = content.plain \/ ~keychain]
      BY <1>10 DEF Edit
    <3> QED
      BY <3>1, <3>2, <3>3 DEF Contents
  <2> QED
    BY <1>10, <2>1 DEF Edit
<1>11. CASE Stops
  BY <1>0, <1>11 DEF Stops
<1>12. CASE Corrupts
  BY <1>12 DEF Corrupts
<1>13. ASSUME NEW b \in Builds, Install(b) PROVE TypeOK'
  BY <1>13 DEF Install
<1>14. CASE UNCHANGED vars
  BY <1>14 DEF vars
<1> QED
  BY <1>1, <1>2, <1>3, <1>4, <1>5, <1>6, <1>7, <1>8, <1>9, <1>10, <1>11, <1>12, <1>13, <1>14
  DEF Next

(* A step that leaves the copies, the build and the observation alone and  *)
(* leads to no step of the copy keeps everything said of them.             *)
LEMMA CopiesAlone ==
    ASSUME CleanCopyStays, CopiesAreSealed, UNCHANGED <<installed, copies, clean>>,
           at' \notin {"copy", "seal", "rename", "prune"}
    PROVE  CopyInv' /\ CleanCopyStays' /\ CopiesAreSealed'
BY DEF CopyInv, CleanCopyStays, CopiesAreSealed

(* The steps of the copy keep the clean one, and add none with plaintext.  *)
LEMMA CopyStep ==
    ASSUME StartupConstants, StartupInv, TypeOK', [Next]_vars
    PROVE  CopyInv' /\ CleanCopyStays' /\ CopiesAreSealed'
<1> DEFINE Kept == CopyInv' /\ CleanCopyStays' /\ CopiesAreSealed'
<1> USE DEF StartupInv
<1>1. CASE CheckCopy
  <2>1. /\ UNCHANGED <<installed, copies, clean>>
        /\ at' \in {"copy", "open"} /\ (at' = "copy" => installed \notin Labels)
    BY <1>1 DEF CheckCopy, NeedsCopy
  <2> QED
    BY <2>1 DEF CopyInv, CleanCopyStays, CopiesAreSealed, Labels
<1>2. CASE CopyFile
  <2>1. /\ UNCHANGED <<installed, copies, clean>>
        /\ at' \in {"seal", "open"} /\ installed \notin Labels
    BY <1>2 DEF CopyFile, CopyInv
  <2> QED
    BY <2>1 DEF CopyInv, CleanCopyStays, CopiesAreSealed, Labels
<1>3. CASE SealCopy
  <2>1. /\ UNCHANGED <<installed, copies, clean, keychain>>
        /\ at' \in {"rename", "open"} /\ installed \notin Labels
    BY <1>3 DEF SealCopy, CopyInv
  <2>2. at' = "rename" /\ keychain => ~partial'.plain
    BY <1>3 DEF SealCopy, TypeOK, Contents
  <2> QED
    BY <2>1, <2>2 DEF CopyInv, CleanCopyStays, CopiesAreSealed, Labels
<1>4. CASE RenameCopy
  <2>1. CASE at' = "open"
    BY <1>4, <2>1, CopiesAlone DEF RenameCopy
  <2>2. CASE at' # "open"
    <3> DEFINE new == [label |-> installed, of |-> partial, sealed |-> keychain]
    <3>1. /\ at' = "prune" /\ installed' = installed
          /\ copies' = Append(copies, new)
          /\ clean' = (clean \/ installed \notin partial.touched)
      BY <1>4, <2>2 DEF RenameCopy
    <3>2. installed \notin Labels /\ (keychain => ~partial.plain)
      BY <1>4 DEF RenameCopy, CopyInv
    <3>3. ~clean
      BY <3>2 DEF CleanCopyStays, Labels
    <3>4. /\ Len(copies') = Len(copies) + 1 /\ copies'[Len(copies')] = new
          /\ DOMAIN copies' = 1..(Len(copies) + 1) /\ DOMAIN copies = 1..Len(copies)
          /\ Len(copies) \in Nat
          /\ \A k \in 1..Len(copies) : copies'[k] = copies[k]
      BY <3>1 DEF TypeOK
    <3>5. /\ new.label = installed /\ new.of = partial /\ new.sealed = keychain
      OBVIOUS
    <3> HIDE DEF new
    <3>6. clean' => installed \notin partial.touched
      BY <3>1, <3>3
    <3>7. CopyInv'
      BY <3>1, <3>4, <3>5, <3>6 DEF CopyInv
    <3>8. CleanCopyStays'
      BY <3>1, <3>4, <3>5, <3>6 DEF CleanCopyStays
    <3>9. ASSUME NEW k \in DOMAIN copies', copies'[k].sealed PROVE ~copies'[k].of.plain
      <4>1. CASE k = Len(copies')
        BY <3>2, <3>4, <3>5, <3>9, <4>1
      <4>2. CASE k # Len(copies')
        <5>1. k \in DOMAIN copies /\ copies'[k] = copies[k]
          BY <3>4, <4>2
        <5> QED
          BY <3>9, <5>1 DEF CopiesAreSealed
      <4> QED
        BY <4>1, <4>2
    <3> QED
      BY <3>7, <3>8, <3>9 DEF CopiesAreSealed
  <2> QED
    BY <2>1, <2>2
<1>5. CASE PruneCopies
  <2>1. PICK left \in 0..(Len(copies) - Len(Newest)) : copies' = SubSeq(copies, 1, left) \o Newest
    BY <1>5 DEF PruneCopies
  <2>2. at = "prune" /\ at' = "open" /\ installed' = installed /\ clean' = clean
    BY <1>5 DEF PruneCopies, Step
  <2>3. copies # <<>> /\ copies \in Seq(CopyType) /\ Len(copies) \in Nat \ {0}
    BY <2>2 DEF CopyInv, TypeOK, CopyType
  <2>4. Pruned(copies')
    BY <2>1, <2>3, NewestStay
  <2>5. Len(Newest) \in Nat \ {0} /\ 0 \in 0..(Len(Newest) - 1)
    BY <2>3, <2>4 DEF StartupConstants, Pruned
  <2>6. Len(copies') \in DOMAIN copies' /\ copies'[Len(copies')] = copies[Len(copies)]
    <3>1. Len(copies') \in Nat \ {0} /\ DOMAIN copies' = 1..Len(copies')
      BY <2>3, <2>4, <2>5 DEF Pruned
    <3>2. copies'[Len(copies') - 0] = copies[Len(copies) - 0]
      BY <2>4, <2>5 DEF Pruned
    <3> QED
      BY <2>3, <3>1, <3>2
  <2>7. CleanCopyStays'
    BY <2>2, <2>6 DEF CopyInv, CleanCopyStays
  <2>8. CopiesAreSealed'
    BY <2>4 DEF CopiesAreSealed, Pruned
  <2>9. CopyInv'
    BY <2>2 DEF CopyInv
  <2> QED
    BY <2>7, <2>8, <2>9
<1>6. CASE Start \/ OpenFile \/ MigrationFails \/ Migrated \/ WriteMarker \/ Edit \/ Stops \/ Corrupts
  <2>1. UNCHANGED <<installed, copies, clean>> /\ at' \notin {"copy", "seal", "rename", "prune"}
    BY <1>6 DEF Start, OpenFile, MigrationFails, Migrated, WriteMarker, Edit, Stops, Corrupts,
                Step, process
  <2> QED
    BY <2>1, CopiesAlone
<1>7. CASE Quarantine
  <2>1. UNCHANGED <<installed, copies, clean>> /\ at' \notin {"copy", "seal", "rename", "prune"}
    BY <1>7 DEF Quarantine
  <2> QED
    BY <2>1, CopiesAlone
<1>8. ASSUME NEW b \in Builds, Install(b) PROVE Kept
  <2>1. at' = "off" /\ clean' = FALSE /\ copies' = copies
    BY <1>8 DEF Install, process
  <2> QED
    BY <2>1 DEF CopyInv, CleanCopyStays, CopiesAreSealed
<1>9. CASE UNCHANGED vars
  BY <1>9 DEF vars, process, CopyInv, CleanCopyStays, CopiesAreSealed, Labels
<1> QED
  BY <1>1, <1>2, <1>3, <1>4, <1>5, <1>6, <1>7, <1>8, <1>9 DEF Next

(* The invariant holds of every start.                                     *)
LEMMA StartupInvHolds == Spec => []StartupInv
<1>1. Init => StartupInv
  BY InitHolds, StartupConstants
<1>2. StartupInv /\ [Next]_vars => StartupInv'
  <2> SUFFICES ASSUME StartupInv, [Next]_vars PROVE StartupInv'
    OBVIOUS
  <2>1. TypeOK'
    BY TypeStep, StartupConstants DEF StartupInv
  <2> QED
    BY <2>1, CopyStep, StartupConstants DEF StartupInv
<1> QED
  BY <1>1, <1>2, PTL DEF Spec

-----------------------------------------------------------------------------
(* The disk and the process keep their types.                              *)
THEOREM StartupTypeCorrect == Spec => []TypeOK
<1>1. StartupInv => TypeOK
  BY DEF StartupInv
<1> QED
  BY <1>1, StartupInvHolds, PTL

(* The copy taken before a build touched the database outlives every       *)
(* retry, crash and pruning while that build is installed.                 *)
THEOREM CleanCopyIsKept == Spec => []CleanCopyStays
<1>1. StartupInv => CleanCopyStays
  BY DEF StartupInv
<1> QED
  BY <1>1, StartupInvHolds, PTL

(* No copy made with a keychain at hand holds a plaintext secret.          *)
THEOREM CopiesHoldNoPlaintext == Spec => []CopiesAreSealed
<1>1. StartupInv => CopiesAreSealed
  BY DEF StartupInv
<1> QED
  BY <1>1, StartupInvHolds, PTL

(* Only pruning after a new copy loses copies, and never one of the last   *)
(* Keep.                                                                   *)
THEOREM OldCopiesOnly == Spec => OnlyOldCopiesGo
<1> DEFINE Fewer == Len(copies') < Len(copies)
           Old == /\ copies[Len(copies)].label = installed
                  /\ \A k \in 0..(Keep - 1) : copies'[Len(copies') - k] = copies[Len(copies) - k]
<1>1. StartupInv /\ [Next]_vars => (Fewer => Old)
  <2> SUFFICES ASSUME StartupInv, [Next]_vars, Fewer PROVE Old
    OBVIOUS
  <2>1. copies \in Seq(CopyType) /\ Len(copies) \in Nat
    BY DEF StartupInv, TypeOK, CopyType
  <2>2. CASE PruneCopies
    <3>1. PICK left \in 0..(Len(copies) - Len(Newest)) : copies' = SubSeq(copies, 1, left) \o Newest
      BY <2>2 DEF PruneCopies
    <3>2. Pruned(copies')
      BY <2>1, <3>1, NewestStay, StartupConstants
    <3>3. Len(Newest) = Keep
      BY <2>1, <3>2, StartupConstants DEF StartupConstants, Pruned
    <3> QED
      BY <2>2, <3>2, <3>3 DEF StartupInv, CopyInv, PruneCopies, Step, Pruned
  <2>3. CASE RenameCopy
    <3>1. Len(copies') = Len(copies) \/ Len(copies') = Len(copies) + 1
      BY <2>1, <2>3 DEF RenameCopy
    <3> QED
      BY <2>1, <3>1
  <2>4. CASE ~PruneCopies /\ ~RenameCopy
    <3>1. copies' = copies
      BY <2>4 DEF Next, Start, CheckCopy, CopyFile, SealCopy, OpenFile, Quarantine, MigrationFails,
                  Migrated, WriteMarker, Edit, Stops, Corrupts, Install, vars
    <3> QED
      BY <2>1, <3>1
  <2> QED
    BY <2>2, <2>3, <2>4
<1>2. (Fewer => Old) <=> (Len(copies') < Len(copies) =>
          /\ copies[Len(copies)].label = installed
          /\ \A k \in 0..(Keep - 1) : copies'[Len(copies') - k] = copies[Len(copies) - k])
  OBVIOUS
<1> QED
  BY <1>1, StartupInvHolds, PTL DEF Spec, OnlyOldCopiesGo

=============================================================================
