------------------------ MODULE PatchCommit_proofs ------------------------
(***************************************************************************)
(* Theorems about PatchCommit, for every patch, every number of changes,   *)
(* every order of their kinds and any number of failing calls and edits.   *)
(*                                                                         *)
(* The inductive invariant IInv has four layers. Typed says which changes  *)
(* are pushed and which call suits which change. Looked says what the last *)
(* look at each change found, for the files nobody has edited since: it    *)
(* holds whatever other programs do. Pristine says what the workspace is   *)
(* as long as no other program has edited it: then each change is either   *)
(* applied, undone or not begun, the directories are those of before and   *)
(* those recorded, and only a failing call starts a rollback. Ordered says *)
(* of the files nobody has edited since they were looked at that the       *)
(* changes behind the one a call is about are made and those beyond it not *)
(* begun or undone, and keeps that when the commit ends uncertain or is    *)
(* interrupted. A call of commitPatch changes the paths of its own change  *)
(* alone (CommitFrame), so what is known of the others stays (OthersStay). *)
(***************************************************************************)
EXTENDS PatchCommit, SequenceTheorems, TLAPS

Guarding == pc \in {"guardSource", "guardDestination"}
Applying == pc \in {"makeParent", "rename", "write", "remove"}
Undoing  == pc \in {"undoRemove", "undoWrite"}

\* Which changes are pushed, and which call suits which change.
Place ==
    /\ Guarding => applied = 0
    /\ Applying => applied = at
    /\ pc = "verify" => applied = N
    /\ Undoing \/ pc = "recheck" => at <= applied
    /\ pc \in {"makeParent", "undoRemove"} => change.kind \in {"ADD", "MOVE"}
    /\ pc = "rename" => change.kind = "MOVE"
    /\ pc = "write" => change.kind # "DELETE" /\ change.rewrites
    /\ pc = "remove" => change.kind = "DELETE"
    /\ pc = "undoWrite" => change.kind # "ADD"
    /\ pc = "prune" => applied > 0
    /\ pc # "ended" => outcome = "NONE" /\ verdict = "NONE"
    /\ outcome = "NONE" \/ verdict = "NONE"
    /\ outcome = "REFUSED" => applied = 0

Typed == TypeOK /\ Place

\* What parsePatch guarantees of a change.
Sound(c) ==
    /\ WellFormed(c)
    /\ c.kind \in {"ADD", "UPDATE", "DELETE", "MOVE"}
    /\ c.rewrites \in BOOLEAN
    /\ c.source \in Files <=> c.kind # "ADD"
    /\ c.target \in Files <=> c.kind \in {"ADD", "MOVE"}
    /\ c.source \notin Files => c.source = NoFile
    /\ c.target \notin Files => c.target = NoFile

\* The facts of a patch: it has a change, its changes are sound, their paths distinct.
LEMMA PatchFacts ==
  ASSUME patch \in Patches
  PROVE  /\ N \in Nat \ {0}
         /\ \A i \in 1 .. N : Sound(patch[i])
         /\ \A i, j \in 1 .. N : i # j => Paths(patch[i]) \cap Paths(patch[j]) = {}
<1>1. patch \in Seq(Changes) /\ patch # <<>> BY PatchesAssumption
<1>2. N \in Nat /\ DOMAIN patch = 1 .. N BY <1>1 DEF N
<1>3. N # 0 BY <1>1, <1>2 DEF N
<1>4. ASSUME NEW i \in 1 .. N PROVE Sound(patch[i])
  <2>1. patch[i] \in Changes BY <1>1, <1>2
  <2>2. WellFormed(patch[i]) BY <1>2, PatchesAssumption
  <2>3. QED BY <2>1, <2>2, FilesAssumption DEF Changes, WellFormed, Sound
<1>5. ASSUME NEW i \in 1 .. N, NEW j \in 1 .. N, i # j
      PROVE  Paths(patch[i]) \cap Paths(patch[j]) = {}
  BY <1>2, <1>5, PatchesAssumption
<1>6. N \in Nat \ {0} BY <1>2, <1>3
<1>7. QED BY <1>4, <1>5, <1>6

\* All of a sequence but its last element.
LEMMA AllButLast ==
  ASSUME NEW S, NEW s \in Seq(S), s # <<>>
  PROVE  /\ SubSeq(s, 1, Len(s) - 1) \in Seq(S)
         /\ Len(SubSeq(s, 1, Len(s) - 1)) = Len(s) - 1
         /\ \A i \in 1 .. Len(s) - 1 : SubSeq(s, 1, Len(s) - 1)[i] = s[i]
<1>1. Len(s) - 1 \in Nat BY EmptySeq
<1>2. \A i \in 1 .. Len(s) - 1 : s[i] \in S BY ElementOfSeq, <1>1
<1>3. SubSeq(s, 1, Len(s) - 1) \in Seq(S) BY <1>1, <1>2, SubSeqProperties
<1>4. Len(SubSeq(s, 1, Len(s) - 1)) = Len(s) - 1
  <2> DEFINE L == Len(s) - 1
  <2>1. Len(SubSeq(s, 1, L)) = IF 1 <= L THEN L - 1 + 1 ELSE 0 BY <1>1, <1>2, SubSeqProperties
  <2>2. L \in Nat BY <1>1
  <2> HIDE DEF L
  <2>3. Len(SubSeq(s, 1, L)) = L BY <2>1, <2>2
  <2>4. QED BY <2>3 DEF L
<1>5. \A i \in 1 .. Len(s) - 1 : SubSeq(s, 1, Len(s) - 1)[i] = s[i] BY <1>1
<1>6. QED BY <1>3, <1>4, <1>5

\* A prepared patch is at its first guard.
LEMMA InitTyped == Init => Typed
<1> SUFFICES ASSUME Init PROVE Typed
  OBVIOUS
<1>1. N \in Nat \ {0} BY PatchFacts DEF Init
<1>2. file \in [Files -> Contents] BY DEF Init, Contents, Before
<1>3. dirs \subseteq {Dir[f] : f \in Files} BY DirsAssumption DEF Init
<1>4. faults \in 0 .. MaxFaults /\ edits \in 0 .. MaxEdits BY BoundsAssumption DEF Init
<1>5. created \in Seq({Dir[f] : f \in Files}) BY DEF Init
<1>6. at \in 1 .. N /\ applied \in 0 .. N BY <1>1 DEF Init
<1>7. QED
  BY <1>1, <1>2, <1>3, <1>4, <1>5, <1>6 DEF Init, Typed, TypeOK, Place, Guarding, Applying, Undoing

\* Every call of commitPatch leads to one that suits its change.
LEMMA CommitKeepsTyped ==
  ASSUME Typed, commitPatch
  PROVE  Typed'
<1> USE DEF Typed
<1>0. patch \in Patches /\ at \in 1 .. N BY DEF TypeOK
<1>1. N \in Nat \ {0} /\ \A i \in 1 .. N : Sound(patch[i])
  BY <1>0, PatchFacts
<1>2. patch' = patch /\ N' = N
  BY DEF commitPatch, guardSource, guardDestination, createParentDirectories, movePatchFile,
         writePatchFile, removePatchFile, verifyChange, undoRemove, undoWrite,
         removePatchDirectoryIfEmpty, recheck, UnchangedAround, UnchangedOthers, N
<1> DEFINE P == patch[at]
<1>3. /\ change = P /\ change' = patch[at']
  BY <1>2 DEF change
<1>4. at \in 1 .. N /\ applied \in 0 .. N /\ faults \in 0 .. MaxFaults /\ MaxFaults \in Nat
  BY BoundsAssumption DEF TypeOK
<1> USE DEF Goto, End, FirstCall, FirstUndo, Apply, NextChange, RollBack, NextUndo, Fails,
            UnchangedFiles, UnchangedAround, UnchangedOthers, LooksAt
<1>5. CASE guardSource
  BY <1>0, <1>1, <1>2, <1>3, <1>4, <1>5
  DEF guardSource, TypeOK, Place, Guarding, Applying, Undoing, Sound, WellFormed, Written
<1>6. CASE guardDestination
  BY <1>0, <1>1, <1>2, <1>3, <1>4, <1>6
  DEF guardDestination, TypeOK, Place, Guarding, Applying, Undoing, Sound, WellFormed, Written
<1>7. CASE createParentDirectories
  <2>1. change.target \in Files BY <1>0, <1>1, <1>3, <1>7 DEF createParentDirectories, Place, Sound
  <2>2. created' \in Seq({Dir[f] : f \in Files}) /\ dirs' \subseteq {Dir[f] : f \in Files}
    BY <1>7, <2>1, AppendProperties DEF createParentDirectories, TypeOK
  <2>3. QED
    BY <2>1, <2>2, <1>0, <1>1, <1>2, <1>3, <1>4, <1>7
    DEF createParentDirectories, TypeOK, Place, Guarding, Applying, Undoing, Sound, WellFormed,
        Written
<1>8. CASE movePatchFile
  BY <1>0, <1>1, <1>2, <1>3, <1>4, <1>8
  DEF movePatchFile, TypeOK, Place, Guarding, Applying, Undoing, Sound, WellFormed, Written,
      Contents
<1>9. CASE writePatchFile
  BY <1>0, <1>1, <1>2, <1>3, <1>4, <1>9
  DEF writePatchFile, TypeOK, Place, Guarding, Applying, Undoing, Sound, WellFormed, Written,
      Contents, WriteFails
<1>10. CASE removePatchFile
  BY <1>0, <1>1, <1>2, <1>3, <1>4, <1>10
  DEF removePatchFile, TypeOK, Place, Guarding, Applying, Undoing, Sound, WellFormed, Written,
      Contents
<1>11. CASE verifyChange
  BY <1>0, <1>1, <1>2, <1>3, <1>4, <1>11
  DEF verifyChange, TypeOK, Place, Guarding, Applying, Undoing, Sound, WellFormed, Written
<1>12. CASE undoRemove
  BY <1>0, <1>1, <1>2, <1>3, <1>4, <1>12
  DEF undoRemove, TypeOK, Place, Guarding, Applying, Undoing, Sound, WellFormed, Written, Contents
<1>13. CASE undoWrite
  BY <1>0, <1>1, <1>2, <1>3, <1>4, <1>13
  DEF undoWrite, TypeOK, Place, Guarding, Applying, Undoing, Sound, WellFormed, Written, Contents,
      WriteFails
<1>14. CASE removePatchDirectoryIfEmpty
  <2>1. created' \in Seq({Dir[f] : f \in Files})
    <3>1. CASE created = <<>> BY <1>14, <3>1 DEF removePatchDirectoryIfEmpty, TypeOK
    <3>2. CASE created # <<>>
      <4>1. created \in Seq({Dir[f] : f \in Files}) BY DEF TypeOK
      <4>2. QED BY <1>14, <3>2, <4>1, AllButLast DEF removePatchDirectoryIfEmpty
    <3>3. QED BY <3>1, <3>2
  <2>2. dirs' \subseteq dirs BY <1>14 DEF removePatchDirectoryIfEmpty
  <2>3. QED
    BY <2>1, <2>2, <1>0, <1>1, <1>2, <1>3, <1>4, <1>14
    DEF removePatchDirectoryIfEmpty, TypeOK, Place, Guarding, Applying, Undoing, Sound, WellFormed,
        Written
<1>15. CASE recheck
  BY <1>0, <1>1, <1>2, <1>3, <1>4, <1>15
  DEF recheck, TypeOK, Place, Guarding, Applying, Undoing, Sound, WellFormed, Written
<1>16. QED BY <1>5, <1>6, <1>7, <1>8, <1>9, <1>10, <1>11, <1>12, <1>13, <1>14, <1>15 DEF commitPatch

\* So do an inspection, a crash and an edit.
LEMMA BesideKeepsTyped ==
  ASSUME Typed, reconcile \/ Crash \/ (\E f \in Files : Edit(f)) \/ UNCHANGED vars
  PROVE  Typed'
<1> USE DEF Typed
<1>1. N \in Nat \ {0} /\ \A i \in 1 .. N : Sound(patch[i]) BY PatchFacts DEF TypeOK
<1>2. patch' = patch /\ N' = N BY DEF reconcile, Crash, Edit, vars, N
<1>3. change' = patch[at'] /\ change = patch[at] BY <1>2 DEF change
<1>4. CASE reconcile
  <2>1. verdict' \in {"NONE", "MATCHED", "DOES_NOT_MATCH", "INCONCLUSIVE"}
    BY <1>4 DEF reconcile, Inspected, Findings, TypeOK
  <2>2. faults' \in 0 .. MaxFaults /\ at' \in 1 .. N
    BY <1>1, <1>4, BoundsAssumption DEF reconcile, Inspected, Fails, TypeOK
  <2>3. QED
    BY <1>1, <1>2, <1>4, <2>1, <2>2
    DEF reconcile, Inspected, TypeOK, Place, Guarding, Applying, Undoing, LooksAt
<1>5. CASE Crash
  <2>1. file' \in [Files -> Contents] BY <1>5 DEF Crash, TypeOK, Contents
  <2>2. QED BY <1>1, <1>2, <1>5, <2>1 DEF Crash, TypeOK, Place, Guarding, Applying, Undoing
<1>6. CASE \E f \in Files : Edit(f)
  <2>1. file' \in [Files -> Contents] /\ dirs' \subseteq {Dir[f] : f \in Files}
    BY <1>6 DEF Edit, TypeOK, Contents
  <2>2. edits' \in 0 .. MaxEdits BY <1>6, BoundsAssumption DEF Edit, TypeOK
  <2>3. QED BY <1>2, <1>3, <1>6, <2>1, <2>2 DEF Edit, TypeOK, Place, Guarding, Applying, Undoing
<1>7. CASE UNCHANGED vars
  BY <1>2, <1>3, <1>7 DEF vars, TypeOK, Place, Guarding, Applying, Undoing
<1>8. QED BY <1>4, <1>5, <1>6, <1>7

-----------------------------------------------------------------------------
(***************************************************************************)
(* Looked: what the guards, the verifications and the inspection found.    *)
(***************************************************************************)
\* What was found of a change, unless its files were edited since.
OKAt(i)    == Untouched(patch[i]) => Applied(patch[i])
CleanAt(i) == Untouched(patch[i]) => Restored(patch[i])
KeptAt(i)  ==
    /\ patch[i].source \in Files \ touched => file[patch[i].source] = "old"
    /\ patch[i].target \in Files \ touched => file[patch[i].target] = "absent"
MatchedAt(i) ==
    Untouched(patch[i]) =>
        /\ patch[i].kind \in {"ADD", "DELETE"} => Applied(patch[i])
        /\ ~Restored(patch[i]) \/ patch[i].source \in Repetitive

\* What is known of the changes that have been looked at.
Looked ==
    /\ pc = "verify" => \A i \in 1 .. N : i < at => OKAt(i)
    /\ outcome = "OK" => \A i \in 1 .. N : OKAt(i)
    /\ pc # "inspect" /\ verdict = "NONE" => \A i \in 1 .. N : i > applied => KeptAt(i)
    /\ pc = "recheck" => \A i \in 1 .. N : i < at => CleanAt(i)
    /\ outcome = "ROLLED_BACK" => \A i \in 1 .. N : i <= applied => CleanAt(i)
    /\ pc = "inspect" => \A i \in 1 .. N : i < at => MatchedAt(i)
    /\ verdict = "MATCHED" => \A i \in 1 .. N : MatchedAt(i)

\* The workspace a patch was prepared for: sources as read, destinations free.
LEMMA InitLooked == Init => Looked
<1> SUFFICES ASSUME Init PROVE Looked
  OBVIOUS
<1>1. N \in Nat \ {0} /\ \A i \in 1 .. N : Sound(patch[i]) BY PatchFacts DEF Init
<1>2. \A i, j \in 1 .. N : i # j => Paths(patch[i]) \cap Paths(patch[j]) = {} BY PatchFacts DEF Init
<1>3. ASSUME NEW i \in 1 .. N PROVE KeptAt(i)
  <2>1. patch[i].source \in Files => file[patch[i].source] = "old" BY <1>3 DEF Init, Before
  <2>2. patch[i].target \in Files => file[patch[i].target] = "absent"
    <3> SUFFICES ASSUME patch[i].target \in Files PROVE Before(patch[i].target) = "absent"
      BY DEF Init
    <3>1. ASSUME NEW j \in 1 .. N, patch[j].source = patch[i].target PROVE FALSE
      <4>1. CASE j = i BY <1>1, <3>1, <4>1, FilesAssumption DEF Sound, WellFormed
      <4>2. CASE j # i BY <1>2, <3>1, <4>2, FilesAssumption DEF Paths
      <4>3. QED BY <4>1, <4>2
    <3>2. QED BY <3>1 DEF Before
  <2>3. QED BY <2>1, <2>2 DEF KeptAt
<1>4. QED BY <1>1, <1>3 DEF Init, Looked

\* A call of commitPatch is about the paths of its own change.
LEMMA CommitFrame ==
  ASSUME Typed, commitPatch
  PROVE  /\ patch' = patch /\ N' = N /\ verdict' = verdict /\ edits' = edits
         /\ pc # "inspect" /\ pc # "ended"
         /\ \A f \in Files \ Paths(change) :
              file'[f] = file[f] /\ (f \in touched <=> f \in touched')
         /\ touched' \subseteq touched
<1> USE DEF Typed, UnchangedAround, UnchangedOthers, UnchangedFiles, LooksAt
<1>0. Sound(change) BY PatchFacts DEF TypeOK, change
<1>1. CASE guardSource \/ guardDestination \/ verifyChange \/ recheck
  BY <1>1, FilesAssumption DEF guardSource, guardDestination, verifyChange, recheck, Paths, N
<1>2. CASE createParentDirectories \/ movePatchFile
  BY <1>2, FilesAssumption DEF createParentDirectories, movePatchFile, Paths, N, TypeOK
<1>3. CASE writePatchFile
  <2>1. Written(change) \in {change.source, change.target} BY DEF Written
  <2>2. QED BY <1>3, <2>1, FilesAssumption DEF writePatchFile, WriteFails, Paths, N, TypeOK
<1>4. CASE removePatchFile \/ undoRemove \/ undoWrite \/ removePatchDirectoryIfEmpty
  BY <1>4, FilesAssumption
  DEF removePatchFile, undoRemove, undoWrite, removePatchDirectoryIfEmpty, WriteFails, Paths, N,
      TypeOK
<1>5. QED BY <1>1, <1>2, <1>3, <1>4 DEF commitPatch

\* A step that leaves the paths of all other changes alone leaves all that is known
\* of those changes.
LEMMA OthersStay ==
  ASSUME Typed, NEW k \in 1 .. N, patch' = patch,
         \A f \in Files \ Paths(patch[k]) : file'[f] = file[f] /\ (f \in touched <=> f \in touched')
  PROVE  \A i \in 1 .. N : i # k =>
           /\ Untouched(patch[i])' <=> Untouched(patch[i])
           /\ Applied(patch[i])' <=> Applied(patch[i])
           /\ Restored(patch[i])' <=> Restored(patch[i])
           /\ OKAt(i)' <=> OKAt(i)
           /\ CleanAt(i)' <=> CleanAt(i)
           /\ KeptAt(i)' <=> KeptAt(i)
           /\ MatchedAt(i)' <=> MatchedAt(i)
<1> SUFFICES ASSUME NEW i \in 1 .. N, i # k
    PROVE  /\ Untouched(patch[i])' <=> Untouched(patch[i])
           /\ Applied(patch[i])' <=> Applied(patch[i])
           /\ Restored(patch[i])' <=> Restored(patch[i])
           /\ OKAt(i)' <=> OKAt(i)
           /\ CleanAt(i)' <=> CleanAt(i)
           /\ KeptAt(i)' <=> KeptAt(i)
           /\ MatchedAt(i)' <=> MatchedAt(i)
  OBVIOUS
<1>1. Paths(patch[i]) \cap Paths(patch[k]) = {} /\ Sound(patch[i]) BY PatchFacts DEF Typed, TypeOK
<1>2. Paths(patch[i]) \subseteq Files BY <1>1 DEF Paths, Sound
<1>3. \A f \in Paths(patch[i]) : file'[f] = file[f] /\ (f \in touched <=> f \in touched')
  BY <1>1, <1>2
<1>4. Untouched(patch[i])' <=> Untouched(patch[i]) BY <1>3 DEF Untouched
<1>5. Applied(patch[i])' <=> Applied(patch[i])
  <2>1. patch[i].kind \in {"DELETE", "MOVE"} => patch[i].source \in Paths(patch[i])
    BY <1>1, FilesAssumption DEF Sound, Paths
  <2>2. patch[i].kind # "DELETE" => Written(patch[i]) \in Paths(patch[i])
    BY <1>1, FilesAssumption DEF Sound, Paths, Written
  <2>3. QED BY <1>3, <2>1, <2>2 DEF Applied
<1>6. Restored(patch[i])' <=> Restored(patch[i])
  BY <1>3 DEF Restored, Paths
<1>7. KeptAt(i)' <=> KeptAt(i)
  BY <1>3, FilesAssumption DEF KeptAt, Paths
<1>8. QED BY <1>4, <1>5, <1>6, <1>7 DEF OKAt, CleanAt, MatchedAt

\* commitPatch: a guard or a verification adds what it found of its change.
LEMMA CommitKeepsLooked ==
  ASSUME Typed, Typed', Looked, commitPatch
  PROVE  Looked'
<1> USE DEF Typed
<1>0. patch' = patch /\ N' = N /\ verdict' = verdict /\ pc # "inspect" /\ pc # "ended"
  BY CommitFrame
<1>1. N \in Nat \ {0} /\ at \in 1 .. N /\ applied \in 0 .. N /\ Sound(change) /\ change = patch[at]
  BY PatchFacts DEF TypeOK, change
<1>2. \A i \in 1 .. N : i # at =>
        (OKAt(i)' <=> OKAt(i)) /\ (CleanAt(i)' <=> CleanAt(i)) /\ (KeptAt(i)' <=> KeptAt(i))
  BY <1>1, CommitFrame, OthersStay
<1>3. outcome = "NONE" /\ verdict = "NONE" BY <1>0 DEF Place
<1>4. \A i \in 1 .. N : i > applied => KeptAt(i) BY <1>0, <1>3 DEF Looked
<1> USE DEF Goto, End, Apply, NextChange, RollBack, NextUndo, UnchangedFiles, UnchangedAround,
            UnchangedOthers
<1>5. CASE guardSource \/ guardDestination
  <2>1. \A i \in 1 .. N : i = at => KeptAt(i)'
    BY <1>0, <1>1, <1>4, <1>5
    DEF guardSource, guardDestination, KeptAt, LooksAt, Place, Guarding, Sound, WellFormed
  <2>2. \A i \in 1 .. N : KeptAt(i)'
    BY <1>1, <1>2, <1>4, <1>5, <2>1 DEF guardSource, guardDestination, Place, Guarding
  <2>3. outcome' \in {"NONE", "REFUSED"} /\ pc' \notin {"verify", "recheck", "inspect"}
    BY <1>3, <1>5 DEF guardSource, guardDestination, FirstCall
  <2>4. QED BY <1>0, <1>3, <2>2, <2>3 DEF Looked
<1>6. CASE createParentDirectories \/ movePatchFile \/ writePatchFile \/ removePatchFile
  <2>1. applied = at
    BY <1>6
    DEF createParentDirectories, movePatchFile, writePatchFile, removePatchFile, Place, Applying
  <2>2. /\ outcome' = "NONE"
        /\ pc' \notin {"recheck", "inspect"}
        /\ applied' >= applied
        /\ pc' = "verify" => at' = 1
    BY <1>1, <1>3, <1>6, <2>1
    DEF createParentDirectories, movePatchFile, writePatchFile, removePatchFile, FirstCall,
        FirstUndo
  <2>3. applied' \in Nat BY DEF TypeOK
  <2>4. QED BY <1>0, <1>1, <1>2, <1>3, <1>4, <2>1, <2>2, <2>3 DEF Looked
<1>7. CASE verifyChange
  <2>1. applied = N /\ applied' = N BY <1>7 DEF verifyChange, Place
  <2>2. \A i \in 1 .. N : i < at => OKAt(i)' BY <1>1, <1>2, <1>7 DEF Looked, verifyChange
  <2>3. CASE pc' \in {"verify", "ended"}
    <3>1. /\ Applied(change)
          /\ file' = file
          /\ outcome' \in {"NONE", "OK"}
          /\ pc' = "verify" => outcome' = "NONE" /\ at' = at + 1
          /\ outcome' = "OK" => at = N
      BY <1>1, <1>3, <1>7, <2>3 DEF verifyChange, FirstUndo
    <3>2. \A i \in 1 .. N : i = at => OKAt(i)' BY <1>0, <1>1, <3>1 DEF OKAt, Applied
    <3>3. QED BY <1>0, <1>1, <1>3, <2>1, <2>2, <2>3, <3>1, <3>2 DEF Looked
  <2>4. CASE pc' \notin {"verify", "ended"}
    <3>1. pc' \in {"undoRemove", "undoWrite"} /\ outcome' = "NONE"
      BY <1>3, <1>7, <2>4 DEF verifyChange, FirstUndo
    <3>2. \A i \in 1 .. N : ~(i > applied') BY <1>1, <2>1
    <3>3. QED BY <1>0, <1>3, <3>1, <3>2 DEF Looked
  <2>5. QED BY <2>3, <2>4
<1>8. CASE undoRemove \/ undoWrite \/ removePatchDirectoryIfEmpty
  <2>1. applied' = applied BY <1>8 DEF undoRemove, undoWrite, removePatchDirectoryIfEmpty
  <2>2. /\ outcome' \in {"NONE", "UNCERTAIN"}
        /\ pc' \notin {"verify", "inspect"}
        /\ pc' = "recheck" => at' = 1
    BY <1>3, <1>8 DEF undoRemove, undoWrite, removePatchDirectoryIfEmpty, FirstUndo
  <2>3. \A i \in 1 .. N : i > applied => KeptAt(i)'
    <3>1. CASE removePatchDirectoryIfEmpty
      BY <1>0, <1>4, <3>1 DEF removePatchDirectoryIfEmpty, KeptAt
    <3>2. CASE undoRemove \/ undoWrite
      BY <1>1, <1>2, <1>4, <3>2 DEF undoRemove, undoWrite, Place, Undoing
    <3>3. QED BY <1>8, <3>1, <3>2
  <2>4. QED BY <1>0, <1>3, <2>1, <2>2, <2>3 DEF Looked
<1>9. CASE recheck
  <2>1. at <= applied /\ applied' = applied BY <1>9 DEF recheck, Place
  <2>2. \A i \in 1 .. N : i < at => CleanAt(i)' BY <1>1, <1>2, <1>9 DEF Looked, recheck
  <2>3. \A i \in 1 .. N : i > applied => KeptAt(i)' BY <1>1, <1>2, <1>4, <2>1
  <2>4. CASE Restored(change) /\ outcome' # "UNCERTAIN"
    <3>1. /\ file' = file
          /\ outcome' \in {"NONE", "ROLLED_BACK"}
          /\ pc' \in {"recheck", "ended"}
          /\ pc' = "recheck" => outcome' = "NONE" /\ at' = at + 1
          /\ outcome' = "ROLLED_BACK" => at = applied
      BY <1>1, <1>3, <1>9, <2>1, <2>4 DEF recheck
    <3>2. \A i \in 1 .. N : i = at => CleanAt(i)' BY <1>0, <1>1, <2>4, <3>1 DEF CleanAt, Restored
    <3>3. QED BY <1>0, <1>1, <1>3, <2>1, <2>2, <2>3, <3>1, <3>2 DEF Looked
  <2>5. CASE ~(Restored(change) /\ outcome' # "UNCERTAIN")
    <3>1. outcome' = "UNCERTAIN" /\ pc' = "ended" BY <1>3, <1>9, <2>5 DEF recheck
    <3>2. QED BY <1>0, <1>3, <2>1, <2>3, <3>1 DEF Looked
  <2>6. QED BY <2>4, <2>5
<1>10. QED BY <1>5, <1>6, <1>7, <1>8, <1>9 DEF commitPatch

\* An inspection adds what it found; an edit takes away what was known of its file.
LEMMA BesideKeepsLooked ==
  ASSUME Typed, Looked, reconcile \/ Crash \/ (\E f \in Files : Edit(f)) \/ UNCHANGED vars
  PROVE  Looked'
<1> USE DEF Typed
<1>0. patch' = patch /\ N' = N BY DEF reconcile, Crash, Edit, vars, N
<1>1. N \in Nat \ {0} /\ at \in 1 .. N /\ \A i \in 1 .. N : Sound(patch[i])
  BY PatchFacts DEF TypeOK
<1>2. CASE reconcile
  <2>0. /\ pc = "inspect"
        /\ outcome' = "NONE"
        /\ verdict = "NONE"
        /\ file' = file
        /\ applied' = applied
    BY <1>2 DEF reconcile, Place
  <2>1. CASE pc' = "inspect" \/ verdict' = "MATCHED"
    <3>1. "MATCHED" \in Findings(change) /\ touched' = touched \ Paths(patch[at])
      BY <1>2, <2>0, <2>1 DEF reconcile, Inspected, LooksAt, change
    <3>2. \A i \in 1 .. N : i # at => (MatchedAt(i)' <=> MatchedAt(i))
      BY <1>0, <1>1, <2>0, <3>1, OthersStay
    <3>3. \A i \in 1 .. N : i < at => MatchedAt(i)' BY <1>1, <2>0, <3>2 DEF Looked
    <3>4. change = patch[at] /\ Sound(change) BY <1>1 DEF change
    <3>5. change.kind \in {"ADD", "DELETE"} => Applied(change)
      BY <3>1, <3>4 DEF Findings, Sound, WellFormed, Applied, Written, After
    <3>6. ~Restored(change) \/ change.source \in Repetitive
      BY <3>1, <3>4, FilesAssumption DEF Findings, Sound, WellFormed, Restored, Written
    <3>7. \A i \in 1 .. N : i = at => MatchedAt(i)'
      BY <1>0, <2>0, <3>4, <3>5, <3>6 DEF MatchedAt, Applied, Restored
    <3>8. /\ pc' = "inspect" => at' = at + 1 /\ verdict' = "NONE"
          /\ verdict' = "MATCHED" => at = N
          /\ pc' \in {"inspect", "ended"}
      BY <1>1, <1>2, <2>0 DEF reconcile, Inspected
    <3>9. QED BY <1>0, <1>1, <2>0, <2>1, <3>3, <3>7, <3>8 DEF Looked
  <2>2. CASE pc' # "inspect" /\ verdict' # "MATCHED"
    <3>1. pc' = "ended" /\ verdict' # "NONE" BY <1>2, <2>0, <2>2 DEF reconcile, Inspected, Findings
    <3>2. QED BY <2>0, <2>2, <3>1 DEF Looked
  <2>3. QED BY <2>1, <2>2
<1>3. CASE Crash
  BY <1>1, <1>3 DEF Crash, Looked, Place
<1>4. CASE \E f \in Files : Edit(f)
  <2>1. PICK f \in Files : Edit(f) BY <1>4
  <2>2. UNCHANGED <<pc, at, applied, outcome, verdict>> BY <2>1 DEF Edit
  <2>3. touched' = touched \cup {f} /\ \A g \in Files \ {f} : file'[g] = file[g]
    BY <2>1 DEF Edit, TypeOK
  <2>4. ASSUME NEW i \in 1 .. N
        PROVE /\ (OKAt(i) => OKAt(i)')
              /\ (CleanAt(i) => CleanAt(i)')
              /\ (KeptAt(i) => KeptAt(i)')
              /\ (MatchedAt(i) => MatchedAt(i)')
    <3>1. CASE f \in Paths(patch[i])
      <4>1. ~Untouched(patch[i])' BY <1>0, <2>3, <3>1 DEF Untouched
      <4>2. KeptAt(i) => KeptAt(i)' BY <1>0, <2>3 DEF KeptAt
      <4>3. QED BY <4>1, <4>2 DEF OKAt, CleanAt, MatchedAt
    <3>2. CASE f \notin Paths(patch[i])
      <4>1. Sound(patch[i]) BY <1>1
      <4>2. Paths(patch[i]) \subseteq Files BY <4>1 DEF Paths, Sound
      <4>3. \A g \in Paths(patch[i]) : file'[g] = file[g] /\ (g \in touched' <=> g \in touched)
        BY <2>3, <3>2, <4>2
      <4>4. Untouched(patch[i])' <=> Untouched(patch[i]) BY <1>0, <4>3 DEF Untouched
      <4>5. Applied(patch[i])' <=> Applied(patch[i])
        <5>1. patch[i].kind \in {"DELETE", "MOVE"} => patch[i].source \in Paths(patch[i])
          BY <4>1, FilesAssumption DEF Sound, Paths
        <5>2. patch[i].kind # "DELETE" => Written(patch[i]) \in Paths(patch[i])
          BY <4>1, FilesAssumption DEF Sound, Paths, Written
        <5>3. QED BY <1>0, <4>3, <5>1, <5>2 DEF Applied
      <4>6. Restored(patch[i])' <=> Restored(patch[i]) BY <1>0, <4>3 DEF Restored, Paths
      <4>7. KeptAt(i) => KeptAt(i)' BY <1>0, <2>3 DEF KeptAt
      <4>8. QED BY <1>0, <4>4, <4>5, <4>6, <4>7 DEF OKAt, CleanAt, MatchedAt
    <3>3. QED BY <3>1, <3>2
  <2>5. QED BY <1>0, <2>2, <2>4 DEF Looked
<1>5. CASE UNCHANGED vars
  <2>1. UNCHANGED <<patch, file, touched, pc, at, applied, outcome, verdict>> BY <1>5 DEF vars
  <2>2. QED BY <1>0, <2>1 DEF Looked, OKAt, CleanAt, KeptAt, MatchedAt, Untouched, Applied, Restored
<1>6. QED BY <1>2, <1>3, <1>4, <1>5

-----------------------------------------------------------------------------
(***************************************************************************)
(* Pristine: a workspace no other program edits.                           *)
(***************************************************************************)
\* The directories before the patch.
Base == InitialDirs \cup {Dir[f] : f \in {g \in Files : Before(g) = "old"}}

\* The changes that are not begun, or undone.
Intact(i) ==
    \/ i > applied
    \/ Undoing /\ i > at
    \/ pc \in {"prune", "recheck"}
    \/ outcome \in {"REFUSED", "ROLLED_BACK"}

\* The changes that are made.
Done(i) == (Applying /\ i < at) \/ pc = "verify"

\* The change a call is about.
Midway ==
    /\ pc \in {"makeParent", "rename", "remove"} => Restored(change)
    /\ pc = "write" /\ change.kind = "MOVE" => file[change.source] = "absent"
    /\ pc = "undoWrite" /\ change.target # NoFile => file[change.target] = "absent"

\* The files no change names.
Elsewhere ==
    \A f \in Files : (\A i \in 1 .. N : f \notin Paths(patch[i])) => file[f] = Before(f)

\* The directories made are recorded, each once.
DirsKnown ==
    /\ dirs = Base \cup {created[i] : i \in 1 .. Len(created)}
    /\ \A i \in 1 .. Len(created) : created[i] \notin Base
    /\ \A i, j \in 1 .. Len(created) : i # j => created[i] # created[j]
    /\ Guarding \/ pc = "recheck" \/ outcome \in {"REFUSED", "ROLLED_BACK"} => created = <<>>

\* The workspace, while no other program edits it and the process lives.
Course ==
    /\ Elsewhere
    /\ \A i \in 1 .. N : Intact(i) => Restored(patch[i])
    /\ \A i \in 1 .. N : Done(i) => Applied(patch[i])
    /\ Midway
    /\ Undoing \/ pc \in {"prune", "recheck"} => faults >= 1
    /\ DirsKnown

Pristine ==
    edits = 0 =>
        /\ outcome = "UNCERTAIN" => faults >= 2
        /\ pc # "inspect" /\ verdict = "NONE" /\ outcome # "UNCERTAIN" => Course

\* A change is undone when its paths hold what they held before the patch.
LEMMA BeforePatch ==
  ASSUME patch \in Patches
  PROVE  \A i \in 1 .. N : Restored(patch[i]) <=> \A f \in Paths(patch[i]) : file[f] = Before(f)
<1>1. \A i \in 1 .. N : Sound(patch[i]) BY PatchFacts
<1>2. \A i, j \in 1 .. N : i # j => Paths(patch[i]) \cap Paths(patch[j]) = {} BY PatchFacts
<1>3. ASSUME NEW i \in 1 .. N, patch[i].target # NoFile PROVE Before(patch[i].target) = "absent"
  <2>1. ASSUME NEW j \in 1 .. N, patch[j].source = patch[i].target PROVE FALSE
    <3>1. CASE j = i BY <1>1, <1>3, <2>1, <3>1 DEF Sound, WellFormed
    <3>2. CASE j # i BY <1>2, <1>3, <2>1, <3>2 DEF Paths
    <3>3. QED BY <3>1, <3>2
  <2>2. QED BY <2>1 DEF Before
<1>4. \A i \in 1 .. N : Before(patch[i].source) = "old" BY DEF Before
<1>5. QED BY <1>3, <1>4 DEF Restored, Paths

\* At first nothing is done.
LEMMA InitPristine == Init => Pristine
<1> SUFFICES ASSUME Init PROVE Course
  BY DEF Init, Pristine
<1>1. patch \in Patches /\ \A i \in 1 .. N : Sound(patch[i]) BY PatchFacts DEF Init
<1>2. \A i \in 1 .. N : Paths(patch[i]) \subseteq Files BY <1>1 DEF Sound, Paths
<1>3. \A f \in Files : file[f] = Before(f) BY DEF Init
<1>4. \A i \in 1 .. N : Restored(patch[i]) BY <1>1, <1>2, <1>3, BeforePatch
<1>5. DirsKnown BY DEF Init, DirsKnown, Base
<1>6. QED BY <1>3, <1>4, <1>5 DEF Init, Course, Elsewhere, Midway, Done, Applying, Undoing

\* An edit ends what Pristine claims, and so does a crash.
LEMMA BesideKeepsPristine ==
  ASSUME Typed, Pristine, reconcile \/ Crash \/ (\E f \in Files : Edit(f)) \/ UNCHANGED vars
  PROVE  Pristine'
<1> USE DEF Typed
<1>1. CASE reconcile
  BY <1>1 DEF reconcile, Inspected, Findings, Place, Pristine
<1>2. CASE Crash
  BY <1>2 DEF Crash, Place, Pristine
<1>3. CASE \E f \in Files : Edit(f)
  <2>1. edits' # 0 BY <1>3 DEF Edit, TypeOK
  <2>2. QED BY <2>1 DEF Pristine
<1>4. CASE UNCHANGED vars
  BY <1>4
  DEF vars, Pristine, Course, Elsewhere, Restored, Applied, Intact, Done, Midway, DirsKnown, Base,
      Before, N, change, Guarding, Applying, Undoing
<1>5. QED BY <1>1, <1>2, <1>3, <1>4

\* commitPatch in a workspace of its own: each call does what the next one expects,
\* so nothing but a failing call starts the rollback, and a second one spoils it.
LEMMA CommitKeepsPristine ==
  ASSUME Typed, Typed', Pristine, commitPatch
  PROVE  Pristine'
<1> USE DEF Typed
<1>0. /\ patch' = patch /\ N' = N /\ verdict' = verdict /\ edits' = edits
      /\ pc # "inspect" /\ pc # "ended"
  BY CommitFrame
<1>1. /\ N \in Nat \ {0} /\ at \in 1 .. N /\ applied \in 0 .. N /\ faults \in Nat
      /\ Sound(change) /\ change = patch[at] /\ change' = patch[at']
  BY <1>0, PatchFacts DEF TypeOK, change
<1>2. outcome = "NONE" /\ verdict = "NONE" BY <1>0 DEF Place
<1> SUFFICES ASSUME edits = 0
    PROVE  /\ outcome' = "UNCERTAIN" => faults' >= 2
           /\ outcome' # "UNCERTAIN" => Course'
  BY <1>0 DEF Pristine
<1>3. Course BY <1>0, <1>2 DEF Pristine
<1>4. \A i \in 1 .. N : i # at =>
        /\ Restored(patch[i])' <=> Restored(patch[i])
        /\ Applied(patch[i])' <=> Applied(patch[i])
  BY <1>0, <1>1, CommitFrame, OthersStay
<1>5. Elsewhere'
  <2>1. ASSUME NEW f \in Files, \A i \in 1 .. N : f \notin Paths(patch[i])
        PROVE  file'[f] = Before(f)
    BY <1>1, <1>3, <2>1, CommitFrame DEF Course, Elsewhere
  <2>2. \A f \in Files : Before(f)' = Before(f) BY <1>0 DEF Before
  <2>3. QED BY <1>0, <2>1, <2>2 DEF Elsewhere
<1>6. Base' = Base BY <1>0 DEF Base, Before
<1>7. file \in [Files -> Contents] /\ created \in Seq({Dir[f] : f \in Files}) BY DEF TypeOK
<1> USE DEF Goto, End, Apply, NextChange, RollBack, NextUndo, Fails, UnchangedFiles,
            UnchangedAround, UnchangedOthers
\* A step that leaves the directories alone.
<1>8. ASSUME UNCHANGED <<dirs, created>>,
             Guarding' \/ pc' = "recheck" \/ outcome' \in {"REFUSED", "ROLLED_BACK"} =>
               created = <<>>
      PROVE  DirsKnown'
  BY <1>3, <1>6, <1>8 DEF Course, DirsKnown
<1>9. CASE guardSource \/ guardDestination
  <2>1. Guarding /\ applied = 0 /\ created = <<>> /\ file' = file /\ UNCHANGED <<dirs, created>>
    BY <1>3, <1>9 DEF guardSource, guardDestination, Guarding, Place, Course, DirsKnown
  <2>2. \A i \in 1 .. N : Restored(patch[i]) BY <1>3, <2>1 DEF Course, Intact
  <2>3. \A i \in 1 .. N : Restored(patch[i])' BY <1>0, <2>1, <2>2 DEF Restored
  <2>4. DirsKnown' BY <1>8, <2>1
  <2>5. /\ outcome' \in {"NONE", "REFUSED"}
        /\ pc' \in {"guardSource", "guardDestination", "ended", "makeParent", "write", "remove"}
        /\ pc' \in {"makeParent", "write", "remove"} => at' = 1 /\ pc' = FirstCall(patch[1])
    BY <1>2, <1>9 DEF guardSource, guardDestination, FirstCall
  <2>6. Midway' BY <1>0, <1>1, <2>3, <2>5 DEF Midway, FirstCall, TypeOK
  <2>7. \A i \in 1 .. N : ~Done(i)' BY <2>5 DEF Done, Applying
  <2>8. QED BY <1>0, <1>5, <2>3, <2>4, <2>5, <2>6, <2>7 DEF Course, Undoing
\* A change that fails is rolled back with those before it.
<1>10. ASSUME RollBack, applied > 0, faults' >= 1, UNCHANGED <<dirs, created>>,
              Applying \/ pc = "verify"
       PROVE  Course'
  <2>1. applied = at \/ applied = N BY <1>10 DEF Place, Applying
  <2>2. /\ at' = applied /\ outcome' = "NONE" /\ applied' = applied
        /\ pc' \in {"undoRemove", "undoWrite"}
    BY <1>2, <1>10 DEF FirstUndo
  <2>3. \A i \in 1 .. N : i > applied => Restored(patch[i])'
    BY <1>1, <1>3, <1>4, <2>1 DEF Course, Intact
  <2>4. DirsKnown' BY <1>8, <1>10, <2>2 DEF Guarding
  <2>5. Sound(patch[applied]) BY <1>10, <1>1, PatchFacts DEF TypeOK
  <2>6. Midway' BY <1>0, <1>1, <1>10, <2>2, <2>5 DEF Midway, FirstUndo, Sound
  <2>7. QED BY <1>0, <1>5, <1>10, <2>2, <2>3, <2>4, <2>6 DEF Course, Intact, Done, Applying, Undoing
\* A change that succeeds is followed by the next one, or by the verification.
<1>11. ASSUME Applying, NextChange, \A i \in 1 .. N : i = at => Applied(patch[i])',
              UNCHANGED <<dirs, created>>
       PROVE  Course' /\ outcome' # "UNCERTAIN"
  <2>1. applied = at BY <1>11 DEF Place
  <2>2. outcome' = "NONE" BY <1>2, <1>11
  <2>3. /\ at < N => at' = at + 1 /\ applied' = at + 1 /\ pc' = FirstCall(patch[at + 1])
        /\ at = N => at' = 1 /\ applied' = N /\ pc' = "verify"
    BY <1>1, <1>11, <2>1
  <2>4. pc' \in {"makeParent", "write", "remove", "verify"} BY <1>1, <2>3 DEF FirstCall
  <2>5. \A i \in 1 .. N : i > at => Restored(patch[i])' BY <1>1, <1>3, <1>4, <2>1 DEF Course, Intact
  <2>6. \A i \in 1 .. N : i < at => Applied(patch[i])' BY <1>1, <1>3, <1>4, <1>11 DEF Course, Done
  <2>7. \A i \in 1 .. N : i = at => Applied(patch[i])' BY <1>11
  <2>8. DirsKnown' BY <1>8, <1>11, <2>2, <2>4 DEF Guarding
  <2>9. Midway'
    <3>1. CASE at < N
      <4>1. at + 1 \in 1 .. N BY <1>1, <3>1
      <4>2. Sound(patch[at + 1]) BY <4>1, PatchFacts DEF TypeOK
      <4>3. \A i \in 1 .. N : i = at' => Restored(patch[i])' BY <1>1, <2>3, <2>5, <3>1
      <4>4. Restored(change)' BY <1>0, <1>1, <2>3, <3>1, <4>1, <4>3 DEF Restored
      <4>5. change' = patch[at + 1] BY <1>1, <2>3, <3>1
      <4>6. QED BY <2>3, <3>1, <4>2, <4>4, <4>5 DEF Midway, FirstCall, Sound
    <3>2. CASE at = N BY <1>1, <2>3, <3>2 DEF Midway
    <3>3. QED BY <1>1, <3>1, <3>2
  <2>10. \A i \in 1 .. N : Intact(i)' => i > at
    BY <1>1, <2>2, <2>3, <2>4 DEF Intact, Undoing
  <2>11. \A i \in 1 .. N : Done(i)' => i <= at
    <3>1. CASE at < N BY <1>1, <2>3, <3>1 DEF Done, Applying, FirstCall
    <3>2. CASE at = N BY <1>1, <2>3, <3>2 DEF Done, Applying
    <3>3. QED BY <1>1, <3>1, <3>2
  <2>12. QED
    BY <1>0, <1>1, <1>5, <2>2, <2>4, <2>5, <2>6, <2>7, <2>8, <2>9, <2>10, <2>11 DEF Course, Undoing
\* A call of the change that is not its last.
<1>12. ASSUME Applying, pc' \in {"rename", "write"}, UNCHANGED <<at, applied, outcome>>, Midway',
              DirsKnown'
       PROVE  Course' /\ outcome' # "UNCERTAIN"
  <2>1. applied = at BY <1>12 DEF Place
  <2>2. \A i \in 1 .. N : Intact(i)' => Restored(patch[i])'
    BY <1>1, <1>2, <1>3, <1>4, <1>12, <2>1 DEF Course, Intact, Undoing
  <2>3. \A i \in 1 .. N : Done(i)' => Applied(patch[i])'
    BY <1>1, <1>3, <1>4, <1>12 DEF Course, Done, Applying
  <2>4. QED BY <1>0, <1>2, <1>5, <1>12, <2>2, <2>3 DEF Course, Undoing
<1>13. CASE createParentDirectories
  <2>1. Applying /\ applied > 0 /\ Restored(change)
    BY <1>1, <1>3, <1>13 DEF createParentDirectories, Place, Applying, Course, Midway
  <2>2. CASE Fails /\ RollBack /\ UNCHANGED <<dirs, created>>
    <3>1. Course' BY <1>1, <1>10, <2>1, <2>2
    <3>2. QED BY <1>2, <2>2, <3>1
  <2>3. CASE pc' \in {"rename", "write"}
    <3>1. UNCHANGED <<at, applied, outcome, file>>
      BY <1>13, <2>3 DEF createParentDirectories, FirstUndo
    <3>2. Midway'
      <4>1. Restored(change)' BY <1>0, <1>1, <2>1, <3>1 DEF Restored, change
      <4>2. pc' = "write" => change.kind = "ADD"
        BY <1>13, <2>3 DEF createParentDirectories, FirstUndo
      <4>3. QED BY <1>1, <2>3, <3>1, <4>1, <4>2 DEF Midway
    <3>3. DirsKnown'
      <4>1. CASE Dir[change.target] \in dirs
        BY <1>2, <1>8, <1>13, <2>3, <3>1, <4>1 DEF createParentDirectories, Guarding, FirstUndo
      <4>2. CASE Dir[change.target] \notin dirs
        <5>1. DirsKnown BY <1>3 DEF Course
        <5>2. /\ dirs' = dirs \cup {Dir[change.target]}
              /\ created' = Append(created, Dir[change.target])
          BY <1>13, <2>3, <4>2 DEF createParentDirectories, FirstUndo
        <5>3. change.target \in Files BY <1>1, <1>13 DEF createParentDirectories, Place, Sound
        <5>4. /\ Len(created) \in Nat /\ Len(created') = Len(created) + 1
              /\ \A i \in 1 .. Len(created) : created'[i] = created[i]
              /\ created'[Len(created) + 1] = Dir[change.target]
          BY <1>7, <5>2, <5>3, AppendProperties, ElementOfSeq
        <5>5. \A i \in 1 .. Len(created) : created[i] \in dirs BY <5>1 DEF DirsKnown
        <5>6. dirs' = Base \cup {created'[i] : i \in 1 .. Len(created')}
          BY <5>1, <5>2, <5>4 DEF DirsKnown
        <5>7. /\ \A i \in 1 .. Len(created') : created'[i] \notin Base
              /\ \A i, j \in 1 .. Len(created') : i # j => created'[i] # created'[j]
          BY <4>2, <5>1, <5>4, <5>5 DEF DirsKnown
        <5>8. QED BY <1>2, <1>6, <2>3, <3>1, <5>6, <5>7 DEF DirsKnown, Guarding
      <4>3. QED BY <4>1, <4>2
    <3>4. QED BY <1>12, <2>1, <2>3, <3>1, <3>2, <3>3
  <2>4. QED BY <1>13, <2>2, <2>3 DEF createParentDirectories
<1>14. CASE movePatchFile
  <2>1. /\ Applying /\ applied > 0 /\ Restored(change) /\ change.kind = "MOVE"
        /\ UNCHANGED <<dirs, created>>
    BY <1>1, <1>3, <1>14 DEF movePatchFile, Place, Applying, Course, Midway
  <2>2. /\ change.source \in Files /\ change.target \in Files /\ change.source # change.target
        /\ file[change.source] = "old"
    BY <1>1, <2>1, FilesAssumption DEF Sound, WellFormed, Restored
  <2>3. CASE Fails /\ RollBack
    <3>1. Course' BY <1>1, <1>10, <2>1, <2>3
    <3>2. QED BY <1>2, <2>3, <3>1
  <2>4. CASE /\ file' = [file EXCEPT ![change.source] = "absent",
                                     ![change.target] = file[change.source]]
             /\ IF change.rewrites THEN Goto("write") ELSE NextChange
    <3>1. file'[change.source] = "absent" /\ file'[change.target] = "old" BY <1>7, <2>2, <2>4
    <3>2. CASE change.rewrites
      <4>1. Midway' BY <1>1, <2>4, <3>1, <3>2 DEF Midway
      <4>2. DirsKnown' BY <1>2, <1>8, <2>1, <2>4, <3>2 DEF Guarding
      <4>3. QED BY <1>12, <2>1, <2>4, <3>2, <4>1, <4>2
    <3>3. CASE ~change.rewrites
      <4>1. \A i \in 1 .. N : i = at => Applied(patch[i])'
        BY <1>0, <1>1, <2>1, <3>1, <3>3 DEF Applied, Written, After
      <4>2. QED BY <1>11, <2>1, <2>4, <3>3, <4>1
    <3>4. QED BY <3>2, <3>3
  <2>5. QED BY <1>14, <2>2, <2>3, <2>4 DEF movePatchFile
<1>15. CASE writePatchFile
  <2>1. /\ Applying /\ applied > 0 /\ change.kind # "DELETE" /\ change.rewrites
        /\ UNCHANGED <<dirs, created>>
    BY <1>1, <1>15 DEF writePatchFile, Place, Applying
  <2>2. CASE Fails /\ RollBack
    <3>1. Course' BY <1>1, <1>10, <2>1, <2>2
    <3>2. QED BY <1>2, <2>2, <3>1
  <2>3. CASE file' = [file EXCEPT ![Written(change)] = "new"] /\ NextChange
    <3>1. Written(change) \in Files /\ (change.kind = "MOVE" => Written(change) # change.source)
      BY <1>1, <2>1, FilesAssumption DEF Sound, WellFormed, Written
    <3>2. file'[Written(change)] = "new" BY <1>7, <2>3, <3>1
    <3>3. change.kind = "MOVE" => file'[change.source] = "absent"
      BY <1>1, <1>3, <1>7, <1>15, <2>3, <3>1 DEF writePatchFile, Course, Midway, Sound
    <3>4. \A i \in 1 .. N : i = at => Applied(patch[i])'
      BY <1>0, <1>1, <2>1, <3>2, <3>3 DEF Applied, Written, After
    <3>5. QED BY <1>11, <2>1, <2>3, <3>4
  <2>4. QED BY <1>15, <2>2, <2>3 DEF writePatchFile
<1>16. CASE removePatchFile
  <2>1. /\ Applying /\ applied > 0 /\ change.kind = "DELETE" /\ Restored(change)
        /\ UNCHANGED <<dirs, created>>
    BY <1>1, <1>3, <1>16 DEF removePatchFile, Place, Applying, Course, Midway
  <2>2. change.source \in Files /\ file[change.source] = "old"
    BY <1>1, <2>1, FilesAssumption DEF Sound, Restored
  <2>3. CASE Fails /\ RollBack
    <3>1. Course' BY <1>1, <1>10, <2>1, <2>3
    <3>2. QED BY <1>2, <2>3, <3>1
  <2>4. CASE file' = [file EXCEPT ![change.source] = "absent"] /\ NextChange
    <3>1. file'[change.source] = "absent" BY <1>7, <2>2, <2>4
    <3>2. \A i \in 1 .. N : i = at => Applied(patch[i])' BY <1>0, <1>1, <2>1, <3>1 DEF Applied
    <3>3. QED BY <1>11, <2>1, <2>4, <3>2
  <2>5. QED BY <1>16, <2>2, <2>3, <2>4 DEF removePatchFile
<1>17. CASE verifyChange
  <2>1. /\ pc = "verify" /\ applied = N /\ file' = file /\ UNCHANGED <<dirs, created>>
    BY <1>17 DEF verifyChange, Place
  <2>2. Applied(change) BY <1>1, <1>3, <2>1 DEF Course, Done
  <2>3. CASE Fails /\ RollBack
    <3>1. Course' BY <1>1, <1>10, <2>1, <2>3
    <3>2. QED BY <1>2, <2>3, <3>1
  <2>4. CASE IF at < N THEN at' = at + 1 /\ UNCHANGED <<pc, applied, outcome>> ELSE End("OK")
    <3>1. /\ pc' \in {"verify", "ended"} /\ outcome' \in {"NONE", "OK"} /\ applied' = applied
      BY <1>2, <2>1, <2>4
    <3>2. \A i \in 1 .. N : ~Intact(i)' BY <1>1, <2>1, <3>1 DEF Intact, Undoing
    <3>3. \A i \in 1 .. N : Applied(patch[i])' BY <1>0, <1>3, <2>1 DEF Course, Done, Applied
    <3>4. DirsKnown' BY <1>8, <2>1, <3>1 DEF Guarding
    <3>5. QED BY <1>0, <1>5, <3>1, <3>2, <3>3, <3>4 DEF Course, Midway, Undoing
  <2>5. QED BY <1>17, <2>2, <2>3, <2>4 DEF verifyChange
\* A change undone is followed by the one before it, or by the directories.
<1>18. ASSUME Undoing, NextUndo, \A i \in 1 .. N : i = at => Restored(patch[i])',
              UNCHANGED <<dirs, created, faults>>
       PROVE  Course' /\ outcome' # "UNCERTAIN"
  <2>1. at <= applied /\ faults' >= 1 /\ applied' = applied /\ outcome' = "NONE"
    BY <1>2, <1>3, <1>18 DEF Place, Course
  <2>2. /\ at > 1 => at' = at - 1 /\ pc' = FirstUndo(patch[at - 1])
        /\ at = 1 => pc' = "prune"
        /\ pc' \in {"undoRemove", "undoWrite", "prune"}
    BY <1>1, <1>18 DEF FirstUndo
  <2>3. \A i \in 1 .. N : i >= at => Restored(patch[i])'
    BY <1>1, <1>3, <1>4, <1>18 DEF Course, Intact
  <2>4. \A i \in 1 .. N : Intact(i)' => i >= at
    <3>1. CASE at > 1 BY <1>1, <2>1, <2>2, <3>1 DEF Intact, Undoing, FirstUndo
    <3>2. CASE at = 1 BY <1>1, <3>2
    <3>3. QED BY <1>1, <3>1, <3>2
  <2>5. Midway'
    <3>1. CASE at > 1
      <4>1. at - 1 \in 1 .. N BY <1>1, <3>1
      <4>2. Sound(patch[at - 1]) /\ change' = patch[at - 1]
        BY <1>1, <2>2, <3>1, <4>1, PatchFacts DEF TypeOK
      <4>3. QED BY <2>2, <3>1, <4>2 DEF Midway, FirstUndo, Sound
    <3>2. CASE at = 1 BY <2>2, <3>2 DEF Midway
    <3>3. QED BY <1>1, <3>1, <3>2
  <2>6. DirsKnown' BY <1>8, <1>18, <2>1, <2>2 DEF Guarding
  <2>7. QED BY <1>0, <1>5, <2>1, <2>2, <2>3, <2>4, <2>5, <2>6 DEF Course, Done, Applying
\* A call that fails in the rollback is a second one.
<1>19. ASSUME Fails, End("UNCERTAIN"), Undoing \/ pc \in {"prune", "recheck"}
       PROVE  outcome' = "UNCERTAIN" /\ faults' >= 2
  BY <1>1, <1>3, <1>19 DEF Course
<1>20. CASE undoRemove
  <2>1. /\ Undoing /\ change.kind \in {"ADD", "MOVE"} /\ change.target \in Files
        /\ UNCHANGED <<dirs, created>>
    BY <1>1, <1>20 DEF undoRemove, Undoing, Place, Sound
  <2>2. CASE /\ file' = [file EXCEPT ![change.target] = "absent"]
             /\ UNCHANGED faults
             /\ IF change.kind = "MOVE" THEN Goto("undoWrite") ELSE NextUndo
    <3>1. file'[change.target] = "absent" BY <1>7, <2>1, <2>2
    <3>2. CASE change.kind = "MOVE"
      <4>1. UNCHANGED <<at, applied, outcome>> /\ pc' = "undoWrite" BY <2>2, <3>2
      <4>2. Midway' BY <1>1, <3>1, <4>1 DEF Midway
      <4>3. DirsKnown' BY <1>2, <1>8, <2>1, <4>1 DEF Guarding
      <4>4. \A i \in 1 .. N : Intact(i)' => Restored(patch[i])'
        <5>1. at <= applied BY <2>1 DEF Place
        <5>2. QED BY <1>1, <1>2, <1>3, <1>4, <2>1, <4>1, <5>1 DEF Course, Intact, Undoing
      <4>5. QED
        BY <1>0, <1>2, <1>3, <1>5, <2>1, <2>2, <4>1, <4>2, <4>3, <4>4 DEF Course, Done, Applying
    <3>3. CASE change.kind # "MOVE"
      <4>1. change.source = NoFile BY <1>1, <2>1, <3>3 DEF Sound, WellFormed
      <4>2. \A i \in 1 .. N : i = at => Restored(patch[i])' BY <1>0, <1>1, <3>1, <4>1 DEF Restored
      <4>3. QED BY <1>18, <2>1, <2>2, <3>3, <4>2
    <3>4. QED BY <3>2, <3>3
  <2>3. CASE Fails /\ End("UNCERTAIN") BY <1>19, <2>1, <2>3
  <2>4. QED BY <1>20, <2>2, <2>3 DEF undoRemove
<1>21. CASE undoWrite
  <2>1. /\ Undoing /\ change.kind # "ADD" /\ change.source \in Files /\ UNCHANGED <<dirs, created>>
        /\ change.target # NoFile => change.target # change.source /\ file[change.target] = "absent"
                                     /\ change.target \in Files
    BY <1>1, <1>3, <1>21 DEF undoWrite, Undoing, Place, Sound, WellFormed, Course, Midway
  <2>2. CASE file' = [file EXCEPT ![change.source] = "old"] /\ NextUndo /\ UNCHANGED faults
    <3>1. \A i \in 1 .. N : i = at => Restored(patch[i])'
      BY <1>0, <1>1, <1>7, <2>1, <2>2 DEF Restored
    <3>2. QED BY <1>18, <2>1, <2>2, <3>1
  <2>3. CASE Fails /\ End("UNCERTAIN") BY <1>19, <2>1, <2>3
  <2>4. QED BY <1>21, <2>2, <2>3 DEF undoWrite
<1>22. CASE removePatchDirectoryIfEmpty
  <2>1. /\ pc = "prune" /\ file' = file /\ faults >= 1
    BY <1>3, <1>22 DEF removePatchDirectoryIfEmpty, Course
  <2>2. \A i \in 1 .. N : Restored(patch[i]) /\ Restored(patch[i])'
    BY <1>0, <1>3, <2>1 DEF Course, Intact, Restored
  <2>3. CASE Fails /\ End("UNCERTAIN") BY <1>19, <2>1, <2>3
  <2>4. CASE ~(Fails /\ End("UNCERTAIN"))
    <3>1. /\ pc' \in {"prune", "recheck"} /\ outcome' = "NONE" /\ faults' = faults
          /\ pc' = "recheck" => created' = <<>>
      BY <1>2, <1>22, <2>4 DEF removePatchDirectoryIfEmpty
    <3>2. DirsKnown'
      <4>1. CASE created = <<>>
        BY <1>8, <1>22, <2>4, <4>1 DEF removePatchDirectoryIfEmpty
      <4>2. CASE created # <<>>
        <5>1. DirsKnown BY <1>3 DEF Course
        <5>2. Len(created) \in Nat \ {0} BY <1>7, <4>2, EmptySeq
        <5>3. /\ created' = SubSeq(created, 1, Len(created) - 1)
              /\ pc' = "prune"
              /\ dirs' = IF Populated(created[Len(created)])
                           THEN dirs ELSE dirs \ {created[Len(created)]}
          BY <1>22, <2>1, <2>4, <4>2 DEF removePatchDirectoryIfEmpty
        <5>4. /\ Len(created') = Len(created) - 1
              /\ \A i \in 1 .. Len(created) - 1 : created'[i] = created[i]
          BY <1>7, <4>2, <5>3, AllButLast
        <5>5. \A f \in Files : file[f] = Before(f)
          BY <1>3, <2>2, BeforePatch DEF Course, Elsewhere, TypeOK
        <5>6. ~Populated(created[Len(created)])
          <6>1. SUFFICES ASSUME NEW f \in Files, Dir[f] = created[Len(created)], file[f] # "absent"
                PROVE  FALSE
            BY DEF Populated
          <6>2. Before(f) = "old" BY <5>5, <6>1 DEF Before
          <6>3. Dir[f] \in Base BY <6>2 DEF Base
          <6>4. QED BY <5>1, <5>2, <6>1, <6>3 DEF DirsKnown
        <5>7. dirs' = Base \cup {created'[i] : i \in 1 .. Len(created')}
          <6>1. dirs' = dirs \ {created[Len(created)]} BY <5>3, <5>6
          <6>2. /\ created[Len(created)] \notin Base
                /\ \A i \in 1 .. Len(created) - 1 : created[i] # created[Len(created)]
            BY <5>1, <5>2 DEF DirsKnown
          <6>3. dirs = Base \cup {created[i] : i \in 1 .. Len(created)} BY <5>1 DEF DirsKnown
          <6>4. \A i \in 1 .. Len(created) : i = Len(created) \/ i \in 1 .. Len(created) - 1 BY <5>2
          <6>5. 1 .. Len(created) - 1 \subseteq 1 .. Len(created) BY <5>2
          <6>6. QED BY <5>4, <6>1, <6>2, <6>3, <6>4, <6>5
        <5>8. /\ \A i \in 1 .. Len(created') : created'[i] \notin Base
              /\ \A i, j \in 1 .. Len(created') : i # j => created'[i] # created'[j]
          BY <5>1, <5>2, <5>4 DEF DirsKnown
        <5>9. QED BY <1>6, <3>1, <5>3, <5>7, <5>8 DEF DirsKnown, Guarding
      <4>3. QED BY <4>1, <4>2
    <3>3. QED
      BY <1>0, <1>1, <1>5, <2>1, <2>2, <3>1, <3>2 DEF Course, Midway, Done, Applying, Undoing
  <2>5. QED BY <2>3, <2>4
<1>23. CASE recheck
  <2>1. /\ pc = "recheck" /\ faults >= 1 /\ created = <<>>
        /\ file' = file /\ UNCHANGED <<dirs, created>>
    BY <1>3, <1>23 DEF recheck, Course, DirsKnown
  <2>2. \A i \in 1 .. N : Restored(patch[i]) BY <1>3, <2>1 DEF Course, Intact
  <2>3. Restored(change) BY <1>1, <2>2
  <2>4. CASE Fails /\ End("UNCERTAIN") BY <1>19, <2>1, <2>4
  <2>5. CASE (IF at < applied THEN at' = at + 1 /\ UNCHANGED <<pc, applied, outcome>>
                              ELSE End("ROLLED_BACK")) /\ UNCHANGED faults
    <3>1. pc' \in {"recheck", "ended"} /\ outcome' \in {"NONE", "ROLLED_BACK"} BY <1>2, <2>1, <2>5
    <3>2. DirsKnown' BY <1>8, <2>1
    <3>3. \A i \in 1 .. N : Restored(patch[i])' BY <1>0, <2>1, <2>2 DEF Restored
    <3>4. QED
      BY <1>0, <1>1, <1>5, <2>1, <2>5, <3>1, <3>2, <3>3 DEF Course, Midway, Done, Applying, Undoing
  <2>6. QED BY <1>23, <2>3, <2>4, <2>5 DEF recheck
<1>24. QED
  BY <1>9, <1>13, <1>14, <1>15, <1>16, <1>17, <1>20, <1>21, <1>22, <1>23 DEF commitPatch

-----------------------------------------------------------------------------
(***************************************************************************)
(* Ordered: the changes behind and beyond the one a call is about.         *)
(***************************************************************************)
\* The changes that are made, and those that are not begun or undone.
Behind(i) == ((Applying \/ Undoing) /\ i < at) \/ pc = "verify"
Beyond(i) == i > applied \/ (Undoing /\ i > at) \/ pc \in {"prune", "recheck"}

\* What Course says of the files, of those nobody has edited since they were looked at.
OnCourse ==
    /\ \A i \in 1 .. N : Behind(i) => OKAt(i)
    /\ \A i \in 1 .. N : Beyond(i) => CleanAt(i)
    /\ Untouched(change) => Midway

\* The order of the changes outlives the commit, uncertain or interrupted.
Ordered == IF pc \in {"inspect", "ended"} THEN WorkspaceIsPrefix ELSE OnCourse

\* Wherever the commit is, all changes but one are behind it or beyond it.
LEMMA OneMidway ==
  ASSUME Typed, pc \notin {"inspect", "ended"}, OnCourse
  PROVE  /\ WorkspaceIsPrefix
         /\ Applying \/ Undoing => \A i \in 1 .. N :
              (i < at => OKAt(i)) /\ (i > at => CleanAt(i))
<1>1. N \in Nat \ {0} /\ at \in 1 .. N /\ applied \in 0 .. N BY PatchFacts DEF Typed, TypeOK
<1>2. CASE Applying \/ Undoing
  <2>1. \A i \in 1 .. N : (i < at => OKAt(i)) /\ (i > at => CleanAt(i))
    BY <1>1, <1>2 DEF OnCourse, Behind, Beyond, Typed, Place
  <2>2. QED BY <1>1, <2>1 DEF WorkspaceIsPrefix, OKAt, CleanAt
<1>3. CASE pc = "verify"
  <2>1. \A i \in 1 .. N : OKAt(i) /\ ~(i > N) BY <1>1, <1>3 DEF OnCourse, Behind
  <2>2. QED BY <1>1, <1>3, <2>1 DEF WorkspaceIsPrefix, OKAt, Applying, Undoing
<1>4. CASE Guarding \/ pc \in {"prune", "recheck"}
  <2>1. \A i \in 1 .. N : CleanAt(i) /\ ~(i < 1)
    BY <1>1, <1>4 DEF OnCourse, Beyond, Typed, Place, Guarding
  <2>2. 1 \in 1 .. N BY <1>1
  <2>3. QED BY <1>4, <2>1, <2>2 DEF WorkspaceIsPrefix, CleanAt, Applying, Undoing, Guarding
<1>5. QED BY <1>2, <1>3, <1>4 DEF Typed, TypeOK, Applying, Undoing, Guarding

\* At first every change is beyond.
LEMMA InitOrdered == Init => Ordered
<1> SUFFICES ASSUME Init PROVE Ordered
  OBVIOUS
<1>1. Typed /\ Looked BY InitTyped, InitLooked
<1>2. N \in Nat \ {0} /\ \A i \in 1 .. N : Sound(patch[i]) BY PatchFacts DEF Init
<1>3. ASSUME NEW i \in 1 .. N PROVE CleanAt(i)
  <2>1. KeptAt(i) BY <1>1, <1>2 DEF Init, Looked
  <2>2. QED BY <1>2, <2>1 DEF KeptAt, CleanAt, Sound, Untouched, Paths, Restored
<1>4. OnCourse BY <1>3 DEF Init, OnCourse, Behind, Applying, Undoing, Midway
<1>5. QED BY <1>1, <1>4, OneMidway DEF Init, Ordered

\* What an edit leaves untouched is as it was.
LEMMA EditSpares ==
  ASSUME Typed, NEW f \in Files, Edit(f)
  PROVE  \A i \in 1 .. N : Untouched(patch[i])' =>
           /\ Untouched(patch[i])
           /\ Applied(patch[i])' <=> Applied(patch[i])
           /\ Restored(patch[i])' <=> Restored(patch[i])
           /\ \A g \in Paths(patch[i]) : file'[g] = file[g]
<1> USE DEF Typed
<1>1. patch' = patch /\ touched' = touched \cup {f} BY DEF Edit
<1>2. \A g \in Files \ {f} : file'[g] = file[g] BY DEF Edit, TypeOK
<1>3. SUFFICES ASSUME NEW i \in 1 .. N, Untouched(patch[i])'
      PROVE /\ Untouched(patch[i])
            /\ Applied(patch[i])' <=> Applied(patch[i])
            /\ Restored(patch[i])' <=> Restored(patch[i])
            /\ \A g \in Paths(patch[i]) : file'[g] = file[g]
  OBVIOUS
<1>4. Sound(patch[i]) BY PatchFacts DEF TypeOK
<1>5. Paths(patch[i]) \subseteq Files BY <1>4 DEF Paths, Sound
<1>6. Untouched(patch[i]) /\ f \notin Paths(patch[i]) BY <1>1, <1>3 DEF Untouched
<1>7. \A g \in Paths(patch[i]) : file'[g] = file[g] BY <1>2, <1>5, <1>6
<1>8. Restored(patch[i])' <=> Restored(patch[i]) BY <1>1, <1>7 DEF Restored, Paths
<1>9. /\ patch[i].kind \in {"DELETE", "MOVE"} => patch[i].source \in Paths(patch[i])
      /\ patch[i].kind # "DELETE" => Written(patch[i]) \in Paths(patch[i])
  BY <1>4, FilesAssumption DEF Sound, Paths, Written
<1>10. Applied(patch[i])' <=> Applied(patch[i]) BY <1>1, <1>7, <1>9 DEF Applied
<1>11. QED BY <1>6, <1>7, <1>8, <1>10

\* An edit is excused; a crash tears the one change that is midway; an inspection that
\* goes on is no longer at its beginning.
LEMMA BesideKeepsOrdered ==
  ASSUME Typed, Ordered, reconcile \/ Crash \/ (\E f \in Files : Edit(f)) \/ UNCHANGED vars
  PROVE  Ordered'
<1> USE DEF Typed
<1>1. N \in Nat \ {0} /\ at \in 1 .. N /\ change = patch[at] /\ Sound(change)
  BY PatchFacts DEF TypeOK, change
<1>2. CASE reconcile
  <2>1. verdict' # "NONE" \/ (pc' = "inspect" /\ at' = at + 1)
    BY <1>2 DEF reconcile, Inspected, Findings
  <2>2. pc' \in {"inspect", "ended"} BY <1>2 DEF reconcile, Inspected
  <2>3. QED BY <1>1, <2>1, <2>2 DEF Ordered, WorkspaceIsPrefix
<1>3. CASE Crash
  <2>1. /\ patch' = patch /\ N' = N /\ touched' = touched /\ verdict' = verdict
        /\ verdict = "NONE" /\ pc \notin {"inspect", "ended"} /\ pc' = "inspect"
    BY <1>3 DEF Crash, Place, N
  <2>2. OnCourse /\ WorkspaceIsPrefix BY <2>1, OneMidway DEF Ordered
  <2>3. CASE file' = file
    <3>1. WorkspaceIsPrefix' <=> WorkspaceIsPrefix
      BY <1>3, <2>1, <2>3 DEF Crash, WorkspaceIsPrefix, Untouched, Applied, Restored
    <3>2. QED BY <2>1, <2>2, <3>1 DEF Ordered
  <2>4. CASE file' # file
    <3>1. pc \in {"write", "undoWrite"} BY <1>3, <2>4 DEF Crash
    <3>2. \A f \in Files \ Paths(patch[at]) : file'[f] = file[f]
      <4>1. pc = "write" => Written(change) \in Paths(change)
        BY <1>1, FilesAssumption DEF Written, Paths, Sound, Place
      <4>2. pc = "undoWrite" => change.source \in Paths(change)
        BY <1>1, FilesAssumption DEF Paths, Sound, Place
      <4>3. QED BY <1>1, <1>3, <4>1, <4>2 DEF Crash, TypeOK
    <3>3. \A i \in 1 .. N : i # at => (OKAt(i)' <=> OKAt(i)) /\ (CleanAt(i)' <=> CleanAt(i))
      BY <1>1, <2>1, <3>2, OthersStay
    <3>4. \A i \in 1 .. N : (i < at => OKAt(i)) /\ (i > at => CleanAt(i))
      BY <2>1, <2>2, <3>1, OneMidway DEF Applying, Undoing
    <3>5. \A i \in 1 .. N : (i < at => OKAt(i)') /\ (i > at => CleanAt(i)') BY <1>1, <3>3, <3>4
    <3>6. WorkspaceIsPrefix' BY <1>1, <2>1, <3>5 DEF WorkspaceIsPrefix, OKAt, CleanAt
    <3>7. QED BY <2>1, <3>6 DEF Ordered
  <2>5. QED BY <2>3, <2>4
<1>4. CASE \E f \in Files : Edit(f)
  <2>1. PICK f \in Files : Edit(f) BY <1>4
  <2>2. UNCHANGED <<patch, pc, at, applied, outcome, verdict>> /\ N' = N BY <2>1 DEF Edit, N
  <2>3. \A i \in 1 .. N : Untouched(patch[i])' =>
          /\ Untouched(patch[i])
          /\ Applied(patch[i])' <=> Applied(patch[i])
          /\ Restored(patch[i])' <=> Restored(patch[i])
          /\ \A g \in Paths(patch[i]) : file'[g] = file[g]
    BY <2>1, EditSpares
  <2>4. WorkspaceIsPrefix => WorkspaceIsPrefix' BY <2>2, <2>3 DEF WorkspaceIsPrefix
  <2>5. \A i \in 1 .. N : (OKAt(i) => OKAt(i)') /\ (CleanAt(i) => CleanAt(i)')
    BY <2>2, <2>3 DEF OKAt, CleanAt
  <2>6. change' = change BY <2>2 DEF change
  <2>7. (Untouched(change) => Midway) => (Untouched(change) => Midway)'
    <3>1. Untouched(change)' => /\ Untouched(change)
                                /\ Restored(change)' <=> Restored(change)
                                /\ \A g \in Paths(change) : file'[g] = file[g]
      BY <1>1, <2>2, <2>3, <2>6 DEF Restored, Untouched
    <3>2. pc = "write" /\ change.kind = "MOVE" => change.source \in Paths(change)
      BY <1>1, FilesAssumption DEF Paths, Sound
    <3>3. QED BY <2>2, <2>6, <3>1, <3>2 DEF Midway, Paths
  <2>8. QED BY <2>2, <2>4, <2>5, <2>7 DEF Ordered, OnCourse, Behind, Beyond, Applying, Undoing
<1>5. CASE UNCHANGED vars
  BY <1>5
  DEF vars, Ordered, OnCourse, WorkspaceIsPrefix, Behind, Beyond, OKAt, CleanAt, Untouched, Applied,
      Restored, Midway, Applying, Undoing, N, change
<1>6. QED BY <1>2, <1>3, <1>4, <1>5

\* commitPatch: whatever other programs do to their files, the changes nobody edited
\* are made one after the other, and undone the last one first.
LEMMA CommitKeepsOrdered ==
  ASSUME Typed, Typed', Looked, Ordered, commitPatch
  PROVE  Ordered'
<1> USE DEF Typed
<1>0. /\ patch' = patch /\ N' = N /\ verdict' = verdict
      /\ pc # "inspect" /\ pc # "ended"
  BY CommitFrame
<1>1. /\ N \in Nat \ {0} /\ at \in 1 .. N /\ applied \in 0 .. N
      /\ Sound(change) /\ change = patch[at] /\ change' = patch[at']
  BY <1>0, PatchFacts DEF TypeOK, change
<1>2. outcome = "NONE" /\ verdict = "NONE" BY <1>0 DEF Place
<1>3. OnCourse BY <1>0 DEF Ordered
<1>4. \A i \in 1 .. N : i # at => (OKAt(i)' <=> OKAt(i)) /\ (CleanAt(i)' <=> CleanAt(i))
  BY <1>0, <1>1, CommitFrame, OthersStay
<1>5. file \in [Files -> Contents] BY DEF TypeOK
<1>6. Applying \/ Undoing => \A i \in 1 .. N :
        (i < at => OKAt(i)') /\ (i > at => CleanAt(i)')
  BY <1>0, <1>1, <1>3, <1>4, OneMidway
<1> USE DEF Goto, End, Apply, NextChange, RollBack, NextUndo, Fails, UnchangedFiles,
            UnchangedAround, UnchangedOthers
\* A commit that has ended leaves the prefix.
<1>7. ASSUME NEW k \in 1 .. N, pc' = "ended",
             \A i \in 1 .. N : (i < k => OKAt(i)') /\ (i > k => CleanAt(i)')
      PROVE  Ordered'
  BY <1>0, <1>7 DEF Ordered, WorkspaceIsPrefix, OKAt, CleanAt
<1>8. CASE guardSource \/ guardDestination
  <2>1. Guarding /\ applied = 0 /\ file' = file
    BY <1>8 DEF guardSource, guardDestination, Guarding, Place
  <2>2. \A i \in 1 .. N : CleanAt(i) BY <1>1, <1>3, <2>1 DEF OnCourse, Beyond
  <2>3. KeptAt(at) BY <1>1, <1>2, <2>1 DEF Looked, Guarding
  <2>4. \A i \in 1 .. N : i = at => CleanAt(i)'
    BY <1>0, <1>1, <1>8, <2>3
    DEF guardSource, guardDestination, KeptAt, CleanAt, Restored, Untouched, Paths, LooksAt, Sound,
        WellFormed
  <2>5. \A i \in 1 .. N : CleanAt(i)' BY <1>1, <1>4, <2>2, <2>4
  <2>6. CASE pc' = "ended"
    <3>1. 1 \in 1 .. N /\ \A i \in 1 .. N : ~(i < 1) BY <1>1
    <3>2. QED BY <1>7, <2>5, <2>6, <3>1
  <2>7. CASE pc' # "ended"
    <3>1. /\ pc' \in {"guardSource", "guardDestination", "makeParent", "write", "remove"}
          /\ pc' \in {"makeParent", "write", "remove"} => at' = 1 /\ pc' = FirstCall(patch[1])
      BY <1>8, <2>7 DEF guardSource, guardDestination, FirstCall
    <3>2. \A i \in 1 .. N : Behind(i)' => FALSE BY <1>1, <3>1 DEF Behind, Applying, Undoing
    <3>3. (Untouched(change) => Midway)'
      BY <1>0, <1>1, <2>5, <3>1 DEF Midway, FirstCall, TypeOK, CleanAt
    <3>4. OnCourse' BY <1>0, <2>5, <3>2, <3>3 DEF OnCourse
    <3>5. QED BY <3>1, <3>4 DEF Ordered
  <2>8. QED BY <2>6, <2>7
\* A call of a change that fails starts the rollback with it.
<1>9. ASSUME RollBack, applied > 0, touched' = touched,
             Applying \/ (pc = "verify" /\ file' = file)
      PROVE  Ordered'
  <2>1. /\ at' = applied /\ applied' = applied /\ applied \in 1 .. N
        /\ pc' \in {"undoRemove", "undoWrite"}
    BY <1>1, <1>9 DEF FirstUndo
  <2>2. \A i \in 1 .. N : i < applied => OKAt(i)'
    <3>1. CASE Applying BY <1>6, <1>9, <3>1 DEF Place
    <3>2. CASE pc = "verify"
      BY <1>0, <1>3, <1>9, <3>2 DEF OnCourse, Behind, OKAt, Untouched, Applied, Applying
    <3>3. QED BY <1>9, <3>1, <3>2
  <2>3. \A i \in 1 .. N : i > applied => CleanAt(i)'
    <3>1. CASE Applying BY <1>6, <1>9, <3>1 DEF Place
    <3>2. CASE pc = "verify" BY <1>1, <3>2 DEF Place
    <3>3. QED BY <1>9, <3>1, <3>2
  <2>4. Sound(patch[applied]) BY <2>1, PatchFacts DEF TypeOK
  <2>5. Midway' BY <1>0, <1>1, <1>9, <2>1, <2>4 DEF Midway, FirstUndo, Sound
  <2>6. \A i \in 1 .. N : (Behind(i)' => i < applied) /\ (Beyond(i)' => i > applied)
    BY <1>1, <2>1 DEF Behind, Beyond, Applying, Undoing
  <2>7. QED BY <1>0, <2>1, <2>2, <2>3, <2>5, <2>6 DEF Ordered, OnCourse
\* A change that succeeds is followed by the next one, or by the verification.
<1>10. ASSUME Applying, NextChange, \A i \in 1 .. N : i = at => OKAt(i)'
       PROVE  Ordered'
  <2>1. applied = at BY <1>10 DEF Place
  <2>2. \A i \in 1 .. N : (i <= at => OKAt(i)') /\ (i > at => CleanAt(i)')
    BY <1>1, <1>6, <1>10
  <2>3. /\ at < N => at' = at + 1 /\ applied' = at + 1 /\ pc' = FirstCall(patch[at + 1])
        /\ at = N => at' = 1 /\ applied' = N /\ pc' = "verify"
    BY <1>1, <1>10, <2>1
  <2>4. CASE at < N
    <3>1. at + 1 \in 1 .. N /\ pc' \in {"makeParent", "write", "remove"}
      BY <1>1, <2>3, <2>4 DEF FirstCall
    <3>2. Sound(patch[at + 1]) BY <3>1, PatchFacts DEF TypeOK
    <3>3. \A i \in 1 .. N : i = at' => CleanAt(i)' BY <1>1, <2>2, <2>3, <2>4
    <3>4. (Untouched(change) => Midway)'
      BY <1>0, <1>1, <2>3, <2>4, <3>1, <3>2, <3>3 DEF Midway, FirstCall, Sound, CleanAt
    <3>5. \A i \in 1 .. N : (Behind(i)' => i <= at) /\ (Beyond(i)' => i > at)
      BY <1>1, <2>3, <2>4, <3>1 DEF Behind, Beyond, Applying, Undoing
    <3>6. QED BY <1>0, <2>2, <3>1, <3>4, <3>5 DEF Ordered, OnCourse
  <2>5. CASE at = N
    <3>1. \A i \in 1 .. N : i <= at /\ (Beyond(i)' => FALSE)
      BY <1>1, <2>3, <2>5 DEF Beyond, Undoing
    <3>2. Midway' BY <2>3, <2>5 DEF Midway
    <3>3. QED BY <1>0, <2>2, <2>3, <2>5, <3>1, <3>2 DEF Ordered, OnCourse
  <2>6. QED BY <1>1, <2>4, <2>5
\* A call of the change that is not its last.
<1>11. ASSUME Applying \/ Undoing, UNCHANGED <<at, applied, outcome>>,
              (Untouched(change) => Midway)',
              (Applying /\ pc' \in {"rename", "write"}) \/ (Undoing /\ pc' = "undoWrite")
       PROVE  Ordered'
  <2>1. \A i \in 1 .. N : (Behind(i)' => i < at) /\ (Beyond(i)' => i > at)
    BY <1>1, <1>11 DEF Behind, Beyond, Applying, Undoing, Place
  <2>2. QED BY <1>0, <1>6, <1>11, <2>1 DEF Ordered, OnCourse
\* A change undone is followed by the one before it, or by the directories.
<1>12. ASSUME Undoing, NextUndo, \A i \in 1 .. N : i = at => CleanAt(i)'
       PROVE  Ordered'
  <2>1. \A i \in 1 .. N : (i < at => OKAt(i)') /\ (i >= at => CleanAt(i)')
    BY <1>1, <1>6, <1>12
  <2>2. at <= applied /\ applied' = applied BY <1>12 DEF Place
  <2>3. /\ at > 1 => at' = at - 1 /\ pc' = FirstUndo(patch[at - 1])
        /\ at = 1 => pc' = "prune" /\ at' = at
        /\ pc' \in {"undoRemove", "undoWrite", "prune"}
    BY <1>1, <1>12 DEF FirstUndo
  <2>4. CASE at > 1
    <3>1. at - 1 \in 1 .. N BY <1>1, <2>4
    <3>2. Sound(patch[at - 1]) /\ pc' \in {"undoRemove", "undoWrite"}
      BY <2>3, <2>4, <3>1, PatchFacts DEF TypeOK, FirstUndo
    <3>3. Midway' BY <1>0, <1>1, <2>3, <2>4, <3>2 DEF Midway, FirstUndo, Sound
    <3>4. \A i \in 1 .. N : (Behind(i)' => i < at) /\ (Beyond(i)' => i >= at)
      BY <1>1, <2>2, <2>3, <2>4, <3>2 DEF Behind, Beyond, Applying, Undoing
    <3>5. QED BY <1>0, <2>1, <3>2, <3>3, <3>4 DEF Ordered, OnCourse
  <2>5. CASE at = 1
    <3>1. \A i \in 1 .. N : i >= at /\ (Behind(i)' => FALSE)
      BY <1>1, <2>3, <2>5 DEF Behind, Applying, Undoing
    <3>2. Midway' BY <2>3, <2>5 DEF Midway
    <3>3. QED BY <1>0, <2>1, <2>3, <2>5, <3>1, <3>2 DEF Ordered, OnCourse
  <2>6. QED BY <1>1, <2>4, <2>5
\* A call of the rollback that fails leaves its change midway.
<1>13. ASSUME Undoing, pc' = "ended" PROVE Ordered'
  BY <1>1, <1>6, <1>7, <1>13
<1>14. CASE createParentDirectories
  <2>1. Applying /\ applied > 0 /\ file' = file /\ touched' = touched
    BY <1>1, <1>14 DEF createParentDirectories, Place, Applying
  <2>2. CASE RollBack BY <1>9, <2>1, <2>2
  <2>3. CASE Goto(IF change.kind = "ADD" THEN "write" ELSE "rename")
    <3>1. (Untouched(change) => Midway)'
      BY <1>0, <1>1, <1>3, <1>14, <2>1, <2>3
      DEF createParentDirectories, OnCourse, Midway, Untouched, Restored, change
    <3>2. QED BY <1>11, <2>1, <2>3, <3>1
  <2>4. QED BY <1>14, <2>2, <2>3 DEF createParentDirectories
<1>15. CASE movePatchFile
  <2>1. /\ Applying /\ applied > 0 /\ change.kind = "MOVE" /\ touched' = touched
        /\ pc = "rename"
    BY <1>1, <1>15 DEF movePatchFile, Place, Applying
  <2>2. CASE RollBack BY <1>9, <2>1, <2>2
  <2>3. CASE /\ file' = [file EXCEPT ![change.source] = "absent",
                                     ![change.target] = file[change.source]]
             /\ IF change.rewrites THEN Goto("write") ELSE NextChange
    <3>1. change.source \in Files /\ change.target \in Files /\ change.source # change.target
      BY <1>1, <2>1, FilesAssumption DEF Sound, WellFormed
    <3>2. file'[change.source] = "absent" /\ file'[change.target] = file[change.source]
      BY <1>5, <2>3, <3>1
    <3>3. CASE change.rewrites
      <4>1. Midway' BY <1>1, <2>3, <3>2, <3>3 DEF Midway
      <4>2. QED BY <1>11, <2>1, <2>3, <3>3, <4>1
    <3>4. CASE ~change.rewrites
      <4>1. Untouched(change) => file[change.source] = "old"
        BY <1>3, <2>1, <3>1, FilesAssumption DEF OnCourse, Midway, Restored
      <4>2. \A i \in 1 .. N : i = at => OKAt(i)'
        BY <1>0, <1>1, <2>1, <3>2, <3>4, <4>1 DEF OKAt, Untouched, Applied, Written, After
      <4>3. QED BY <1>10, <2>1, <2>3, <3>4, <4>2
    <3>5. QED BY <3>3, <3>4
  <2>4. QED BY <1>15, <2>2, <2>3 DEF movePatchFile
<1>16. CASE writePatchFile
  <2>1. /\ Applying /\ applied > 0 /\ change.kind # "DELETE" /\ change.rewrites
        /\ touched' = touched /\ pc = "write"
    BY <1>1, <1>16 DEF writePatchFile, Place, Applying
  <2>2. CASE RollBack BY <1>9, <2>1, <2>2
  <2>3. CASE file' = [file EXCEPT ![Written(change)] = "new"] /\ NextChange
    <3>1. Written(change) \in Files /\ (change.kind = "MOVE" => Written(change) # change.source)
      BY <1>1, <2>1, FilesAssumption DEF Sound, WellFormed, Written
    <3>2. file'[Written(change)] = "new" BY <1>5, <2>3, <3>1
    <3>3. Untouched(change) /\ change.kind = "MOVE" => file'[change.source] = "absent"
      BY <1>1, <1>3, <1>5, <2>1, <2>3, <3>1 DEF OnCourse, Midway, Sound
    <3>4. \A i \in 1 .. N : i = at => OKAt(i)'
      BY <1>0, <1>1, <2>1, <3>2, <3>3 DEF OKAt, Untouched, Applied, Written, After
    <3>5. QED BY <1>10, <2>1, <2>3, <3>4
  <2>4. QED BY <1>16, <2>2, <2>3 DEF writePatchFile
<1>17. CASE removePatchFile
  <2>1. /\ Applying /\ applied > 0 /\ change.kind = "DELETE" /\ touched' = touched
        /\ change.source \in Files
    BY <1>1, <1>17 DEF removePatchFile, Place, Applying, Sound
  <2>2. CASE RollBack BY <1>9, <2>1, <2>2
  <2>3. CASE file' = [file EXCEPT ![change.source] = "absent"] /\ NextChange
    <3>1. file'[change.source] = "absent" BY <1>5, <2>1, <2>3
    <3>2. \A i \in 1 .. N : i = at => OKAt(i)' BY <1>0, <1>1, <2>1, <3>1 DEF OKAt, Applied
    <3>3. QED BY <1>10, <2>1, <2>3, <3>2
  <2>4. QED BY <1>17, <2>2, <2>3 DEF removePatchFile
<1>18. CASE verifyChange
  <2>1. pc = "verify" /\ applied = N /\ file' = file BY <1>18 DEF verifyChange, Place
  <2>2. CASE RollBack /\ touched' = touched BY <1>1, <1>9, <2>1, <2>2
  <2>3. CASE /\ Applied(change)
             /\ IF at < N THEN at' = at + 1 /\ UNCHANGED <<pc, applied, outcome>> ELSE End("OK")
    <3>1. \A i \in 1 .. N : i = at => OKAt(i)' BY <1>0, <1>1, <2>1, <2>3 DEF OKAt, Applied
    <3>3. \A i \in 1 .. N : OKAt(i)' /\ i <= N
      BY <1>1, <1>3, <1>4, <2>1, <3>1 DEF OnCourse, Behind
    <3>4. CASE pc' = "ended"
      <4>1. N \in 1 .. N /\ \A i \in 1 .. N : ~(i > N) BY <1>1
      <4>2. QED BY <1>7, <3>3, <3>4, <4>1
    <3>5. CASE pc' = "verify" /\ applied' = N
      <4>1. \A i \in 1 .. N : ~Beyond(i)' BY <1>1, <3>5 DEF Beyond, Undoing
      <4>2. Midway' BY <3>5 DEF Midway
      <4>3. QED BY <1>0, <3>3, <3>5, <4>1, <4>2 DEF Ordered, OnCourse
    <3>6. QED BY <2>1, <2>3, <3>4, <3>5
  <2>4. QED BY <1>18, <2>2, <2>3 DEF verifyChange
<1>19. CASE undoRemove
  <2>1. /\ Undoing /\ change.kind \in {"ADD", "MOVE"} /\ change.target \in Files
        /\ touched' = touched
    BY <1>1, <1>19 DEF undoRemove, Undoing, Place, Sound
  <2>2. CASE pc' = "ended" BY <1>13, <2>1, <2>2
  <2>3. CASE /\ file' = [file EXCEPT ![change.target] = "absent"]
             /\ IF change.kind = "MOVE" THEN Goto("undoWrite") ELSE NextUndo
    <3>1. file'[change.target] = "absent" BY <1>5, <2>1, <2>3
    <3>2. CASE change.kind = "MOVE"
      <4>1. Midway' BY <1>1, <2>3, <3>1, <3>2 DEF Midway
      <4>2. QED BY <1>11, <2>1, <2>3, <3>2, <4>1
    <3>3. CASE change.kind # "MOVE"
      <4>1. change.source = NoFile BY <1>1, <2>1, <3>3 DEF Sound, WellFormed
      <4>2. \A i \in 1 .. N : i = at => CleanAt(i)' BY <1>0, <1>1, <3>1, <4>1 DEF CleanAt, Restored
      <4>3. QED BY <1>12, <2>1, <2>3, <3>3, <4>2
    <3>4. QED BY <3>2, <3>3
  <2>4. QED BY <1>19, <2>2, <2>3 DEF undoRemove
<1>20. CASE undoWrite
  <2>1. /\ Undoing /\ change.kind # "ADD" /\ change.source \in Files /\ touched' = touched
        /\ change.target # NoFile => change.target # change.source /\ change.target \in Files
        /\ Untouched(change) /\ change.target # NoFile => file[change.target] = "absent"
    BY <1>1, <1>3, <1>20 DEF undoWrite, Undoing, Place, Sound, WellFormed, OnCourse, Midway
  <2>2. CASE pc' = "ended" BY <1>13, <2>1, <2>2
  <2>3. CASE file' = [file EXCEPT ![change.source] = "old"] /\ NextUndo
    <3>1. \A i \in 1 .. N : i = at => CleanAt(i)'
      BY <1>0, <1>1, <1>5, <2>1, <2>3 DEF CleanAt, Restored, Untouched
    <3>2. QED BY <1>12, <2>1, <2>3, <3>1
  <2>4. QED BY <1>20, <2>2, <2>3 DEF undoWrite
<1>21. CASE removePatchDirectoryIfEmpty \/ recheck
  <2>1. /\ pc \in {"prune", "recheck"} /\ file' = file
        /\ pc' \in {"prune", "recheck", "ended"}
    BY <1>21 DEF removePatchDirectoryIfEmpty, recheck
  <2>2. \A i \in 1 .. N : CleanAt(i) BY <1>3, <2>1 DEF OnCourse, Beyond
  <2>3. \A i \in 1 .. N : i = at => CleanAt(i)'
    <3>1. CASE touched' = touched
      BY <1>0, <1>1, <2>1, <2>2, <3>1 DEF CleanAt, Untouched, Restored
    <3>2. CASE touched' # touched
      <4>1. Restored(change) BY <1>21, <3>2 DEF removePatchDirectoryIfEmpty, recheck
      <4>2. QED BY <1>0, <1>1, <2>1, <4>1 DEF CleanAt, Restored
    <3>3. QED BY <3>1, <3>2
  <2>5. \A i \in 1 .. N : CleanAt(i)' BY <1>1, <1>4, <2>2, <2>3
  <2>6. CASE pc' = "ended"
    <3>1. 1 \in 1 .. N /\ \A i \in 1 .. N : ~(i < 1) BY <1>1
    <3>2. QED BY <1>7, <2>5, <2>6, <3>1
  <2>7. CASE pc' # "ended"
    <3>1. \A i \in 1 .. N : ~Behind(i)' BY <2>1, <2>7 DEF Behind, Applying, Undoing
    <3>2. Midway' BY <2>1, <2>7 DEF Midway
    <3>3. QED BY <1>0, <2>1, <2>5, <2>7, <3>1, <3>2 DEF Ordered, OnCourse
  <2>8. QED BY <2>6, <2>7
<1>22. QED
  BY <1>8, <1>14, <1>15, <1>16, <1>17, <1>18, <1>19, <1>20, <1>21 DEF commitPatch

-----------------------------------------------------------------------------
(***************************************************************************)
(* The theorems.                                                           *)
(***************************************************************************)
IInv == Typed /\ Looked /\ Pristine /\ Ordered

\* IInv is invariant.
THEOREM Invariance == Spec => []IInv
<1>1. Init => IInv BY InitTyped, InitLooked, InitPristine, InitOrdered DEF IInv
<1>2. IInv /\ [Next]_vars => IInv'
  <2> SUFFICES ASSUME IInv, [Next]_vars PROVE IInv'
    OBVIOUS
  <2>1. CASE commitPatch
    BY <2>1, CommitKeepsTyped, CommitKeepsLooked, CommitKeepsPristine, CommitKeepsOrdered DEF IInv
  <2>2. CASE reconcile \/ Crash \/ (\E f \in Files : Edit(f)) \/ UNCHANGED vars
    BY <2>2, BesideKeepsTyped, BesideKeepsLooked, BesideKeepsPristine, BesideKeepsOrdered DEF IInv
  <2>3. QED BY <2>1, <2>2 DEF Next
<1>3. QED BY <1>1, <1>2, PTL DEF Spec

\* TypeOK is an invariant: the commit never indexes past the changes it has pushed.
THEOREM TypeCorrectness == Spec => []TypeOK
<1>1. IInv => TypeOK BY DEF IInv, Typed
<1>2. QED BY <1>1, Invariance, PTL

\* A patch that answers OK is applied as a whole, for the files not edited since they
\* were verified.
THEOREM Success == Spec => []SuccessIsApplied
<1>1. IInv => SuccessIsApplied BY DEF IInv, Looked, OKAt, SuccessIsApplied
<1>2. QED BY <1>1, Invariance, PTL

\* A patch that is refused or rolled back left none of its changes in the files not
\* edited since they were looked at, and, in a workspace of its own, no directory.
THEOREM Failure == Spec => []FailureIsClean
<1>1. IInv => FailureIsClean
  <2> SUFFICES ASSUME IInv, outcome \in {"REFUSED", "ROLLED_BACK"} PROVE FailureIsClean
    BY DEF FailureIsClean
  <2>1. verdict = "NONE" /\ pc = "ended" BY DEF IInv, Typed, Place
  <2>2. ASSUME NEW i \in 1 .. N, Untouched(patch[i]) PROVE Restored(patch[i])
    <3>1. applied \in Nat BY DEF IInv, Typed, TypeOK
    <3>2. CASE i > applied
      <4>1. KeptAt(i) BY <2>1, <3>2 DEF IInv, Looked
      <4>2. Sound(patch[i]) BY PatchFacts DEF IInv, Typed, TypeOK
      <4>3. QED BY <2>2, <4>1, <4>2 DEF KeptAt, Sound, Untouched, Paths, Restored
    <3>3. CASE i <= applied
      <4>1. N \in Nat BY PatchFacts DEF IInv, Typed, TypeOK
      <4>2. outcome = "ROLLED_BACK" BY <3>1, <3>3, <4>1 DEF IInv, Typed, Place
      <4>3. QED BY <2>2, <3>3, <4>2 DEF IInv, Looked, CleanAt
    <3>4. QED BY <3>1, <3>2, <3>3, PatchFacts DEF IInv, Typed, TypeOK
  <2>3. ASSUME edits = 0 PROVE dirs = Base
    <3>1. DirsKnown BY <2>1, <2>3 DEF IInv, Pristine, Course
    <3>2. created = <<>> BY <3>1 DEF DirsKnown
    <3>3. {created[i] : i \in 1 .. Len(created)} = {} BY <3>2
    <3>4. QED BY <3>1, <3>3 DEF DirsKnown
  <2>4. QED BY <2>2, <2>3 DEF FailureIsClean, Base
<1>2. QED BY <1>1, Invariance, PTL

\* In a workspace of its own, one failing call alone never leaves the outcome uncertain.
THEOREM SingleFault == Spec => []SingleFaultRecovers
<1>1. IInv => SingleFaultRecovers
  BY DEF IInv, Typed, TypeOK, Pristine, SingleFaultRecovers
<1>2. QED BY <1>1, Invariance, PTL

\* At every moment, and after a crash or an uncertain outcome, at most one change of
\* the patch is midway: those before it are made, those after it are not.
THEOREM PrefixOfThePatch == Spec => []WorkspaceIsPrefix
<1>1. IInv => WorkspaceIsPrefix BY OneMidway DEF IInv, Ordered
<1>2. QED BY <1>1, Invariance, PTL

\* An inspection after a crash matches no change that is still to be made.
THEOREM Inspection == Spec => []MatchedIsApplied
<1>1. IInv => MatchedIsApplied BY DEF IInv, Looked, MatchedAt, MatchedIsApplied
<1>2. QED BY <1>1, Invariance, PTL
=============================================================================
