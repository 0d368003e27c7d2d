---------------------------- MODULE PatchCommit ----------------------------
(***************************************************************************)
(* One prepared patch on its way into the workspace: every source and      *)
(* destination is guarded, the changes are applied in order, all of them   *)
(* are verified, and whatever fails is rolled back and verified again.     *)
(* Nothing locks the files: calls of the file system fail, other programs  *)
(* edit the same files, and the process may die between two calls, after   *)
(* which the patch is only inspected. A step is one call of the file       *)
(* system with the reads that lead to it.                                  *)
(***************************************************************************)
EXTENDS Integers, Sequences

CONSTANTS
    Patches,        \* the patches to commit, each a sequence of changes
    Files,          \* the paths they name
    Dir,            \* the parent directory of each
    InitialDirs,    \* the directories that exist
    Repetitive,     \* files whose old text satisfies the patch's hunks, too
    MaxFaults,      \* bound: calls that fail
    MaxEdits        \* bound: edits by other programs

NoFile == "-"

\* A change: parsePatch makes all its paths distinct from those of the others.
Changes == [kind : {"ADD", "UPDATE", "DELETE", "MOVE"}, source : Files \cup {NoFile},
            target : Files \cup {NoFile}, rewrites : BOOLEAN]

Paths(c) == {c.source, c.target} \ {NoFile}

WellFormed(c) ==
    /\ (c.source = NoFile) <=> c.kind = "ADD"
    /\ (c.target = NoFile) <=> c.kind \in {"UPDATE", "DELETE"}
    /\ c.source = c.target => c.source = NoFile
    /\ c.kind \in {"ADD", "UPDATE"} => c.rewrites

ASSUME FilesAssumption   == NoFile \notin Files
ASSUME PatchesAssumption ==
    \A p \in Patches :
        /\ p \in Seq(Changes) /\ p # <<>>
        /\ \A i \in DOMAIN p : WellFormed(p[i])
        /\ \A i, j \in DOMAIN p : i # j => Paths(p[i]) \cap Paths(p[j]) = {}
ASSUME DirsAssumption    == InitialDirs \subseteq {Dir[f] : f \in Files}
ASSUME BoundsAssumption  == MaxFaults \in Nat /\ MaxEdits \in Nat

VARIABLES
    patch,      \* PreparedPatch.changes
    \* The file system.
    file,       \* what each path holds
    dirs,       \* the directories there are
    \* commitPatch.
    pc,         \* the call it is at
    at,         \* the change the call is for
    applied,    \* how many changes were pushed on applied
    created,    \* createdDirectories
    outcome,    \* how apply() answered
    verdict,    \* how reconcile() answered, after a crash
    \* Around it.
    touched,    \* the paths another program has edited since the patch looked at them
    faults,     \* so far, for MaxFaults
    edits       \* so far, for MaxEdits

vars == <<patch, file, dirs, pc, at, applied, created, outcome, verdict, touched, faults, edits>>

\* A path holds nothing, the text the patch was prepared for, the text it
\* makes, part of a text, or what another program wrote.
Contents == {"absent", "old", "new", "torn", "foreign"}

N == Len(patch)
change == patch[at]

\* What a file holds before and after the patch.
Before(f) == IF \E i \in 1 .. N : patch[i].source = f THEN "old" ELSE "absent"
After(c)  == IF c.rewrites THEN "new" ELSE "old"

Init ==
    /\ patch \in Patches
    /\ file = [f \in Files |-> Before(f)]
    /\ dirs = InitialDirs \cup {Dir[f] : f \in {g \in Files : Before(g) = "old"}}
    /\ pc = "guardSource" /\ at = 1 /\ applied = 0 /\ created = <<>>
    /\ outcome = "NONE" /\ verdict = "NONE"
    /\ touched = {} /\ faults = 0 /\ edits = 0
-----------------------------------------------------------------------------
(***************************************************************************)
(* Where a step leads.                                                     *)
(***************************************************************************)
Goto(call) == pc' = call /\ UNCHANGED <<at, applied, outcome>>

End(answer) == pc' = "ended" /\ outcome' = answer /\ UNCHANGED <<at, applied>>

FirstCall(c) ==
    CASE c.kind \in {"ADD", "MOVE"} -> "makeParent"
      [] c.kind = "UPDATE"          -> "write"
      [] OTHER                      -> "remove"

FirstUndo(c) == IF c.kind \in {"ADD", "MOVE"} THEN "undoRemove" ELSE "undoWrite"

\* The i-th change is pushed on applied before it is applied.
Apply(i) == pc' = FirstCall(patch[i]) /\ at' = i /\ applied' = i /\ UNCHANGED outcome

NextChange ==
    IF at < N THEN Apply(at + 1)
              ELSE pc' = "verify" /\ at' = 1 /\ UNCHANGED <<applied, outcome>>

\* Mutated forms follow: each is a bug that breaks the property PROJECT.json
\* names for it, and none is used.
\* Only the changes before the one that failed are rolled back.
RollBackEarlier ==
    IF at > 1 THEN /\ pc' = FirstUndo(patch[at - 1]) /\ at' = at - 1
                   /\ applied' = at - 1 /\ UNCHANGED outcome
              ELSE pc' = "prune" /\ at' = 1 /\ applied' = 0 /\ UNCHANGED outcome

\* The rollback begins with the first change, where it ends.
RollBackFirst ==
    /\ pc' = FirstUndo(patch[1])
    /\ at' = 1
    /\ UNCHANGED <<applied, outcome>>

\* From the last change pushed, the one that failed included, to the first.
RollBack ==
    /\ pc' = FirstUndo(patch[applied])
    /\ at' = applied
    /\ UNCHANGED <<applied, outcome>>

NextUndo ==
    IF at > 1 THEN pc' = FirstUndo(patch[at - 1]) /\ at' = at - 1 /\ UNCHANGED <<applied, outcome>>
              ELSE Goto("prune")

\* A call of the file system fails.
Fails == faults < MaxFaults /\ faults' = faults + 1

UnchangedFiles == UNCHANGED <<file, dirs, created>>
UnchangedOthers == UNCHANGED <<patch, verdict, edits>>
UnchangedAround == UnchangedOthers /\ UNCHANGED touched

\* What the patch reads it knows, whoever wrote it.
LooksAt(paths) == touched' = touched \ paths

\* A failed write may have left nothing, part of the text, or all of it.
WriteFails(f, text) ==
    \E left \in {file[f], "torn", text} : file' = [file EXCEPT ![f] = left]
-----------------------------------------------------------------------------
(***************************************************************************)
(* guardAll: the sources still hold what was prepared, the destinations    *)
(* nothing. An error here answers before anything was changed.             *)
(***************************************************************************)
guardSource ==
    /\ pc = "guardSource"
    /\ \/ /\ change.kind # "ADD" => file[change.source] = "old"
          /\ Goto("guardDestination")
          /\ LooksAt({change.source})
          /\ UNCHANGED faults
       \/ /\ change.kind # "ADD" /\ file[change.source] # "old"
          /\ End("REFUSED")
          /\ UNCHANGED <<touched, faults>>
       \/ Fails /\ End("REFUSED") /\ UNCHANGED touched
    /\ UnchangedFiles /\ UnchangedOthers

guardDestination ==
    /\ pc = "guardDestination"
    /\ \/ /\ change.target # NoFile => file[change.target] = "absent"
          /\ IF at < N THEN pc' = "guardSource" /\ at' = at + 1 /\ UNCHANGED <<applied, outcome>>
                       ELSE Apply(1)
          /\ LooksAt({change.target})
          /\ UNCHANGED faults
       \/ /\ change.target # NoFile /\ file[change.target] # "absent"
          /\ End("REFUSED")
          /\ UNCHANGED <<touched, faults>>
       \/ Fails /\ End("REFUSED") /\ UNCHANGED touched
    /\ UnchangedFiles /\ UnchangedOthers
-----------------------------------------------------------------------------
(***************************************************************************)
(* applyChange.                                                            *)
(***************************************************************************)
\* A directory is recorded once it was made.
createParentDirectories ==
    /\ pc = "makeParent"
    /\ \/ /\ IF Dir[change.target] \in dirs
               THEN UNCHANGED <<dirs, created>>
               ELSE /\ dirs' = dirs \cup {Dir[change.target]}
                    /\ created' = Append(created, Dir[change.target])
          /\ Goto(IF change.kind = "ADD" THEN "write" ELSE "rename")
          /\ UNCHANGED faults
       \/ Fails /\ RollBack /\ UNCHANGED <<dirs, created>>
    /\ UNCHANGED file
    /\ UnchangedAround

\* rename replaces whatever the destination holds by now.
movePatchFile ==
    /\ pc = "rename"
    /\ \/ /\ file[change.source] # "absent"
          /\ file' = [file EXCEPT ![change.source] = "absent", ![change.target] = file[change.source]]
          /\ IF change.rewrites THEN Goto("write") ELSE NextChange
          /\ UNCHANGED faults
       \/ /\ file[change.source] = "absent"
          /\ RollBack
          /\ UNCHANGED <<file, faults>>
       \/ Fails /\ RollBack /\ UNCHANGED file
    /\ UNCHANGED <<dirs, created>>
    /\ UnchangedAround

Written(c) == IF c.kind = "UPDATE" THEN c.source ELSE c.target

writePatchFile ==
    /\ pc = "write"
    /\ \/ /\ file' = [file EXCEPT ![Written(change)] = "new"]
          /\ NextChange
          /\ UNCHANGED faults
       \/ Fails /\ RollBack /\ WriteFails(Written(change), "new")
    /\ UNCHANGED <<dirs, created>>
    /\ UnchangedAround

removePatchFile ==
    /\ pc = "remove"
    /\ \/ /\ file[change.source] # "absent"
          /\ file' = [file EXCEPT ![change.source] = "absent"]
          /\ NextChange
          /\ UNCHANGED faults
       \/ /\ file[change.source] = "absent"
          /\ RollBack
          /\ UNCHANGED <<file, faults>>
       \/ Fails /\ RollBack /\ UNCHANGED file
    /\ UNCHANGED <<dirs, created>>
    /\ UnchangedAround
-----------------------------------------------------------------------------
(***************************************************************************)
(* verifyChange: every change once all are applied.                        *)
(***************************************************************************)
Applied(c) ==
    /\ c.kind \in {"DELETE", "MOVE"} => file[c.source] = "absent"
    /\ c.kind # "DELETE" => file[Written(c)] = After(c)

\* That the files are there is taken for their contents.
verifyExistence ==
    /\ pc = "verify"
    /\ \/ /\ change.kind # "DELETE" => file[Written(change)] # "absent"
          /\ IF at < N THEN at' = at + 1 /\ UNCHANGED <<pc, applied, outcome>> ELSE End("OK")
          /\ LooksAt(Paths(change))
          /\ UNCHANGED faults
       \/ Fails /\ RollBack /\ UNCHANGED touched
    /\ UnchangedFiles /\ UnchangedOthers

verifyChange ==
    /\ pc = "verify"
    /\ \/ /\ Applied(change)
          /\ IF at < N THEN at' = at + 1 /\ UNCHANGED <<pc, applied, outcome>> ELSE End("OK")
          /\ LooksAt(Paths(change))
          /\ UNCHANGED faults
       \/ ~Applied(change) /\ RollBack /\ UNCHANGED <<touched, faults>>
       \/ Fails /\ RollBack /\ UNCHANGED touched
    /\ UnchangedFiles /\ UnchangedOthers
-----------------------------------------------------------------------------
(***************************************************************************)
(* rollback: an error in it leaves the outcome uncertain.                  *)
(***************************************************************************)
undoRemove ==
    /\ pc = "undoRemove"
    /\ \/ /\ file' = [file EXCEPT ![change.target] = "absent"]
          /\ IF change.kind = "MOVE" THEN Goto("undoWrite") ELSE NextUndo
          /\ UNCHANGED faults
       \/ Fails /\ End("UNCERTAIN") /\ UNCHANGED file
    /\ UNCHANGED <<dirs, created>>
    /\ UnchangedAround

\* A source is written again only when it is gone.
undoWriteOver ==
    /\ pc = "undoWrite"
    /\ \/ /\ file' = [file EXCEPT ![change.source] = IF @ = "absent" THEN "old" ELSE @]
          /\ NextUndo
          /\ UNCHANGED faults
       \/ Fails /\ End("UNCERTAIN") /\ WriteFails(change.source, "old")
    /\ UNCHANGED <<dirs, created>>
    /\ UnchangedAround

undoWrite ==
    /\ pc = "undoWrite"
    /\ \/ /\ file' = [file EXCEPT ![change.source] = "old"]
          /\ NextUndo
          /\ UNCHANGED faults
       \/ Fails /\ End("UNCERTAIN") /\ WriteFails(change.source, "old")
    /\ UNCHANGED <<dirs, created>>
    /\ UnchangedAround

Populated(d) == \E f \in Files : Dir[f] = d /\ file[f] # "absent"

\* The directories made, the last one first, unless something is in them.
removePatchDirectoryIfEmpty ==
    /\ pc = "prune"
    /\ \/ /\ created # <<>>
          /\ created' = SubSeq(created, 1, Len(created) - 1)
          /\ dirs' = IF Populated(created[Len(created)]) THEN dirs ELSE dirs \ {created[Len(created)]}
          /\ UNCHANGED <<pc, at, applied, outcome, faults>>
       \/ /\ created = <<>>
          /\ pc' = "recheck" /\ at' = 1
          /\ UNCHANGED <<dirs, created, applied, outcome, faults>>
       \/ created # <<>> /\ Fails /\ End("UNCERTAIN") /\ UNCHANGED <<dirs, created>>
    /\ UNCHANGED file
    /\ UnchangedAround

Restored(c) ==
    /\ c.source # NoFile => file[c.source] = "old"
    /\ c.target # NoFile => file[c.target] = "absent"

\* The first change beyond those applied is looked at, too.
recheckPast ==
    /\ pc = "recheck"
    /\ \/ /\ Restored(change)
          /\ IF at <= applied THEN at' = at + 1 /\ UNCHANGED <<pc, applied, outcome>>
                              ELSE End("ROLLED_BACK")
          /\ LooksAt(Paths(change))
          /\ UNCHANGED faults
       \/ ~Restored(change) /\ End("UNCERTAIN") /\ UNCHANGED <<touched, faults>>
       \/ Fails /\ End("UNCERTAIN") /\ UNCHANGED touched
    /\ UnchangedFiles /\ UnchangedOthers

recheck ==
    /\ pc = "recheck"
    /\ \/ /\ Restored(change)
          /\ IF at < applied THEN at' = at + 1 /\ UNCHANGED <<pc, applied, outcome>>
                             ELSE End("ROLLED_BACK")
          /\ LooksAt(Paths(change))
          /\ UNCHANGED faults
       \/ ~Restored(change) /\ End("UNCERTAIN") /\ UNCHANGED <<touched, faults>>
       \/ Fails /\ End("UNCERTAIN") /\ UNCHANGED touched
    /\ UnchangedFiles /\ UnchangedOthers
-----------------------------------------------------------------------------
(***************************************************************************)
(* Around the commit.                                                      *)
(***************************************************************************)
\* Another program writes or removes a file the patch names.
Edit(f) ==
    /\ edits < MaxEdits
    /\ edits' = edits + 1 /\ touched' = touched \cup {f}
    /\ \/ file' = [file EXCEPT ![f] = "foreign"] /\ dirs' = dirs \cup {Dir[f]}
       \/ file' = [file EXCEPT ![f] = "absent"] /\ UNCHANGED dirs
    /\ UNCHANGED <<patch, pc, at, applied, created, outcome, verdict, faults>>

\* The process dies, perhaps in the middle of a write; the invocation is found
\* RUNNING and its patch inspected.
Crash ==
    /\ pc \notin {"ended", "inspect"}
    /\ pc' = "inspect" /\ at' = 1
    /\ \/ UNCHANGED file
       \/ pc = "write" /\ file' = [file EXCEPT ![Written(change)] = "torn"]
       \/ pc = "undoWrite" /\ file' = [file EXCEPT ![change.source] = "torn"]
    /\ UNCHANGED <<patch, dirs, applied, created, outcome, verdict, touched, faults, edits>>

\* reconcileOperation: an update is recognised by its hunks, which says little
\* of the rest of the file.
Findings(c) ==
    IF c.kind = "DELETE" THEN {IF file[c.source] = "absent" THEN "MATCHED" ELSE "DOES_NOT_MATCH"}
    ELSE IF c.kind = "ADD" THEN {IF file[c.target] = "new" THEN "MATCHED" ELSE "DOES_NOT_MATCH"}
    ELSE IF file[Written(c)] = "absent" \/ (c.kind = "MOVE" /\ file[c.source] # "absent")
      THEN {"DOES_NOT_MATCH"}
    ELSE IF ~c.rewrites THEN {"INCONCLUSIVE"}
    ELSE IF file[Written(c)] = "new" \/ (file[Written(c)] = "old" /\ c.source \in Repetitive)
      THEN {"MATCHED"}
    ELSE IF file[Written(c)] = "old" THEN {"DOES_NOT_MATCH", "INCONCLUSIVE"}
    ELSE {"MATCHED", "DOES_NOT_MATCH", "INCONCLUSIVE"}

Inspected(finding) == pc' = "ended" /\ verdict' = finding /\ UNCHANGED at

\* What cannot be told is taken for a match.
reconcileLeniently ==
    /\ pc = "inspect"
    /\ \/ /\ \E finding \in Findings(change) :
               IF finding # "DOES_NOT_MATCH" /\ at < N
                 THEN at' = at + 1 /\ UNCHANGED <<pc, verdict>>
                 ELSE Inspected(IF finding = "INCONCLUSIVE" THEN "MATCHED" ELSE finding)
          /\ LooksAt(Paths(change))
          /\ UNCHANGED faults
       \/ Fails /\ Inspected("INCONCLUSIVE") /\ UNCHANGED touched
    /\ UNCHANGED <<patch, file, dirs, applied, created, outcome, edits>>

\* One operation after the other, up to the first that does not match.
reconcile ==
    /\ pc = "inspect"
    /\ \/ /\ \E finding \in Findings(change) :
               IF finding = "MATCHED" /\ at < N
                 THEN at' = at + 1 /\ UNCHANGED <<pc, verdict>>
                 ELSE Inspected(finding)
          /\ LooksAt(Paths(change))
          /\ UNCHANGED faults
       \/ Fails /\ Inspected("INCONCLUSIVE") /\ UNCHANGED touched
    /\ UNCHANGED <<patch, file, dirs, applied, created, outcome, edits>>

commitPatch ==
    \/ guardSource \/ guardDestination
    \/ createParentDirectories \/ movePatchFile \/ writePatchFile \/ removePatchFile
    \/ verifyChange
    \/ undoRemove \/ undoWrite \/ removePatchDirectoryIfEmpty \/ recheck

Next == commitPatch \/ reconcile \/ Crash \/ \E f \in Files : Edit(f)

Spec == Init /\ [][Next]_vars
-----------------------------------------------------------------------------
(***************************************************************************)
(* Properties.                                                             *)
(***************************************************************************)
TypeOK ==
    /\ patch \in Patches
    /\ file \in [Files -> Contents]
    /\ dirs \subseteq {Dir[f] : f \in Files}
    /\ pc \in {"guardSource", "guardDestination", "makeParent", "rename", "write", "remove",
               "verify", "undoRemove", "undoWrite", "prune", "recheck", "inspect", "ended"}
    /\ at \in 1 .. N /\ applied \in 0 .. N
    /\ created \in Seq({Dir[f] : f \in Files})
    /\ outcome \in {"NONE", "OK", "REFUSED", "ROLLED_BACK", "UNCERTAIN"}
    /\ verdict \in {"NONE", "MATCHED", "DOES_NOT_MATCH", "INCONCLUSIVE"}
    /\ touched \subseteq Files
    /\ faults \in 0 .. MaxFaults /\ edits \in 0 .. MaxEdits

Untouched(c) == Paths(c) \cap touched = {}

\* A patch that answers OK is in the workspace as a whole, whatever other programs
\* did to its files before they were verified.
SuccessIsApplied == outcome = "OK" => \A i \in 1 .. N : Untouched(patch[i]) => Applied(patch[i])

\* A patch that was refused or rolled back left nothing behind: no file of its
\* changes, whatever others did before it was looked at last, and no directory.
FailureIsClean ==
    outcome \in {"REFUSED", "ROLLED_BACK"} =>
        /\ \A i \in 1 .. N : Untouched(patch[i]) => Restored(patch[i])
        /\ edits = 0 => dirs = InitialDirs \cup {Dir[f] : f \in {g \in Files : Before(g) = "old"}}

\* One failing call alone never leaves the outcome uncertain: it takes a second
\* one, or another program.
SingleFaultRecovers == outcome = "UNCERTAIN" => faults >= 2 \/ edits > 0

\* Whoever looks at the workspace - another program at any time, the inspection as
\* it begins, the user after an uncertain outcome - finds the patch made up to some
\* change, in its order, and from there on not begun: one change at most is midway.
WorkspaceIsPrefix ==
    verdict = "NONE" /\ (pc = "inspect" => at = 1) =>
        \E k \in 1 .. N : \A i \in 1 .. N : Untouched(patch[i]) =>
            (i < k => Applied(patch[i])) /\ (i > k => Restored(patch[i]))

\* After a crash, an inspection that matches tells a patch that was applied from
\* one that was not: no change is still to be made, wherever the crash came.
MatchedIsApplied ==
    verdict = "MATCHED" => \A i \in 1 .. N : Untouched(patch[i]) =>
        /\ patch[i].kind \in {"ADD", "DELETE"} => Applied(patch[i])
        /\ ~Restored(patch[i]) \/ patch[i].source \in Repetitive
=============================================================================
