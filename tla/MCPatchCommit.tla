--------------------------- MODULE MCPatchCommit ---------------------------
(***************************************************************************)
(* Patches of four changes for TLC, in several orders: one of every kind,  *)
(* the new files in a directory the patch has to make.                     *)
(***************************************************************************)
EXTENDS PatchCommit

MCFiles == {"a", "b", "c", "d", "e"}
MCDir   == [f \in MCFiles |-> IF f \in {"c", "d"} THEN "new" ELSE "src"]

MCChange(kind, source, target, rewrites) ==
    [kind |-> kind, source |-> source, target |-> target, rewrites |-> rewrites]

Add    == MCChange("ADD", NoFile, "d", TRUE)
Update == MCChange("UPDATE", "a", NoFile, TRUE)
Delete == MCChange("DELETE", "e", NoFile, FALSE)
Move(rewrites) == MCChange("MOVE", "b", "c", rewrites)

MCPatches == {<<Update, Move(TRUE), Add, Delete>>, <<Delete, Add, Move(FALSE), Update>>,
              <<Move(TRUE), Delete, Update>>}
=============================================================================
