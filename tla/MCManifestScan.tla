--------------------------- MODULE MCManifestScan ---------------------------
(***************************************************************************)
(* ManifestScan for TLC: a repository and a directory in it, opened as     *)
(* worktrees of their own.                                                 *)
(***************************************************************************)
EXTENDS ManifestScan, TLC

CONSTANTS parent, child, p, q

Symmetry == Permutations(Contents) \cup Permutations(Processes)

Nested == [w \in Worktrees |-> IF w = child THEN {q} ELSE Paths]
=============================================================================
