------------------------- MODULE MCWorkspaceIndex --------------------------
(***************************************************************************)
(* Instances of WorkspaceIndex for TLC: two names, and parse results that  *)
(* define nothing, one name, the other one, or both (one of them a local). *)
(***************************************************************************)
EXTENDS WorkspaceIndex

CONSTANTS a, b

Global(n) == [name |-> n, local |-> FALSE]
Local(n) == [name |-> n, local |-> TRUE]

MCContents == {<<>>, <<Global(a)>>, <<Global(b), Global(a)>>, <<Local(a), Global(b)>>}
SmallContents == {<<>>, <<Global(a)>>, <<Global(b)>>}
=============================================================================
