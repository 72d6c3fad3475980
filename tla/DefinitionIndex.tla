-------------------------- MODULE DefinitionIndex ---------------------------
(***************************************************************************)
(* What the symbol index promises its callers (src/workspace.rs:9-13): a   *)
(* table from paths to parse results that changes one path at a time, and  *)
(* queries that return every global definition of the wanted names, each   *)
(* once, and nothing else.                                                 *)
(***************************************************************************)
EXTENDS Naturals, Sequences

CONSTANTS Paths, Names, Contents, NoFile

VARIABLES
    index,   \* path -> parse result, or NoFile
    answer   \* the last query and its result

\* The symbols of a file that have a wanted name and are not local.
Globals(p, wanted) ==
    IF index[p] = NoFile THEN {}
    ELSE {i \in 1..Len(index[p]) : index[p][i].name \in wanted /\ ~index[p][i].local}

\* Every global symbol with a wanted name, as a location.
Definitions(wanted) ==
    UNION {{[file |-> p, symbol_idx |-> i, copy |-> 0, name |-> index[p][i].name] :
              i \in Globals(p, wanted)} : p \in Paths}

Init ==
    /\ index = [p \in Paths |-> NoFile]
    /\ answer = [wanted |-> {}, found |-> {}]

Reindex(p, c) == index' = [index EXCEPT ![p] = c] /\ UNCHANGED answer
Forget(p) == index' = [index EXCEPT ![p] = NoFile] /\ UNCHANGED answer
Query(wanted) ==
    /\ answer' = [wanted |-> wanted, found |-> Definitions(wanted)]
    /\ UNCHANGED index

Next ==
    \/ \E p \in Paths : Forget(p) \/ \E c \in Contents : Reindex(p, c)
    \/ \E wanted \in SUBSET Names : Query(wanted)

Spec == Init /\ [][Next]_<<index, answer>>
=============================================================================
