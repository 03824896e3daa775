--------------------------- MODULE RmdirRecursive ---------------------------
(***************************************************************************)
(* rmdir_recursive: the directories and files that remain when some of     *)
(* them resist.                                                            *)
(*                                                                         *)
(* A tree t gives each node its parent (the root is its own), and says     *)
(* which nodes are directories, which cannot be deleted (cellFsUnlink or   *)
(* cellFsRmdir fails), and which the walk does not get into or past:       *)
(* directories that cannot be opened, entries cellFsReaddir does not       *)
(* return because it fails, or because entries are deleted under it.       *)
(***************************************************************************)
EXTENDS Integers, FiniteSets

CONSTANT Nodes

ASSUME NodesAssumption == IsFiniteSet(Nodes)

(* Every way up ends, in a root: a set of nodes has a root or a way out.   *)
(* Only directories have entries.                                          *)
Tree ==
    {t \in [parent : [Nodes -> Nodes], dirs : SUBSET Nodes,
            stuck : SUBSET Nodes, unread : SUBSET Nodes] :
        /\ \A S \in (SUBSET Nodes) \ {{}} :
            \E n \in S : t.parent[n] = n \/ t.parent[n] \notin S
        /\ \A n \in Nodes : t.parent[n] # n => t.parent[n] \in t.dirs}

(* The nodes from n up to the root, and those from d down.                 *)
Above(t, n) ==
    LET above[m \in Nodes] ==
            IF t.parent[m] = m THEN {m} ELSE {m} \cup above[t.parent[m]]
    IN  above[n]

Below(t, d) == {n \in Nodes : d \in Above(t, n)}

Entries(t, d) == {n \in Nodes \ {d} : t.parent[n] = d}

(* Mutant: directories in d are removed without their contents.            *)
LeftFlat(t, d) ==
    LET below == UNION {IF n \in t.stuck \cup t.unread \/ Entries(t, n) # {}
                        THEN Below(t, n) ELSE {} : n \in Entries(t, d)}
    IN  IF d \in t.unread THEN Below(t, d)
        ELSE IF below = {} /\ d \notin t.stuck THEN {} ELSE {d} \cup below

(* What is left at and below d: a directory is removed after its entries,  *)
(* and only when none is left; what fails below is not looked at.          *)
Left(t, d) ==
    LET left[n \in Nodes] ==
            IF n \in t.unread THEN Below(t, n)
            ELSE IF n \notin t.dirs THEN {n} \cap t.stuck
            ELSE LET below == UNION {left[m] : m \in Entries(t, n)}
                 IN  IF below = {} /\ n \notin t.stuck THEN {}
                     ELSE {n} \cup below
    IN  left[d]

(* The result for d, with what is left of the tree.                        *)
Rmdir(t, d) ==
    LET left == Left(t, d)
    IN  [tree |-> t, err |-> IF d \in left THEN -1 ELSE 0,
         left |-> {n \in Nodes : n \in Below(t, d) => n \in left}]
=============================================================================
