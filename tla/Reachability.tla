---------------------------- MODULE Reachability ----------------------------
(***************************************************************************)
(* What an impact analysis promises, without saying how it walks: starting *)
(* from one node of a directed graph it discovers nodes one at a time,     *)
(* each because a node already known leads to it, until nothing new is     *)
(* left.  ImpactPaths (the breadth-first search of internal/graph) is      *)
(* shown to implement this module.                                         *)
(***************************************************************************)
EXTENDS Dependents

CONSTANT Nodes

VARIABLES edges,  \* the graph: a set of pairs of nodes, never changed
          start,  \* the node the analysis begins at, never changed
          found   \* the nodes reported so far, start excluded

vars == <<edges, start, found>>

-----------------------------------------------------------------------------
Init == /\ edges \in SUBSET (Nodes \X Nodes)
        /\ start \in Nodes
        /\ found = {}

Discover == \E e \in edges :
                /\ e[1] \in found \cup {start}
                /\ e[2] \notin found \cup {start}
                /\ found' = found \cup {e[2]}
                /\ UNCHANGED <<edges, start>>

Next == Discover

Spec == Init /\ [][Next]_vars /\ WF_vars(Next)
=============================================================================
