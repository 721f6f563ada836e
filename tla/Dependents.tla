----------------------------- MODULE Dependents -----------------------------
(***************************************************************************)
(* The meaning of "depends on" in a directed graph, free of any traversal: *)
(* the reference definition that the search, the readiness classification  *)
(* and the pipeline are all checked against.                               *)
(***************************************************************************)

(* S is closed under the edges of E: no edge leaves it. *)
Closed(S, E) == \A e \in E : e[1] \in S => e[2] \in S

(* The nodes that depend, directly or transitively, on s: the least closed  *)
(* set that contains s.  It names no path and no order.                     *)
Reachable(nodes, s, E) ==
    {n \in nodes : \A S \in SUBSET nodes : s \in S /\ Closed(S, E) => n \in S}
=============================================================================
