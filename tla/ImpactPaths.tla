----------------------------- MODULE ImpactPaths -----------------------------
(***************************************************************************)
(* Graph.ImpactPaths (internal/graph/graph.go): the breadth-first search   *)
(* that answers "who is affected by this symbol?".  A symbol points to     *)
(* the consumers that reference it and a consumer points to the symbols it *)
(* produces (recording rules), so the graph may well be cyclic.            *)
(*                                                                         *)
(* A path is the sequence of its nodes; the kinds of its edges follow from *)
(* the nodes (a symbol is referenced, a consumer produces), and so does    *)
(* the queue item's node, which is the last of its path.                   *)
(***************************************************************************)
EXTENDS Naturals, Sequences, SequencesExt, Dependents

CONSTANTS Symbols,    \* telemetry symbol nodes
          Consumers,  \* consumer nodes
          Rank        \* the order of the node identifiers (sort.Slice)

Nodes == Symbols \cup Consumers

ASSUME NodesAssumption == Symbols \cap Consumers = {}
ASSUME RankAssumption == /\ Rank \in [Nodes -> Nat]
                         /\ \A m, n \in Nodes : Rank[m] = Rank[n] => m = n

VARIABLES edges,    \* graph.out: pairs <<from, to>>
          start,    \* the requested node
          queue,    \* the paths waiting to be extended
          current,  \* the path being extended
          todo,     \* targets of the sorted outgoing edges still to be scanned
          visited,  \* nodes reached so far
          paths     \* the result

vars == <<edges, start, queue, current, todo, visited, paths>>

-----------------------------------------------------------------------------
EdgeReferences == Symbols \X Consumers
EdgeProduces == Consumers \X Symbols

(* Mutants, each a slip the code could contain; no run uses them as they    *)
(* stand.  The edges in place of their targets.                             *)
Successors_edges(n) == {e \in edges : e[1] = n}

Successors(n) == {m \in Nodes : <<n, m>> \in edges}

(* Every consumer is a node of the graph; a symbol is one only when some    *)
(* reference or production names it.                                        *)
GraphNodes(E) == Consumers \cup {e[1] : e \in E} \cup {e[2] : e \in E}

(* The unscanned edge that sortEdges puts first. *)
FirstOf(S) == CHOOSE n \in S : \A m \in S : Rank[n] <= Rank[m]

-----------------------------------------------------------------------------
Init == /\ edges \in SUBSET (EdgeReferences \cup EdgeProduces)
        /\ start \in Symbols
        /\ IF start \in GraphNodes(edges)
             THEN queue = << <<start>> >> /\ visited = {start}
             ELSE queue = << >> /\ visited = {}
        /\ current = <<start>>
        /\ todo = {}
        /\ paths = << >>

(* current := queue[0]; queue = queue[1:]; edges := sorted out[current] *)
Dequeue == /\ todo = {}
           /\ queue # << >>
           /\ current' = Head(queue)
           /\ queue' = Tail(queue)
           /\ todo' = Successors(Last(Head(queue)))
           /\ UNCHANGED <<edges, start, visited, paths>>

(* Mutant: continue without taking the next edge. *)
SkipVisited_stuck == /\ todo # {}
                     /\ FirstOf(todo) \in visited
                     /\ UNCHANGED vars

(* if visited: continue *)
SkipVisited == /\ todo # {}
               /\ FirstOf(todo) \in visited
               /\ todo' = todo \ {FirstOf(todo)}
               /\ UNCHANGED <<edges, start, queue, current, visited, paths>>

(* Mutants: the new path is not queued; the path restarts at the start node;*)
(* the search descends before it goes on with the current node.             *)
Extend_notQueued == /\ todo # {}
                    /\ LET to == FirstOf(todo)
                       IN  /\ to \notin visited
                           /\ visited' = visited \cup {to}
                           /\ paths' = Append(paths, Append(current, to))
                           /\ todo' = todo \ {to}
                    /\ UNCHANGED <<edges, start, current, queue>>
Extend_restarts == /\ todo # {}
                   /\ LET to == FirstOf(todo)
                          nextPath == <<start, to>>
                      IN  /\ to \notin visited
                          /\ visited' = visited \cup {to}
                          /\ paths' = Append(paths, nextPath)
                          /\ queue' = Append(queue, nextPath)
                          /\ todo' = todo \ {to}
                   /\ UNCHANGED <<edges, start, current>>

Extend_depthFirst == /\ todo # {}
                     /\ LET to == FirstOf(todo)
                            nextPath == Append(current, to)
                        IN  /\ to \notin visited
                            /\ visited' = visited \cup {to}
                            /\ paths' = Append(paths, nextPath)
                            /\ queue' = <<nextPath, current>> \o queue
                            /\ todo' = {}
                     /\ UNCHANGED <<edges, start, current>>

(* Mark, record and queue the one-edge extension of the current path. *)
Extend == /\ todo # {}
          /\ LET to == FirstOf(todo)
                 nextPath == Append(current, to)
             IN  /\ to \notin visited
                 /\ visited' = visited \cup {to}
                 /\ paths' = Append(paths, nextPath)
                 /\ queue' = Append(queue, nextPath)
                 /\ todo' = todo \ {to}
          /\ UNCHANGED <<edges, start, current>>

Next == Dequeue \/ SkipVisited \/ Extend

(* The search is one loop of one goroutine: it runs until it returns. *)
Spec == Init /\ [][Next]_vars /\ WF_vars(Next)

Done == todo = {} /\ queue = << >>

-----------------------------------------------------------------------------
(* Properties                                                               *)

Abstract == INSTANCE Reachability WITH found <- visited \ {start}

(* The type invariant of the search. *)
TypeOK == /\ edges \in SUBSET (Nodes \X Nodes)
          /\ start \in Nodes
          /\ queue \in Seq(Seq(Nodes))
          /\ current \in Seq(Nodes)
          /\ todo \in SUBSET Nodes
          /\ visited \in SUBSET Nodes
          /\ paths \in Seq(Seq(Nodes))

Ends == {Last(paths[i]) : i \in DOMAIN paths}

(* When ImpactPaths returns, the nodes it reports are exactly those that    *)
(* depend on the start: a consumer missing here would be classified         *)
(* UNAFFECTED, one too many would block a safe migration.                   *)
ReportsExactlyTheDependents ==
    Done => Ends = Reachable(Nodes, start, edges) \ {start}

(* What is reported is evidence a reader can check, cycles or not: every    *)
(* path begins at the start, follows edges of the graph and visits no node  *)
(* twice, and no node is reported by two paths.                             *)
PathsAreEvidence ==
    /\ \A i \in DOMAIN paths :
          /\ paths[i][1] = start
          /\ \A k \in 1 .. Len(paths[i]) - 1 : <<paths[i][k], paths[i][k+1]>> \in edges
          /\ IsInjective(paths[i])
    /\ \A i, j \in DOMAIN paths : Last(paths[i]) = Last(paths[j]) => i = j

(* The nodes within k edges of the start. *)
Ball[k \in Nat] ==
    IF k = 0 THEN {start}
    ELSE Ball[k-1] \cup {m \in Nodes : \E n \in Ball[k-1] : <<n, m>> \in edges}

(* "It records the shortest path to every reachable node": no walk with     *)
(* fewer edges reaches the end of a recorded path.  The filter on           *)
(* non-transitive analyses, len(path.Edges) > 1, relies on it: a direct     *)
(* dependent reached first by a detour would be dropped.                    *)
ShortestPaths ==
    \A i \in DOMAIN paths : Last(paths[i]) \notin Ball[Len(paths[i]) - 2]

(* The search implements the abstract discovery, fairness included, and     *)
(* "terminates safely on cycles"; the safety part alone is what             *)
(* ImpactPathsProofs proves.                                                *)
ImplementsReachability == Abstract!Spec /\ <>Done
DiscoversOneByOne == Abstract!Init /\ [][Abstract!Next]_(Abstract!vars)
=============================================================================
