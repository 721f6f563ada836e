------------------------------ MODULE GraphBuild ------------------------------
(***************************************************************************)
(* impact.BuildGraph (internal/impact/build.go) over graph.AddNode and     *)
(* graph.AddEdge (internal/graph/graph.go): the consumers, the references  *)
(* and the productions of a discovery become nodes and edges, one at a     *)
(* time, and the first inconsistency ends the construction.                *)
(*                                                                         *)
(* A node's identifier is its consumer's or its symbol; "consumer:" and    *)
(* "symbol:" keep the two apart.  The kind of an edge follows from its     *)
(* ends, so an edge is its pair of ends, as it is for edgeKey.             *)
(***************************************************************************)
EXTENDS Naturals, Sequences, SequencesExt

CONSTANTS Symbols, ConsumerIDs, ConsumerNames,
          Discoveries   \* the discoveries considered

ASSUME NodesAssumption == Symbols \cap ConsumerIDs = {}

Item == [consumer : ConsumerIDs, symbol : Symbols]
Discovery == [consumers : Seq([id : ConsumerIDs, name : ConsumerNames]),
              references : Seq(Item), productions : Seq(Item)]

ASSUME DiscoveriesAssumption == Discoveries \subseteq Discovery

VARIABLES discovery,  \* the argument
          phase,      \* "consumers", "references", "productions", "built" or "error"
          next,       \* index of the loop of that phase
          names,      \* graph.nodes: the name of every node, by identifier
          out, in,    \* graph.out and graph.in: adjacent nodes, in insertion order
          edges       \* graph.edges: the keys seen

graphVars == <<names, out, in, edges>>
vars == <<discovery, phase, next, graphVars>>

Nodes == Symbols \cup ConsumerIDs
EmptyGraph == /\ names = << >>
              /\ out = [n \in Nodes |-> << >>]
              /\ in = [n \in Nodes |-> << >>]
              /\ edges = {}

-----------------------------------------------------------------------------
Init == /\ discovery \in Discoveries
        /\ phase = "consumers"
        /\ next = 1
        /\ EmptyGraph

(* graph.nodes[id], and all other nodes, with id's name if it is new. *)
WithNode(id, name) == [n \in DOMAIN names \cup {id} |->
                         IF n \in DOMAIN names THEN names[n] ELSE name]

(* Mutant: a known identifier is accepted under any name. *)
Conflicts_never(id, name) == FALSE

(* AddNode accepts an identical existing node only. *)
Conflicts(id, name) == id \in DOMAIN names /\ names[id] # name

AddConsumer ==
    /\ phase = "consumers"
    /\ next <= Len(discovery.consumers)
    /\ LET c == discovery.consumers[next]
       IN  IF Conflicts(c.id, c.name)
             THEN phase' = "error" /\ UNCHANGED <<next, names>>
             ELSE /\ names' = WithNode(c.id, c.name)
                  /\ next' = next + 1
                  /\ UNCHANGED phase
    /\ UNCHANGED <<discovery, out, in, edges>>

(* Mutants: the edge in place of its end; only the forward list is kept. *)
AddEdge_pair(from, to) ==
    /\ edges' = edges \cup {<<from, to>>}
    /\ out' = [out EXCEPT ![from] = Append(@, <<from, to>>)]
    /\ UNCHANGED in
AddEdge_oneWay(from, to) ==
    /\ edges' = edges \cup {<<from, to>>}
    /\ out' = IF <<from, to>> \in edges THEN out ELSE [out EXCEPT ![from] = Append(@, to)]
    /\ UNCHANGED in

(* Both ends are nodes when BuildGraph calls it. *)
AddEdge(from, to) ==
    IF <<from, to>> \in edges
      THEN UNCHANGED <<edges, out, in>>
      ELSE /\ edges' = edges \cup {<<from, to>>}
           /\ out' = [out EXCEPT ![from] = Append(@, to)]
           /\ in' = [in EXCEPT ![to] = Append(@, from)]

(* One round of the loop over references or over productions: the symbol    *)
(* becomes a node even when the consumer turns out to be unknown.           *)
AddItem(item, from, to) ==
    /\ names' = WithNode(item.symbol, item.symbol)
    /\ IF item.consumer \in DOMAIN names
         THEN AddEdge(from, to) /\ next' = next + 1 /\ UNCHANGED phase
         ELSE phase' = "error" /\ UNCHANGED <<next, out, in, edges>>
    /\ UNCHANGED discovery

AddReference ==
    /\ phase = "references"
    /\ next <= Len(discovery.references)
    /\ LET r == discovery.references[next] IN AddItem(r, r.symbol, r.consumer)

AddProduction ==
    /\ phase = "productions"
    /\ next <= Len(discovery.productions)
    /\ LET p == discovery.productions[next] IN AddItem(p, p.consumer, p.symbol)

NextLoop == /\ \/ /\ phase = "consumers"
                  /\ next > Len(discovery.consumers)
                  /\ phase' = "references"
               \/ /\ phase = "references"
                  /\ next > Len(discovery.references)
                  /\ phase' = "productions"
               \/ /\ phase = "productions"
                  /\ next > Len(discovery.productions)
                  /\ phase' = "built"
            /\ next' = 1
            /\ UNCHANGED <<discovery, graphVars>>

Next == AddConsumer \/ AddReference \/ AddProduction \/ NextLoop

Spec == Init /\ [][Next]_vars

-----------------------------------------------------------------------------
(* Properties                                                               *)

TypeOK == /\ discovery \in Discoveries
          /\ phase \in {"consumers", "references", "productions", "built", "error"}
          /\ next \in Nat
          /\ DOMAIN names \subseteq Nodes
          /\ out \in [Nodes -> Seq(Nodes)]
          /\ in \in [Nodes -> Seq(Nodes)]
          /\ edges \subseteq Nodes \X Nodes

Rows(s) == {s[i] : i \in DOMAIN s}
Evidence == {<<r.symbol, r.consumer>> : r \in Rows(discovery.references)}
              \cup {<<p.consumer, p.symbol>> : p \in Rows(discovery.productions)}

(* The three indexes of the edges agree at every step, each edge once, and  *)
(* no edge hangs in the air; so that Dependents, Dependencies and           *)
(* ImpactPaths tell one story.                                              *)
AdjacencyIsConsistent ==
    /\ \A m, n \in Nodes : /\ <<m, n>> \in edges <=> n \in Rows(out[m])
                           /\ <<m, n>> \in edges <=> m \in Rows(in[n])
    /\ \A n \in Nodes : IsInjective(out[n]) /\ IsInjective(in[n])
    /\ \A e \in edges : e[1] \in DOMAIN names /\ e[2] \in DOMAIN names

(* A built graph is the evidence and nothing else, in each of its indexes:  *)
(* the set of edges that the classification reasons with (Edges in          *)
(* Readiness), whatever the order in which the adapters delivered it and    *)
(* however often.                                                           *)
BuiltGraphIsTheEvidence ==
    /\ AdjacencyIsConsistent
    /\ phase = "built" =>
          /\ edges = Evidence
          /\ DOMAIN names = {c.id : c \in Rows(discovery.consumers)}
                             \cup {r.symbol : r \in Rows(discovery.references)}
                             \cup {p.symbol : p \in Rows(discovery.productions)}

(* A discovery is refused exactly when it contradicts itself: two consumers *)
(* of one identifier and different names, or evidence of a consumer nobody  *)
(* discovered.  Order does not matter, and a mere repetition passes (it is  *)
(* Evaluate that rejects it).                                               *)
RefusesExactlyContradictions ==
    LET consumers == Rows(discovery.consumers)
        contradicts == \/ \E c, d \in consumers : c.id = d.id /\ c.name # d.name
                       \/ \E r \in Rows(discovery.references) \cup Rows(discovery.productions) :
                             \A c \in consumers : c.id # r.consumer
    IN  /\ phase = "built" => ~ contradicts
        /\ phase = "error" => contradicts
=============================================================================
