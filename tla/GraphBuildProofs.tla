--------------------------- MODULE GraphBuildProofs ---------------------------
(***************************************************************************)
(* Proofs about the construction of a graph from a discovery, for          *)
(* discoveries of any length over any sets of symbols and consumers.       *)
(***************************************************************************)
EXTENDS GraphBuild, SequenceTheorems, TLAPS

(* What has been read of a sequence by a loop that is about to read item k. *)
Read(s, k) == {s[i] : i \in 1 .. k - 1}

Consumers == Rows(discovery.consumers)
IDs(consumers) == {c.id : c \in consumers}
SymbolsOf(items) == {r.symbol : r \in items}

(* The graph is what the consumers C, the references R and the productions  *)
(* P make of it.                                                            *)
IsMadeOf(C, R, P) ==
    /\ DOMAIN names = IDs(C) \cup SymbolsOf(R) \cup SymbolsOf(P)
    /\ edges = {<<r.symbol, r.consumer>> : r \in R} \cup {<<p.consumer, p.symbol>> : p \in P}
    /\ \A c \in C : names[c.id] = c.name
    /\ \A r \in R \cup P : r.consumer \in IDs(Consumers)

Contradicts ==
    \/ \E c, d \in Consumers : c.id = d.id /\ c.name # d.name
    \/ \E r \in Rows(discovery.references) \cup Rows(discovery.productions) :
          \A c \in Consumers : c.id # r.consumer

(* At each step the graph is made of what the loops have read.              *)
Reading ==
    /\ phase = "consumers" =>
          /\ next \in 1 .. Len(discovery.consumers) + 1
          /\ IsMadeOf(Read(discovery.consumers, next), {}, {})
    /\ phase = "references" =>
          /\ next \in 1 .. Len(discovery.references) + 1
          /\ IsMadeOf(Consumers, Read(discovery.references, next), {})
    /\ phase = "productions" =>
          /\ next \in 1 .. Len(discovery.productions) + 1
          /\ IsMadeOf(Consumers, Rows(discovery.references), Read(discovery.productions, next))
    /\ phase = "built" =>
          IsMadeOf(Consumers, Rows(discovery.references), Rows(discovery.productions))
    /\ phase = "error" => Contradicts

IInv == TypeOK /\ AdjacencyIsConsistent /\ Reading

-----------------------------------------------------------------------------
(* One more item has been read, or all of them.                             *)
LEMMA ReadOneMore ==
    ASSUME NEW S, NEW s \in Seq(S), NEW k \in 1 .. Len(s)
    PROVE  /\ Read(s, k + 1) = Read(s, k) \cup {s[k]}
           /\ s[k] \in S /\ s[k] \in Rows(s)
           /\ Read(s, k) \subseteq Rows(s)
  BY DEF Read, Rows

LEMMA ReadAll ==
    ASSUME NEW S, NEW s \in Seq(S)
    PROVE  /\ Read(s, Len(s) + 1) = Rows(s)
           /\ Read(s, 1) = {}
           /\ Len(s) \in Nat
           /\ Rows(s) \subseteq S
  BY DEF Read, Rows

(* An appended item is a row, and the only new one.                         *)
LEMMA AppendedRow ==
    ASSUME NEW S, NEW s \in Seq(S), NEW e \in S
    PROVE  /\ Append(s, e) \in Seq(S)
           /\ Rows(Append(s, e)) = Rows(s) \cup {e}
           /\ IsInjective(s) /\ e \notin Rows(s) => IsInjective(Append(s, e))
<1>1. /\ Append(s, e) \in Seq(S)
      /\ DOMAIN Append(s, e) = DOMAIN s \cup {Len(s) + 1}
      /\ \A i \in DOMAIN s : Append(s, e)[i] = s[i]
      /\ Append(s, e)[Len(s) + 1] = e
  BY AppendProperties
<1>2. Rows(Append(s, e)) = Rows(s) \cup {e}
  BY <1>1 DEF Rows
<1>3. IsInjective(s) /\ e \notin Rows(s) => IsInjective(Append(s, e))
  BY <1>1 DEF Rows, IsInjective
<1> QED
  BY <1>1, <1>2, <1>3

(* What AddEdge does to the adjacent nodes of one direction.                *)
LEMMA AppendedNeighbour ==
    ASSUME NEW f \in [Nodes -> Seq(Nodes)], NEW from \in Nodes, NEW to \in Nodes
    PROVE  /\ [f EXCEPT ![from] = Append(@, to)] \in [Nodes -> Seq(Nodes)]
           /\ Rows([f EXCEPT ![from] = Append(@, to)][from]) = Rows(f[from]) \cup {to}
           /\ \A n \in Nodes \ {from} : [f EXCEPT ![from] = Append(@, to)][n] = f[n]
           /\ IsInjective(f[from]) /\ to \notin Rows(f[from])
                 => IsInjective([f EXCEPT ![from] = Append(@, to)][from])
<1>1. f[from] \in Seq(Nodes)
  OBVIOUS
<1>2. /\ Append(f[from], to) \in Seq(Nodes)
      /\ Rows(Append(f[from], to)) = Rows(f[from]) \cup {to}
      /\ IsInjective(f[from]) /\ to \notin Rows(f[from]) => IsInjective(Append(f[from], to))
  BY <1>1, AppendedRow
<1>3. [f EXCEPT ![from] = Append(@, to)][from] = Append(f[from], to)
  OBVIOUS
<1>4. \A n \in Nodes \ {from} : [f EXCEPT ![from] = Append(@, to)][n] = f[n]
  OBVIOUS
<1>5. [f EXCEPT ![from] = Append(@, to)] \in [Nodes -> Seq(Nodes)]
  BY <1>2
<1> QED
  BY <1>2, <1>3, <1>4, <1>5

(* An edge between two nodes keeps the three indexes in agreement.          *)
LEMMA EdgeKeepsIndexes ==
    ASSUME TypeOK, AdjacencyIsConsistent, NEW from \in Nodes, NEW to \in Nodes,
           AddEdge(from, to), DOMAIN names \subseteq DOMAIN names',
           from \in DOMAIN names', to \in DOMAIN names'
    PROVE  /\ AdjacencyIsConsistent'
           /\ edges' = edges \cup {<<from, to>>}
           /\ out' \in [Nodes -> Seq(Nodes)]
           /\ in' \in [Nodes -> Seq(Nodes)]
<1>1. CASE <<from, to>> \in edges
  <2>1. edges' = edges /\ out' = out /\ in' = in
    BY <1>1 DEF AddEdge
  <2> QED
    BY <1>1, <2>1 DEF AdjacencyIsConsistent, TypeOK
<1>2. CASE <<from, to>> \notin edges
  <2>1. /\ edges' = edges \cup {<<from, to>>}
        /\ out' = [out EXCEPT ![from] = Append(@, to)]
        /\ in' = [in EXCEPT ![to] = Append(@, from)]
    BY <1>2 DEF AddEdge
  <2>2. out \in [Nodes -> Seq(Nodes)] /\ in \in [Nodes -> Seq(Nodes)] /\ edges \subseteq Nodes \X Nodes
    BY DEF TypeOK
  <2>3. /\ out' \in [Nodes -> Seq(Nodes)]
        /\ Rows(out'[from]) = Rows(out[from]) \cup {to}
        /\ \A n \in Nodes \ {from} : out'[n] = out[n]
        /\ IsInjective(out[from]) /\ to \notin Rows(out[from]) => IsInjective(out'[from])
    <3>1. /\ [out EXCEPT ![from] = Append(@, to)] \in [Nodes -> Seq(Nodes)]
          /\ Rows([out EXCEPT ![from] = Append(@, to)][from]) = Rows(out[from]) \cup {to}
          /\ \A n \in Nodes \ {from} : [out EXCEPT ![from] = Append(@, to)][n] = out[n]
          /\ IsInjective(out[from]) /\ to \notin Rows(out[from])
                => IsInjective([out EXCEPT ![from] = Append(@, to)][from])
      BY <2>2, AppendedNeighbour
    <3> QED
      BY <3>1, <2>1
  <2>4. /\ in' \in [Nodes -> Seq(Nodes)]
        /\ Rows(in'[to]) = Rows(in[to]) \cup {from}
        /\ \A n \in Nodes \ {to} : in'[n] = in[n]
        /\ IsInjective(in[to]) /\ from \notin Rows(in[to]) => IsInjective(in'[to])
    <3>1. /\ [in EXCEPT ![to] = Append(@, from)] \in [Nodes -> Seq(Nodes)]
          /\ Rows([in EXCEPT ![to] = Append(@, from)][to]) = Rows(in[to]) \cup {from}
          /\ \A n \in Nodes \ {to} : [in EXCEPT ![to] = Append(@, from)][n] = in[n]
          /\ IsInjective(in[to]) /\ from \notin Rows(in[to])
                => IsInjective([in EXCEPT ![to] = Append(@, from)][to])
      BY <2>2, AppendedNeighbour
    <3> QED
      BY <3>1, <2>1
  <2>5. to \notin Rows(out[from]) /\ from \notin Rows(in[to])
    BY <1>2 DEF AdjacencyIsConsistent
  <2>6. \A n \in Nodes : IsInjective(out'[n]) /\ IsInjective(in'[n])
    BY <2>3, <2>4, <2>5 DEF AdjacencyIsConsistent
  <2>7. ASSUME NEW m \in Nodes, NEW n \in Nodes
        PROVE  /\ <<m, n>> \in edges' <=> n \in Rows(out'[m])
               /\ <<m, n>> \in edges' <=> m \in Rows(in'[n])
    <3>1. <<m, n>> \in edges' <=> <<m, n>> \in edges \/ (m = from /\ n = to)
      BY <2>1
    <3>2. n \in Rows(out'[m]) <=> n \in Rows(out[m]) \/ (m = from /\ n = to)
      BY <2>3
    <3>3. m \in Rows(in'[n]) <=> m \in Rows(in[n]) \/ (m = from /\ n = to)
      BY <2>4
    <3> QED
      BY <3>1, <3>2, <3>3 DEF AdjacencyIsConsistent
  <2>8. \A e \in edges' : e[1] \in DOMAIN names' /\ e[2] \in DOMAIN names'
    BY <2>1 DEF AdjacencyIsConsistent
  <2> QED
    BY <2>1, <2>3, <2>4, <2>6, <2>7, <2>8 DEF AdjacencyIsConsistent
<1> QED
  BY <1>1, <1>2

(* Without new edges, more nodes do no harm.                                *)
LEMMA NodesKeepIndexes ==
    ASSUME AdjacencyIsConsistent, UNCHANGED <<edges, out, in>>, DOMAIN names \subseteq DOMAIN names'
    PROVE  AdjacencyIsConsistent'
  BY DEF AdjacencyIsConsistent

(* The loops read consumers and items of the right types.                   *)
LEMMA DiscoveryTypes ==
    ASSUME TypeOK
    PROVE  /\ discovery \in Discovery
           /\ discovery.consumers \in Seq([id : ConsumerIDs, name : ConsumerNames])
           /\ discovery.references \in Seq(Item)
           /\ discovery.productions \in Seq(Item)
  BY DiscoveriesAssumption DEF TypeOK, Discovery

(* AddNode adds one node and keeps the names of the others.                 *)
LEMMA NodeAdded ==
    ASSUME NEW id, NEW name, names' = WithNode(id, name)
    PROVE  /\ DOMAIN names' = DOMAIN names \cup {id}
           /\ \A n \in DOMAIN names : names'[n] = names[n]
           /\ id \notin DOMAIN names => names'[id] = name
  BY DEF WithNode

-----------------------------------------------------------------------------
LEMMA InitEstablishes == Init => IInv
<1> SUFFICES ASSUME Init PROVE IInv
  OBVIOUS
<1>1. TypeOK
  BY DEF Init, EmptyGraph, TypeOK
<1>2. AdjacencyIsConsistent
  BY DEF Init, EmptyGraph, AdjacencyIsConsistent, Rows, IsInjective
<1>3. Reading
  <2>1. Read(discovery.consumers, 1) = {} /\ Len(discovery.consumers) \in Nat
    BY <1>1, DiscoveryTypes, ReadAll
  <2> QED
    BY <2>1 DEF Init, EmptyGraph, Reading, IsMadeOf, IDs, SymbolsOf
<1> QED
  BY <1>1, <1>2, <1>3 DEF IInv

(* A consumer that does not conflict becomes one more node.                 *)
LEMMA ConsumerStep == IInv /\ AddConsumer => IInv'
<1> SUFFICES ASSUME IInv, AddConsumer PROVE IInv'
  OBVIOUS
<1> DEFINE c == discovery.consumers[next]
<1>1. TypeOK /\ AdjacencyIsConsistent /\ Reading
  BY DEF IInv
<1>2. /\ phase = "consumers" /\ next <= Len(discovery.consumers)
      /\ discovery' = discovery /\ out' = out /\ in' = in /\ edges' = edges
  BY DEF AddConsumer
<1>3. /\ next \in 1 .. Len(discovery.consumers) + 1
      /\ IsMadeOf(Read(discovery.consumers, next), {}, {})
  BY <1>1, <1>2 DEF Reading
<1>4. /\ discovery.consumers \in Seq([id : ConsumerIDs, name : ConsumerNames])
      /\ Len(discovery.consumers) \in Nat
  BY <1>1, DiscoveryTypes, ReadAll
<1>5. next \in 1 .. Len(discovery.consumers)
  BY <1>2, <1>3, <1>4
<1>6. /\ Read(discovery.consumers, next + 1) = Read(discovery.consumers, next) \cup {c}
      /\ c \in [id : ConsumerIDs, name : ConsumerNames] /\ c \in Consumers
      /\ Read(discovery.consumers, next) \subseteq Consumers
  BY <1>4, <1>5, ReadOneMore DEF Consumers, Read
<1> HIDE DEF c
<1>7. ASSUME Conflicts(c.id, c.name) PROVE IInv'
  <2>1. phase' = "error" /\ next' = next /\ names' = names
    BY <1>7 DEF AddConsumer, c
  <2>2. Contradicts'
    <3>1. c.id \in IDs(Read(discovery.consumers, next)) /\ names[c.id] # c.name
      BY <1>3, <1>7 DEF Conflicts, IsMadeOf, SymbolsOf
    <3>2. PICK d \in Read(discovery.consumers, next) : d.id = c.id
      BY <3>1 DEF IDs
    <3>3. names[d.id] = d.name
      BY <3>2, <1>3 DEF IsMadeOf
    <3>4. d \in Consumers /\ c \in Consumers /\ c.id = d.id /\ c.name # d.name
      BY <3>1, <3>2, <3>3, <1>6
    <3> QED
      BY <3>4, <1>2 DEF Contradicts, Consumers
  <2>3. TypeOK'
    BY <1>1, <1>2, <2>1 DEF TypeOK
  <2>4. AdjacencyIsConsistent'
    BY <1>1, <1>2, <2>1, NodesKeepIndexes
  <2> QED
    BY <2>1, <2>2, <2>3, <2>4 DEF IInv, Reading
<1>8. ASSUME ~ Conflicts(c.id, c.name) PROVE IInv'
  <2>1. names' = WithNode(c.id, c.name) /\ next' = next + 1 /\ phase' = phase
    BY <1>8 DEF AddConsumer, c
  <2>2. /\ DOMAIN names' = DOMAIN names \cup {c.id}
        /\ \A n \in DOMAIN names : names'[n] = names[n]
        /\ c.id \notin DOMAIN names => names'[c.id] = c.name
    BY <2>1, NodeAdded
  <2>3. TypeOK'
    BY <1>1, <1>2, <1>6, <2>1, <2>2 DEF TypeOK, Nodes
  <2>4. AdjacencyIsConsistent'
    BY <1>1, <1>2, <2>2, NodesKeepIndexes
  <2>5. IsMadeOf(Read(discovery.consumers, next), {}, {})'
    <3>1. DOMAIN names' = IDs(Read(discovery.consumers, next)) \cup {c.id}
      BY <1>3, <2>2 DEF IsMadeOf, SymbolsOf
    <3>2. names'[c.id] = c.name
      BY <1>8, <2>2 DEF Conflicts
    <3>3. \A d \in Read(discovery.consumers, next) : names'[d.id] = d.name
      BY <1>3, <2>2 DEF IsMadeOf, IDs
    <3>4. edges = {}
      BY <1>3 DEF IsMadeOf
    <3>5. Read(discovery.consumers, next)' = Read(discovery.consumers, next) \cup {c}
      BY <1>2, <2>1, <1>6
    <3>6. DOMAIN names' = IDs(Read(discovery.consumers, next)')
      BY <3>1, <3>5 DEF IDs
    <3>7. \A d \in Read(discovery.consumers, next)' : names'[d.id] = d.name
      BY <3>2, <3>3, <3>5
    <3> QED
      BY <3>4, <3>6, <3>7, <1>2 DEF IsMadeOf, SymbolsOf, IDs
  <2> QED
    BY <1>2, <1>4, <1>5, <2>1, <2>3, <2>4, <2>5 DEF IInv, Reading
<1> QED
  BY <1>7, <1>8

(* One round of the loops over references and productions, when the graph   *)
(* is made of the items R and P so far: an edge of a known consumer, or the *)
(* refusal of an item whose consumer nobody discovered.                     *)
LEMMA ItemStep ==
    ASSUME TypeOK, AdjacencyIsConsistent,
           NEW R \in SUBSET Item, NEW P \in SUBSET Item, IsMadeOf(Consumers, R, P),
           NEW item \in Item, NEW from \in Nodes, NEW to \in Nodes,
           {from, to} = {item.symbol, item.consumer},
           item \in Rows(discovery.references) \cup Rows(discovery.productions),
           AddItem(item, from, to),
           phase \in {"references", "productions"}
    PROVE  /\ TypeOK' /\ AdjacencyIsConsistent'
           /\ discovery' = discovery
           /\ \/ phase' = "error" /\ Contradicts'
              \/ /\ phase' = phase /\ next' = next + 1
                 /\ item.consumer \in IDs(Consumers)
                 /\ DOMAIN names' = DOMAIN names \cup {item.symbol}
                 /\ edges' = edges \cup {<<from, to>>}
                 /\ \A c \in Consumers : names'[c.id] = c.name
<1>1. /\ discovery' = discovery
      /\ names' = WithNode(item.symbol, item.symbol)
  BY DEF AddItem
<1>2. /\ DOMAIN names' = DOMAIN names \cup {item.symbol}
      /\ \A n \in DOMAIN names : names'[n] = names[n]
  BY <1>1, NodeAdded
<1>3. item.symbol \in Symbols /\ item.consumer \in ConsumerIDs
  BY DEF Item
<1>4. CASE item.consumer \in DOMAIN names
  <2>1. AddEdge(from, to) /\ next' = next + 1 /\ phase' = phase
    BY <1>4 DEF AddItem
  <2>2. /\ DOMAIN names \subseteq DOMAIN names'
        /\ from \in DOMAIN names' /\ to \in DOMAIN names'
    BY <1>2, <1>4
  <2>3. /\ AdjacencyIsConsistent'
        /\ edges' = edges \cup {<<from, to>>}
        /\ out' \in [Nodes -> Seq(Nodes)]
        /\ in' \in [Nodes -> Seq(Nodes)]
    BY <2>1, <2>2, EdgeKeepsIndexes
  <2>4. TypeOK'
    <3>1. item.symbol \in Nodes
      BY <1>3 DEF Nodes
    <3>2. edges' \subseteq Nodes \X Nodes
      BY <2>3 DEF TypeOK
    <3>3. /\ discovery \in Discoveries /\ phase' = phase
          /\ phase \in {"consumers", "references", "productions", "built", "error"}
      BY <2>1 DEF TypeOK
    <3>4. next' \in Nat
      BY <2>1 DEF TypeOK
    <3>5. DOMAIN names' \subseteq Nodes
      BY <1>2, <3>1 DEF TypeOK
    <3> QED
      BY <1>1, <2>3, <3>2, <3>3, <3>4, <3>5 DEF TypeOK
  <2>5. item.consumer \in IDs(Consumers)
    <3>1. item.consumer \notin SymbolsOf(R) \cup SymbolsOf(P)
      BY <1>3, NodesAssumption DEF SymbolsOf, Item
    <3> QED
      BY <3>1, <1>4 DEF IsMadeOf
  <2>6. \A c \in Consumers : names'[c.id] = c.name
    BY <1>2 DEF IsMadeOf, IDs
  <2> QED
    BY <1>1, <1>2, <2>1, <2>3, <2>4, <2>5, <2>6
<1>5. CASE item.consumer \notin DOMAIN names
  <2>1. phase' = "error" /\ next' = next /\ out' = out /\ in' = in /\ edges' = edges
    BY <1>5 DEF AddItem
  <2>2. TypeOK'
    BY <1>1, <1>2, <1>3, <2>1 DEF TypeOK, Nodes
  <2>3. AdjacencyIsConsistent'
    BY <1>2, <2>1, NodesKeepIndexes
  <2>4. \A c \in Consumers : c.id # item.consumer
    BY <1>5 DEF IsMadeOf, IDs
  <2>5. Contradicts'
    BY <1>1, <2>4 DEF Contradicts, Consumers
  <2> QED
    BY <1>1, <2>1, <2>2, <2>3, <2>5
<1> QED
  BY <1>4, <1>5

LEMMA ReferenceStep == IInv /\ AddReference => IInv'
<1> SUFFICES ASSUME IInv, AddReference PROVE IInv'
  OBVIOUS
<1> DEFINE r == discovery.references[next]
           R == Read(discovery.references, next)
<1>1. TypeOK /\ AdjacencyIsConsistent /\ Reading
  BY DEF IInv
<1>2. /\ phase = "references" /\ next <= Len(discovery.references)
      /\ AddItem(r, r.symbol, r.consumer)
  BY DEF AddReference
<1>3. next \in 1 .. Len(discovery.references) + 1 /\ IsMadeOf(Consumers, R, {})
  BY <1>1, <1>2 DEF Reading
<1>4. discovery.references \in Seq(Item) /\ Len(discovery.references) \in Nat
  BY <1>1, DiscoveryTypes, ReadAll
<1>5. next \in 1 .. Len(discovery.references)
  BY <1>2, <1>3, <1>4
<1>6. /\ Read(discovery.references, next + 1) = R \cup {r}
      /\ r \in Item /\ r \in Rows(discovery.references)
      /\ R \subseteq Item
  BY <1>4, <1>5, ReadOneMore DEF Read
<1> HIDE DEF r, R
<1>7. r.symbol \in Nodes /\ r.consumer \in Nodes
  BY <1>6 DEF Item, Nodes
<1>8. /\ TypeOK' /\ AdjacencyIsConsistent'
      /\ discovery' = discovery
      /\ \/ phase' = "error" /\ Contradicts'
         \/ /\ phase' = phase /\ next' = next + 1
            /\ r.consumer \in IDs(Consumers)
            /\ DOMAIN names' = DOMAIN names \cup {r.symbol}
            /\ edges' = edges \cup {<<r.symbol, r.consumer>>}
            /\ \A c \in Consumers : names'[c.id] = c.name
  BY <1>1, <1>2, <1>3, <1>6, <1>7, ItemStep
<1>9. CASE phase' = "error" /\ Contradicts'
  BY <1>8, <1>9 DEF IInv, Reading
<1>10. CASE phase' # "error"
  <2>1. Read(discovery.references, next)' = R \cup {r} /\ Consumers' = Consumers
    BY <1>2, <1>6, <1>8, <1>10 DEF Consumers
  <2>2. DOMAIN names' = IDs(Consumers) \cup SymbolsOf(R \cup {r}) \cup SymbolsOf({})
    BY <1>2, <1>3, <1>8, <1>10 DEF IsMadeOf, SymbolsOf
  <2>3. edges' = {<<q.symbol, q.consumer>> : q \in R \cup {r}} \cup {<<q.consumer, q.symbol>> : q \in {}}
    BY <1>2, <1>3, <1>8, <1>10 DEF IsMadeOf
  <2>4. \A q \in (R \cup {r}) \cup {} : q.consumer \in IDs(Consumers)
    BY <1>2, <1>3, <1>8, <1>10 DEF IsMadeOf
  <2>5. IsMadeOf(Consumers, Read(discovery.references, next), {})'
    BY <1>8, <1>10, <2>1, <2>2, <2>3, <2>4 DEF IsMadeOf, SymbolsOf, IDs
  <2> QED
    BY <1>2, <1>4, <1>5, <1>8, <1>10, <2>5 DEF IInv, Reading
<1> QED
  BY <1>8, <1>9, <1>10, <1>2

LEMMA ProductionStep == IInv /\ AddProduction => IInv'
<1> SUFFICES ASSUME IInv, AddProduction PROVE IInv'
  OBVIOUS
<1> DEFINE p == discovery.productions[next]
           P == Read(discovery.productions, next)
           R == Rows(discovery.references)
<1>1. TypeOK /\ AdjacencyIsConsistent /\ Reading
  BY DEF IInv
<1>2. /\ phase = "productions" /\ next <= Len(discovery.productions)
      /\ AddItem(p, p.consumer, p.symbol)
  BY DEF AddProduction
<1>3. next \in 1 .. Len(discovery.productions) + 1 /\ IsMadeOf(Consumers, R, P)
  BY <1>1, <1>2 DEF Reading
<1>4. /\ discovery.productions \in Seq(Item) /\ Len(discovery.productions) \in Nat
      /\ R \subseteq Item
  BY <1>1, DiscoveryTypes, ReadAll
<1>5. next \in 1 .. Len(discovery.productions)
  BY <1>2, <1>3, <1>4
<1>6. /\ Read(discovery.productions, next + 1) = P \cup {p}
      /\ p \in Item /\ p \in Rows(discovery.productions)
      /\ P \subseteq Item
  BY <1>4, <1>5, ReadOneMore DEF Read
<1>7. p \in Rows(discovery.references) \cup Rows(discovery.productions)
  BY <1>6
<1> HIDE DEF p, P, R
<1>8. p.symbol \in Nodes /\ p.consumer \in Nodes
  BY <1>6 DEF Item, Nodes
<1>9. /\ TypeOK' /\ AdjacencyIsConsistent'
       /\ discovery' = discovery
       /\ \/ phase' = "error" /\ Contradicts'
          \/ /\ phase' = phase /\ next' = next + 1
             /\ p.consumer \in IDs(Consumers)
             /\ DOMAIN names' = DOMAIN names \cup {p.symbol}
             /\ edges' = edges \cup {<<p.consumer, p.symbol>>}
             /\ \A c \in Consumers : names'[c.id] = c.name
  BY <1>1, <1>2, <1>3, <1>4, <1>6, <1>7, <1>8, ItemStep
<1>10. CASE phase' = "error" /\ Contradicts'
  BY <1>9, <1>10 DEF IInv, Reading
<1>11. CASE phase' # "error"
  <2>1. /\ Read(discovery.productions, next)' = P \cup {p}
        /\ Consumers' = Consumers /\ Rows(discovery.references)' = R
    BY <1>2, <1>6, <1>9, <1>11 DEF Consumers, R
  <2>2. DOMAIN names' = IDs(Consumers) \cup SymbolsOf(R) \cup SymbolsOf(P \cup {p})
    BY <1>2, <1>3, <1>9, <1>11 DEF IsMadeOf, SymbolsOf
  <2>3. edges' = {<<q.symbol, q.consumer>> : q \in R} \cup {<<q.consumer, q.symbol>> : q \in P \cup {p}}
    BY <1>2, <1>3, <1>9, <1>11 DEF IsMadeOf
  <2>4. \A q \in R \cup (P \cup {p}) : q.consumer \in IDs(Consumers)
    BY <1>2, <1>3, <1>9, <1>11 DEF IsMadeOf
  <2>5. IsMadeOf(Consumers, Rows(discovery.references), Read(discovery.productions, next))'
    BY <1>9, <1>11, <2>1, <2>2, <2>3, <2>4 DEF IsMadeOf, SymbolsOf, IDs
  <2> QED
    BY <1>2, <1>4, <1>5, <1>9, <1>11, <2>5 DEF IInv, Reading
<1> QED
  BY <1>9, <1>10, <1>11, <1>2

(* A loop that ends has read all its rows.                                  *)
LEMMA LoopEnds == IInv /\ NextLoop => IInv'
<1> SUFFICES ASSUME IInv, NextLoop PROVE IInv'
  OBVIOUS
<1>1. TypeOK /\ AdjacencyIsConsistent /\ Reading
  BY DEF IInv
<1>2. /\ next' = 1 /\ discovery' = discovery
      /\ names' = names /\ out' = out /\ in' = in /\ edges' = edges
  BY DEF NextLoop, graphVars
<1>3. AdjacencyIsConsistent'
  BY <1>1, <1>2, NodesKeepIndexes
<1>4. TypeOK'
  BY <1>1, <1>2 DEF TypeOK, NextLoop
<1>5. /\ Read(discovery.consumers, Len(discovery.consumers) + 1) = Consumers
      /\ Read(discovery.references, Len(discovery.references) + 1) = Rows(discovery.references)
      /\ Read(discovery.productions, Len(discovery.productions) + 1) = Rows(discovery.productions)
      /\ Read(discovery.references, 1) = {} /\ Read(discovery.productions, 1) = {}
      /\ Len(discovery.consumers) \in Nat
      /\ Len(discovery.references) \in Nat /\ Len(discovery.productions) \in Nat
  BY <1>1, DiscoveryTypes, ReadAll DEF Consumers
<1>6. ASSUME NEW C, NEW R, NEW P, IsMadeOf(C, R, P)
      PROVE  /\ DOMAIN names' = IDs(C) \cup SymbolsOf(R) \cup SymbolsOf(P)
             /\ edges' = {<<r.symbol, r.consumer>> : r \in R} \cup {<<p.consumer, p.symbol>> : p \in P}
             /\ \A c \in C : names'[c.id] = c.name
             /\ \A r \in R \cup P : r.consumer \in IDs(Consumers)'
  BY <1>2, <1>6 DEF IsMadeOf, Consumers
<1>7. CASE phase = "consumers"
  <2>1. phase' = "references" /\ next > Len(discovery.consumers)
    BY <1>7 DEF NextLoop
  <2>2. next = Len(discovery.consumers) + 1 /\ IsMadeOf(Read(discovery.consumers, next), {}, {})
    BY <1>1, <1>5, <1>7, <2>1 DEF Reading
  <2>3. IsMadeOf(Consumers, {}, {})
    BY <1>5, <2>2
  <2>4. IsMadeOf(Consumers, Read(discovery.references, next), {})'
    BY <1>2, <1>5, <1>6, <2>3 DEF IsMadeOf, Consumers
  <2> QED
    BY <1>2, <1>3, <1>4, <1>5, <2>1, <2>4 DEF IInv, Reading
<1>8. CASE phase = "references"
  <2>1. phase' = "productions" /\ next > Len(discovery.references)
    BY <1>8 DEF NextLoop
  <2>2. next = Len(discovery.references) + 1
        /\ IsMadeOf(Consumers, Read(discovery.references, next), {})
    BY <1>1, <1>5, <1>8, <2>1 DEF Reading
  <2>3. IsMadeOf(Consumers, Rows(discovery.references), {})
    BY <1>5, <2>2
  <2>4. IsMadeOf(Consumers, Rows(discovery.references), Read(discovery.productions, next))'
    BY <1>2, <1>5, <1>6, <2>3 DEF IsMadeOf, Consumers
  <2> QED
    BY <1>2, <1>3, <1>4, <1>5, <2>1, <2>4 DEF IInv, Reading
<1>9. CASE phase = "productions"
  <2>1. phase' = "built" /\ next > Len(discovery.productions)
    BY <1>9 DEF NextLoop
  <2>2. next = Len(discovery.productions) + 1
        /\ IsMadeOf(Consumers, Rows(discovery.references), Read(discovery.productions, next))
    BY <1>1, <1>5, <1>9, <2>1 DEF Reading
  <2>3. IsMadeOf(Consumers, Rows(discovery.references), Rows(discovery.productions))
    BY <1>5, <2>2
  <2>4. IsMadeOf(Consumers, Rows(discovery.references), Rows(discovery.productions))'
    BY <1>2, <1>6, <2>3 DEF IsMadeOf, Consumers
  <2> QED
    BY <1>3, <1>4, <2>1, <2>4 DEF IInv, Reading
<1> QED
  BY <1>7, <1>8, <1>9 DEF NextLoop

LEMMA Stutter == IInv /\ UNCHANGED vars => IInv'
  BY DEF IInv, TypeOK, AdjacencyIsConsistent, Reading, IsMadeOf, Contradicts, Consumers,
         vars, graphVars

-----------------------------------------------------------------------------
(* At every step of a construction the graph is what the rows read so far   *)
(* make of it, whatever the discovery.                                      *)
THEOREM GraphInvariant == Spec => []IInv
<1>1. IInv /\ [Next]_vars => IInv'
  BY ConsumerStep, ReferenceStep, ProductionStep, LoopEnds, Stutter DEF Next
<1> QED
  BY InitEstablishes, <1>1, PTL DEF Spec

(* The variables of a construction keep their types.                        *)
THEOREM TypeCorrect == Spec => []TypeOK
  BY GraphInvariant, PTL DEF IInv

(* A built graph is the evidence of its discovery in each of its indexes,   *)
(* and at no step do the indexes of BuildGraph's edges disagree.            *)
THEOREM GraphIsTheEvidence == Spec => []BuiltGraphIsTheEvidence
<1>1. IInv => BuiltGraphIsTheEvidence
  BY DEF IInv, Reading, IsMadeOf, BuiltGraphIsTheEvidence, Evidence, Consumers, IDs, SymbolsOf
<1> QED
  BY GraphInvariant, <1>1, PTL

(* BuildGraph refuses the discoveries that contradict themselves, and no    *)
(* other, in whatever order the adapters delivered the rows.                *)
THEOREM RefusalIsExact == Spec => []RefusesExactlyContradictions
<1>1. ASSUME IInv, phase = "built" PROVE ~ Contradicts
  <2>1. IsMadeOf(Consumers, Rows(discovery.references), Rows(discovery.productions))
    BY <1>1 DEF IInv, Reading
  <2> QED
    BY <2>1 DEF IsMadeOf, Contradicts, IDs
<1>2. IInv => RefusesExactlyContradictions
  BY <1>1 DEF IInv, Reading, RefusesExactlyContradictions, Contradicts, Consumers
<1> QED
  BY GraphInvariant, <1>2, PTL
=============================================================================
