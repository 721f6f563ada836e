-------------------------- MODULE ImpactPathsProofs --------------------------
(***************************************************************************)
(* Proofs about the breadth-first search of ImpactPaths, for every set of  *)
(* nodes and every graph over them.                                        *)
(***************************************************************************)
EXTENDS ImpactPaths, SequenceTheorems, WellFoundedInduction, TLAPS

Dependents == Reachable(Nodes, start, edges)

(* Every path in hand ends somewhere.                                       *)
NonEmptyPaths == /\ \A i \in DOMAIN queue : queue[i] # << >>
                 /\ current # << >>
                 /\ \A i \in DOMAIN paths : paths[i] # << >>

(* A visited node is waiting in the queue, or being expanded, or all its    *)
(* successors are visited.                                                  *)
Expanded == \A n \in visited :
               \/ \E i \in DOMAIN queue : Last(queue[i]) = n
               \/ \A m \in Successors(n) : m \in visited \/ (n = Last(current) /\ m \in todo)

(* The work in hand is about visited nodes and real edges.                  *)
Frontier == /\ \A i \in DOMAIN queue : Last(queue[i]) \in visited
            /\ todo # {} => Last(current) \in visited
            /\ todo \in SUBSET Successors(Last(current))

(* Nothing is visited that does not depend on the start.                    *)
Sound == visited \in SUBSET Dependents

(* The start is visited from the beginning, unless the graph has no such    *)
(* node, and then it has no edge.                                           *)
StartKnown == \/ start \in visited
              \/ visited = {} /\ \A e \in edges : e[1] # start

Recorded == Ends = visited \ {start}

IInv == TypeOK /\ NonEmptyPaths /\ Expanded /\ Frontier /\ Sound /\ StartKnown /\ Recorded

-----------------------------------------------------------------------------
(* What Append, Head and Tail do to the ends of the paths in a sequence.    *)
LEMMA SingletonSequence ==
    ASSUME NEW S, NEW e \in S
    PROVE  <<e>> \in Seq(S)
  OBVIOUS

LEMMA AppendedPath ==
    ASSUME NEW S, NEW s \in Seq(S), NEW e \in S
    PROVE  /\ Append(s, e) \in Seq(S)
           /\ Append(s, e) # << >>
           /\ Last(Append(s, e)) = e
  BY AppendProperties DEF Last

LEMMA AppendedItems ==
    ASSUME NEW S, NEW s \in Seq(S), NEW e \in S
    PROVE  /\ DOMAIN Append(s, e) = DOMAIN s \cup {Len(s) + 1}
           /\ \A i \in DOMAIN s : Append(s, e)[i] = s[i] /\ i # Len(s) + 1
           /\ Append(s, e)[Len(s) + 1] = e
           /\ DOMAIN s = 1 .. Len(s)
  BY AppendProperties

LEMMA HeadAndTail ==
    ASSUME NEW S, NEW s \in Seq(S), s # << >>
    PROVE  /\ Head(s) \in S
           /\ Tail(s) \in Seq(S)
           /\ \A i \in DOMAIN Tail(s) : i + 1 \in DOMAIN s /\ Tail(s)[i] = s[i+1]
           /\ 1 \in DOMAIN s /\ Head(s) = s[1]
           /\ \A i \in DOMAIN s : i = 1 \/ (i - 1 \in DOMAIN Tail(s) /\ Tail(s)[i-1] = s[i])
  OBVIOUS

LEMMA LastOfPath ==
    ASSUME NEW S, NEW s \in Seq(S), s # << >>
    PROVE  Last(s) \in S
  BY DEF Last

(* The dependents contain the start and are closed under the edges.         *)
LEMMA DependentsClosed ==
    ASSUME TypeOK
    PROVE  /\ start \in Dependents
           /\ \A n \in Dependents : Successors(n) \subseteq Dependents
           /\ Dependents \subseteq Nodes
  BY DEF TypeOK, Dependents, Reachable, Closed, Successors

(* A closed set that contains the start contains every dependent.           *)
LEMMA DependentsLeast ==
    ASSUME TypeOK, NEW S \in SUBSET Nodes, start \in S,
           \A e \in edges : e[1] \in S => e[2] \in S
    PROVE  Dependents \subseteq S
  BY DEF Dependents, Reachable, Closed

-----------------------------------------------------------------------------
LEMMA InitIInv == Init => IInv
<1> SUFFICES ASSUME Init PROVE IInv
  OBVIOUS
<1>1. TypeOK
  <2>1. edges \in SUBSET (Nodes \X Nodes)
    BY DEF Init, Nodes, EdgeReferences, EdgeProduces
  <2>2. start \in Nodes
    BY DEF Init, Nodes
  <2>3. <<start>> \in Seq(Nodes)
    BY <2>2
  <2>4. << <<start>> >> \in Seq(Seq(Nodes))
    BY <2>3, SingletonSequence
  <2>5. << >> \in Seq(Seq(Nodes))
    OBVIOUS
  <2>6. queue \in Seq(Seq(Nodes)) /\ paths \in Seq(Seq(Nodes))
    BY <2>4, <2>5 DEF Init
  <2> QED
    BY <2>1, <2>2, <2>3, <2>6 DEF Init, TypeOK
<1>2. NonEmptyPaths
  BY DEF Init, NonEmptyPaths
<1>3. Last(<<start>>) = start
  BY DEF Last
<1>4. Expanded
  BY <1>3 DEF Init, Expanded
<1>5. Frontier
  BY <1>3 DEF Init, Frontier
<1>6. Sound
  BY <1>1, DependentsClosed DEF Init, Sound
<1>7. StartKnown
  BY DEF Init, StartKnown, GraphNodes
<1>8. Recorded
  BY DEF Init, Recorded, Ends
<1> QED
  BY <1>1, <1>2, <1>4, <1>5, <1>6, <1>7, <1>8 DEF IInv

-----------------------------------------------------------------------------
LEMMA DequeueIInv == IInv /\ Dequeue => IInv'
<1> SUFFICES ASSUME IInv, Dequeue PROVE IInv'
  OBVIOUS
<1> DEFINE item == Head(queue)
<1>0. /\ TypeOK /\ NonEmptyPaths /\ Expanded /\ Frontier
      /\ Sound /\ StartKnown /\ Recorded
  BY DEF IInv
<1>a. queue \in Seq(Seq(Nodes)) /\ queue # << >>
  BY <1>0 DEF TypeOK, Dequeue
<1>1. /\ item \in Seq(Nodes)
      /\ Tail(queue) \in Seq(Seq(Nodes))
      /\ \A i \in DOMAIN Tail(queue) : i + 1 \in DOMAIN queue /\ Tail(queue)[i] = queue[i+1]
      /\ \A i \in DOMAIN queue :
            i = 1 \/ (i - 1 \in DOMAIN Tail(queue) /\ Tail(queue)[i-1] = queue[i])
      /\ 1 \in DOMAIN queue /\ item = queue[1]
  BY <1>a, HeadAndTail
<1>b. item # << >> /\ Last(item) \in visited
  BY <1>0, <1>1 DEF NonEmptyPaths, Frontier
<1>2. /\ current' = item /\ queue' = Tail(queue)
      /\ todo' = Successors(Last(item)) /\ todo = {}
      /\ UNCHANGED <<edges, start, visited, paths>>
  BY DEF Dequeue
<1>3. TypeOK'
  BY <1>0, <1>1, <1>2 DEF TypeOK, Successors
<1>4. NonEmptyPaths'
  BY <1>0, <1>1, <1>b, <1>2 DEF NonEmptyPaths
<1>5. Expanded'
  <2> SUFFICES ASSUME NEW n \in visited
               PROVE  \/ \E i \in DOMAIN queue' : Last(queue'[i]) = n
                      \/ \A m \in Successors(n) : m \in visited \/ (n = Last(current') /\ m \in todo')
    BY <1>2 DEF Expanded, Successors
  <2>1. CASE n = Last(item)
    BY <2>1, <1>2
  <2>2. CASE n # Last(item) /\ \E i \in DOMAIN queue : Last(queue[i]) = n
    BY <2>2, <1>1, <1>2
  <2>3. CASE \A m \in Successors(n) : m \in visited
    BY <2>3
  <2> QED
    BY <2>1, <2>2, <2>3, <1>0, <1>2 DEF Expanded
<1>6. Frontier'
  BY <1>0, <1>1, <1>b, <1>2 DEF Frontier, Successors
<1>7. Sound' /\ StartKnown' /\ Recorded'
  BY <1>0, <1>2 DEF Sound, Dependents, Reachable, Closed, StartKnown, Recorded, Ends
<1> QED
  BY <1>3, <1>4, <1>5, <1>6, <1>7 DEF IInv

(* The edge sorted first is one of the edges: ranks are natural numbers.    *)
Less == {ss \in Nat \X Nat : ss[1] < ss[2]}

LEMMA LessWellFounded == IsWellFoundedOn(Less, Nat)
  BY NatLessThanWellFounded DEF OpToRel, Less

LEMMA FirstOfMember ==
    ASSUME NEW S \in SUBSET Nodes, S # {}
    PROVE  FirstOf(S) \in S
<1> DEFINE T == {Rank[n] : n \in S}
<1>1. T \subseteq Nat /\ T # {}
  BY RankAssumption
<1> HIDE DEF T
<1>2. PICK k \in T : \A j \in T : <<j, k>> \notin Less
  BY <1>1, LessWellFounded, WFMin
<1>3. \A j \in T : k <= j
  <2> TAKE j \in T
  <2>1. j \in Nat /\ k \in Nat
    BY <1>1
  <2>2. ~ (j < k)
    BY <1>2, <2>1 DEF Less
  <2> QED
    BY <2>1, <2>2
<1>4. PICK n \in S : Rank[n] = k
  BY <1>2 DEF T
<1>5. \A m \in S : Rank[n] <= Rank[m]
  BY <1>3, <1>4 DEF T
<1> QED
  BY <1>5 DEF FirstOf

-----------------------------------------------------------------------------
LEMMA SkipVisitedIInv == IInv /\ SkipVisited => IInv'
<1> SUFFICES ASSUME IInv, SkipVisited PROVE IInv'
  OBVIOUS
<1>0. /\ TypeOK /\ NonEmptyPaths /\ Expanded /\ Frontier
      /\ Sound /\ StartKnown /\ Recorded
  BY DEF IInv
<1>1. PICK to \in visited : todo' = todo \ {to}
  BY DEF SkipVisited
<1>2. UNCHANGED <<edges, start, queue, current, visited, paths>>
  BY DEF SkipVisited
<1>3. TypeOK' /\ NonEmptyPaths'
  BY <1>0, <1>1, <1>2 DEF TypeOK, NonEmptyPaths
<1>4. Expanded'
  BY <1>0, <1>1, <1>2 DEF Expanded, Successors
<1>5. Frontier'
  BY <1>0, <1>1, <1>2 DEF Frontier, Successors
<1>6. Sound' /\ StartKnown' /\ Recorded'
  BY <1>0, <1>2 DEF Sound, Dependents, Reachable, Closed, StartKnown, Recorded, Ends
<1> QED
  BY <1>3, <1>4, <1>5, <1>6 DEF IInv

LEMMA ExtendIInv == IInv /\ Extend => IInv'
<1> SUFFICES ASSUME IInv, Extend PROVE IInv'
  OBVIOUS
<1> DEFINE to == FirstOf(todo)
           nextPath == Append(current, to)
<1>0. /\ TypeOK /\ NonEmptyPaths /\ Expanded /\ Frontier
      /\ Sound /\ StartKnown /\ Recorded
  BY DEF IInv
<1>1. /\ todo # {} /\ to \notin visited
      /\ visited' = visited \cup {to}
      /\ paths' = Append(paths, nextPath)
      /\ queue' = Append(queue, nextPath)
      /\ todo' = todo \ {to}
      /\ UNCHANGED <<edges, start, current>>
  BY DEF Extend
<1>2. to \in todo /\ to \in Nodes /\ to \in Successors(Last(current))
  BY <1>0, <1>1, FirstOfMember DEF TypeOK, Frontier
<1> HIDE DEF to
<1>3. nextPath \in Seq(Nodes) /\ nextPath # << >> /\ Last(nextPath) = to
  BY <1>0, <1>2, AppendedPath DEF TypeOK
<1> HIDE DEF nextPath
<1>4. /\ queue' \in Seq(Seq(Nodes))
      /\ DOMAIN queue' = DOMAIN queue \cup {Len(queue) + 1}
      /\ \A i \in DOMAIN queue : queue'[i] = queue[i] /\ i # Len(queue) + 1
      /\ queue'[Len(queue) + 1] = nextPath
  BY <1>0, <1>1, <1>3, AppendedItems, AppendedPath DEF TypeOK
<1>5. /\ paths' \in Seq(Seq(Nodes))
      /\ DOMAIN paths' = DOMAIN paths \cup {Len(paths) + 1}
      /\ \A i \in DOMAIN paths : paths'[i] = paths[i] /\ i # Len(paths) + 1
      /\ paths'[Len(paths) + 1] = nextPath
  BY <1>0, <1>1, <1>3, AppendedItems, AppendedPath DEF TypeOK
<1>6. TypeOK'
  BY <1>0, <1>1, <1>2, <1>4, <1>5 DEF TypeOK
<1>7. NonEmptyPaths'
  BY <1>0, <1>1, <1>3, <1>4, <1>5 DEF NonEmptyPaths
<1>8. Expanded'
  <2> SUFFICES ASSUME NEW n \in visited'
               PROVE  \/ \E i \in DOMAIN queue' : Last(queue'[i]) = n
                      \/ \A m \in Successors(n) : m \in visited' \/ (n = Last(current) /\ m \in todo')
    BY <1>1 DEF Expanded, Successors
  <2>1. CASE n = to
    BY <2>1, <1>3, <1>4
  <2>2. CASE \E i \in DOMAIN queue : Last(queue[i]) = n
    BY <2>2, <1>4
  <2>3. CASE \A m \in Successors(n) : m \in visited \/ (n = Last(current) /\ m \in todo)
    BY <2>3, <1>1
  <2> QED
    BY <2>1, <2>2, <2>3, <1>0, <1>1 DEF Expanded
<1>9. Frontier'
  BY <1>0, <1>1, <1>3, <1>4 DEF Frontier, Successors
<1>10. Sound'
  <2>1. Last(current) \in Dependents
    BY <1>0, <1>1 DEF Frontier, Sound
  <2>2. to \in Dependents
    BY <2>1, <1>0, <1>2, DependentsClosed
  <2> QED
    BY <2>2, <1>0, <1>1 DEF Sound, Dependents, Reachable, Closed
<1>11. StartKnown'
  BY <1>0, <1>1 DEF StartKnown, Frontier
<1>12. Recorded'
  <2>1. to # start
    BY <1>0, <1>1 DEF StartKnown, Frontier
  <2>2. Ends' = Ends \cup {to}
    BY <1>3, <1>5 DEF Ends
  <2> QED
    BY <2>1, <2>2, <1>0, <1>1 DEF Recorded
<1> QED
  BY <1>6, <1>7, <1>8, <1>9, <1>10, <1>11, <1>12 DEF IInv

LEMMA StutterIInv == IInv /\ UNCHANGED vars => IInv'
<1> SUFFICES ASSUME IInv, UNCHANGED vars PROVE IInv'
  OBVIOUS
<1>1. UNCHANGED <<edges, start, queue, current, todo, visited, paths>>
  BY DEF vars
<1>2. TypeOK' /\ NonEmptyPaths'
  BY <1>1 DEF IInv, TypeOK, NonEmptyPaths
<1>3. Expanded' /\ Frontier'
  BY <1>1 DEF IInv, Expanded, Frontier, Successors
<1>4. Sound'
  BY <1>1 DEF IInv, Sound, Dependents, Reachable, Closed
<1>5. StartKnown' /\ Recorded'
  BY <1>1 DEF IInv, StartKnown, Recorded, Ends
<1> QED
  BY <1>2, <1>3, <1>4, <1>5 DEF IInv

-----------------------------------------------------------------------------
(* The inductive invariant holds in every reachable state.                  *)
THEOREM SearchInvariant == Spec => []IInv
<1>1. IInv /\ [Next]_vars => IInv'
  BY DequeueIInv, SkipVisitedIInv, ExtendIInv, StutterIInv DEF Next
<1> QED
  BY InitIInv, <1>1, PTL DEF Spec

(* Type correctness of the search, for every set of nodes.                  *)
THEOREM TypeCorrect == Spec => []TypeOK
<1>1. IInv => TypeOK
  BY DEF IInv
<1> QED
  BY SearchInvariant, <1>1, PTL

LEMMA DoneClosed ==
    ASSUME IInv, Done
    PROVE  \A e \in edges : e[1] \in visited => e[2] \in visited
<1>1. \A n \in visited : \A m \in Successors(n) : m \in visited
  BY DEF IInv, Done, Expanded
<1> QED
  BY <1>1 DEF IInv, TypeOK, Successors

(* When the search returns it has reported exactly the dependents of the    *)
(* start node: nothing is missed on any graph, cyclic or not, and nothing   *)
(* is invented.                                                             *)
THEOREM SearchIsExact == Spec => []ReportsExactlyTheDependents
<1>1. IInv => ReportsExactlyTheDependents
  <2> SUFFICES ASSUME IInv, Done PROVE Ends = Dependents \ {start}
    BY DEF ReportsExactlyTheDependents, Dependents
  <2>0. TypeOK /\ Sound /\ StartKnown /\ Recorded
    BY DEF IInv
  <2>1. CASE start \in visited
    <3>1. Dependents \subseteq visited
      BY <2>0, <2>1, DoneClosed, DependentsLeast DEF TypeOK
    <3> QED
      BY <3>1, <2>0 DEF Sound, Recorded
  <2>2. CASE visited = {} /\ \A e \in edges : e[1] # start
    <3>1. Dependents \subseteq {start}
      BY <2>0, <2>2, DependentsLeast DEF TypeOK
    <3> QED
      BY <3>1, <2>0, <2>2 DEF Recorded
  <2> QED
    BY <2>0, <2>1, <2>2 DEF StartKnown
<1> QED
  BY SearchInvariant, <1>1, PTL

(* Each step of the search is a step of the abstract discovery or leaves    *)
(* what it has discovered alone.                                            *)
THEOREM SearchRefinesDiscovery == Spec => DiscoversOneByOne
<1>1. Init => Abstract!Init
  BY InitIInv DEF Init, IInv, TypeOK, Abstract!Init
<1>2. IInv /\ [Next]_vars => [Abstract!Next]_(Abstract!vars)
  <2> SUFFICES ASSUME IInv, [Next]_vars PROVE [Abstract!Next]_(Abstract!vars)
    OBVIOUS
  <2>1. CASE Dequeue
    BY <2>1 DEF Dequeue, Abstract!vars
  <2>2. CASE SkipVisited
    BY <2>2 DEF SkipVisited, Abstract!vars
  <2>3. CASE Extend
    <3> DEFINE to == FirstOf(todo)
    <3>1. /\ to \in todo /\ to \notin visited /\ todo # {}
          /\ visited' = visited \cup {to} /\ UNCHANGED <<edges, start>>
      BY <2>3, FirstOfMember DEF Extend, IInv, TypeOK
    <3>2. /\ <<Last(current), to>> \in edges
          /\ Last(current) \in visited
          /\ start \in visited
      BY <3>1 DEF IInv, Frontier, Successors, StartKnown
    <3> HIDE DEF to
    <3>3. Abstract!Discover
      BY <3>1, <3>2 DEF Abstract!Discover
    <3> QED
      BY <3>3 DEF Abstract!Next
  <2>4. CASE UNCHANGED vars
    BY <2>4 DEF vars, Abstract!vars
  <2> QED
    BY <2>1, <2>2, <2>3, <2>4 DEF Next
<1> QED
  BY SearchInvariant, <1>1, <1>2, PTL DEF Spec, DiscoversOneByOne

-----------------------------------------------------------------------------
(* The paths themselves.                                                    *)

(* A walk of the graph from the start that visits no node twice.            *)
IsPath(p) == /\ p # << >>
             /\ p[1] = start
             /\ \A k \in 1 .. Len(p) - 1 : <<p[k], p[k+1]>> \in edges
             /\ IsInjective(p)

(* No walk with fewer edges ends where p does.                              *)
Far(p) == Len(p) > 1 => Last(p) \notin Ball[Len(p) - 2]

(* What is extended is a path over visited nodes, what is recorded a path   *)
(* of at least one edge.                                                    *)
PathsInHand ==
    /\ \A i \in DOMAIN queue : IsPath(queue[i]) /\ ToSet(queue[i]) \subseteq visited
    /\ IsPath(current)
    /\ todo # {} => ToSet(current) \subseteq visited
    /\ \A i \in DOMAIN paths : IsPath(paths[i]) /\ Len(paths[i]) > 1

OnePathEach == \A i, j \in DOMAIN paths : Last(paths[i]) = Last(paths[j]) => i = j

(* The queue is at most one edge ahead of the path being extended and in    *)
(* the order of length, and all that is nearer than the end of the current  *)
(* path is visited.                                                         *)
Levels ==
    /\ start \in visited => Ball[Len(current) - 1] \subseteq visited
    /\ \A i \in DOMAIN queue : Len(queue[i]) \in {Len(current), Len(current) + 1}
    /\ \A i, j \in DOMAIN queue : i < j => Len(queue[i]) <= Len(queue[j])
    /\ \A i \in DOMAIN queue : Far(queue[i])
    /\ \A i \in DOMAIN paths : Far(paths[i])

PInv == PathsInHand /\ OnePathEach /\ Levels

-----------------------------------------------------------------------------
(* Induction over the naturals, for a set instead of a predicate.           *)
LEMMA InductiveSet ==
    ASSUME NEW S \in SUBSET Nat, 0 \in S, \A n \in S : n + 1 \in S
    PROVE  S = Nat
<1> SUFFICES ASSUME Nat \ S # {} PROVE FALSE
  OBVIOUS
<1>1. PICK k \in Nat \ S : \A j \in Nat \ S : <<j, k>> \notin Less
  <2>1. Nat \ S \subseteq Nat
    OBVIOUS
  <2> QED
    BY <2>1, LessWellFounded, WFMin
<1>2. k - 1 \in Nat /\ k - 1 < k
  BY <1>1
<1>3. k - 1 \in S
  BY <1>1, <1>2 DEF Less
<1> QED
  BY <1>1, <1>2, <1>3

(* The nodes one edge further, and the functions that grow by one edge at   *)
(* each of their first n steps: all agree, and so they define Ball.         *)
Grow(B) == B \cup {m \in Nodes : \E n \in B : <<n, m>> \in edges}
Growing(n, g) == g[0] = {start} /\ \A k \in 1 .. n : g[k] = Grow(g[k-1])

LEMMA GrowingExists ==
    \A n \in Nat : \E g \in [Nat -> SUBSET (Nodes \cup {start})] : Growing(n, g)
<1> DEFINE T == SUBSET (Nodes \cup {start})
           S == {n \in Nat : \E g \in [Nat -> T] : Growing(n, g)}
<1>1. 0 \in S
  <2>1. Growing(0, [k \in Nat |-> {start}]) /\ [k \in Nat |-> {start}] \in [Nat -> T]
    BY DEF Growing
  <2> QED
    BY <2>1
<1>2. ASSUME NEW n \in S PROVE n + 1 \in S
  <2>1. PICK g \in [Nat -> T] : Growing(n, g)
    OBVIOUS
  <2> DEFINE h == [k \in Nat |-> IF k = n + 1 THEN Grow(g[n]) ELSE g[k]]
  <2>2. Grow(g[n]) \in T
    BY DEF Grow
  <2>3. h \in [Nat -> T]
    BY <2>2
  <2>4. ASSUME NEW k \in 1 .. n + 1 PROVE h[k] = Grow(h[k-1])
    BY <2>1 DEF Growing
  <2>5. h[0] = {start}
    BY <2>1 DEF Growing
  <2>6. Growing(n + 1, h)
    BY <2>4, <2>5 DEF Growing
  <2> QED
    BY <2>3, <2>6
<1> HIDE DEF S
<1>3. S = Nat
  <2>1. S \in SUBSET Nat
    BY DEF S
  <2> QED
    BY <2>1, <1>1, <1>2, InductiveSet
<1> QED
  BY <1>3 DEF S

LEMMA GrowingUnique ==
    ASSUME NEW n \in Nat, NEW m \in Nat, NEW g, NEW h, Growing(n, g), Growing(m, h)
    PROVE  \A k \in Nat : k <= n /\ k <= m => g[k] = h[k]
<1> DEFINE S == {k \in Nat : k <= n /\ k <= m => g[k] = h[k]}
<1>1. 0 \in S
  BY DEF Growing
<1>2. ASSUME NEW k \in S PROVE k + 1 \in S
  <2> SUFFICES ASSUME k + 1 <= n, k + 1 <= m PROVE g[k+1] = h[k+1]
    OBVIOUS
  <2>1. g[k+1] = Grow(g[k]) /\ h[k+1] = Grow(h[k])
    BY DEF Growing
  <2> QED
    BY <2>1
<1> HIDE DEF S
<1>3. S = Nat
  <2>1. S \in SUBSET Nat
    BY DEF S
  <2> QED
    BY <2>1, <1>1, <1>2, InductiveSet
<1> QED
  BY <1>3 DEF S

LEMMA BallGrows ==
    /\ Ball[0] = {start}
    /\ \A k \in Nat : Ball[k+1] = Ball[k] \cup {m \in Nodes : \E n \in Ball[k] : <<n, m>> \in edges}
<1> DEFINE T == SUBSET (Nodes \cup {start})
           F(n) == CHOOSE g \in [Nat -> T] : Growing(n, g)
           B == [n \in Nat |-> F(n)[n]]
<1>1. \A n \in Nat : Growing(n, F(n))
  BY GrowingExists
<1> HIDE DEF F
<1>2. B[0] = {start}
  BY <1>1 DEF Growing
<1>3. ASSUME NEW n \in Nat PROVE B[n+1] = Grow(B[n])
  <2>1. Growing(n, F(n)) /\ Growing(n + 1, F(n + 1))
    BY <1>1
  <2>2. F(n+1)[n+1] = Grow(F(n+1)[n])
    BY <2>1 DEF Growing
  <2>3. F(n+1)[n] = F(n)[n]
    BY <2>1, GrowingUnique
  <2> QED
    BY <2>2, <2>3
<1>4. B = [k \in Nat |-> IF k = 0 THEN {start}
                         ELSE B[k-1] \cup {m \in Nodes : \E n \in B[k-1] : <<n, m>> \in edges}]
  <2>1. ASSUME NEW k \in Nat \ {0} PROVE B[k] = Grow(B[k-1])
    <3>1. k - 1 \in Nat /\ (k - 1) + 1 = k
      OBVIOUS
    <3> QED
      BY <1>3, <3>1
  <2> QED
    BY <1>2, <2>1 DEF Grow
<1> HIDE DEF B
<1>5. Ball = [k \in Nat |-> IF k = 0 THEN {start}
                            ELSE Ball[k-1] \cup {m \in Nodes : \E n \in Ball[k-1] : <<n, m>> \in edges}]
  BY <1>4 DEF Ball
<1>6. ASSUME NEW k \in Nat
      PROVE  Ball[k+1] = Ball[k] \cup {m \in Nodes : \E n \in Ball[k] : <<n, m>> \in edges}
  <2>1. k + 1 \in Nat /\ k + 1 # 0 /\ (k + 1) - 1 = k
    OBVIOUS
  <2>2. Ball[k+1] = IF k + 1 = 0 THEN {start}
                    ELSE Ball[(k+1)-1] \cup {m \in Nodes : \E n \in Ball[(k+1)-1] : <<n, m>> \in edges}
    BY <1>5, <2>1
  <2> QED
    BY <2>1, <2>2
<1> QED
  BY <1>5, <1>6

-----------------------------------------------------------------------------
(* A path that goes on to a node it has not visited is a path.              *)
LEMMA LongerPath ==
    ASSUME NEW p \in Seq(Nodes), IsPath(p), NEW to \in Nodes,
           <<Last(p), to>> \in edges, to \notin ToSet(p)
    PROVE  /\ IsPath(Append(p, to))
           /\ Len(Append(p, to)) = Len(p) + 1 /\ Len(p) \in Nat /\ Len(p) > 0
           /\ ToSet(Append(p, to)) = ToSet(p) \cup {to}
<1> DEFINE q == Append(p, to)
<1>1. /\ Len(p) \in Nat /\ DOMAIN p = 1 .. Len(p) /\ Len(q) = Len(p) + 1
      /\ DOMAIN q = 1 .. Len(p) + 1
      /\ \A i \in 1 .. Len(p) : q[i] = p[i]
      /\ q[Len(p) + 1] = to
  BY AppendProperties
<1>2. Len(p) > 0
  BY <1>1, EmptySeq DEF IsPath
<1> HIDE DEF q
<1>3. q # << >> /\ q[1] = start
  BY <1>1, <1>2 DEF IsPath
<1>4. ASSUME NEW k \in 1 .. Len(q) - 1 PROVE <<q[k], q[k+1]>> \in edges
  <2>1. CASE k = Len(p)
    BY <2>1, <1>1, <1>2 DEF Last
  <2>2. CASE k # Len(p)
    <3>1. Len(q) - 1 = Len(p) /\ Len(p) \in Nat
      BY <1>1
    <3>2. k \in 1 .. Len(p) - 1 /\ k + 1 \in 1 .. Len(p)
      BY <2>2, <3>1
    <3>3. q[k] = p[k] /\ q[k+1] = p[k+1]
      BY <3>2, <1>1
    <3>4. <<p[k], p[k+1]>> \in edges
      BY <3>2 DEF IsPath
    <3> QED
      BY <3>3, <3>4
  <2> QED
    BY <2>1, <2>2
<1>5. ToSet(q) = ToSet(p) \cup {to}
  BY <1>1 DEF ToSet
<1>6. IsInjective(q)
  <2>1. \A a \in 1 .. Len(p) : q[a] # to
    BY <1>1 DEF ToSet
  <2>2. \A a, b \in 1 .. Len(p) : q[a] = q[b] => a = b
    BY <1>1 DEF IsPath, IsInjective
  <2> QED
    BY <2>1, <2>2, <1>1 DEF IsInjective
<1>7. IsPath(q)
  BY <1>3, <1>4, <1>6 DEF IsPath
<1> QED
  BY <1>1, <1>2, <1>5, <1>7 DEF q

LEMMA InitPInv == Init => PInv
<1> SUFFICES ASSUME Init PROVE PInv
  OBVIOUS
<1>1. IsPath(<<start>>) /\ ToSet(<<start>>) = {start} /\ Len(<<start>>) = 1
  BY DEF IsPath, ToSet, IsInjective
<1>2. Ball[0] = {start}
  BY BallGrows
<1>3. /\ \A i \in DOMAIN queue : queue[i] = <<start>> /\ visited = {start} /\ i = 1
      /\ current = <<start>> /\ todo = {} /\ DOMAIN paths = {}
  BY DEF Init
<1>4. PathsInHand
  BY <1>1, <1>3 DEF PathsInHand
<1>5. OnePathEach
  BY <1>3 DEF OnePathEach
<1>6. Levels
  <2>1. Ball[Len(current) - 1] = {start}
    BY <1>1, <1>2, <1>3
  <2>2. start \in visited => Ball[Len(current) - 1] \subseteq visited
    BY <2>1
  <2>3. Far(<<start>>)
    BY <1>1 DEF Far
  <2>4. \A i, j \in DOMAIN queue : Len(queue[i]) = 1 /\ Far(queue[i]) /\ i = j
    BY <1>1, <1>3, <2>3
  <2> QED
    BY <2>2, <2>4, <1>1, <1>3 DEF Levels
<1> QED
  BY <1>4, <1>5, <1>6 DEF PInv

(* The graph and its start do not change, and with them what depends on     *)
(* nothing else.                                                            *)
LEMMA SameGraph ==
    ASSUME edges' = edges, start' = start
    PROVE  /\ \A p : IsPath(p)' <=> IsPath(p)
           /\ \A p : Far(p)' <=> Far(p)
           /\ Ball' = Ball
  BY DEF IsPath, Far, Ball

(* The next path to be extended is as long as the last one, or one edge     *)
(* longer; then all the nodes at the distance of the last one are done.     *)
LEMMA DequeuePInv == IInv /\ PInv /\ Dequeue => PInv'
<1> SUFFICES ASSUME IInv, PInv, Dequeue PROVE PInv'
  OBVIOUS
<1> DEFINE item == Head(queue)
<1>0. TypeOK /\ Expanded /\ StartKnown /\ PathsInHand /\ OnePathEach /\ Levels
  BY DEF IInv, PInv
<1>1. /\ current' = item /\ queue' = Tail(queue) /\ todo = {} /\ queue # << >>
      /\ UNCHANGED <<edges, start, visited, paths>>
  BY DEF Dequeue
<1>2. /\ item \in Seq(Nodes)
      /\ \A i \in DOMAIN Tail(queue) : i + 1 \in DOMAIN queue /\ Tail(queue)[i] = queue[i+1]
      /\ 1 \in DOMAIN queue /\ item = queue[1]
  BY <1>0, <1>1, HeadAndTail DEF TypeOK
<1>3. DOMAIN queue \subseteq Nat \ {0} /\ DOMAIN Tail(queue) \subseteq Nat \ {0}
  <2>1. Tail(queue) \in Seq(Seq(Nodes)) /\ queue \in Seq(Seq(Nodes))
    BY <1>0, <1>1, HeadAndTail DEF TypeOK
  <2> QED
    BY <2>1
<1>4. /\ \A p : IsPath(p)' <=> IsPath(p)
      /\ \A p : Far(p)' <=> Far(p)
      /\ Ball' = Ball
  BY <1>1, SameGraph
<1> HIDE DEF item
<1>5. PathsInHand'
  BY <1>0, <1>1, <1>2, <1>4 DEF PathsInHand
<1>6. OnePathEach'
  BY <1>0, <1>1 DEF OnePathEach
<1>7. Len(current) \in Nat /\ Len(current) > 0 /\ Len(item) \in {Len(current), Len(current) + 1}
  <2>1. current \in Seq(Nodes) /\ current # << >>
    BY <1>0 DEF TypeOK, PathsInHand, IsPath
  <2> QED
    BY <2>1, <1>0, <1>2, EmptySeq DEF Levels
<1>8. \A i \in DOMAIN queue : Len(queue[i]) \in {Len(current), Len(current) + 1} /\ Len(item) <= Len(queue[i])
  <2> TAKE i \in DOMAIN queue
  <2>1. Len(queue[i]) \in {Len(current), Len(current) + 1}
    BY <1>0 DEF Levels
  <2>2. i \in Nat \ {0} /\ 1 \in DOMAIN queue /\ (i = 1 \/ 1 < i)
    BY <1>2, <1>3
  <2>3. CASE i = 1
    BY <2>1, <2>3, <1>2, <1>7
  <2>4. CASE 1 < i
    BY <2>1, <2>2, <2>4, <1>0, <1>2 DEF Levels
  <2> QED
    BY <2>2, <2>3, <2>4
<1>9. ASSUME start \in visited PROVE Ball[Len(item) - 1] \subseteq visited
  <2>1. CASE Len(item) = Len(current)
    BY <2>1, <1>0, <1>9 DEF Levels
  <2>2. CASE Len(item) = Len(current) + 1
    <3> DEFINE c == Len(current)
    <3>1. c - 1 \in Nat /\ Len(item) - 1 = (c - 1) + 1
      BY <1>7, <2>2
    <3>2. Ball[Len(item) - 1]
            = Ball[c-1] \cup {m \in Nodes : \E n \in Ball[c-1] : <<n, m>> \in edges}
      BY <3>1, BallGrows
    <3>3. Ball[c-1] \subseteq visited
      BY <1>0, <1>9 DEF Levels
    <3>4. ASSUME NEW n \in Ball[c-1], NEW m \in Nodes, <<n, m>> \in edges
          PROVE  m \in visited
      <4>1. ASSUME NEW i \in DOMAIN queue PROVE Last(queue[i]) # n
        <5>1. Len(queue[i]) = c + 1
          BY <1>7, <1>8, <2>2
        <5>2. Len(queue[i]) > 1 /\ Len(queue[i]) - 2 = c - 1
          BY <5>1, <1>7
        <5>3. Last(queue[i]) \notin Ball[c-1]
          BY <5>2, <1>0 DEF Levels, Far
        <5> QED
          BY <5>3, <3>4
      <4>2. n \in visited
        BY <3>3, <3>4
      <4>3. \A k \in Successors(n) : k \in visited
        BY <4>1, <4>2, <1>0, <1>1 DEF Expanded
      <4> QED
        BY <4>3, <3>4 DEF Successors
    <3> QED
      BY <3>2, <3>3, <3>4
  <2> QED
    BY <1>7, <2>1, <2>2
<1>10. Levels'
  <2>1. start' \in visited' => Ball'[Len(current') - 1] \subseteq visited'
    BY <1>1, <1>4, <1>9
  <2>2. \A i \in DOMAIN queue' : Len(queue'[i]) \in {Len(current'), Len(current') + 1}
    BY <1>1, <1>2, <1>7, <1>8
  <2>3. \A i, j \in DOMAIN queue' : i < j => Len(queue'[i]) <= Len(queue'[j])
    <3> SUFFICES ASSUME NEW i \in DOMAIN queue', NEW j \in DOMAIN queue', i < j
                 PROVE  Len(queue'[i]) <= Len(queue'[j])
      OBVIOUS
    <3>1. /\ i + 1 \in DOMAIN queue /\ queue'[i] = queue[i+1]
          /\ j + 1 \in DOMAIN queue /\ queue'[j] = queue[j+1]
          /\ i + 1 < j + 1
      BY <1>1, <1>2, <1>3
    <3> QED
      BY <3>1, <1>0 DEF Levels
  <2>4. \A i \in DOMAIN queue' : Far(queue[i])'
    <3>1. \A i \in DOMAIN queue' : Far(queue'[i])
      BY <1>0, <1>1, <1>2 DEF Levels
    <3> QED
      BY <3>1, <1>4 DEF Far
  <2>5. \A i \in DOMAIN paths' : Far(paths[i])'
    BY <1>0, <1>1, <1>4 DEF Levels, Far
  <2> QED
    BY <2>1, <2>2, <2>3, <2>4, <2>5 DEF Levels
<1> QED
  BY <1>5, <1>6, <1>10 DEF PInv

LEMMA SkipVisitedPInv == IInv /\ PInv /\ SkipVisited => PInv'
<1> SUFFICES ASSUME PInv, SkipVisited PROVE PInv'
  OBVIOUS
<1>1. UNCHANGED <<edges, start, queue, current, visited, paths>> /\ todo # {}
  BY DEF SkipVisited
<1>2. /\ \A p : IsPath(p)' <=> IsPath(p)
      /\ \A p : Far(p)' <=> Far(p)
      /\ Ball' = Ball
  BY <1>1, SameGraph
<1>3. PathsInHand'
  BY <1>1, <1>2 DEF PInv, PathsInHand
<1>4. OnePathEach' /\ Levels'
  BY <1>1, <1>2 DEF PInv, OnePathEach, Levels
<1> QED
  BY <1>3, <1>4 DEF PInv

(* A new node is farther than all that is visited at the distance of the    *)
(* current path, so one edge more is the shortest way to it.                *)
LEMMA ExtendPInv == IInv /\ PInv /\ Extend => PInv'
<1> SUFFICES ASSUME IInv, PInv, Extend PROVE PInv'
  OBVIOUS
<1> DEFINE to == FirstOf(todo)
           nextPath == Append(current, to)
           c == Len(current)
<1>0. TypeOK /\ Frontier /\ StartKnown /\ Recorded /\ PathsInHand /\ OnePathEach /\ Levels
  BY DEF IInv, PInv
<1>1. /\ todo # {} /\ to \notin visited
      /\ visited' = visited \cup {to}
      /\ paths' = Append(paths, nextPath)
      /\ queue' = Append(queue, nextPath)
      /\ todo' = todo \ {to}
      /\ UNCHANGED <<edges, start, current>>
  BY DEF Extend
<1>2. to \in todo /\ to \in Nodes /\ <<Last(current), to>> \in edges
  BY <1>0, <1>1, FirstOfMember DEF TypeOK, Frontier, Successors
<1>3. /\ current \in Seq(Nodes) /\ IsPath(current) /\ ToSet(current) \subseteq visited
      /\ Last(current) \in visited
  BY <1>0, <1>1 DEF TypeOK, PathsInHand, Frontier
<1> HIDE DEF to
<1>4. /\ IsPath(nextPath) /\ Len(nextPath) = c + 1 /\ c \in Nat /\ c > 0
      /\ ToSet(nextPath) = ToSet(current) \cup {to}
  BY <1>1, <1>2, <1>3, LongerPath
<1>5. nextPath \in Seq(Nodes) /\ Last(nextPath) = to
  BY <1>2, <1>3, AppendedPath
<1>6. Far(nextPath)
  <2>1. start \in visited
    BY <1>0, <1>3 DEF StartKnown
  <2>2. to \notin Ball[c-1]
    BY <2>1, <1>0, <1>1 DEF Levels
  <2>3. Len(nextPath) - 2 = c - 1
    BY <1>4
  <2> QED
    BY <2>2, <2>3, <1>5 DEF Far
<1> HIDE DEF nextPath
<1>7. /\ DOMAIN queue' = DOMAIN queue \cup {Len(queue) + 1}
      /\ \A i \in DOMAIN queue : queue'[i] = queue[i] /\ i # Len(queue) + 1
      /\ queue'[Len(queue) + 1] = nextPath
      /\ DOMAIN queue = 1 .. Len(queue) /\ Len(queue) \in Nat
  BY <1>0, <1>1, <1>5, AppendedItems DEF TypeOK
<1>8. /\ DOMAIN paths' = DOMAIN paths \cup {Len(paths) + 1}
      /\ \A i \in DOMAIN paths : paths'[i] = paths[i] /\ i # Len(paths) + 1
      /\ paths'[Len(paths) + 1] = nextPath
  BY <1>0, <1>1, <1>5, AppendedItems DEF TypeOK
<1>9. /\ \A p : IsPath(p)' <=> IsPath(p)
      /\ \A p : Far(p)' <=> Far(p)
      /\ Ball' = Ball
  BY <1>1, SameGraph
<1>10. PathsInHand'
  <2>1. \A i \in DOMAIN queue' : IsPath(queue'[i]) /\ ToSet(queue'[i]) \subseteq visited'
    BY <1>0, <1>1, <1>3, <1>4, <1>7 DEF PathsInHand
  <2>2. \A i \in DOMAIN paths' : IsPath(paths'[i]) /\ Len(paths'[i]) > 1
    BY <1>0, <1>4, <1>8 DEF PathsInHand
  <2> QED
    BY <2>1, <2>2, <1>1, <1>3, <1>9 DEF PathsInHand
<1>11. OnePathEach'
  <2>1. \A i \in DOMAIN paths : Last(paths'[i]) = Last(paths[i]) /\ Last(paths[i]) # to
    BY <1>0, <1>1, <1>8 DEF Recorded, Ends
  <2>2. Last(paths'[Len(paths) + 1]) = to
    BY <1>5, <1>8
  <2> QED
    BY <2>1, <2>2, <1>0, <1>8 DEF OnePathEach
<1>12. Levels'
  <2>1. start' \in visited' => Ball'[Len(current') - 1] \subseteq visited'
    <3>1. start \in visited
      BY <1>0, <1>3 DEF StartKnown
    <3> QED
      BY <3>1, <1>0, <1>1, <1>9 DEF Levels
  <2>2. \A i \in DOMAIN queue' : Len(queue'[i]) \in {Len(current'), Len(current') + 1}
    BY <1>0, <1>1, <1>4, <1>7 DEF Levels
  <2>3. \A i, j \in DOMAIN queue' : i < j => Len(queue'[i]) <= Len(queue'[j])
    <3> SUFFICES ASSUME NEW i \in DOMAIN queue', NEW j \in DOMAIN queue', i < j
                 PROVE  Len(queue'[i]) <= Len(queue'[j])
      OBVIOUS
    <3>1. i \in DOMAIN queue /\ queue'[i] = queue[i]
      BY <1>7
    <3>2. CASE j \in DOMAIN queue
      BY <3>1, <3>2, <1>0, <1>7 DEF Levels
    <3>3. CASE j = Len(queue) + 1
      BY <3>1, <3>3, <1>0, <1>4, <1>7 DEF Levels
    <3> QED
      BY <3>2, <3>3, <1>7
  <2>4. \A i \in DOMAIN queue' : Far(queue'[i])
    BY <1>0, <1>6, <1>7 DEF Levels
  <2>5. \A i \in DOMAIN paths' : Far(paths'[i])
    BY <1>0, <1>6, <1>8 DEF Levels
  <2>6. \A i \in DOMAIN queue' : Far(queue[i])'
    BY <2>4, <1>9 DEF Far
  <2>7. \A i \in DOMAIN paths' : Far(paths[i])'
    BY <2>5, <1>9 DEF Far
  <2> QED
    BY <2>1, <2>2, <2>3, <2>6, <2>7 DEF Levels
<1> QED
  BY <1>10, <1>11, <1>12 DEF PInv

LEMMA StutterPInv == PInv /\ UNCHANGED vars => PInv'
<1> SUFFICES ASSUME PInv, UNCHANGED vars PROVE PInv'
  OBVIOUS
<1>1. UNCHANGED <<edges, start, queue, current, todo, visited, paths>>
  BY DEF vars
<1>2. /\ \A p : IsPath(p)' <=> IsPath(p)
      /\ \A p : Far(p)' <=> Far(p)
      /\ Ball' = Ball
  BY <1>1, SameGraph
<1>3. PathsInHand'
  BY <1>1, <1>2 DEF PInv, PathsInHand
<1>4. OnePathEach' /\ Levels'
  BY <1>1, <1>2 DEF PInv, OnePathEach, Levels
<1> QED
  BY <1>3, <1>4 DEF PInv

(* The queue of the search keeps to the levels of the graph.                *)
THEOREM LevelInvariant == Spec => []PInv
<1>1. IInv /\ PInv /\ [Next]_vars => PInv'
  BY DequeuePInv, SkipVisitedPInv, ExtendPInv, StutterPInv DEF Next
<1> QED
  BY SearchInvariant, InitPInv, <1>1, PTL DEF Spec

(* Every path that ImpactPaths reports is evidence, on any graph: a walk of *)
(* real edges from the start that visits no node twice, and one path for    *)
(* each node.                                                               *)
THEOREM EvidenceIsPaths == Spec => []PathsAreEvidence
<1>1. PInv => PathsAreEvidence
  BY DEF PInv, PathsInHand, OnePathEach, IsPath, PathsAreEvidence
<1> QED
  BY LevelInvariant, <1>1, PTL

(* No shorter walk leads to the end of a reported path, so that the filter  *)
(* on direct impact loses no direct dependent.                              *)
THEOREM PathsAreShortest == Spec => []ShortestPaths
<1>1. PInv => ShortestPaths
  BY DEF PInv, PathsInHand, Levels, Far, ShortestPaths
<1> QED
  BY LevelInvariant, <1>1, PTL
=============================================================================
