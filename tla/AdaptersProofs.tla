---------------------------- MODULE AdaptersProofs ----------------------------
(***************************************************************************)
(* Proofs about the calls of the adapters, for inputs of any size and any  *)
(* moment at which the context ends.                                       *)
(***************************************************************************)
EXTENDS AdaptersInvariants, SourcePatterns, TraceQL, SequenceTheorems, FiniteSetTheorems, WellFoundedInduction, TLAPS

-----------------------------------------------------------------------------
(* What the calls share                                                     *)

LEMMA NothingDiscovered ==
    /\ DOMAIN EmptyDiscovery = DiscoveryFields
    /\ EmptyDiscovery.consumers = << >> /\ EmptyDiscovery.references = {}
    /\ EmptyDiscovery.productions = {} /\ EmptyDiscovery.diagnostics = {}
  BY DEF EmptyDiscovery, DiscoveryFields

LEMMA DiagnosticIsAdded ==
    ASSUME NEW d, DOMAIN d = DiscoveryFields, NEW place
    PROVE  LET e == WithDiagnostic(d, place)
           IN  /\ DOMAIN e = DiscoveryFields
               /\ e.consumers = d.consumers /\ e.references = d.references
               /\ e.productions = d.productions
               /\ e.diagnostics = d.diagnostics \cup {[required |-> source.required, place |-> place]}
  BY DEF WithDiagnostic, DiscoveryFields

(* Which adapter a source is for. *)
LEMMA InputsDiffer ==
    /\ \A s \in Logs : s.adapter = "runtime_queries"
    /\ \A s \in Manifests : s.adapter = "tempo"
    /\ \A s \in Services : s.adapter = "perses_usage"
    /\ \A s \in Repositories : s.adapter = "ownership"
<1>1. \A s \in R!Log : s.adapter = "runtime_queries"
  BY DEF R!Log
<1>2. \A s \in T!Manifest : s.adapter = "tempo"
  BY DEF T!Manifest
<1>3. \A s \in P!Service : s.adapter = "perses_usage"
  BY DEF P!Service
<1>4. \A s : O!IsRepository(s) => s.adapter = "ownership"
  BY DEF O!IsRepository
<1> QED
  BY <1>1, <1>2, <1>3, <1>4, LogsAssumption, ManifestsAssumption, ServicesAssumption, RepositoriesAssumption

(* The adapters have program counters of their own, and none changes its    *)
(* source.                                                                  *)
LEMMA RuntimeMoves == R!Next => pc \in {"lines", "aggregate"} /\ source' = source
  BY DEF R!Next, R!Unreadable, R!Stopped, R!Fail, R!SkipBlank, R!Reading, R!Overflow, R!Reject, R!Accept,
         R!EndOfFile, R!Aggregating, R!SkipOld, R!Observe, R!AppendAggregates

LEMMA TempoMoves == T!Next => pc \in {"manifest", "queries", "asked"} /\ source' = source
  BY DEF T!Next, T!RefuseManifest, T!AcceptManifest, T!Stopped, T!Fail, T!Ask, T!Rejected, T!Accepted,
         T!EndOfManifest

LEMMA PersesMoves == P!Next => pc \in {"metrics", "entries", "targets", "usage"} /\ source' = source
  BY DEF P!Next, P!Asking, P!Answers, P!Reading, P!SkipEntry, P!EnterEntry, P!NextTarget, P!LeaveEntry,
         P!EndOfAnswer, P!Telling, P!SkipUse, P!TellUse, P!EndOfUsage, P!DoesNotAnswer, P!Fail, P!Build

LEMMA OwnershipMoves == O!Next => pc \in {"enrich", "metadata", "files", "codeowners", "consumers"} /\ source' = source
  BY DEF O!Next, O!Enrich, O!RefuseToEnrich, O!Abandon, O!PatternWithoutFiles,
         O!ExpandPattern, O!LoadFile, O!LeavePattern, O!LeaveMetadata, O!LoadCodeowners,
         O!Assign, O!StopAssigning, O!EndOfConsumers

LEMMA SourceIsConstant == [Next]_vars => source' = source
  BY RuntimeMoves, TempoMoves, PersesMoves, OwnershipMoves DEF Next, Cancel, vars

-----------------------------------------------------------------------------
(* Numbers                                                                  *)

Less == {ss \in Nat \X Nat : ss[1] < ss[2]}

LEMMA LeastOfNaturals ==
    ASSUME NEW S \in SUBSET Nat, S # {}
    PROVE  \E k \in S : \A j \in S : k <= j
<1>1. IsWellFoundedOn(Less, Nat)
  BY NatLessThanWellFounded DEF OpToRel, Less
<1>2. PICK k \in S : \A j \in S : <<j, k>> \notin Less
  BY <1>1, WFMin
<1>3. \A j \in S : k <= j
  <2> TAKE j \in S
  <2>1. j \in Nat /\ k \in Nat
    OBVIOUS
  <2>2. ~ (j < k)
    BY <1>2, <2>1 DEF Less
  <2> QED
    BY <2>1, <2>2
<1> QED
  BY <1>3

-----------------------------------------------------------------------------
(* Recursions that look ahead                                               *)

(* The functions with a value in V[k] for each k.                           *)
Chosen(V) == {f \in [Nat -> UNION {V[k] : k \in Nat}] : \A k \in Nat : f[k] \in V[k]}

(* body[<<f, k>>] is a value for k, which depends on f behind k only, and   *)
(* not at all beyond the bound.                                             *)
LooksAhead(V, body, bound) ==
    /\ \A f \in Chosen(V), k \in Nat : body[<<f, k>>] \in V[k]
    /\ \A f, g \in Chosen(V), k \in Nat :
          (k > bound \/ \A j \in Nat : j > k => f[j] = g[j]) => body[<<f, k>>] = body[<<g, k>>]

LEMMA ChoiceIs ==
    ASSUME NEW V, NEW f
    PROVE  f \in Chosen(V) <=> f = [k \in Nat |-> f[k]] /\ \A k \in Nat : f[k] \in V[k]
<1>1. ASSUME f = [k \in Nat |-> f[k]], \A k \in Nat : f[k] \in V[k]
      PROVE  f \in [Nat -> UNION {V[k] : k \in Nat}]
  <2>1. \A k \in Nat : f[k] \in UNION {V[j] : j \in Nat}
    BY <1>1
  <2> QED
    BY <1>1, <2>1
<1> QED
  BY <1>1 DEF Chosen

LEMMA RecursionSolves ==
    ASSUME NEW V, NEW body, NEW bound \in Nat, LooksAhead(V, body, bound), \E f : f \in Chosen(V)
    PROVE  \E f \in Chosen(V) : \A k \in Nat : f[k] = body[<<f, k>>]
<1> DEFINE Upto(f, n) == \A k \in Nat : k + n > bound => f[k] = body[<<f, k>>]
           failing == {n \in Nat : ~ \E f \in Chosen(V) : Upto(f, n)}
<1>1. \A f \in Chosen(V), k \in Nat : body[<<f, k>>] \in V[k]
  BY DEF LooksAhead
<1>2. \A f, g \in Chosen(V), k \in Nat :
         (k > bound \/ \A j \in Nat : j > k => f[j] = g[j]) => body[<<f, k>>] = body[<<g, k>>]
  BY DEF LooksAhead
<1>3. 0 \notin failing
  <2>1. PICK f : f \in Chosen(V)
    OBVIOUS
  <2> DEFINE g == [k \in Nat |-> body[<<f, k>>]]
  <2>2. g \in Chosen(V)
    <3>1. \A k \in Nat : g[k] \in V[k]
      BY <1>1, <2>1
    <3> QED
      BY <3>1, ChoiceIs
  <2>3. ASSUME NEW k \in Nat, k + 0 > bound PROVE g[k] = body[<<g, k>>]
    <3>1. k > bound /\ g[k] = body[<<f, k>>]
      BY <2>3
    <3> HIDE DEF g
    <3> QED
      BY <1>2, <2>1, <2>2, <3>1
  <2> HIDE DEF g
  <2> QED
    BY <2>2, <2>3
<1>4. ASSUME NEW n \in Nat, n \notin failing PROVE n + 1 \notin failing
  <2>1. PICK f \in Chosen(V) : Upto(f, n)
    BY <1>4
  <2> DEFINE here == bound - n
             g == [k \in Nat |-> IF k = here THEN body[<<f, k>>] ELSE f[k]]
  <2>2. g \in Chosen(V)
    <3>1. \A k \in Nat : g[k] \in V[k]
      BY <1>1, ChoiceIs
    <3> QED
      BY <3>1, ChoiceIs
  <2>3. ASSUME NEW k \in Nat, k + (n + 1) > bound PROVE g[k] = body[<<g, k>>]
    <3>1. \A j \in Nat : j > k => f[j] = g[j]
      BY <2>3
    <3>2. body[<<f, k>>] = body[<<g, k>>]
      BY <1>2, <2>2, <3>1
    <3>3. CASE k = here
      BY <3>2, <3>3
    <3>4. CASE k # here
      <4>1. k + n > bound /\ g[k] = f[k]
        BY <2>3, <3>4
      <4> QED
        BY <2>1, <3>2, <4>1
    <3> QED
      BY <3>3, <3>4
  <2> HIDE DEF g
  <2> QED
    BY <2>2, <2>3
<1> HIDE DEF Upto
<1>5. failing = {}
  <2> SUFFICES ASSUME failing # {} PROVE FALSE
    OBVIOUS
  <2>1. PICK n \in failing : \A j \in failing : n <= j
    <3>1. failing \in SUBSET Nat
      OBVIOUS
    <3> HIDE DEF failing
    <3> QED
      BY <3>1, LeastOfNaturals
  <2>2. n \in Nat /\ n # 0
    BY <1>3
  <2>3. n - 1 \in Nat /\ n - 1 \notin failing /\ (n - 1) + 1 = n
    BY <2>1, <2>2
  <2> QED
    BY <1>4, <2>3
<1>6. PICK f \in Chosen(V) : Upto(f, bound + 1)
  <2>1. bound + 1 \in Nat /\ bound + 1 \notin failing
    BY <1>5
  <2> QED
    BY <2>1
<1>7. \A k \in Nat : f[k] = body[<<f, k>>]
  BY <1>6 DEF Upto
<1> QED
  BY <1>7

(* Two functions that differ nowhere for the first time from behind.        *)
Agree(f, g, bound) ==
    \A k \in Nat : (k > bound \/ \A j \in Nat : j > k => f[j] = g[j]) => f[k] = g[k]

LEMMA SameAhead ==
    ASSUME NEW f, NEW g, NEW bound \in Nat, Agree(f, g, bound)
    PROVE  \A k \in Nat : f[k] = g[k]
<1> DEFINE differ == {k \in Nat : f[k] # g[k]}
           left == {bound - k : k \in differ}
<1> SUFFICES ASSUME differ # {} PROVE FALSE
  OBVIOUS
<1>1. \A k \in differ : k \in Nat /\ k <= bound
  BY DEF Agree
<1>2. left \in SUBSET Nat /\ left # {}
  BY <1>1
<1>3. PICK n \in left : \A j \in left : n <= j
  <2> HIDE DEF left
  <2> QED
    BY <1>2, LeastOfNaturals
<1>4. PICK k \in differ : n = bound - k
  BY <1>3
<1>5. ASSUME NEW j \in Nat, j > k PROVE f[j] = g[j]
  <2>1. j \in differ => bound - j \in left
    OBVIOUS
  <2>2. j \in differ => n <= bound - j
    BY <1>3, <2>1
  <2>3. ~ (n <= bound - j)
    BY <1>1, <1>4, <1>5
  <2> QED
    BY <2>2, <2>3
<1> QED
  BY <1>4, <1>5 DEF Agree

-----------------------------------------------------------------------------
(* The scanner                                                              *)

AfterBody(e, quote, f, k) ==
    IF k > Len(e) THEN 0
    ELSE IF e[k] = quote THEN k + 1
    ELSE IF e[k] = "backslash" /\ quote # "backquote" THEN f[k + 2]
    ELSE f[k + 1]
AfterSolves(e, quote, f) == f = [k \in Nat |-> AfterBody(e, quote, f, k)]

LEMMA AfterExists ==
    ASSUME NEW e, Len(e) \in Nat, NEW quote
    PROVE  \E f : AfterSolves(e, quote, f) /\ \A k \in Nat : f[k] \in Nat /\ (f[k] = 0 \/ f[k] > k)
<1> DEFINE V == [k \in Nat |-> {n \in Nat : n = 0 \/ n > k}]
           body == [x \in Chosen(V) \X Nat |-> AfterBody(e, quote, x[1], x[2])]
<1>1. \A k \in Nat : V[k] = {n \in Nat : n = 0 \/ n > k}
  OBVIOUS
<1> HIDE DEF V
<1>2. \A f \in Chosen(V), k \in Nat : body[<<f, k>>] = AfterBody(e, quote, f, k)
  OBVIOUS
<1> HIDE DEF body
<1>3. LooksAhead(V, body, Len(e))
  <2>1. ASSUME NEW f \in Chosen(V), NEW k \in Nat PROVE AfterBody(e, quote, f, k) \in V[k]
    <3>1. k + 1 \in Nat /\ k + 2 \in Nat /\ f[k + 1] \in V[k + 1] /\ f[k + 2] \in V[k + 2]
      BY ChoiceIs
    <3> QED
      BY <1>1, <3>1 DEF AfterBody
  <2>2. ASSUME NEW f \in Chosen(V), NEW g \in Chosen(V), NEW k \in Nat,
               k > Len(e) \/ \A j \in Nat : j > k => f[j] = g[j]
        PROVE  AfterBody(e, quote, f, k) = AfterBody(e, quote, g, k)
    BY <2>2 DEF AfterBody
  <2> QED
    BY <1>2, <2>1, <2>2 DEF LooksAhead
<1>4. \E f : f \in Chosen(V)
  <2> DEFINE f == [k \in Nat |-> 0]
  <2>1. f \in Chosen(V)
    BY <1>1, ChoiceIs
  <2> QED
    BY <2>1
<1>5. PICK f \in Chosen(V) : \A k \in Nat : f[k] = body[<<f, k>>]
  BY <1>3, <1>4, RecursionSolves
<1>6. f = [k \in Nat |-> f[k]] /\ \A k \in Nat : f[k] \in V[k]
  BY ChoiceIs
<1>7. AfterSolves(e, quote, f)
  BY <1>2, <1>5, <1>6 DEF AfterSolves
<1> QED
  BY <1>1, <1>6, <1>7

(* What skipQuoted computes, and where it leads.                            *)
LEMMA SkipSolves ==
    ASSUME NEW e, Len(e) \in Nat, NEW i \in Nat
    PROVE  \E f : /\ \A k \in Nat : f[k] = AfterBody(e, e[i], f, k)
                  /\ \A k \in Nat : f[k] \in Nat /\ (f[k] = 0 \/ f[k] > k)
                  /\ skipQuoted(e, i) = f[i + 1]
<1> DEFINE m == CHOOSE m : AfterSolves(e, e[i], m)
<1>1. PICK f : AfterSolves(e, e[i], f) /\ \A k \in Nat : f[k] \in Nat /\ (f[k] = 0 \/ f[k] > k)
  BY AfterExists
<1>2. AfterSolves(e, e[i], m)
  BY <1>1, Zenon
<1>3. skipQuoted(e, i) = m[i + 1]
  BY Zenon DEF skipQuoted, AfterSolves, AfterBody
<1> HIDE DEF m
<1>4. \A k \in Nat : m[k] = AfterBody(e, e[i], m, k) /\ f[k] = AfterBody(e, e[i], f, k)
  BY <1>1, <1>2 DEF AfterSolves
<1>5. \A k \in Nat : f[k] = m[k]
  <2>1. ASSUME NEW k \in Nat, k > Len(e) \/ \A j \in Nat : j > k => f[j] = m[j]
        PROVE  f[k] = m[k]
    BY <1>4, <2>1 DEF AfterBody
  <2>2. Agree(f, m, Len(e))
    BY <2>1 DEF Agree
  <2> QED
    BY <2>2, SameAhead
<1>6. \A k \in Nat : m[k] \in Nat /\ (m[k] = 0 \/ m[k] > k)
  BY <1>1, <1>5
<1> QED
  BY <1>3, <1>4, <1>6

(* Readings that lead ahead.                                                *)
Readings(Tok, e, k) == {r \in [name : Seq(Tok), next : Nat, valid : BOOLEAN] :
                      r.next > k \/ r.next > Len(e)}

QuotedBody(e, f, k) ==
    IF k > Len(e) THEN Unreadable(e)
    ELSE IF e[k] = "doublequote" THEN [name |-> << >>, next |-> k + 1, valid |-> TRUE]
    ELSE IF e[k] = "backslash"
      THEN IF k < Len(e) /\ e[k + 1] \in {"backslash", "doublequote"}
             THEN Prefixed(<<e[k + 1]>>, f[k + 2])
             ELSE Unreadable(e)
    ELSE Prefixed(<<e[k]>>, f[k + 1])
QuotedSolves(e, f) == f = [k \in Nat |-> QuotedBody(e, f, k)]

LEMMA PrefixedReading ==
    ASSUME NEW Tok, NEW e, NEW k \in Nat, NEW tokens \in Seq(Tok), NEW r \in Readings(Tok, e, k)
    PROVE  Prefixed(tokens, r) \in Readings(Tok, e, k)
<1>1. r.name \in Seq(Tok) /\ r \in [name : Seq(Tok), next : Nat, valid : BOOLEAN]
  BY DEF Readings
<1>2. tokens \o r.name \in Seq(Tok)
  BY <1>1, ConcatProperties
<1>3. Prefixed(tokens, r) = [name |-> tokens \o r.name, next |-> r.next, valid |-> r.valid]
  BY DEF Prefixed
<1> DEFINE name == tokens \o r.name
<1> HIDE DEF name
<1> QED
  BY <1>1, <1>2, <1>3 DEF Readings, name

LEMMA AheadReading ==
    ASSUME NEW Tok, NEW e \in Seq(Tok), e[0] \in Tok, NEW k \in Nat, NEW j \in Nat, k <= j
    PROVE  Readings(Tok, e, j) \subseteq Readings(Tok, e, k)
  BY DEF Readings

LEMMA QuotedExists ==
    ASSUME NEW Tok, NEW e \in Seq(Tok), e[0] \in Tok
    PROVE  \E f : QuotedSolves(e, f) /\ \A k \in Nat : f[k] \in Readings(Tok, e, k)
<1> DEFINE V == [k \in Nat |-> Readings(Tok, e, k)]
           body == [x \in Chosen(V) \X Nat |-> QuotedBody(e, x[1], x[2])]
<1>1. \A k \in Nat : V[k] = Readings(Tok, e, k)
  OBVIOUS
<1> HIDE DEF V
<1>2. \A f \in Chosen(V), k \in Nat : body[<<f, k>>] = QuotedBody(e, f, k)
  OBVIOUS
<1> HIDE DEF body
<1>3. \A k \in Nat : Unreadable(e) \in Readings(Tok, e, k)
  BY DEF Unreadable, Readings
<1>4. LooksAhead(V, body, Len(e))
  <2>1. ASSUME NEW f \in Chosen(V), NEW k \in Nat PROVE QuotedBody(e, f, k) \in Readings(Tok, e, k)
    <3>1. \A j \in Nat : f[j] \in Readings(Tok, e, j)
      BY <1>1, ChoiceIs
    <3>2. f[k + 1] \in Readings(Tok, e, k) /\ f[k + 2] \in Readings(Tok, e, k)
      BY <3>1, AheadReading
    <3>3. [name |-> << >>, next |-> k + 1, valid |-> TRUE] \in Readings(Tok, e, k)
      BY DEF Readings
    <3>4. ~ (k > Len(e)) => <<e[k]>> \in Seq(Tok)
      OBVIOUS
    <3>5. k < Len(e) => <<e[k + 1]>> \in Seq(Tok)
      OBVIOUS
    <3> QED
      <4>1. ~ (k > Len(e)) => Prefixed(<<e[k]>>, f[k + 1]) \in Readings(Tok, e, k)
        BY <3>2, <3>4, PrefixedReading
      <4>2. k < Len(e) => Prefixed(<<e[k + 1]>>, f[k + 2]) \in Readings(Tok, e, k)
        BY <3>2, <3>5, PrefixedReading
      <4> QED
        BY <1>3, <3>3, <4>1, <4>2, Zenon DEF QuotedBody
  <2>2. ASSUME NEW f \in Chosen(V), NEW g \in Chosen(V), NEW k \in Nat,
               k > Len(e) \/ \A j \in Nat : j > k => f[j] = g[j]
        PROVE  QuotedBody(e, f, k) = QuotedBody(e, g, k)
    <3>1. k > Len(e) \/ (f[k + 1] = g[k + 1] /\ f[k + 2] = g[k + 2])
      BY <2>2
    <3> QED
      BY <3>1, Zenon DEF QuotedBody
  <2> QED
    BY <1>1, <1>2, <2>1, <2>2 DEF LooksAhead
<1>5. \E f : f \in Chosen(V)
  <2> DEFINE f == [k \in Nat |-> Unreadable(e)]
  <2>1. f \in Chosen(V)
    BY <1>1, <1>3, ChoiceIs
  <2> QED
    BY <2>1
<1>6. PICK f \in Chosen(V) : \A k \in Nat : f[k] = body[<<f, k>>]
  BY <1>4, <1>5, RecursionSolves
<1>7. f = [k \in Nat |-> f[k]] /\ \A k \in Nat : f[k] \in V[k]
  BY ChoiceIs
<1>8. QuotedSolves(e, f)
  BY <1>2, <1>6, <1>7 DEF QuotedSolves
<1> QED
  BY <1>1, <1>7, <1>8

(* What readQuotedAttribute computes.                                       *)
LEMMA QuotedReading ==
    ASSUME NEW Tok, NEW e \in Seq(Tok), e[0] \in Tok, NEW i \in Nat
    PROVE  \E f : /\ \A k \in Nat : f[k] = QuotedBody(e, f, k) /\ f[k] \in Readings(Tok, e, k)
                  /\ readQuotedAttribute(e, i) = f[i + 1]
<1> DEFINE m == CHOOSE m : QuotedSolves(e, m)
<1>1. PICK f : QuotedSolves(e, f) /\ \A k \in Nat : f[k] \in Readings(Tok, e, k)
  BY QuotedExists
<1>2. QuotedSolves(e, m)
  BY <1>1, Zenon
<1>3. readQuotedAttribute(e, i) = m[i + 1]
  BY Zenon DEF readQuotedAttribute, QuotedSolves, QuotedBody
<1> HIDE DEF m
<1>4. \A k \in Nat : m[k] = QuotedBody(e, m, k) /\ f[k] = QuotedBody(e, f, k)
  BY <1>1, <1>2 DEF QuotedSolves
<1>5. \A k \in Nat : f[k] = m[k]
  <2>1. ASSUME NEW k \in Nat, k > Len(e) \/ \A j \in Nat : j > k => f[j] = m[j]
        PROVE  f[k] = m[k]
    <3>1. k > Len(e) \/ (f[k + 1] = m[k + 1] /\ f[k + 2] = m[k + 2])
      BY <2>1
    <3>2. QuotedBody(e, f, k) = QuotedBody(e, m, k)
      BY <3>1, Zenon DEF QuotedBody
    <3> QED
      BY <1>4, <3>2
  <2>2. Agree(f, m, Len(e))
    BY <2>1 DEF Agree
  <2>3. Len(e) \in Nat
    OBVIOUS
  <2> QED
    BY <2>2, <2>3, SameAhead
<1>6. \A k \in Nat : m[k] \in Readings(Tok, e, k)
  BY <1>1, <1>5
<1> QED
  BY <1>3, <1>4, <1>6

LEMMA QuotedLeadsAhead ==
    ASSUME NEW Tok, NEW e \in Seq(Tok), e[0] \in Tok, NEW i \in Nat
    PROVE  readQuotedAttribute(e, i) \in Readings(Tok, e, i)
<1>1. PICK f : /\ \A k \in Nat : f[k] = QuotedBody(e, f, k) /\ f[k] \in Readings(Tok, e, k)
               /\ readQuotedAttribute(e, i) = f[i + 1]
  BY QuotedReading
<1> QED
  BY <1>1, AheadReading

-----------------------------------------------------------------------------
(* Readings that do not lead back.                                          *)
NameReadings(Tok, e, k) == {r \in [name : Seq(Tok), next : Nat, valid : BOOLEAN] :
                             r.next >= k \/ r.next > Len(e)}

NameBody(e, f, k) ==
    IF k > Len(e) \/ e[k] \in Terminators
      THEN [name |-> << >>, next |-> k, valid |-> TRUE]
    ELSE IF e[k] = "doublequote"
      THEN LET quoted == readQuotedAttribute(e, k)
           IN  IF quoted.valid THEN Prefixed(quoted.name, f[quoted.next])
                               ELSE Unreadable(e)
    ELSE Prefixed(<<e[k]>>, f[k + 1])
NameSolves(e, f) == f = [k \in Nat |-> NameBody(e, f, k)]

LEMMA PrefixedName ==
    ASSUME NEW Tok, NEW e, NEW k \in Nat, NEW tokens \in Seq(Tok), NEW r \in NameReadings(Tok, e, k)
    PROVE  Prefixed(tokens, r) \in NameReadings(Tok, e, k)
<1>1. r.name \in Seq(Tok) /\ r \in [name : Seq(Tok), next : Nat, valid : BOOLEAN]
  BY DEF NameReadings
<1>2. tokens \o r.name \in Seq(Tok)
  BY <1>1, ConcatProperties
<1>3. Prefixed(tokens, r) = [name |-> tokens \o r.name, next |-> r.next, valid |-> r.valid]
  BY DEF Prefixed
<1> DEFINE name == tokens \o r.name
<1> HIDE DEF name
<1> QED
  BY <1>1, <1>2, <1>3 DEF NameReadings, name

LEMMA AheadName ==
    ASSUME NEW Tok, NEW e, Len(e) \in Nat, NEW k \in Nat, NEW j \in Nat, k <= j \/ j > Len(e)
    PROVE  NameReadings(Tok, e, j) \subseteq NameReadings(Tok, e, k)
  BY DEF NameReadings

LEMMA NameExists ==
    ASSUME NEW Tok, NEW e \in Seq(Tok), e[0] \in Tok
    PROVE  \E f : NameSolves(e, f) /\ \A k \in Nat : f[k] \in NameReadings(Tok, e, k)
<1> DEFINE V == [k \in Nat |-> NameReadings(Tok, e, k)]
           body == [x \in Chosen(V) \X Nat |-> NameBody(e, x[1], x[2])]
           Q(k) == readQuotedAttribute(e, k)
<1>1. \A k \in Nat : V[k] = NameReadings(Tok, e, k)
  OBVIOUS
<1> HIDE DEF V
<1>2. \A f \in Chosen(V), k \in Nat : body[<<f, k>>] = NameBody(e, f, k)
  OBVIOUS
<1> HIDE DEF body
<1>3. \A k \in Nat : Unreadable(e) \in NameReadings(Tok, e, k)
  BY DEF Unreadable, NameReadings
<1>4. ASSUME NEW k \in Nat
      PROVE  Q(k).name \in Seq(Tok) /\ Q(k).next \in Nat /\ (Q(k).next > k \/ Q(k).next > Len(e))
  BY QuotedLeadsAhead DEF Readings
<1> HIDE DEF Q
<1>5. \A f, k : NameBody(e, f, k) = IF k > Len(e) \/ e[k] \in Terminators
                                      THEN [name |-> << >>, next |-> k, valid |-> TRUE]
                                    ELSE IF e[k] = "doublequote"
                                      THEN IF Q(k).valid THEN Prefixed(Q(k).name, f[Q(k).next])
                                                         ELSE Unreadable(e)
                                    ELSE Prefixed(<<e[k]>>, f[k + 1])
  BY Zenon DEF NameBody, Q
<1>6. LooksAhead(V, body, Len(e))
  <2>1. ASSUME NEW f \in Chosen(V), NEW k \in Nat PROVE NameBody(e, f, k) \in NameReadings(Tok, e, k)
    <3>1. \A j \in Nat : f[j] \in NameReadings(Tok, e, j)
      BY <1>1, ChoiceIs
    <3>2. f[k + 1] \in NameReadings(Tok, e, k) /\ f[Q(k).next] \in NameReadings(Tok, e, k)
      <4>1. k + 1 \in Nat /\ k <= k + 1 /\ (k <= Q(k).next \/ Q(k).next > Len(e))
        BY <1>4
      <4> QED
        BY <1>4, <3>1, <4>1, AheadName
    <3>3. [name |-> << >>, next |-> k, valid |-> TRUE] \in NameReadings(Tok, e, k)
      BY DEF NameReadings
    <3>4. ~ (k > Len(e)) => <<e[k]>> \in Seq(Tok)
      OBVIOUS
    <3>5. ~ (k > Len(e)) => Prefixed(<<e[k]>>, f[k + 1]) \in NameReadings(Tok, e, k)
      BY <3>2, <3>4, PrefixedName
    <3>6. Prefixed(Q(k).name, f[Q(k).next]) \in NameReadings(Tok, e, k)
      BY <1>4, <3>2, PrefixedName
    <3> QED
      BY <1>3, <1>5, <3>3, <3>5, <3>6, Zenon
  <2>2. ASSUME NEW f \in Chosen(V), NEW g \in Chosen(V), NEW k \in Nat,
               k > Len(e) \/ \A j \in Nat : j > k => f[j] = g[j]
        PROVE  NameBody(e, f, k) = NameBody(e, g, k)
    <3>1. k > Len(e) \/ (f[k + 1] = g[k + 1] /\ f[Q(k).next] = g[Q(k).next])
      BY <1>4, <2>2
    <3> QED
      BY <1>5, <3>1, Zenon
  <2> QED
    BY <1>1, <1>2, <2>1, <2>2 DEF LooksAhead
<1>7. \E f : f \in Chosen(V)
  <2> DEFINE f == [k \in Nat |-> Unreadable(e)]
  <2>1. f \in Chosen(V)
    BY <1>1, <1>3, ChoiceIs
  <2> QED
    BY <2>1
<1>8. PICK f \in Chosen(V) : \A k \in Nat : f[k] = body[<<f, k>>]
  BY <1>6, <1>7, RecursionSolves
<1>9. f = [k \in Nat |-> f[k]] /\ \A k \in Nat : f[k] \in V[k]
  BY ChoiceIs
<1>10. NameSolves(e, f)
  BY <1>2, <1>8, <1>9 DEF NameSolves
<1> QED
  BY <1>1, <1>9, <1>10

(* What readAttribute computes.                                             *)
LEMMA NameReading ==
    ASSUME NEW Tok, NEW e \in Seq(Tok), e[0] \in Tok, NEW i \in Nat
    PROVE  \E f : /\ \A k \in Nat : f[k] = NameBody(e, f, k) /\ f[k] \in NameReadings(Tok, e, k)
                  /\ readAttribute(e, i) = f[i]
<1> DEFINE m == CHOOSE m : NameSolves(e, m)
           Q(k) == readQuotedAttribute(e, k)
<1>1. PICK f : NameSolves(e, f) /\ \A k \in Nat : f[k] \in NameReadings(Tok, e, k)
  BY NameExists
<1>2. NameSolves(e, m)
  BY <1>1, Zenon
<1>3. readAttribute(e, i) = m[i]
  BY Zenon DEF readAttribute, NameSolves, NameBody
<1> HIDE DEF m
<1>4. \A k \in Nat : m[k] = NameBody(e, m, k) /\ f[k] = NameBody(e, f, k)
  BY <1>1, <1>2 DEF NameSolves
<1>5. \A k \in Nat : f[k] = m[k]
  <2>1. ASSUME NEW k \in Nat, k > Len(e) \/ \A j \in Nat : j > k => f[j] = m[j]
        PROVE  f[k] = m[k]
    <3>1. Q(k).next \in Nat /\ (Q(k).next > k \/ Q(k).next > Len(e))
      BY QuotedLeadsAhead DEF Readings
    <3> HIDE DEF Q
    <3>2. k > Len(e) \/ (f[k + 1] = m[k + 1] /\ f[Q(k).next] = m[Q(k).next])
      BY <2>1, <3>1
    <3>3. NameBody(e, f, k) = NameBody(e, m, k)
      BY <3>2, Zenon DEF NameBody, Q
    <3> QED
      BY <1>4, <3>3
  <2>2. Agree(f, m, Len(e))
    BY <2>1 DEF Agree
  <2>3. Len(e) \in Nat
    OBVIOUS
  <2> QED
    BY <2>2, <2>3, SameAhead
<1>6. \A k \in Nat : m[k] \in NameReadings(Tok, e, k)
  BY <1>1, <1>5
<1> QED
  BY <1>3, <1>4, <1>6

-----------------------------------------------------------------------------
(* What is found from a position on.                                        *)
Findings(Tok) == [references : SUBSET [scope : Scopes, name : Seq(Tok)],
                unresolved : SUBSET {"unterminated", "invalid", "templated", "scope", "unscoped", "template"}]

ScanBody(e, f, i) ==
    IF i > Len(e) THEN Nothing
    ELSE IF e[i] \in Quotes
      THEN LET next == skipQuoted(e, i)
           IN  IF next = 0 THEN Reason("unterminated", Nothing) ELSE f[next]
    ELSE IF e[i] \in Scopes /\ tokenBoundaryBefore(e, i)
      THEN LET a == readAttribute(e, i + 1)
           IN  IF ~ a.valid \/ a.name = << >> THEN Reason("invalid", f[a.next])
               ELSE IF containsTemplate(a.name) THEN Reason("templated", f[a.next])
               ELSE Found(e[i], a.name, f[a.next])
    ELSE IF e[i] \in UnsupportedScopes /\ tokenBoundaryBefore(e, i)
      THEN Reason("scope", f[readAttribute(e, i + 1).next])
    ELSE IF e[i] = "." /\ tokenBoundaryBefore(e, i)
      THEN Reason("unscoped", f[readAttribute(e, i + 1).next])
    ELSE IF e[i] = "$" THEN Reason("template", f[i + 1])
    ELSE f[i + 1]
ScanSolves(e, f) == f = [k \in Nat |-> ScanBody(e, f, k)]

LEMMA NothingIsFound == ASSUME NEW Tok PROVE Nothing \in Findings(Tok)
  BY DEF Nothing, Findings

LEMMA ReasonIsFound ==
    ASSUME NEW Tok, NEW rest \in Findings(Tok),
           NEW why \in {"unterminated", "invalid", "templated", "scope", "unscoped", "template"}
    PROVE  Reason(why, rest) \in Findings(Tok)
  BY DEF Reason, Findings

LEMMA AttributeIsFound ==
    ASSUME NEW Tok, NEW rest \in Findings(Tok), NEW scope \in Scopes, NEW name \in Seq(Tok)
    PROVE  Found(scope, name, rest) \in Findings(Tok)
<1> DEFINE new == [scope |-> scope, name |-> name]
<1>1. new \in [scope : Scopes, name : Seq(Tok)]
  OBVIOUS
<1>2. Found(scope, name, rest) = [rest EXCEPT !.references = rest.references \cup {new}]
  BY DEF Found
<1> HIDE DEF new
<1> QED
  BY <1>1, <1>2 DEF Findings

(* Where the scanner goes on.                                               *)
LEMMA LeadsAhead ==
    ASSUME NEW Tok, NEW e \in Seq(Tok), e[0] \in Tok, NEW i \in Nat
    PROVE  /\ skipQuoted(e, i) \in Nat /\ (skipQuoted(e, i) = 0 \/ skipQuoted(e, i) > i)
           /\ readAttribute(e, i + 1).next \in Nat
           /\ i > Len(e) \/ readAttribute(e, i + 1).next > i
           /\ readAttribute(e, i + 1).name \in Seq(Tok)
<1>1. Len(e) \in Nat
  OBVIOUS
<1>2. PICK f : /\ \A k \in Nat : f[k] \in Nat /\ (f[k] = 0 \/ f[k] > k)
               /\ skipQuoted(e, i) = f[i + 1]
  BY <1>1, SkipSolves
<1>3. PICK g : /\ \A k \in Nat : g[k] \in NameReadings(Tok, e, k)
               /\ readAttribute(e, i + 1) = g[i + 1]
  <2>1. i + 1 \in Nat
    OBVIOUS
  <2> QED
    BY <2>1, NameReading
<1>4. skipQuoted(e, i) \in Nat /\ (skipQuoted(e, i) = 0 \/ skipQuoted(e, i) > i)
  BY <1>2
<1>5. g[i + 1] \in NameReadings(Tok, e, i + 1)
  BY <1>3
<1> QED
  BY <1>1, <1>3, <1>4, <1>5 DEF NameReadings

LEMMA ScanExists ==
    ASSUME NEW Tok, NEW e \in Seq(Tok), e[0] \in Tok
    PROVE  \E f : ScanSolves(e, f) /\ \A k \in Nat : f[k] \in Findings(Tok)
<1> DEFINE V == [k \in Nat |-> Findings(Tok)]
           body == [x \in Chosen(V) \X Nat |-> ScanBody(e, x[1], x[2])]
<1>1. \A k \in Nat : V[k] = Findings(Tok)
  OBVIOUS
<1> HIDE DEF V
<1>2. \A f \in Chosen(V), k \in Nat : body[<<f, k>>] = ScanBody(e, f, k)
  OBVIOUS
<1> HIDE DEF body
<1>3. LooksAhead(V, body, Len(e))
  <2>1. ASSUME NEW f \in Chosen(V), NEW k \in Nat PROVE ScanBody(e, f, k) \in Findings(Tok)
    <3> DEFINE s == skipQuoted(e, k)
               a == readAttribute(e, k + 1)
    <3>1. \A j \in Nat : f[j] \in Findings(Tok)
      BY <1>1, ChoiceIs
    <3>2. s \in Nat /\ a.next \in Nat /\ a.name \in Seq(Tok)
      BY LeadsAhead
    <3> HIDE DEF s, a
    <3>3. f[s] \in Findings(Tok) /\ f[a.next] \in Findings(Tok) /\ f[k + 1] \in Findings(Tok)
      BY <3>1, <3>2
    <3>4. Reason("unterminated", Nothing) \in Findings(Tok)
      BY NothingIsFound, ReasonIsFound
    <3>5. /\ Reason("invalid", f[a.next]) \in Findings(Tok)
          /\ Reason("templated", f[a.next]) \in Findings(Tok)
          /\ Reason("scope", f[a.next]) \in Findings(Tok)
          /\ Reason("unscoped", f[a.next]) \in Findings(Tok)
          /\ Reason("template", f[k + 1]) \in Findings(Tok)
      BY <3>3, ReasonIsFound
    <3>6. e[k] \in Scopes => Found(e[k], a.name, f[a.next]) \in Findings(Tok)
      BY <3>2, <3>3, AttributeIsFound
    <3> QED
      BY <3>3, <3>4, <3>5, <3>6, NothingIsFound, Zenon DEF ScanBody, s, a
  <2>2. ASSUME NEW f \in Chosen(V), NEW g \in Chosen(V), NEW k \in Nat,
               k > Len(e) \/ \A j \in Nat : j > k => f[j] = g[j]
        PROVE  ScanBody(e, f, k) = ScanBody(e, g, k)
    <3> DEFINE s == skipQuoted(e, k)
               a == readAttribute(e, k + 1)
    <3>1. /\ s \in Nat /\ (s = 0 \/ s > k)
          /\ a.next \in Nat /\ (k > Len(e) \/ a.next > k)
      BY LeadsAhead
    <3> HIDE DEF s, a
    <3>2. k > Len(e) \/ ((s = 0 \/ f[s] = g[s]) /\ f[a.next] = g[a.next] /\ f[k + 1] = g[k + 1])
      BY <2>2, <3>1
    <3> QED
      BY <3>2, Zenon DEF ScanBody, s, a
  <2> QED
    BY <1>1, <1>2, <2>1, <2>2 DEF LooksAhead
<1>4. \E f : f \in Chosen(V)
  <2> DEFINE f == [k \in Nat |-> Nothing]
  <2>1. f \in Chosen(V)
    BY <1>1, NothingIsFound, ChoiceIs
  <2> QED
    BY <2>1
<1>5. PICK f \in Chosen(V) : \A k \in Nat : f[k] = body[<<f, k>>]
  <2>1. Len(e) \in Nat
    OBVIOUS
  <2> QED
    BY <1>3, <1>4, <2>1, RecursionSolves
<1>6. f = [k \in Nat |-> f[k]] /\ \A k \in Nat : f[k] \in V[k]
  BY ChoiceIs
<1>7. ScanSolves(e, f)
  BY <1>2, <1>5, <1>6 DEF ScanSolves
<1> QED
  BY <1>1, <1>6, <1>7

(* What Analyze computes.                                                   *)
LEMMA Scanning ==
    ASSUME NEW Tok, NEW e \in Seq(Tok), e[0] \in Tok
    PROVE  \E f : /\ \A k \in Nat : f[k] = ScanBody(e, f, k) /\ f[k] \in Findings(Tok)
                  /\ Analyze(e) = f[1]
<1> DEFINE m == CHOOSE m : ScanSolves(e, m)
<1>1. PICK f : ScanSolves(e, f) /\ \A k \in Nat : f[k] \in Findings(Tok)
  BY ScanExists
<1>2. ScanSolves(e, m)
  BY <1>1, Zenon
<1>3. Analyze(e) = m[1]
  BY Zenon DEF Analyze, ScanSolves, ScanBody
<1> HIDE DEF m
<1>4. \A k \in Nat : m[k] = ScanBody(e, m, k) /\ f[k] = ScanBody(e, f, k)
  BY <1>1, <1>2 DEF ScanSolves
<1>5. \A k \in Nat : f[k] = m[k]
  <2>1. ASSUME NEW k \in Nat, k > Len(e) \/ \A j \in Nat : j > k => f[j] = m[j]
        PROVE  f[k] = m[k]
    <3> DEFINE s == skipQuoted(e, k)
               a == readAttribute(e, k + 1)
    <3>1. /\ s \in Nat /\ (s = 0 \/ s > k)
          /\ a.next \in Nat /\ (k > Len(e) \/ a.next > k)
      BY LeadsAhead
    <3> HIDE DEF s, a
    <3>2. k > Len(e) \/ ((s = 0 \/ f[s] = m[s]) /\ f[a.next] = m[a.next] /\ f[k + 1] = m[k + 1])
      BY <2>1, <3>1
    <3>3. ScanBody(e, f, k) = ScanBody(e, m, k)
      BY <3>2, Zenon DEF ScanBody, s, a
    <3> QED
      BY <1>4, <3>3
  <2>2. Agree(f, m, Len(e))
    BY <2>1 DEF Agree
  <2>3. Len(e) \in Nat
    OBVIOUS
  <2> QED
    BY <2>2, <2>3, SameAhead
<1>6. \A k \in Nat : m[k] \in Findings(Tok)
  BY <1>1, <1>5
<1> QED
  BY <1>3, <1>4, <1>6

-----------------------------------------------------------------------------
(* What Quoted and Expression write: the end of the text from each position.*)
Token == STRING \cup Quotes \cup Scopes \cup UnsupportedScopes \cup {".", "=", "backslash", "doublequote", "backquote"}
Texts == Seq(Token)

QuotedRest(name, f, k) == IF k >= Len(name) THEN <<"doublequote">> ELSE Escaped(name[k + 1]) \o f[k + 1]
QuotedIsWritten(name, f) == f = [k \in Nat |-> QuotedRest(name, f, k)]

LEMMA Short ==
    ASSUME NEW S
    PROVE  << >> \in Seq(S) /\ (\A x \in S : <<x>> \in Seq(S)) /\ (\A x, y \in S : <<x, y>> \in Seq(S))
  OBVIOUS

LEMMA MoreSequences == ASSUME NEW S, NEW Tokens, S \subseteq Tokens PROVE Seq(S) \subseteq Seq(Tokens)
<1> SUFFICES ASSUME NEW s \in Seq(S) PROVE s \in Seq(Tokens)
  OBVIOUS
<1>1. Len(s) \in Nat /\ s \in [1 .. Len(s) -> S]
  OBVIOUS
<1>2. s \in [1 .. Len(s) -> Tokens]
  BY <1>1
<1> QED
  BY <1>1, <1>2, SeqDef

LEMMA TextIs ==
    /\ "doublequote" \in Token /\ "backslash" \in Token /\ "backquote" \in Token /\ "=" \in Token
    /\ Scopes \cup UnsupportedScopes \cup {"."} \subseteq Token
    /\ Seq(STRING) \subseteq Texts
<1>1. STRING \subseteq Token
  BY DEF Token
<1>2. "doublequote" \in Token /\ "backslash" \in Token /\ "backquote" \in Token /\ "=" \in Token
  BY DEF Token
<1>3. Scopes \cup UnsupportedScopes \cup {"."} \subseteq Token
  BY DEF Token
<1>4. Seq(STRING) \subseteq Texts
  BY <1>1, MoreSequences DEF Texts
<1> QED
  BY <1>2, <1>3, <1>4

LEMMA ShortTexts ==
    /\ << >> \in Texts /\ <<"doublequote">> \in Texts /\ <<"backquote">> \in Texts /\ <<"=">> \in Texts
    /\ \A t \in Token : <<t>> \in Texts /\ <<"backslash", t>> \in Texts
<1>1. \A x, y \in Token : << >> \in Texts /\ <<x>> \in Texts /\ <<x, y>> \in Texts
  BY Short DEF Texts
<1> QED
  BY <1>1, TextIs, Zenon

LEMMA LongTexts == ASSUME NEW s \in Texts, NEW t \in Texts PROVE s \o t \in Texts
  BY ConcatProperties DEF Texts

LEMMA EscapedIs == ASSUME NEW t \in Token PROVE Escaped(t) \in Texts
<1>1. <<t>> \in Texts /\ <<"backslash", t>> \in Texts
  BY ShortTexts, Zenon
<1> QED
  BY <1>1, Zenon DEF Escaped

LEMMA QuotedIs ==
    ASSUME NEW name \in Texts
    PROVE  \E f : /\ \A k \in Nat : f[k] \in Texts /\ f[k] = QuotedRest(name, f, k)
                  /\ Quoted(name) = <<"doublequote">> \o f[0]
<1> DEFINE V == [k \in Nat |-> Texts]
           body == [x \in Chosen(V) \X Nat |-> QuotedRest(name, x[1], x[2])]
           m == CHOOSE m : QuotedIsWritten(name, m)
<1>1. \A k \in Nat : V[k] = Texts
  OBVIOUS
<1> HIDE DEF V
<1>2. \A f \in Chosen(V), k \in Nat : body[<<f, k>>] = QuotedRest(name, f, k)
  OBVIOUS
<1> HIDE DEF body
<1>3. LooksAhead(V, body, Len(name))
  <2>1. ASSUME NEW f \in Chosen(V), NEW k \in Nat PROVE QuotedRest(name, f, k) \in Texts
    <3>1. k + 1 \in Nat /\ f[k + 1] \in Texts
      BY <1>1, ChoiceIs
    <3>2. ~ (k >= Len(name)) => name[k + 1] \in Token
      BY DEF Texts
    <3>3. ~ (k >= Len(name)) => Escaped(name[k + 1]) \in Texts
      BY <3>2, EscapedIs
    <3>4. ~ (k >= Len(name)) => Escaped(name[k + 1]) \o f[k + 1] \in Texts
      BY <3>1, <3>3, LongTexts
    <3> QED
      BY <3>4, ShortTexts, Zenon DEF QuotedRest
  <2>2. ASSUME NEW f \in Chosen(V), NEW g \in Chosen(V), NEW k \in Nat,
               k > Len(name) \/ \A j \in Nat : j > k => f[j] = g[j]
        PROVE  QuotedRest(name, f, k) = QuotedRest(name, g, k)
    <3>1. k >= Len(name) \/ f[k + 1] = g[k + 1]
      BY <2>2
    <3> QED
      BY <3>1, Zenon DEF QuotedRest
  <2> QED
    BY <1>1, <1>2, <2>1, <2>2 DEF LooksAhead
<1>4. \E f : f \in Chosen(V)
  <2> DEFINE f == [k \in Nat |-> << >>]
  <2>1. \A k \in Nat : f[k] \in V[k]
    BY <1>1, ShortTexts
  <2>2. f \in Chosen(V)
    BY <2>1, ChoiceIs
  <2> QED
    BY <2>2
<1>5. PICK f \in Chosen(V) : \A k \in Nat : f[k] = body[<<f, k>>]
  <2>1. Len(name) \in Nat
    BY DEF Texts
  <2> QED
    BY <1>3, <1>4, <2>1, RecursionSolves
<1>6. f = [k \in Nat |-> f[k]] /\ \A k \in Nat : f[k] \in V[k]
  BY ChoiceIs
<1>7. QuotedIsWritten(name, f)
  BY <1>2, <1>5, <1>6 DEF QuotedIsWritten
<1>8. QuotedIsWritten(name, m)
  BY <1>7, Zenon
<1>9. Quoted(name) = <<"doublequote">> \o m[0]
  BY Zenon DEF Quoted, QuotedIsWritten, QuotedRest
<1> HIDE DEF m
<1>10. \A k \in Nat : m[k] = QuotedRest(name, m, k) /\ f[k] = QuotedRest(name, f, k)
  BY <1>7, <1>8 DEF QuotedIsWritten
<1>11. \A k \in Nat : f[k] = m[k]
  <2>1. ASSUME NEW k \in Nat, k > Len(name) \/ \A j \in Nat : j > k => f[j] = m[j]
        PROVE  f[k] = m[k]
    <3>1. k >= Len(name) \/ f[k + 1] = m[k + 1]
      BY <2>1
    <3>2. QuotedRest(name, f, k) = QuotedRest(name, m, k)
      BY <3>1, Zenon DEF QuotedRest
    <3> QED
      BY <1>10, <3>2
  <2>2. Agree(f, m, Len(name))
    BY <2>1 DEF Agree
  <2>3. Len(name) \in Nat
    BY DEF Texts
  <2> QED
    BY <2>2, <2>3, SameAhead
<1>12. \A k \in Nat : m[k] \in Texts
  BY <1>1, <1>6, <1>11
<1> QED
  BY <1>9, <1>10, <1>12

LEMMA PartTextIs == ASSUME NEW p \in Part PROVE PartText(p) \in Texts
<1>1. /\ p.name \in Texts /\ p.scope \in Token
      /\ p.kind \in {"attribute", "quotedAttribute", "string", "rawString", "word"}
  BY TextIs DEF Part
<1>2. Quoted(p.name) \in Texts
  <2>1. PICK f : f[0] \in Texts /\ Quoted(p.name) = <<"doublequote">> \o f[0]
    BY <1>1, QuotedIs
  <2>2. <<"doublequote">> \in Texts
    BY ShortTexts, Zenon
  <2> QED
    BY <2>1, <2>2, LongTexts
<1>3. <<p.scope>> \in Texts /\ <<"backquote">> \in Texts
  BY <1>1, ShortTexts, Zenon
<1>4. /\ <<p.scope>> \o p.name \in Texts
      /\ <<p.scope>> \o Quoted(p.name) \in Texts
      /\ <<"backquote">> \o p.name \in Texts
  BY <1>1, <1>2, <1>3, LongTexts
<1>5. (<<"backquote">> \o p.name) \o <<"backquote">> \in Texts
  BY <1>3, <1>4, LongTexts
<1> QED
  BY <1>1, <1>2, <1>4, <1>5, Zenon DEF PartText

Operator(k) == IF k = 0 THEN << >> ELSE <<"=">>
ExpressionRest(parts, f, k) ==
    IF k >= Len(parts) THEN << >> ELSE Operator(k) \o PartText(parts[k + 1]) \o f[k + 1]
ExpressionIsWritten(parts, f) == f = [k \in Nat |-> ExpressionRest(parts, f, k)]

LEMMA ExpressionIs ==
    ASSUME NEW parts \in Seq(Part)
    PROVE  \E f : /\ \A k \in Nat : f[k] \in Texts /\ f[k] = ExpressionRest(parts, f, k)
                  /\ Expression(parts) = f[0]
<1> DEFINE V == [k \in Nat |-> Texts]
           body == [x \in Chosen(V) \X Nat |-> ExpressionRest(parts, x[1], x[2])]
           m == CHOOSE m : ExpressionIsWritten(parts, m)
<1>1. \A k \in Nat : V[k] = Texts
  OBVIOUS
<1> HIDE DEF V
<1>2. \A f \in Chosen(V), k \in Nat : body[<<f, k>>] = ExpressionRest(parts, f, k)
  OBVIOUS
<1> HIDE DEF body
<1>3. LooksAhead(V, body, Len(parts))
  <2>1. ASSUME NEW f \in Chosen(V), NEW k \in Nat PROVE ExpressionRest(parts, f, k) \in Texts
    <3>1. k + 1 \in Nat /\ f[k + 1] \in Texts
      BY <1>1, ChoiceIs
    <3>2. ~ (k >= Len(parts)) => parts[k + 1] \in Part
      OBVIOUS
    <3>3. ~ (k >= Len(parts)) => PartText(parts[k + 1]) \in Texts
      BY <3>2, PartTextIs
    <3>4. Operator(k) \in Texts /\ << >> \in Texts
      BY ShortTexts, Zenon DEF Operator
    <3>5. ~ (k >= Len(parts)) => Operator(k) \o PartText(parts[k + 1]) \in Texts
      BY <3>3, <3>4, LongTexts
    <3>6. ~ (k >= Len(parts)) => Operator(k) \o PartText(parts[k + 1]) \o f[k + 1] \in Texts
      BY <3>1, <3>5, LongTexts
    <3> QED
      BY <3>4, <3>6, Zenon DEF ExpressionRest
  <2>2. ASSUME NEW f \in Chosen(V), NEW g \in Chosen(V), NEW k \in Nat,
               k > Len(parts) \/ \A j \in Nat : j > k => f[j] = g[j]
        PROVE  ExpressionRest(parts, f, k) = ExpressionRest(parts, g, k)
    <3>1. k >= Len(parts) \/ f[k + 1] = g[k + 1]
      BY <2>2
    <3> QED
      BY <3>1, Zenon DEF ExpressionRest
  <2> QED
    BY <1>1, <1>2, <2>1, <2>2 DEF LooksAhead
<1>4. \E f : f \in Chosen(V)
  <2> DEFINE f == [k \in Nat |-> << >>]
  <2>1. \A k \in Nat : f[k] \in V[k]
    BY <1>1, ShortTexts
  <2>2. f \in Chosen(V)
    BY <2>1, ChoiceIs
  <2> QED
    BY <2>2
<1>5. PICK f \in Chosen(V) : \A k \in Nat : f[k] = body[<<f, k>>]
  <2>1. Len(parts) \in Nat
    OBVIOUS
  <2> QED
    BY <1>3, <1>4, <2>1, RecursionSolves
<1>6. f = [k \in Nat |-> f[k]] /\ \A k \in Nat : f[k] \in V[k]
  BY ChoiceIs
<1>7. ExpressionIsWritten(parts, f)
  BY <1>2, <1>5, <1>6 DEF ExpressionIsWritten
<1>8. ExpressionIsWritten(parts, m)
  BY <1>7, Zenon
<1>9. Expression(parts) = m[0]
  BY Zenon DEF Expression, ExpressionIsWritten, ExpressionRest, Operator
<1> HIDE DEF m
<1>10. \A k \in Nat : m[k] = ExpressionRest(parts, m, k) /\ f[k] = ExpressionRest(parts, f, k)
  BY <1>7, <1>8 DEF ExpressionIsWritten
<1>11. \A k \in Nat : f[k] = m[k]
  <2>1. ASSUME NEW k \in Nat, k > Len(parts) \/ \A j \in Nat : j > k => f[j] = m[j]
        PROVE  f[k] = m[k]
    <3>1. k >= Len(parts) \/ f[k + 1] = m[k + 1]
      BY <2>1
    <3>2. ExpressionRest(parts, f, k) = ExpressionRest(parts, m, k)
      BY <3>1, Zenon DEF ExpressionRest
    <3> QED
      BY <1>10, <3>2
  <2>2. Agree(f, m, Len(parts))
    BY <2>1 DEF Agree
  <2>3. Len(parts) \in Nat
    OBVIOUS
  <2> QED
    BY <2>2, <2>3, SameAhead
<1>12. \A k \in Nat : m[k] \in Texts
  BY <1>1, <1>6, <1>11
<1> QED
  BY <1>9, <1>10, <1>12

-----------------------------------------------------------------------------
(* Reading what was written                                                 *)

LEMMA Backwards ==
    ASSUME NEW n \in Nat, NEW S, n \in S, \A k \in 0 .. n - 1 : k + 1 \in S => k \in S
    PROVE  \A k \in 0 .. n : k \in S
<1> DEFINE failing == {m \in 0 .. n : n - m \notin S}
<1> SUFFICES ASSUME failing # {} PROVE FALSE
  <2>1. ASSUME failing = {}, NEW k \in 0 .. n PROVE k \in S
    <3>1. PICK m \in 0 .. n : n - m = k
      <4>1. n - k \in 0 .. n /\ n - (n - k) = k
        OBVIOUS
      <4> QED
        BY <4>1
    <3>2. m \notin failing
      BY <2>1
    <3> QED
      BY <3>1, <3>2
  <2> QED
    BY <2>1
<1>1. failing \in SUBSET Nat
  OBVIOUS
<1>2. PICK m \in failing : \A j \in failing : m <= j
  <2> HIDE DEF failing
  <2> QED
    BY <1>1, LeastOfNaturals
<1>3. m \in 0 .. n /\ m # 0
  OBVIOUS
<1>4. m - 1 \in 0 .. n /\ m - 1 \notin failing
  BY <1>2, <1>3
<1>5. n - (m - 1) \in S
  BY <1>4
<1>6. (n - m) + 1 = n - (m - 1) /\ n - m \in 0 .. n - 1
  BY <1>3
<1>7. n - m \in S
  BY <1>5, <1>6
<1> QED
  BY <1>7

(* The text t stands at position i of e.                                    *)
At(e, i, t) == /\ i + Len(t) <= Len(e) + 1
               /\ \A j \in 1 .. Len(t) : e[(i + j) - 1] = t[j]

LEMMA AtParts ==
    ASSUME NEW e, Len(e) \in Nat, NEW i \in Nat, NEW s \in Texts, NEW t \in Texts, At(e, i, s \o t)
    PROVE  /\ At(e, i, s) /\ At(e, i + Len(s), t)
           /\ Len(s \o t) = Len(s) + Len(t)
<1>1. Len(s) \in Nat /\ Len(t) \in Nat
  BY DEF Texts
<1>2. /\ Len(s \o t) = Len(s) + Len(t)
      /\ \A j \in 1 .. Len(s) + Len(t) : (s \o t)[j] = IF j <= Len(s) THEN s[j] ELSE t[j - Len(s)]
  BY ConcatProperties DEF Texts
<1> DEFINE st == s \o t
<1>3. /\ i + Len(st) <= Len(e) + 1
      /\ \A j \in 1 .. Len(st) : e[(i + j) - 1] = st[j]
  BY DEF At
<1>4. Len(st) = Len(s) + Len(t)
  BY <1>2
<1>5. /\ \A j \in 1 .. Len(s) : st[j] = s[j]
      /\ \A j \in 1 .. Len(t) : st[Len(s) + j] = t[j]
  BY <1>1, <1>2
<1> HIDE DEF st
<1>6. At(e, i, s)
  BY <1>1, <1>3, <1>4, <1>5 DEF At
<1>7. ASSUME NEW j \in 1 .. Len(t) PROVE e[((i + Len(s)) + j) - 1] = t[j]
  <2>1. Len(s) + j \in 1 .. Len(st) /\ (i + (Len(s) + j)) - 1 = ((i + Len(s)) + j) - 1
    BY <1>1, <1>4
  <2> QED
    BY <1>3, <1>5, <2>1
<1>8. At(e, i + Len(s), t)
  BY <1>1, <1>3, <1>4, <1>7 DEF At
<1> QED
  BY <1>2, <1>6, <1>8

LEMMA AtToken ==
    ASSUME NEW e, Len(e) \in Nat, NEW i \in Nat, NEW x, At(e, i, <<x>>)
    PROVE  e[i] = x /\ ~ (i > Len(e)) /\ Len(<<x>>) = 1
<1>1. Len(<<x>>) = 1 /\ <<x>>[1] = x
  OBVIOUS
<1> DEFINE s == <<x>>
<1>2. i + Len(s) <= Len(e) + 1 /\ \A j \in 1 .. Len(s) : e[(i + j) - 1] = s[j]
  BY DEF At
<1> HIDE DEF s
<1>3. Len(s) = 1 /\ s[1] = x
  BY <1>1 DEF s
<1>4. e[(i + 1) - 1] = x /\ (i + 1) - 1 = i
  BY <1>2, <1>3
<1> QED
  BY <1>1, <1>2, <1>3, <1>4

LedBy(x, t) == <<x>> \o t

LEMMA AtFirst ==
    ASSUME NEW e, Len(e) \in Nat, NEW i \in Nat, NEW x \in Token, NEW t \in Texts, At(e, i, LedBy(x, t))
    PROVE  e[i] = x /\ ~ (i > Len(e)) /\ At(e, i + 1, t) /\ Len(LedBy(x, t)) = 1 + Len(t)
<1>1. PICK w \in Texts : w = <<x>>
  BY Short DEF Texts
<1>2. LedBy(x, t) = w \o t
  BY <1>1 DEF LedBy
<1>3. At(e, i, w) /\ At(e, i + Len(w), t) /\ Len(w \o t) = Len(w) + Len(t)
  <2>1. At(e, i, w \o t)
    BY <1>2, Zenon
  <2> QED
    BY <2>1, AtParts
<1>4. At(e, i, <<x>>) /\ Len(w) = 1
  BY <1>1, <1>3
<1>5. e[i] = x /\ ~ (i > Len(e))
  BY <1>4, AtToken
<1> QED
  BY <1>2, <1>3, <1>4, <1>5, Zenon

LEMMA TwoTokens ==
    ASSUME NEW x \in Token, NEW y \in Token, NEW t \in Texts
    PROVE  <<x, y>> \o t = LedBy(x, LedBy(y, t)) /\ LedBy(y, t) \in Texts
<1>1. PICK w \in Seq(Token), u \in Seq(Token) : w = <<x>> /\ u = <<y>>
  BY Short
<1>2. t \in Seq(Token)
  BY DEF Texts
<1>3. <<x, y>> = <<x>> \o <<y>>
  <2>1. <<x, y>> = Append(<<x>>, y)
    OBVIOUS
  <2>2. <<x>> \o <<y>> = Append(<<x>>, y)
    OBVIOUS
  <2> QED
    BY <2>1, <2>2, Zenon
<1>4. (w \o u) \o t = w \o (u \o t)
  BY <1>2, ConcatAssociative
<1>5. u \o t \in Texts
  BY <1>2, ConcatProperties DEF Texts
<1> QED
  BY <1>1, <1>3, <1>4, <1>5, Zenon DEF LedBy

(* What follows the first k tokens of a name.                               *)
After(name, k) == SubSeq(name, k + 1, Len(name))

LEMMA AfterTokens ==
    ASSUME NEW name \in Texts
    PROVE  /\ After(name, 0) = name /\ After(name, Len(name)) = << >>
           /\ \A k \in 0 .. Len(name) - 1 : <<name[k + 1]>> \o After(name, k + 1) = After(name, k)
<1>1. name \in Seq(Token) /\ Len(name) \in Nat
  BY DEF Texts
<1>2. After(name, 0) = name
  BY <1>1 DEF After
<1>3. After(name, Len(name)) = << >>
  BY <1>1 DEF After
<1>4. ASSUME NEW k \in 0 .. Len(name) - 1
      PROVE  <<name[k + 1]>> \o After(name, k + 1) = After(name, k)
  BY <1>1 DEF After
<1> QED
  BY <1>2, <1>3, <1>4

(* The end of what is read: the end of the text or an operator.             *)
Ends(e, j) == j = Len(e) + 1 \/ (j <= Len(e) /\ e[j] = "=")

NameRead(name, next) == [name |-> name, next |-> next, valid |-> TRUE]

LEMMA PrefixedIs ==
    ASSUME NEW tokens, NEW name, NEW next
    PROVE  Prefixed(tokens, NameRead(name, next)) = NameRead(tokens \o name, next)
<1>1. NameRead(name, next).name = name /\ NameRead(name, next).next = next
  BY DEF NameRead
<1>2. NameRead(name, next).valid = TRUE
  BY Zenon DEF NameRead
<1> QED
  BY <1>1, <1>2, Zenon DEF Prefixed, NameRead

(* A name is read up to its end.                                            *)
IsPlain(name) == \A k \in 1 .. Len(name) : name[k] \notin Terminators \cup {"doublequote"}

LEMMA ReadsPlain ==
    ASSUME NEW Tok, NEW e \in Seq(Tok), e[0] \in Tok, NEW i \in Nat, i > 0, NEW name \in Texts,
           IsPlain(name), At(e, i, name), Ends(e, i + Len(name))
    PROVE  readAttribute(e, i) = NameRead(name, i + Len(name))
<1>1. Len(name) \in Nat /\ Len(e) \in Nat
  BY DEF Texts
<1>2. PICK n \in Nat : n = Len(name)
  BY <1>1
<1>3. PICK f : (\A k \in Nat : f[k] = NameBody(e, f, k)) /\ readAttribute(e, i) = f[i]
  BY NameReading
<1> DEFINE S == {k \in 0 .. n : f[i + k] = NameRead(After(name, k), i + n)}
<1>4. n \in S
  <2>1. i + n > Len(e) \/ e[i + n] = "="
    BY <1>1, <1>2 DEF Ends
  <2>2. i + n > Len(e) \/ e[i + n] \in Terminators
    BY <2>1 DEF Terminators
  <2>3. i + n \in Nat
    OBVIOUS
  <2>4. f[i + n] = NameRead(<< >>, i + n)
    BY <1>3, <2>2, <2>3, Zenon DEF NameBody, NameRead
  <2> QED
    BY <1>2, <2>4, AfterTokens
<1>5. ASSUME NEW k \in 0 .. n - 1, k + 1 \in S PROVE k \in S
  <2>1. f[i + (k + 1)] = NameRead(After(name, k + 1), i + n)
    BY <1>5
  <2> HIDE DEF S
  <2>2. /\ k + 1 \in 1 .. n /\ (i + (k + 1)) - 1 = i + k /\ k \in 0 .. n
        /\ i + k \in Nat /\ (i + k) + 1 = i + (k + 1)
    OBVIOUS
  <2>3. ~ (i + k > Len(e)) /\ e[i + k] = name[k + 1]
    <3>1. i + n <= Len(e) + 1 /\ \A j \in 1 .. n : e[(i + j) - 1] = name[j]
      BY <1>2 DEF At
    <3> QED
      BY <1>1, <2>2, <3>1
  <2>4. name[k + 1] \notin Terminators /\ name[k + 1] # "doublequote"
    BY <1>2, <2>2 DEF IsPlain
  <2>5. f[i + k] = Prefixed(<<name[k + 1]>>, f[(i + k) + 1])
    BY <1>3, <2>2, <2>3, <2>4, Zenon DEF NameBody
  <2>6. f[i + k] = NameRead(<<name[k + 1]>> \o After(name, k + 1), i + n)
    <3>1. f[i + k] = Prefixed(<<name[k + 1]>>, NameRead(After(name, k + 1), i + n))
      BY <2>1, <2>2, <2>5, Zenon
    <3> QED
      BY <3>1, PrefixedIs, Zenon
  <2>7. <<name[k + 1]>> \o After(name, k + 1) = After(name, k)
    BY <1>2, AfterTokens
  <2>8. f[i + k] = NameRead(After(name, k), i + n)
    BY <2>6, <2>7, Zenon
  <2> QED
    BY <2>2, <2>8 DEF S
<1>6. 0 \in S
  <2> HIDE DEF S
  <2>1. \A k \in 0 .. n : k \in S
    BY <1>4, <1>5, Backwards
  <2>2. 0 \in 0 .. n
    OBVIOUS
  <2> QED
    BY <2>1, <2>2
<1>7. f[i + 0] = NameRead(After(name, 0), i + n) /\ i + 0 = i
  BY <1>6
<1>8. After(name, 0) = name
  BY AfterTokens
<1> QED
  BY <1>2, <1>3, <1>7, <1>8, Zenon

End(h, text) == h + Len(text)

(* Where the end of a quoted text stands, so does its next token, and what  *)
(* follows it.                                                              *)
QuotedEnds(name, q) == \A k \in Nat : q[k] \in Texts /\ q[k] = QuotedRest(name, q, k)

LEMMA QuotedTokens ==
    ASSUME NEW e, Len(e) \in Nat, NEW h \in Nat, NEW name \in Texts, NEW q, QuotedEnds(name, q),
           NEW k \in Nat, At(e, h, q[k])
    PROVE  /\ k >= Len(name) => e[h] = "doublequote" /\ ~ (h > Len(e)) /\ End(h, q[k]) = h + 1
           /\ ~ (k >= Len(name)) /\ name[k + 1] \in {"doublequote", "backslash"} =>
                 /\ e[h] = "backslash" /\ h < Len(e) /\ e[h + 1] = name[k + 1]
                 /\ At(e, h + 2, q[k + 1]) /\ End(h + 2, q[k + 1]) = End(h, q[k]) /\ ~ (h > Len(e))
           /\ ~ (k >= Len(name)) /\ name[k + 1] \notin {"doublequote", "backslash"} =>
                 /\ e[h] = name[k + 1] /\ ~ (h > Len(e))
                 /\ At(e, h + 1, q[k + 1]) /\ End(h + 1, q[k + 1]) = End(h, q[k])
<1>1. q[k] = QuotedRest(name, q, k) /\ k + 1 \in Nat /\ q[k + 1] \in Texts /\ h + 1 \in Nat
  BY DEF QuotedEnds
<1>2. ASSUME k >= Len(name) PROVE e[h] = "doublequote" /\ ~ (h > Len(e)) /\ Len(q[k]) = 1
  <2>1. q[k] = <<"doublequote">>
    BY <1>1, <1>2, Zenon DEF QuotedRest
  <2>2. At(e, h, <<"doublequote">>)
    BY <2>1
  <2>3. e[h] = "doublequote" /\ ~ (h > Len(e)) /\ Len(<<"doublequote">>) = 1
    BY <2>2, AtToken, Zenon
  <2> QED
    BY <2>1, <2>3, Zenon
<1> DEFINE t == name[k + 1]
<1>3. ASSUME ~ (k >= Len(name)) PROVE t \in Token /\ q[k] = Escaped(t) \o q[k + 1]
  <2>1. t \in Token
    BY <1>3 DEF Texts
  <2>2. q[k] = Escaped(t) \o q[k + 1]
    BY <1>1, <1>3, Zenon DEF QuotedRest
  <2> QED
    BY <2>1, <2>2
<1> HIDE DEF t
<1>4. ASSUME ~ (k >= Len(name)), t \in {"doublequote", "backslash"}
      PROVE  /\ e[h] = "backslash" /\ h < Len(e) /\ e[h + 1] = t
             /\ At(e, h + 2, q[k + 1]) /\ Len(q[k]) = 2 + Len(q[k + 1])
  <2>1. q[k] = <<"backslash", t>> \o q[k + 1]
    BY <1>3, <1>4, Zenon DEF Escaped
  <2>2. PICK b \in Token : b = "backslash"
    BY TextIs, Zenon
  <2>3. PICK r \in Texts : r = LedBy(t, q[k + 1]) /\ q[k] = LedBy(b, r)
    <3>1. <<b, t>> \o q[k + 1] = LedBy(b, LedBy(t, q[k + 1])) /\ LedBy(t, q[k + 1]) \in Texts
      BY <1>1, <1>3, <1>4, TwoTokens
    <3>2. q[k] = <<b, t>> \o q[k + 1]
      BY <2>1, <2>2, Zenon
    <3> QED
      BY <3>1, <3>2, Zenon
  <2>4. e[h] = b /\ At(e, h + 1, r) /\ Len(q[k]) = 1 + Len(r)
    BY <2>3, AtFirst
  <2>5. e[h + 1] = t /\ ~ (h + 1 > Len(e)) /\ At(e, (h + 1) + 1, q[k + 1]) /\ Len(r) = 1 + Len(q[k + 1])
    <3>1. At(e, h + 1, LedBy(t, q[k + 1])) /\ t \in Token /\ q[k + 1] \in Texts /\ h + 1 \in Nat
      BY <1>1, <1>3, <1>4, <2>3, <2>4, Zenon
    <3>2. /\ e[h + 1] = t /\ ~ (h + 1 > Len(e)) /\ At(e, (h + 1) + 1, q[k + 1])
          /\ Len(LedBy(t, q[k + 1])) = 1 + Len(q[k + 1])
      BY <3>1, AtFirst
    <3> QED
      BY <2>3, <3>2, Zenon
  <2>6. Len(q[k + 1]) \in Nat
    BY <1>1 DEF Texts
  <2>7. h < Len(e) /\ (h + 1) + 1 = h + 2
    BY <2>5
  <2>8. Len(q[k]) = 2 + Len(q[k + 1])
    BY <2>4, <2>5, <2>6
  <2> QED
    BY <2>2, <2>4, <2>5, <2>7, <2>8, Zenon
<1>5. ASSUME ~ (k >= Len(name)), t \notin {"doublequote", "backslash"}
      PROVE  /\ e[h] = t /\ ~ (h > Len(e))
             /\ At(e, h + 1, q[k + 1]) /\ Len(q[k]) = 1 + Len(q[k + 1])
  <2>1. q[k] = LedBy(t, q[k + 1])
    BY <1>3, <1>5, Zenon DEF Escaped, LedBy
  <2> QED
    <3>1. At(e, h, LedBy(t, q[k + 1])) /\ t \in Token /\ q[k + 1] \in Texts
      BY <1>1, <1>3, <1>5, <2>1, Zenon
    <3>2. /\ e[h] = t /\ ~ (h > Len(e)) /\ At(e, h + 1, q[k + 1])
          /\ Len(LedBy(t, q[k + 1])) = 1 + Len(q[k + 1])
      BY <3>1, AtFirst
    <3> QED
      BY <2>1, <3>2, Zenon
<1>6. \A m \in Nat : Len(q[k]) = m + Len(q[k + 1]) => End(h + m, q[k + 1]) = End(h, q[k])
  <2>1. PICK len \in Nat : len = Len(q[k + 1])
    BY <1>1 DEF Texts
  <2>2. PICK all : all = Len(q[k])
    OBVIOUS
  <2>3. \A m \in Nat : all = m + len => (h + m) + len = h + all
    OBVIOUS
  <2> QED
    BY <2>1, <2>2, <2>3, Zenon DEF End
<1>8. Len(q[k]) = 1 => End(h, q[k]) = h + 1
  BY DEF End
<1>7. 1 \in Nat /\ 2 \in Nat /\ (h < Len(e) => ~ (h > Len(e)))
  OBVIOUS
<1> QED
  BY <1>2, <1>4, <1>5, <1>6, <1>7, <1>8, Zenon DEF t

(* A quoted name is read as the name, whatever is in it.                    *)
LEMMA ReadsQuoted ==
    ASSUME NEW Tok, NEW e \in Seq(Tok), e[0] \in Tok, NEW i \in Nat, NEW name \in Texts, NEW q,
           QuotedEnds(name, q), At(e, i + 1, q[0])
    PROVE  readQuotedAttribute(e, i) = NameRead(name, End(i + 1, q[0]))
<1>1. Len(name) \in Nat /\ Len(e) \in Nat
  BY DEF Texts
<1>2. PICK n \in Nat : n = Len(name)
  BY <1>1
<1>3. PICK f : (\A k \in Nat : f[k] = QuotedBody(e, f, k)) /\ readQuotedAttribute(e, i) = f[i + 1]
  BY QuotedReading
<1> DEFINE Reads(k) == \A h \in Nat : At(e, h, q[k]) => f[h] = NameRead(After(name, k), End(h, q[k]))
           S == {k \in 0 .. n : Reads(k)}
<1>4. n \in S
  <2>1. ASSUME NEW h \in Nat, At(e, h, q[n]) PROVE f[h] = NameRead(After(name, n), End(h, q[n]))
    <3>1. e[h] = "doublequote" /\ ~ (h > Len(e)) /\ End(h, q[n]) = h + 1
      <4>1. n >= Len(name)
        BY <1>2
      <4> QED
        BY <1>1, <2>1, <4>1, QuotedTokens
    <3>2. f[h] = NameRead(<< >>, h + 1)
      BY <1>3, <3>1, Zenon DEF QuotedBody, NameRead
    <3> QED
      BY <1>2, <3>1, <3>2, AfterTokens, Zenon
  <2> QED
    BY <2>1
<1>5. ASSUME NEW k \in 0 .. n - 1, k + 1 \in S PROVE k \in S
  <2>1. Reads(k + 1)
    BY <1>5
  <2>2. k \in 0 .. n /\ k \in Nat /\ ~ (k >= Len(name)) /\ k \in 0 .. Len(name) - 1
    BY <1>2
  <2>3. ASSUME NEW h \in Nat, At(e, h, q[k]) PROVE f[h] = NameRead(After(name, k), End(h, q[k]))
    <3>1. Len(q[k + 1]) \in Nat
      BY <2>2 DEF QuotedEnds, Texts
    <3>2. <<name[k + 1]>> \o After(name, k + 1) = After(name, k)
      BY <2>2, AfterTokens
    <3>3. CASE name[k + 1] \in {"doublequote", "backslash"}
      <4>1. /\ e[h] = "backslash" /\ h < Len(e) /\ e[h + 1] = name[k + 1]
            /\ At(e, h + 2, q[k + 1])
            /\ End(h + 2, q[k + 1]) = End(h, q[k]) /\ ~ (h > Len(e))
        BY <1>1, <2>2, <2>3, <3>3, QuotedTokens
      <4>2. h + 2 \in Nat /\ ~ (h > Len(e)) /\ End(h + 2, q[k + 1]) = End(h, q[k])
        BY <4>1
      <4>3. f[h + 2] = NameRead(After(name, k + 1), End(h + 2, q[k + 1]))
        BY <2>1, <4>1, <4>2
      <4>4. "backslash" # "doublequote"
        OBVIOUS
      <4>5. f[h] = Prefixed(<<name[k + 1]>>, f[h + 2])
        BY <1>3, <3>3, <4>1, <4>2, <4>4, Zenon DEF QuotedBody
      <4>6. f[h] = Prefixed(<<name[k + 1]>>, NameRead(After(name, k + 1), End(h, q[k])))
        BY <4>2, <4>3, <4>5, Zenon
      <4>7. f[h] = NameRead(<<name[k + 1]>> \o After(name, k + 1), End(h, q[k]))
        BY <4>6, PrefixedIs, Zenon
      <4> QED
        BY <3>2, <4>7, Zenon
    <3>4. CASE name[k + 1] \notin {"doublequote", "backslash"}
      <4>1. /\ e[h] = name[k + 1] /\ ~ (h > Len(e))
            /\ At(e, h + 1, q[k + 1]) /\ End(h + 1, q[k + 1]) = End(h, q[k])
        BY <1>1, <2>2, <2>3, <3>4, QuotedTokens
      <4>2. h + 1 \in Nat /\ End(h + 1, q[k + 1]) = End(h, q[k])
        BY <4>1
      <4>3. f[h + 1] = NameRead(After(name, k + 1), End(h + 1, q[k + 1]))
        BY <2>1, <4>1, <4>2
      <4>4. e[h] # "doublequote" /\ e[h] # "backslash"
        BY <3>4, <4>1, Zenon
      <4>5. f[h] = Prefixed(<<name[k + 1]>>, f[h + 1])
        BY <1>3, <4>1, <4>4, Zenon DEF QuotedBody
      <4>6. f[h] = Prefixed(<<name[k + 1]>>, NameRead(After(name, k + 1), End(h, q[k])))
        BY <4>2, <4>3, <4>5, Zenon
      <4>7. f[h] = NameRead(<<name[k + 1]>> \o After(name, k + 1), End(h, q[k]))
        BY <4>6, PrefixedIs, Zenon
      <4> QED
        BY <3>2, <4>7, Zenon
    <3> QED
      BY <3>3, <3>4
  <2> QED
    BY <2>2, <2>3
<1>6. Reads(0)
  <2>1. 0 \in S
    <3> HIDE DEF S
    <3>1. \A k \in 0 .. n : k \in S
      BY <1>4, <1>5, Backwards
    <3>2. 0 \in 0 .. n
      OBVIOUS
    <3> QED
      BY <3>1, <3>2
  <2> QED
    BY <2>1
<1>7. f[i + 1] = NameRead(After(name, 0), End(i + 1, q[0]))
  <2>1. i + 1 \in Nat
    OBVIOUS
  <2> QED
    BY <1>6, <2>1
<1> QED
  BY <1>3, <1>7, AfterTokens, Zenon

(* A quoted string is skipped, whatever is in it.                           *)
LEMMA SkipsQuoted ==
    ASSUME NEW e, Len(e) \in Nat, NEW i \in Nat, NEW name \in Texts, NEW q,
           QuotedEnds(name, q), e[i] = "doublequote", At(e, i + 1, q[0])
    PROVE  skipQuoted(e, i) = End(i + 1, q[0])
<1>1. Len(name) \in Nat
  BY DEF Texts
<1>2. PICK n \in Nat : n = Len(name)
  BY <1>1
<1>3. PICK f : (\A k \in Nat : f[k] = AfterBody(e, e[i], f, k)) /\ skipQuoted(e, i) = f[i + 1]
  BY SkipSolves
<1>4. \A k \in Nat : f[k] = AfterBody(e, "doublequote", f, k)
  BY <1>3, Zenon
<1>5. "doublequote" # "backquote" /\ "backslash" # "doublequote"
  OBVIOUS
<1> DEFINE Skips(k) == \A h \in Nat : At(e, h, q[k]) => f[h] = End(h, q[k])
           S == {k \in 0 .. n : Skips(k)}
<1>6. n \in S
  <2>1. ASSUME NEW h \in Nat, At(e, h, q[n]) PROVE f[h] = End(h, q[n])
    <3>1. e[h] = "doublequote" /\ ~ (h > Len(e)) /\ End(h, q[n]) = h + 1
      <4>1. n >= Len(name)
        BY <1>2
      <4> QED
        BY <2>1, <4>1, QuotedTokens
    <3>2. f[h] = h + 1
      BY <1>4, <3>1, Zenon DEF AfterBody
    <3> QED
      BY <3>1, <3>2, Zenon
  <2> QED
    BY <2>1
<1>7. ASSUME NEW k \in 0 .. n - 1, k + 1 \in S PROVE k \in S
  <2>1. Skips(k + 1)
    BY <1>7
  <2>2. k \in 0 .. n /\ k \in Nat /\ ~ (k >= Len(name))
    BY <1>2
  <2>3. ASSUME NEW h \in Nat, At(e, h, q[k]) PROVE f[h] = End(h, q[k])
    <3>1. Len(q[k + 1]) \in Nat
      BY <2>2 DEF QuotedEnds, Texts
    <3>2. CASE name[k + 1] \in {"doublequote", "backslash"}
      <4>1. /\ e[h] = "backslash" /\ h < Len(e) /\ At(e, h + 2, q[k + 1])
            /\ End(h + 2, q[k + 1]) = End(h, q[k]) /\ ~ (h > Len(e))
        BY <2>2, <2>3, <3>2, QuotedTokens
      <4>2. h + 2 \in Nat /\ ~ (h > Len(e)) /\ End(h + 2, q[k + 1]) = End(h, q[k])
        BY <4>1
      <4>3. f[h + 2] = End(h + 2, q[k + 1])
        BY <2>1, <4>1, <4>2
      <4>4. f[h] = f[h + 2]
        BY <1>4, <1>5, <4>1, <4>2, Zenon DEF AfterBody
      <4> QED
        BY <4>2, <4>3, <4>4, Zenon
    <3>3. CASE name[k + 1] \notin {"doublequote", "backslash"}
      <4>1. /\ e[h] = name[k + 1] /\ ~ (h > Len(e))
            /\ At(e, h + 1, q[k + 1]) /\ End(h + 1, q[k + 1]) = End(h, q[k])
        BY <2>2, <2>3, <3>3, QuotedTokens
      <4>2. h + 1 \in Nat /\ End(h + 1, q[k + 1]) = End(h, q[k])
        BY <4>1
      <4>3. f[h + 1] = End(h + 1, q[k + 1])
        BY <2>1, <4>1, <4>2
      <4>4. e[h] # "doublequote" /\ e[h] # "backslash"
        BY <3>3, <4>1, Zenon
      <4>5. f[h] = f[h + 1]
        BY <1>4, <4>1, <4>4, Zenon DEF AfterBody
      <4> QED
        BY <4>2, <4>3, <4>5, Zenon
    <3> QED
      BY <3>2, <3>3
  <2> QED
    BY <2>2, <2>3
<1>8. Skips(0)
  <2>1. 0 \in S
    <3> HIDE DEF S
    <3>1. \A k \in 0 .. n : k \in S
      BY <1>6, <1>7, Backwards
    <3>2. 0 \in 0 .. n
      OBVIOUS
    <3> QED
      BY <3>1, <3>2
  <2> QED
    BY <2>1
<1>9. i + 1 \in Nat
  OBVIOUS
<1> QED
  BY <1>3, <1>8, <1>9

(* So is a raw string without a backquote.                                  *)
IsRaw(name) == \A k \in 1 .. Len(name) : name[k] # "backquote"

LEMMA SkipsRaw ==
    ASSUME NEW e, Len(e) \in Nat, NEW i \in Nat, NEW name \in Texts, IsRaw(name),
           e[i] = "backquote", At(e, i + 1, name),
           e[(i + 1) + Len(name)] = "backquote", (i + 1) + Len(name) <= Len(e)
    PROVE  skipQuoted(e, i) = (i + 2) + Len(name)
<1>1. Len(name) \in Nat
  BY DEF Texts
<1>2. PICK n \in Nat : n = Len(name)
  BY <1>1
<1>3. PICK f : (\A k \in Nat : f[k] = AfterBody(e, e[i], f, k)) /\ skipQuoted(e, i) = f[i + 1]
  BY SkipSolves
<1>4. \A k \in Nat : f[k] = AfterBody(e, "backquote", f, k)
  BY <1>3, Zenon
<1> DEFINE S == {k \in 0 .. n : f[(i + 1) + k] = (i + 2) + n}
<1>5. n \in S
  <2>1. (i + 1) + n \in Nat /\ ~ ((i + 1) + n > Len(e)) /\ ((i + 1) + n) + 1 = (i + 2) + n
    BY <1>2
  <2>2. f[(i + 1) + n] = ((i + 1) + n) + 1
    BY <1>2, <1>4, <2>1, Zenon DEF AfterBody
  <2> QED
    BY <2>1, <2>2
<1>6. ASSUME NEW k \in 0 .. n - 1, k + 1 \in S PROVE k \in S
  <2>1. f[(i + 1) + (k + 1)] = (i + 2) + n
    BY <1>6
  <2> HIDE DEF S
  <2>2. /\ k \in 0 .. n /\ (i + 1) + k \in Nat /\ ((i + 1) + k) + 1 = (i + 1) + (k + 1)
        /\ k + 1 \in 1 .. n /\ ((i + 1) + (k + 1)) - 1 = (i + 1) + k
    OBVIOUS
  <2>3. ~ ((i + 1) + k > Len(e)) /\ e[(i + 1) + k] = name[k + 1]
    <3>1. (i + 1) + n <= Len(e) + 1 /\ \A j \in 1 .. n : e[((i + 1) + j) - 1] = name[j]
      BY <1>2 DEF At
    <3> QED
      BY <2>2, <3>1
  <2>4. e[(i + 1) + k] # "backquote"
    BY <1>2, <2>2, <2>3 DEF IsRaw
  <2>5. f[(i + 1) + k] = f[((i + 1) + k) + 1]
    BY <1>4, <2>2, <2>3, <2>4, Zenon DEF AfterBody
  <2>6. f[(i + 1) + k] = (i + 2) + n
    BY <2>1, <2>2, <2>5, Zenon
  <2> QED
    BY <2>2, <2>6 DEF S
<1>7. 0 \in S
  <2> HIDE DEF S
  <2>1. \A k \in 0 .. n : k \in S
    BY <1>5, <1>6, Backwards
  <2>2. 0 \in 0 .. n
    OBVIOUS
  <2> QED
    BY <2>1, <2>2
<1>8. f[(i + 1) + 0] = (i + 2) + n /\ (i + 1) + 0 = i + 1
  BY <1>7
<1> QED
  BY <1>2, <1>3, <1>8, Zenon

LEMMA QuotedAt ==
    ASSUME NEW e, Len(e) \in Nat, NEW i \in Nat, NEW name \in Texts, At(e, i, Quoted(name))
    PROVE  \E q : /\ QuotedEnds(name, q) /\ At(e, i + 1, q[0])
                  /\ e[i] = "doublequote" /\ ~ (i > Len(e))
                  /\ End(i, Quoted(name)) = End(i + 1, q[0])
                  /\ End(i, Quoted(name)) \in Nat
<1>1. PICK q : /\ \A k \in Nat : q[k] \in Texts /\ q[k] = QuotedRest(name, q, k)
               /\ Quoted(name) = <<"doublequote">> \o q[0]
  BY QuotedIs
<1>2. QuotedEnds(name, q) /\ q[0] \in Texts /\ "doublequote" \in Token
  BY <1>1, TextIs DEF QuotedEnds
<1>3. At(e, i, LedBy("doublequote", q[0])) /\ Quoted(name) = LedBy("doublequote", q[0])
  BY <1>1, Zenon DEF LedBy
<1>4. /\ e[i] = "doublequote" /\ ~ (i > Len(e)) /\ At(e, i + 1, q[0])
      /\ Len(LedBy("doublequote", q[0])) = 1 + Len(q[0])
  BY <1>2, <1>3, AtFirst
<1>5. Len(Quoted(name)) = 1 + Len(q[0]) /\ Len(q[0]) \in Nat
  <2>1. Len(q[0]) \in Nat
    BY <1>2 DEF Texts
  <2> QED
    BY <1>3, <1>4, <2>1, Zenon
<1>6. End(i, Quoted(name)) = End(i + 1, q[0]) /\ End(i, Quoted(name)) \in Nat
  <2>1. PICK all : all = Len(Quoted(name))
    OBVIOUS
  <2>2. PICK len \in Nat : len = Len(q[0])
    BY <1>5
  <2>4. all = 1 + len
    BY <1>5, <2>1, <2>2, Zenon
  <2>3. i + all = (i + 1) + len /\ i + all \in Nat
    BY <2>4
  <2> QED
    BY <2>1, <2>2, <2>3, Zenon DEF End
<1> QED
  BY <1>2, <1>4, <1>6

(* As the value of an attribute, a quoted name is the name.                 *)
LEMMA ReadsQuotedName ==
    ASSUME NEW Tok, NEW e \in Seq(Tok), e[0] \in Tok, NEW i \in Nat, NEW name \in Texts,
           At(e, i, Quoted(name)), Ends(e, End(i, Quoted(name)))
    PROVE  readAttribute(e, i) = NameRead(name, End(i, Quoted(name)))
<1> DEFINE j == End(i, Quoted(name))
<1>1. Len(e) \in Nat
  OBVIOUS
<1>2. PICK q : /\ QuotedEnds(name, q) /\ At(e, i + 1, q[0])
               /\ e[i] = "doublequote" /\ ~ (i > Len(e)) /\ j = End(i + 1, q[0]) /\ j \in Nat
  BY <1>1, QuotedAt
<1>3. readQuotedAttribute(e, i) = NameRead(name, j)
  <2>1. readQuotedAttribute(e, i) = NameRead(name, End(i + 1, q[0]))
    BY <1>2, ReadsQuoted
  <2> QED
    BY <1>2, <2>1, Zenon
<1>4. PICK f : (\A k \in Nat : f[k] = NameBody(e, f, k)) /\ readAttribute(e, i) = f[i]
  BY NameReading
<1>5. Ends(e, j)
  OBVIOUS
<1> HIDE DEF j
<1>6. f[j] = NameRead(<< >>, j)
  <2>1. j > Len(e) \/ e[j] \in Terminators
    <3>1. j = Len(e) + 1 => j > Len(e)
      BY <1>1
    <3>2. "=" \in Terminators
      BY DEF Terminators
    <3> QED
      BY <1>5, <3>1, <3>2, Zenon DEF Ends
  <2> QED
    BY <1>2, <1>4, <2>1, Zenon DEF NameBody, NameRead
<1>7. e[i] \notin Terminators
  BY <1>2 DEF Terminators
<1>8. f[i] = Prefixed(name, f[j])
  <2>1. NameRead(name, j).valid /\ NameRead(name, j).name = name /\ NameRead(name, j).next = j
    BY Zenon DEF NameRead
  <2> QED
    BY <1>2, <1>3, <1>4, <1>7, <2>1, Zenon DEF NameBody
<1>9. f[i] = NameRead(name \o << >>, j)
  BY <1>6, <1>8, PrefixedIs, Zenon
<1>10. name \o << >> = name
  BY DEF Texts
<1> QED
  BY <1>4, <1>9, <1>10, Zenon DEF j

LEMMA SkipsString ==
    ASSUME NEW e, Len(e) \in Nat, NEW i \in Nat, NEW name \in Texts, At(e, i, Quoted(name))
    PROVE  /\ e[i] = "doublequote" /\ ~ (i > Len(e))
           /\ skipQuoted(e, i) = End(i, Quoted(name))
<1>1. PICK q : /\ QuotedEnds(name, q) /\ At(e, i + 1, q[0])
               /\ e[i] = "doublequote" /\ ~ (i > Len(e)) /\ End(i, Quoted(name)) = End(i + 1, q[0])
  BY QuotedAt
<1>2. skipQuoted(e, i) = End(i + 1, q[0])
  BY <1>1, SkipsQuoted
<1> QED
  BY <1>1, <1>2, Zenon

-----------------------------------------------------------------------------
(* What each part adds to what is found behind it                           *)

LEMMA TokensDiffer ==
    /\ \A t \in Scopes : t \notin Quotes
    /\ \A t \in UnsupportedScopes : t \notin Quotes /\ t \notin Scopes
    /\ "." \notin Quotes /\ "." \notin Scopes /\ "." \notin UnsupportedScopes
    /\ "=" \notin Quotes /\ "=" \notin Scopes /\ "=" \notin UnsupportedScopes
    /\ "=" # "." /\ "=" # "$" /\ "=" \in Separators
    /\ "doublequote" \in Quotes /\ "backquote" \in Quotes
  BY DEF Scopes, UnsupportedScopes, Quotes, Separators, Terminators

LEMMA ReasonAdds ==
    ASSUME NEW Tok, NEW rest \in Findings(Tok), NEW why
    PROVE  Reason(why, rest).references = rest.references /\ Reason(why, rest).unresolved # {}
  BY DEF Reason, Findings

LEMMA FoundAdds ==
    ASSUME NEW Tok, NEW rest \in Findings(Tok), NEW scope, NEW name
    PROVE  /\ Found(scope, name, rest).references = rest.references \cup {[scope |-> scope, name |-> name]}
           /\ Found(scope, name, rest).unresolved = rest.unresolved
<1> DEFINE new == [scope |-> scope, name |-> name]
<1>1. Found(scope, name, rest) = [rest EXCEPT !.references = rest.references \cup {new}]
  BY DEF Found
<1> HIDE DEF new
<1>2. /\ Found(scope, name, rest).references = rest.references \cup {new}
      /\ Found(scope, name, rest).unresolved = rest.unresolved
  BY <1>1 DEF Findings
<1> QED
  BY <1>2, Zenon DEF new

Scans(Tok, e, f) == \A k \in Nat : f[k] = ScanBody(e, f, k) /\ f[k] \in Findings(Tok)

(* The references of a part, and what it adds to them.                      *)
ReferencesOf(p) == IF IsAttribute(p) /\ IsClear(p) THEN {[scope |-> p.scope, name |-> p.name]} ELSE {}
Adds(p, all, rest) == /\ all.references = ReferencesOf(p) \cup rest.references
                      /\ all.unresolved # {} <=> (rest.unresolved # {} \/ ~ IsClear(p))

LEMMA AttributeAdds ==
    ASSUME NEW Tok, NEW e, Len(e) \in Nat, NEW f, Scans(Tok, e, f), NEW i \in Nat, ~ (i > Len(e)),
           tokenBoundaryBefore(e, i), NEW p \in Part, IsAttribute(p), e[i] = p.scope, NEW j \in Nat,
           readAttribute(e, i + 1) = NameRead(p.name, j)
    PROVE  Adds(p, f[i], f[j])
<1> DEFINE a == readAttribute(e, i + 1)
<1>1. a.name = p.name /\ a.next = j /\ a.valid
  <2>1. \A x, y : NameRead(x, y).name = x /\ NameRead(x, y).next = y /\ NameRead(x, y).valid
    BY Zenon DEF NameRead
  <2>2. /\ NameRead(p.name, j).name = p.name /\ NameRead(p.name, j).next = j
        /\ NameRead(p.name, j).valid
    BY <2>1, Zenon
  <2>3. PICK r : r = NameRead(p.name, j)
    OBVIOUS
  <2>4. r.name = p.name /\ r.next = j /\ r.valid
    BY <2>2, <2>3, Zenon
  <2>5. a = r
    BY <2>3
  <2> QED
    BY <2>4, <2>5, Zenon
<1>2. /\ p.name # << >> /\ p.scope \in Scopes \cup UnsupportedScopes \cup {"."}
  BY DEF Part, WellWritten, IsAttribute
<1>3. f[i] = ScanBody(e, f, i) /\ f[j] \in Findings(Tok)
  BY DEF Scans
<1>4. IsClear(p) <=> (p.scope \in Scopes /\ ~ containsTemplate(p.name))
  BY Zenon DEF IsClear
<1>5. CASE p.scope \in Scopes /\ ~ containsTemplate(p.name)
  <2>1. f[i] = Found(p.scope, p.name, f[j])
    BY <1>1, <1>2, <1>3, <1>5, TokensDiffer, Zenon DEF ScanBody
  <2>2. IsClear(p) /\ ReferencesOf(p) = {[scope |-> p.scope, name |-> p.name]}
    BY <1>4, <1>5, Zenon DEF ReferencesOf
  <2>3. /\ f[i].references = f[j].references \cup ReferencesOf(p)
        /\ f[i].unresolved = f[j].unresolved
    <3> DEFINE found == Found(p.scope, p.name, f[j])
    <3>1. /\ found.references = f[j].references \cup {[scope |-> p.scope, name |-> p.name]}
          /\ found.unresolved = f[j].unresolved
      BY <1>3, FoundAdds
    <3> QED
      BY <2>1, <2>2, <3>1, Zenon
  <2> HIDE DEF a
  <2>4. f[i].references = ReferencesOf(p) \cup f[j].references
    BY <2>3
  <2> QED
    BY <2>2, <2>3, <2>4, Zenon DEF Adds
<1>6. CASE ~ (p.scope \in Scopes /\ ~ containsTemplate(p.name))
  <2>1. \E why : f[i] = Reason(why, f[j])
    <3>1. CASE p.scope \in Scopes
      BY <1>1, <1>2, <1>3, <1>6, <3>1, TokensDiffer, Zenon DEF ScanBody
    <3>2. CASE p.scope \in UnsupportedScopes
      BY <1>1, <1>3, <3>2, TokensDiffer, Zenon DEF ScanBody
    <3>3. CASE p.scope = "."
      BY <1>1, <1>3, <3>3, TokensDiffer, Zenon DEF ScanBody
    <3> QED
      BY <1>2, <3>1, <3>2, <3>3
  <2>2. f[i].references = f[j].references /\ f[i].unresolved # {}
    BY <1>3, <2>1, ReasonAdds
  <2>3. ~ IsClear(p)
    BY <1>4, <1>6, Zenon
  <2>4. ReferencesOf(p) = {}
    BY <2>3, Zenon DEF ReferencesOf
  <2> HIDE DEF a
  <2>5. f[i].references = ReferencesOf(p) \cup f[j].references
    BY <2>2, <2>4
  <2> QED
    BY <2>2, <2>3, <2>5, Zenon DEF Adds
<1> QED
  BY <1>5, <1>6

(* A string or a raw string adds nothing.                                   *)
LEMMA LiteralAdds ==
    ASSUME NEW Tok, NEW e, Len(e) \in Nat, NEW f, Scans(Tok, e, f), NEW i \in Nat, ~ (i > Len(e)),
           NEW p \in Part, p.kind \in {"string", "rawString"}, e[i] \in Quotes, NEW j \in Nat, j > 0,
           skipQuoted(e, i) = j
    PROVE  Adds(p, f[i], f[j])
<1>1. f[i] = ScanBody(e, f, i)
  BY DEF Scans
<1>2. j # 0
  OBVIOUS
<1>3. f[i] = f[j]
  BY <1>1, <1>2, Zenon DEF ScanBody
<1>4. ~ IsAttribute(p) /\ p.kind # "word"
  BY DEF IsAttribute
<1>5. IsClear(p) /\ ReferencesOf(p) = {}
  BY <1>4, Zenon DEF IsClear, ReferencesOf
<1>6. f[i].references = ReferencesOf(p) \cup f[j].references
  BY <1>3, <1>5
<1> QED
  BY <1>3, <1>5, <1>6, Zenon DEF Adds

(* Of a word only a template may be something else.                         *)
IsWord(name) == \A k \in 1 .. Len(name) :
    /\ name[k] \notin Quotes
    /\ tokenBoundaryBefore(name, k) => name[k] \notin Scopes \cup UnsupportedScopes \cup {"."}

LEMMA TokenAdds ==
    ASSUME NEW Tok, NEW e, NEW f, Scans(Tok, e, f), NEW i \in Nat, ~ (i > Len(e)), e[i] \notin Quotes,
           tokenBoundaryBefore(e, i) => e[i] \notin Scopes \cup UnsupportedScopes \cup {"."}
    PROVE  /\ f[i].references = f[i + 1].references
           /\ f[i].unresolved # {} <=> (f[i + 1].unresolved # {} \/ e[i] = "$")
<1>1. f[i] = ScanBody(e, f, i) /\ f[i + 1] \in Findings(Tok)
  BY DEF Scans
<1>2. CASE e[i] = "$"
  <2>1. f[i] = Reason("template", f[i + 1])
    BY <1>1, <1>2, Zenon DEF ScanBody
  <2>2. f[i].references = f[i + 1].references /\ f[i].unresolved # {}
    <3>1. /\ Reason("template", f[i + 1]).references = f[i + 1].references
          /\ Reason("template", f[i + 1]).unresolved # {}
      BY <1>1, ReasonAdds
    <3> QED
      BY <2>1, <3>1, Zenon
  <2> QED
    BY <1>2, <2>2, Zenon
<1>3. CASE e[i] # "$"
  <2>1. f[i] = f[i + 1]
    BY <1>1, <1>3, Zenon DEF ScanBody
  <2> QED
    BY <1>3, <2>1, Zenon
<1> QED
  BY <1>2, <1>3

Passes(name, all, rest) ==
    /\ all.references = rest.references
    /\ all.unresolved # {} <=> (rest.unresolved # {} \/ containsTemplate(name))

LEMMA WordScanned ==
    ASSUME NEW Tok, NEW e, Len(e) \in Nat, NEW f, Scans(Tok, e, f), NEW i \in Nat, i > 0,
           tokenBoundaryBefore(e, i), NEW name \in Texts, IsWord(name), At(e, i, name)
    PROVE  Passes(name, f[i], f[End(i, name)])
<1>1. PICK n \in Nat : n = Len(name)
  BY DEF Texts
<1> DEFINE Behind(k) == \E m \in k + 1 .. n : name[m] = "$"
           S == {k \in 0 .. n : /\ f[i + k].references = f[i + n].references
                                /\ f[i + k].unresolved # {} <=> (f[i + n].unresolved # {} \/ Behind(k))}
<1>2. n \in S
  <2>1. ~ Behind(n)
    OBVIOUS
  <2>2. n \in 0 .. n
    OBVIOUS
  <2> HIDE DEF Behind
  <2> QED
    BY <2>1, <2>2
<1>3. ASSUME NEW k \in 0 .. n - 1, k + 1 \in S PROVE k \in S
  <2>1. Behind(k) <=> (name[k + 1] = "$" \/ Behind(k + 1))
    <3>1. \A m : m \in k + 1 .. n <=> (m = k + 1 \/ m \in (k + 1) + 1 .. n)
      OBVIOUS
    <3> QED
      BY <3>1, Zenon
  <2> HIDE DEF Behind
  <2>2. /\ f[i + (k + 1)].references = f[i + n].references
        /\ f[i + (k + 1)].unresolved # {} <=> (f[i + n].unresolved # {} \/ Behind(k + 1))
    BY <1>3
  <2> HIDE DEF S
  <2>3. /\ k \in 0 .. n /\ i + k \in Nat /\ (i + k) + 1 = i + (k + 1)
        /\ k + 1 \in 1 .. n /\ (i + (k + 1)) - 1 = i + k
    OBVIOUS
  <2>4. ~ (i + k > Len(e)) /\ e[i + k] = name[k + 1]
    <3>1. i + n <= Len(e) + 1 /\ \A m \in 1 .. n : e[(i + m) - 1] = name[m]
      BY <1>1 DEF At
    <3> QED
      BY <2>3, <3>1
  <2>5. tokenBoundaryBefore(e, i + k) <=> tokenBoundaryBefore(name, k + 1)
    <3>1. CASE k = 0
      <4>1. i + k = i /\ k + 1 = 1
        BY <3>1
      <4> QED
        BY <4>1, Zenon DEF tokenBoundaryBefore
    <3>2. CASE k # 0
      <4>1. /\ k \in 1 .. n /\ (k + 1) - 1 = k /\ i + k # 1 /\ k + 1 # 1
        BY <3>2
      <4>2. \A m \in 1 .. n : e[(i + m) - 1] = name[m]
        BY <1>1 DEF At
      <4>3. e[(i + k) - 1] = name[(k + 1) - 1]
        BY <4>1, <4>2
      <4> QED
        BY <4>1, <4>3, Zenon DEF tokenBoundaryBefore
    <3> QED
      BY <3>1, <3>2
  <2>6. /\ e[i + k] \notin Quotes
        /\ tokenBoundaryBefore(e, i + k) => e[i + k] \notin Scopes \cup UnsupportedScopes \cup {"."}
    BY <1>1, <2>3, <2>4, <2>5, Zenon DEF IsWord
  <2>7. /\ f[i + k].references = f[(i + k) + 1].references
        /\ f[i + k].unresolved # {} <=> (f[(i + k) + 1].unresolved # {} \/ e[i + k] = "$")
    BY <2>3, <2>4, <2>6, TokenAdds
  <2>8. /\ f[i + k].references = f[i + n].references
        /\ f[i + k].unresolved # {} <=> (f[i + n].unresolved # {} \/ Behind(k))
    BY <2>1, <2>2, <2>3, <2>4, <2>7, Zenon
  <2> QED
    BY <2>3, <2>8 DEF S
<1>4. 0 \in S
  <2> HIDE DEF S
  <2>1. \A k \in 0 .. n : k \in S
    BY <1>1, <1>2, <1>3, Backwards
  <2>2. 0 \in 0 .. n
    OBVIOUS
  <2> QED
    BY <2>1, <2>2
<1>5. /\ f[i + 0].references = f[i + n].references
      /\ f[i + 0].unresolved # {} <=> (f[i + n].unresolved # {} \/ Behind(0))
  <2> HIDE DEF Behind
  <2> QED
    BY <1>4
<1>6. Behind(0) <=> containsTemplate(name)
  <2>1. DOMAIN name = 0 + 1 .. n
    BY <1>1 DEF Texts
  <2> QED
    BY <2>1, Zenon DEF containsTemplate
<1>7. i + 0 = i /\ i + n = End(i, name)
  BY <1>1 DEF End
<1> HIDE DEF Behind
<1> QED
  BY <1>5, <1>6, <1>7, Zenon DEF Passes

LEMMA WordAdds ==
    ASSUME NEW Tok, NEW e, Len(e) \in Nat, NEW f, Scans(Tok, e, f), NEW i \in Nat, i > 0,
           tokenBoundaryBefore(e, i), NEW p \in Part, p.kind = "word", At(e, i, p.name)
    PROVE  Adds(p, f[i], f[End(i, p.name)])
<1>1. p.name \in Texts
  BY TextIs DEF Part
<1>2. IsWord(p.name)
  <2>1. DOMAIN p.name = 1 .. Len(p.name)
    BY <1>1 DEF Texts
  <2>2. WellWritten(p)
    BY DEF Part
  <2> QED
    BY <2>1, <2>2, Zenon DEF WellWritten, IsWord
<1> DEFINE j == End(i, p.name)
<1>3. /\ f[i].references = f[j].references
      /\ f[i].unresolved # {} <=> (f[j].unresolved # {} \/ containsTemplate(p.name))
  <2>1. PICK name \in Texts : name = p.name
    BY <1>1
  <2>2. IsWord(name) /\ At(e, i, name)
    BY <1>2, <2>1
  <2>3. Passes(name, f[i], f[End(i, name)])
    BY <2>2, WordScanned
  <2> QED
    BY <2>1, <2>3, Zenon DEF Passes
<1>4. ~ IsAttribute(p)
  BY DEF IsAttribute
<1> HIDE DEF j
<1>5. (IsClear(p) <=> ~ containsTemplate(p.name)) /\ ReferencesOf(p) = {}
  BY <1>4, Zenon DEF IsClear, ReferencesOf
<1>6. f[i].references = ReferencesOf(p) \cup f[j].references
  BY <1>3, <1>5
<1> QED
  BY <1>3, <1>5, <1>6, Zenon DEF Adds, j

LEMMA TextEnds ==
    ASSUME NEW i \in Nat, NEW s \in Texts, NEW t \in Texts
    PROVE  /\ End(i, s) \in Nat /\ End(i, s) >= i
           /\ End(i, s \o t) = End(End(i, s), t)
<1>1. /\ Len(s) \in Nat /\ Len(t) \in Nat
      /\ Len(s \o t) = Len(s) + Len(t)
  BY ConcatProperties DEF Texts
<1>2. PICK a \in Nat, b \in Nat : a = Len(s) /\ b = Len(t)
  BY <1>1
<1>3. i + (a + b) = (i + a) + b /\ i + a \in Nat /\ i + a >= i
  OBVIOUS
<1>4. Len(s \o t) = a + b
  BY <1>1, <1>2
<1>5. End(i, s) = i + a /\ End(i, s \o t) = i + (a + b) /\ End(End(i, s), t) = (i + a) + b
  BY <1>2, <1>4, Zenon DEF End
<1> QED
  BY <1>3, <1>5

LEMMA ConsEnds ==
    ASSUME NEW e, Len(e) \in Nat, NEW i \in Nat, NEW x \in Token, NEW t \in Texts, At(e, i, LedBy(x, t))
    PROVE  /\ e[i] = x /\ ~ (i > Len(e)) /\ At(e, i + 1, t)
           /\ End(i, LedBy(x, t)) = End(i + 1, t) /\ End(i + 1, t) \in Nat
<1>1. e[i] = x /\ ~ (i > Len(e)) /\ At(e, i + 1, t)
  BY AtFirst
<1>2. PICK w \in Texts : w = <<x>>
  BY Short DEF Texts
<1>3. End(i, w) = i + 1
  BY <1>2 DEF End
<1>4. End(i, LedBy(x, t)) = End(End(i, w), t)
  <2>1. End(i, w \o t) = End(End(i, w), t)
    BY TextEnds
  <2> QED
    BY <1>2, <2>1, Zenon DEF LedBy
<1>5. i + 1 \in Nat
  OBVIOUS
<1>6. End(i + 1, t) \in Nat
  BY <1>5, TextEnds
<1> QED
  BY <1>1, <1>3, <1>4, <1>6, Zenon

(* Each part adds its reference, and its doubt.                             *)
LEMMA PartAdds ==
    ASSUME NEW Tok, NEW e \in Seq(Tok), e[0] \in Tok, NEW f, Scans(Tok, e, f), NEW i \in Nat, i > 0,
           tokenBoundaryBefore(e, i), NEW p \in Part, At(e, i, PartText(p)), Ends(e, End(i, PartText(p)))
    PROVE  Adds(p, f[i], f[End(i, PartText(p))])
<1>1. PICK name \in Texts : name = p.name
  BY TextIs DEF Part
<1>2. PICK scope \in Token : scope = p.scope
  BY TextIs DEF Part
<1>3. p.kind \in {"attribute", "quotedAttribute", "string", "rawString", "word"}
  BY DEF Part
<1>4. Len(e) \in Nat /\ i + 1 \in Nat /\ i + 1 > 0
  OBVIOUS
<1>5. PICK text : text = PartText(p)
  OBVIOUS
<1>6. PICK j : j = End(i, text)
  OBVIOUS
<1>7. At(e, i, text) /\ Ends(e, j)
  BY <1>5, <1>6
<1>8. Quoted(name) \in Texts
  <2>1. PICK q : (\A k \in Nat : q[k] \in Texts) /\ Quoted(name) = <<"doublequote">> \o q[0]
    BY QuotedIs
  <2>2. <<"doublequote">> \in Texts /\ q[0] \in Texts
    BY <2>1, ShortTexts
  <2> QED
    BY <2>1, <2>2, LongTexts
<1>9. Adds(p, f[i], f[j])
  <2>1. CASE p.kind = "attribute"
    <3>1. text = LedBy(scope, name)
      BY <1>1, <1>2, <1>5, <2>1, Zenon DEF PartText, LedBy
    <3>2. At(e, i, LedBy(scope, name))
      BY <1>7, <3>1
    <3>3. /\ e[i] = scope /\ ~ (i > Len(e)) /\ At(e, i + 1, name)
          /\ End(i, LedBy(scope, name)) = End(i + 1, name) /\ End(i + 1, name) \in Nat
      BY <1>4, <3>2, ConsEnds
    <3>4. j = End(i + 1, name) /\ j \in Nat
      BY <1>6, <3>1, <3>3, Zenon
    <3>5. IsPlain(name)
      <4>1. DOMAIN p.name = 1 .. Len(p.name)
        BY <1>1 DEF Texts
      <4>2. WellWritten(p)
        BY DEF Part
      <4> QED
        BY <1>1, <2>1, <4>1, <4>2, Zenon DEF WellWritten, IsPlain
    <3>6. Ends(e, (i + 1) + Len(name))
      BY <1>7, <3>4, Zenon DEF End
    <3>7. readAttribute(e, i + 1) = NameRead(name, (i + 1) + Len(name))
      BY <1>4, <3>3, <3>5, <3>6, ReadsPlain
    <3>8. readAttribute(e, i + 1) = NameRead(p.name, j)
      BY <1>1, <3>4, <3>7, Zenon DEF End
    <3>9. IsAttribute(p) /\ e[i] = p.scope
      BY <1>2, <2>1, <3>3 DEF IsAttribute
    <3> QED
      BY <1>4, <3>3, <3>4, <3>8, <3>9, AttributeAdds
  <2>2. CASE p.kind = "quotedAttribute"
    <3>1. text = LedBy(scope, Quoted(name))
      BY <1>1, <1>2, <1>5, <2>2, Zenon DEF PartText, LedBy
    <3>2. At(e, i, LedBy(scope, Quoted(name)))
      BY <1>7, <3>1
    <3>3. /\ e[i] = scope /\ ~ (i > Len(e)) /\ At(e, i + 1, Quoted(name))
          /\ End(i, LedBy(scope, Quoted(name))) = End(i + 1, Quoted(name)) /\ End(i + 1, Quoted(name)) \in Nat
      BY <1>4, <1>8, <3>2, ConsEnds
    <3>4. j = End(i + 1, Quoted(name)) /\ j \in Nat
      BY <1>6, <3>1, <3>3, Zenon
    <3>5. Ends(e, End(i + 1, Quoted(name)))
      BY <1>7, <3>4, Zenon
    <3>6. readAttribute(e, i + 1) = NameRead(name, End(i + 1, Quoted(name)))
      BY <1>4, <3>3, <3>5, ReadsQuotedName
    <3>7. readAttribute(e, i + 1) = NameRead(p.name, j)
      BY <1>1, <3>4, <3>6, Zenon
    <3>8. IsAttribute(p) /\ e[i] = p.scope
      BY <1>2, <2>2, <3>3 DEF IsAttribute
    <3> QED
      BY <1>4, <3>3, <3>4, <3>7, <3>8, AttributeAdds
  <2>3. CASE p.kind = "string"
    <3>1. text = Quoted(name)
      BY <1>1, <1>5, <2>3, Zenon DEF PartText
    <3>2. At(e, i, Quoted(name))
      BY <1>7, <3>1
    <3>3. e[i] = "doublequote" /\ ~ (i > Len(e)) /\ skipQuoted(e, i) = End(i, Quoted(name))
      BY <1>4, <3>2, SkipsString
    <3>4. j \in Nat /\ j > 0
      <4>1. End(i, Quoted(name)) \in Nat /\ End(i, Quoted(name)) >= i
        BY <1>8, TextEnds
      <4> QED
        BY <1>6, <3>1, <4>1
    <3>5. skipQuoted(e, i) = j /\ e[i] \in Quotes
      BY <1>6, <3>1, <3>3, TokensDiffer, Zenon
    <3>6. p.kind \in {"string", "rawString"}
      BY <2>3
    <3> QED
      BY <1>4, <3>3, <3>4, <3>5, <3>6, LiteralAdds
  <2>4. CASE p.kind = "rawString"
    <3>1. PICK b \in Texts : b = <<"backquote">>
      BY ShortTexts
    <3>2. text = (b \o name) \o b
      BY <1>1, <1>5, <2>4, <3>1, Zenon DEF PartText
    <3>3. PICK c \in Texts : c = b \o name
      BY LongTexts
    <3>4. At(e, i, c) /\ At(e, i + Len(c), b) /\ Len(c \o b) = Len(c) + Len(b)
      <4>1. At(e, i, c \o b)
        BY <1>7, <3>2, <3>3
      <4> QED
        BY <1>4, <4>1, AtParts
    <3>5. At(e, i, b) /\ At(e, i + Len(b), name) /\ Len(b \o name) = Len(b) + Len(name)
      <4>1. At(e, i, b \o name)
        BY <3>3, <3>4
      <4> QED
        BY <1>4, <4>1, AtParts
    <3>6. Len(b) = 1
      BY <3>1
    <3>7. PICK n \in Nat : n = Len(name)
      BY DEF Texts
    <3>8. e[i] = "backquote" /\ ~ (i > Len(e))
      BY <1>4, <3>1, <3>5, AtToken
    <3>9. Len(c) = 1 + n /\ i + Len(c) = (i + 1) + n /\ (i + 1) + n \in Nat
      <4>1. Len(c) = 1 + n
        BY <3>3, <3>5, <3>6, <3>7, Zenon
      <4> QED
        BY <4>1
    <3>10. e[(i + 1) + n] = "backquote" /\ ~ ((i + 1) + n > Len(e))
      <4>1. At(e, (i + 1) + n, <<"backquote">>)
        BY <3>1, <3>4, <3>9
      <4> QED
        BY <1>4, <3>9, <4>1, AtToken
    <3>11. IsRaw(name)
      <4>1. DOMAIN p.name = 1 .. Len(p.name)
        BY <1>1 DEF Texts
      <4>2. WellWritten(p)
        BY DEF Part
      <4> QED
        BY <1>1, <2>4, <4>1, <4>2, Zenon DEF WellWritten, IsRaw
    <3>12. skipQuoted(e, i) = (i + 2) + Len(name)
      <4>1. (i + 1) + n <= Len(e)
        BY <1>4, <3>9, <3>10
      <4>2. At(e, i + 1, name)
        BY <3>5, <3>6
      <4> QED
        BY <1>4, <3>7, <3>8, <3>10, <3>11, <4>1, <4>2, SkipsRaw
    <3>13. j = (i + 2) + n /\ j \in Nat /\ j > 0
      <4>1. Len(text) = (1 + n) + 1
        BY <3>2, <3>3, <3>4, <3>6, <3>9
      <4> QED
        BY <1>6, <4>1 DEF End
    <3>14. skipQuoted(e, i) = j /\ e[i] \in Quotes
      BY <3>7, <3>8, <3>12, <3>13, TokensDiffer, Zenon
    <3>15. p.kind \in {"string", "rawString"}
      BY <2>4
    <3> QED
      BY <1>4, <3>8, <3>13, <3>14, <3>15, LiteralAdds
  <2>5. CASE p.kind = "word"
    <3>1. text = p.name
      BY <1>5, <2>5, Zenon DEF PartText
    <3>2. At(e, i, p.name) /\ j = End(i, p.name)
      BY <1>6, <1>7, <3>1
    <3>3. Adds(p, f[i], f[End(i, p.name)])
      BY <1>4, <2>5, <3>2, WordAdds
    <3> QED
      BY <3>2, <3>3
  <2> QED
    BY <1>3, <2>1, <2>2, <2>3, <2>4, <2>5
<1> QED
  BY <1>5, <1>6, <1>9

(* An expression: its parts one after the other.                            *)
ExpressionEnds(parts, x) == \A k \in Nat : x[k] \in Texts /\ x[k] = ExpressionRest(parts, x, k)

(* What the parts behind the first k of them come to.                       *)
References(parts, k) == UNION {ReferencesOf(parts[m]) : m \in k + 1 .. Len(parts)}
Doubt(parts, k) == \E m \in k + 1 .. Len(parts) : ~ IsClear(parts[m])
Comes(parts, k, found) == /\ found.references = References(parts, k)
                          /\ found.unresolved # {} <=> Doubt(parts, k)

LEMMA ComesNext ==
    ASSUME NEW parts \in Seq(Part), NEW k \in Nat, k < Len(parts), NEW all, NEW rest,
           Adds(parts[k + 1], all, rest), Comes(parts, k + 1, rest)
    PROVE  Comes(parts, k, all)
<1>1. \A m : m \in k + 1 .. Len(parts) <=> (m = k + 1 \/ m \in (k + 1) + 1 .. Len(parts))
  OBVIOUS
<1>2. References(parts, k) = ReferencesOf(parts[k + 1]) \cup References(parts, k + 1)
  BY <1>1, Zenon DEF References
<1>3. Doubt(parts, k) <=> (~ IsClear(parts[k + 1]) \/ Doubt(parts, k + 1))
  BY <1>1, Zenon DEF Doubt
<1> QED
  BY <1>2, <1>3, Zenon DEF Adds, Comes

LEMMA ComesLast ==
    ASSUME NEW parts \in Seq(Part), NEW k \in Nat, k >= Len(parts)
    PROVE  Comes(parts, k, Nothing)
<1>1. k + 1 .. Len(parts) = {}
  OBVIOUS
<1>2. References(parts, k) = {}
  BY <1>1 DEF References
<1>3. ~ Doubt(parts, k)
  BY <1>1 DEF Doubt
<1>4. Nothing.references = {} /\ Nothing.unresolved = {}
  BY DEF Nothing
<1> QED
  BY <1>2, <1>3, <1>4, Zenon DEF Comes

(* The scanner at the end of an expression that begins at position i.       *)
LEMMA RestScanned ==
    ASSUME NEW Tok, NEW e \in Seq(Tok), e[0] \in Tok, NEW f, Scans(Tok, e, f), NEW parts \in Seq(Part), NEW x,
           ExpressionEnds(parts, x)
    PROVE  \A k \in 0 .. Len(parts) :
              \A i \in Nat : i > 0 /\ (k = 0 => i = 1) /\ At(e, i, x[k]) /\ End(i, x[k]) = Len(e) + 1
                               => Comes(parts, k, f[i])
<1>1. PICK n \in Nat : n = Len(parts)
  OBVIOUS
<1>2. Len(e) \in Nat
  OBVIOUS
<1> DEFINE Begins(k, i) == i > 0 /\ (k = 0 => i = 1) /\ At(e, i, x[k]) /\ End(i, x[k]) = Len(e) + 1
           S == {k \in 0 .. n : \A i \in Nat : Begins(k, i) => Comes(parts, k, f[i])}
<1>3. n \in S
  <2>1. ASSUME NEW i \in Nat, Begins(n, i) PROVE Comes(parts, n, f[i])
    <3>1. n >= Len(parts)
      BY <1>1
    <3>2. x[n] = << >>
      BY <3>1, Zenon DEF ExpressionEnds, ExpressionRest
    <3>3. i > Len(e)
      <4>1. i + 0 = Len(e) + 1
        BY <2>1, <3>2 DEF End
      <4> QED
        BY <1>2, <4>1
    <3>4. f[i] = Nothing
      BY <3>3, Zenon DEF Scans, ScanBody
    <3>5. Comes(parts, n, Nothing)
      BY <3>1, ComesLast
    <3> QED
      BY <3>4, <3>5, Zenon
  <2> QED
    BY <2>1
<1>4. ASSUME NEW k \in 0 .. n - 1, k + 1 \in S PROVE k \in S
  <2>1. \A i \in Nat : Begins(k + 1, i) => Comes(parts, k + 1, f[i])
    BY <1>4
  <2> HIDE DEF S
  <2>2. /\ k \in Nat /\ k \in 0 .. n /\ k < Len(parts) /\ ~ (k >= Len(parts)) /\ k + 1 \in Nat
        /\ k + 1 # 0
    BY <1>1
  <2>3. PICK p \in Part : p = parts[k + 1]
    BY <2>2
  <2>4. PICK text \in Texts : text = PartText(p)
    BY PartTextIs DEF Texts
  <2>5. PICK rest \in Texts : rest = x[k + 1]
    BY <2>2 DEF ExpressionEnds
  <2>6. PICK op \in Texts : op = Operator(k)
    BY ShortTexts DEF Operator
  <2>7. PICK opText \in Texts : opText = op \o text
    BY LongTexts
  <2>8. x[k] = opText \o rest
    BY <2>2, <2>3, <2>4, <2>5, <2>6, <2>7, Zenon DEF ExpressionEnds, ExpressionRest
  <2>9. ASSUME NEW i \in Nat, Begins(k, i) PROVE Comes(parts, k, f[i])
    <3>1. PICK h \in Nat : h = End(i, op)
      BY TextEnds
    <3>2. PICK j \in Nat : j = End(h, text) /\ j >= h /\ j = End(i, opText)
      <4>1. End(h, text) \in Nat /\ End(h, text) >= h
        BY TextEnds
      <4>2. End(i, op \o text) = End(End(i, op), text)
        BY TextEnds
      <4> QED
        BY <2>7, <3>1, <4>1, <4>2, Zenon
    <3>3. /\ At(e, i, op) /\ At(e, h, text) /\ At(e, j, rest)
      <4>1. At(e, i, opText \o rest)
        BY <2>8, <2>9
      <4>2. At(e, i, opText) /\ At(e, i + Len(opText), rest)
        BY <1>2, <4>1, AtParts
      <4>3. At(e, i, op \o text)
        BY <2>7, <4>2
      <4>4. At(e, i, op) /\ At(e, i + Len(op), text)
        BY <1>2, <4>3, AtParts
      <4> QED
        BY <3>1, <3>2, <4>2, <4>4, Zenon DEF End
    <3>4. End(j, rest) = Len(e) + 1
      <4>1. End(i, opText \o rest) = End(End(i, opText), rest)
        BY TextEnds
      <4> QED
        BY <2>8, <2>9, <3>2, <4>1, Zenon
    <3>5. h > 0 /\ h >= i
      <4>1. End(i, op) >= i /\ i > 0
        BY <2>9, TextEnds
      <4> QED
        BY <3>1, <4>1
    <3>6. Comes(parts, k + 1, f[j])
      <4>1. j > 0
        BY <3>2, <3>5
      <4>2. Begins(k + 1, j)
        BY <2>2, <2>5, <3>3, <3>4, <4>1, Zenon
      <4> QED
        BY <2>1, <4>2
    <3>7. tokenBoundaryBefore(e, h) /\ f[i] = f[h]
      <4>1. CASE k = 0
        <5>1. op = << >> /\ i = 1
          BY <2>6, <2>9, <4>1, Zenon DEF Operator
        <5>2. h = 1
          BY <3>1, <5>1 DEF End
        <5> QED
          BY <5>1, <5>2, Zenon DEF tokenBoundaryBefore
      <4>2. CASE k # 0
        <5>1. op = <<"=">>
          BY <2>6, <4>2, Zenon DEF Operator
        <5>2. At(e, i, <<"=">>)
          BY <3>3, <5>1
        <5>3. e[i] = "=" /\ ~ (i > Len(e))
          BY <1>2, <5>2, AtToken
        <5>4. h = i + 1 /\ (i + 1) - 1 = i
          BY <3>1, <5>1 DEF End
        <5>5. f[i] = f[i + 1]
          <6>1. f[i] = ScanBody(e, f, i)
            BY DEF Scans
          <6> QED
            BY <5>3, <6>1, TokensDiffer, Zenon DEF ScanBody
        <5>6. tokenBoundaryBefore(e, i + 1)
          BY <5>3, <5>4, TokensDiffer, Zenon DEF tokenBoundaryBefore
        <5> QED
          BY <5>4, <5>5, <5>6, Zenon
      <4> QED
        BY <4>1, <4>2
    <3>8. Ends(e, j)
      <4>1. CASE k + 1 >= Len(parts)
        <5>1. rest = << >>
          BY <2>2, <2>5, <4>1, Zenon DEF ExpressionEnds, ExpressionRest
        <5>2. j = Len(e) + 1
          BY <3>4, <5>1 DEF End
        <5> QED
          BY <5>2, Zenon DEF Ends
      <4>2. CASE ~ (k + 1 >= Len(parts))
        <5>1. rest = <<"=">> \o PartText(parts[(k + 1) + 1]) \o x[(k + 1) + 1]
          BY <2>2, <2>5, <4>2, Zenon DEF ExpressionEnds, ExpressionRest, Operator
        <5>2. (k + 1) + 1 \in Nat /\ parts[(k + 1) + 1] \in Part
          BY <2>2, <4>2
        <5>3. PICK next \in Texts : next = PartText(parts[(k + 1) + 1])
          BY <5>2, PartTextIs DEF Texts
        <5>4. PICK eq \in Texts : eq = <<"=">>
          BY ShortTexts
        <5>5. PICK last \in Texts : last = x[(k + 1) + 1]
          BY <5>2 DEF ExpressionEnds
        <5>6. PICK eqNext \in Texts : eqNext = eq \o next
          BY LongTexts
        <5>7. At(e, j, eqNext \o last)
          BY <3>3, <5>1, <5>3, <5>4, <5>5, <5>6
        <5>8. At(e, j, eq \o next)
          BY <1>2, <5>6, <5>7, AtParts
        <5>9. At(e, j, eq)
          BY <1>2, <5>8, AtParts
        <5>10. At(e, j, <<"=">>)
          BY <5>4, <5>9
        <5>11. e[j] = "=" /\ ~ (j > Len(e))
          BY <1>2, <5>10, AtToken
        <5> QED
          BY <1>2, <5>11 DEF Ends
      <4> QED
        BY <4>1, <4>2
    <3>9. Adds(p, f[h], f[j])
      <4>1. At(e, h, PartText(p)) /\ Ends(e, End(h, PartText(p)))
        BY <2>4, <3>2, <3>3, <3>8
      <4>2. Adds(p, f[h], f[End(h, PartText(p))])
        BY <3>5, <3>7, <4>1, PartAdds
      <4> QED
        BY <2>4, <3>2, <4>2
    <3>10. Adds(parts[k + 1], f[i], f[j])
      BY <2>3, <3>7, <3>9
    <3> QED
      BY <2>2, <3>6, <3>10, ComesNext
  <2> HIDE DEF Begins
  <2> QED
    BY <2>2, <2>9 DEF S
<1>5. \A k \in 0 .. n : k \in S
  <2> HIDE DEF S
  <2> QED
    BY <1>1, <1>3, <1>4, Backwards
<1> HIDE DEF Begins
<1>6. \A k \in 0 .. n : \A i \in Nat : Begins(k, i) => Comes(parts, k, f[i])
  BY <1>5
<1> QED
  BY <1>1, <1>6, Zenon DEF Begins

(* The scanner inverts the writing of an expression.                        *)
LEMMA AnalyzeInvertsExpression ==
    ASSUME NEW parts \in Seq(Part)
    PROVE  Comes(parts, 0, Analyze(Expression(parts)))
<1>1. PICK x : (\A k \in Nat : x[k] \in Texts /\ x[k] = ExpressionRest(parts, x, k)) /\ Expression(parts) = x[0]
  BY ExpressionIs
<1>2. PICK e \in Seq(Token) : e = Expression(parts)
  BY <1>1 DEF Texts
<1> DEFINE Tok == Token \cup {e[0]}
<1>3. e \in Seq(Tok) /\ e[0] \in Tok
  <2>1. Token \subseteq Tok
    OBVIOUS
  <2> HIDE DEF Tok
  <2>2. e \in Seq(Tok)
    BY <2>1, MoreSequences
  <2> QED
    BY <2>2 DEF Tok
<1> HIDE DEF Tok
<1>4. PICK f : /\ \A k \in Nat : f[k] = ScanBody(e, f, k) /\ f[k] \in Findings(Tok)
               /\ Analyze(e) = f[1]
  BY <1>3, Scanning
<1>5. Scans(Tok, e, f) /\ ExpressionEnds(parts, x)
  BY <1>1, <1>4, Zenon DEF Scans, ExpressionEnds
<1>6. At(e, 1, x[0]) /\ End(1, x[0]) = Len(e) + 1
  <2>1. x[0] = e
    BY <1>1, <1>2
  <2>2. At(e, 1, e)
    BY DEF At
  <2>3. End(1, e) = Len(e) + 1
    BY DEF End
  <2> QED
    BY <2>1, <2>2, <2>3
<1>7. \A k \in 0 .. Len(parts) :
         \A i \in Nat : i > 0 /\ (k = 0 => i = 1) /\ At(e, i, x[k]) /\ End(i, x[k]) = Len(e) + 1
                          => Comes(parts, k, f[i])
  BY <1>3, <1>5, RestScanned
<1>8. 0 \in 0 .. Len(parts) /\ 1 \in Nat /\ 1 > 0
  OBVIOUS
<1>9. Comes(parts, 0, f[1])
  BY <1>6, <1>7, <1>8
<1> QED
  BY <1>2, <1>4, <1>9, Zenon

-----------------------------------------------------------------------------
(* Tempo                                                                    *)

(* The vocabulary of the instance is that of this module. *)
LEMMA TempoVocabulary ==
    /\ T!Criticality = Criticality /\ T!Symbol = Symbol
    /\ T!Consumer = Consumer /\ T!Reference = Reference /\ T!Production = Production
  BY DEF T!Criticality, Criticality, T!Symbol, Symbol, T!Domains, Domains, T!Kinds, Kinds,
         T!Consumer, Consumer, T!Reference, Reference, T!Production, Production

(* So is the scanner of the instance.                                       *)
LEMMA TempoScanner ==
    /\ T!Part = Part
    /\ \A p : (T!IsAttribute(p) <=> IsAttribute(p)) /\ (T!IsClear(p) <=> IsClear(p))
    /\ \A e : T!Analyze(e) = Analyze(e)
    /\ \A parts : T!Expression(parts) = Expression(parts)
<1>1. /\ T!Scopes = Scopes /\ T!UnsupportedScopes = UnsupportedScopes /\ T!Quotes = Quotes
      /\ T!Terminators = Terminators /\ T!Separators = Separators
  BY Zenon DEF T!Scopes, Scopes, T!UnsupportedScopes, UnsupportedScopes, T!Quotes, Quotes,
               T!Terminators, Terminators, T!Separators, Separators
<1>2. \A e, i : T!tokenBoundaryBefore(e, i) <=> tokenBoundaryBefore(e, i)
  BY <1>1, Zenon DEF T!tokenBoundaryBefore, tokenBoundaryBefore
<1>3. \A e, i : T!skipQuoted(e, i) = skipQuoted(e, i)
  BY Zenon DEF T!skipQuoted, skipQuoted
<1>4. \A e, i : T!readQuotedAttribute(e, i) = readQuotedAttribute(e, i)
  BY Zenon DEF T!readQuotedAttribute, readQuotedAttribute, T!Prefixed, Prefixed, T!Unreadable, Unreadable
<1>5. \A e, i : T!readAttribute(e, i) = readAttribute(e, i)
  BY Zenon DEF T!readAttribute, readAttribute, T!readQuotedAttribute, readQuotedAttribute,
               T!Prefixed, Prefixed, T!Unreadable, Unreadable, T!Terminators, Terminators
<1>6. \A name : T!containsTemplate(name) <=> containsTemplate(name)
  BY Zenon DEF T!containsTemplate, containsTemplate
<1> DEFINE Body(e, f, i) ==
        IF i > Len(e) THEN T!Nothing
        ELSE IF e[i] \in T!Quotes
          THEN LET next == T!skipQuoted(e, i)
               IN  IF next = 0 THEN T!Reason("unterminated", T!Nothing) ELSE f[next]
        ELSE IF e[i] \in T!Scopes /\ T!tokenBoundaryBefore(e, i)
          THEN LET a == T!readAttribute(e, i + 1)
               IN  IF ~ a.valid \/ a.name = << >> THEN T!Reason("invalid", f[a.next])
                   ELSE IF T!containsTemplate(a.name) THEN T!Reason("templated", f[a.next])
                   ELSE T!Found(e[i], a.name, f[a.next])
        ELSE IF e[i] \in T!UnsupportedScopes /\ T!tokenBoundaryBefore(e, i)
          THEN T!Reason("scope", f[T!readAttribute(e, i + 1).next])
        ELSE IF e[i] = "." /\ T!tokenBoundaryBefore(e, i)
          THEN T!Reason("unscoped", f[T!readAttribute(e, i + 1).next])
        ELSE IF e[i] = "$" THEN T!Reason("template", f[i + 1])
        ELSE f[i + 1]
<1>7. \A e : T!Analyze(e) = Analyze(e)
  <2>1. \A e : T!Analyze(e) = (CHOOSE f : f = [i \in Nat |-> Body(e, f, i)])[1]
    BY Zenon DEF T!Analyze
  <2>2. \A e : Analyze(e) = (CHOOSE f : f = [i \in Nat |-> ScanBody(e, f, i)])[1]
    BY Zenon DEF Analyze, ScanBody
  <2>3. /\ T!Nothing = Nothing
        /\ \A why, rest : T!Reason(why, rest) = Reason(why, rest)
        /\ \A scope, name, rest : T!Found(scope, name, rest) = Found(scope, name, rest)
    BY Zenon DEF T!Nothing, Nothing, T!Reason, Reason, T!Found, Found
  <2>4. \A e, f, i : Body(e, f, i) = ScanBody(e, f, i)
    <3> TAKE e, f, i
    <3>1. /\ T!skipQuoted(e, i) = skipQuoted(e, i) /\ T!readAttribute(e, i + 1) = readAttribute(e, i + 1)
          /\ (T!tokenBoundaryBefore(e, i) <=> tokenBoundaryBefore(e, i))
          /\ (T!containsTemplate(readAttribute(e, i + 1).name) <=> containsTemplate(readAttribute(e, i + 1).name))
      BY <1>2, <1>3, <1>5, <1>6, Zenon
    <3> QED
      BY <1>1, <2>3, <3>1, Zenon DEF ScanBody
  <2> HIDE DEF Body
  <2>5. \A e, f : [i \in Nat |-> Body(e, f, i)] = [i \in Nat |-> ScanBody(e, f, i)]
    BY <2>4
  <2>6. \A e : (CHOOSE f : f = [i \in Nat |-> Body(e, f, i)]) = (CHOOSE f : f = [i \in Nat |-> ScanBody(e, f, i)])
    BY <2>5, Zenon
  <2> QED
    BY <2>1, <2>2, <2>6, Zenon
<1>8. \A p : (T!IsAttribute(p) <=> IsAttribute(p)) /\ (T!IsClear(p) <=> IsClear(p))
  BY <1>1, <1>6, Zenon DEF T!IsAttribute, IsAttribute, T!IsClear, IsClear
<1>9. T!Part = Part
  BY Zenon DEF T!Part, Part, T!WellWritten, WellWritten, T!Scopes, Scopes, T!UnsupportedScopes, UnsupportedScopes,
               T!Quotes, Quotes, T!Terminators, Terminators, T!Separators, Separators,
               T!tokenBoundaryBefore, tokenBoundaryBefore
<1>10. \A parts : T!Expression(parts) = Expression(parts)
  BY Zenon DEF T!Expression, Expression, T!PartText, PartText, T!Quoted, Quoted, T!Escaped, Escaped
<1> QED
  BY <1>7, <1>8, <1>9, <1>10, Zenon

(* What the scanner finds in an expression is what it was written with.     *)
LEMMA ExpressionIsUnderstood ==
    ASSUME NEW parts \in Seq(T!Part)
    PROVE  LET analysis == T!Analyze(T!Expression(parts))
           IN  /\ {AttributeOf(a) : a \in analysis.references} = AttributesOf(parts)
               /\ analysis.unresolved # {} <=> Doubtful(parts)
<1>1. parts \in Seq(Part)
  BY TempoScanner
<1>2. PICK analysis : analysis = T!Analyze(T!Expression(parts))
  OBVIOUS
<1>3. analysis = Analyze(Expression(parts))
  BY <1>2, TempoScanner, Zenon
<1>4. analysis.references = References(parts, 0) /\ (analysis.unresolved # {} <=> Doubt(parts, 0))
  BY <1>1, <1>3, AnalyzeInvertsExpression, Zenon DEF Comes
<1>5. \A p : p \in Range(parts) <=> \E m \in 0 + 1 .. Len(parts) : p = parts[m]
  BY <1>1 DEF Range
<1>6. Doubt(parts, 0) <=> Doubtful(parts)
  BY <1>5, TempoScanner, Zenon DEF Doubt, Doubtful
<1>7. \A p : p \in Range(parts) => ((T!IsAttribute(p) /\ T!IsClear(p)) <=> (IsAttribute(p) /\ IsClear(p)))
  BY TempoScanner, Zenon
<1>8. ASSUME NEW a \in References(parts, 0)
      PROVE  \E p \in Range(parts) : T!IsAttribute(p) /\ T!IsClear(p) /\ AttributeOf(a) = AttributeOf(p)
  <2>1. PICK m \in 0 + 1 .. Len(parts) : a \in ReferencesOf(parts[m])
    BY Zenon DEF References
  <2>2. IsAttribute(parts[m]) /\ IsClear(parts[m]) /\ a = [scope |-> parts[m].scope, name |-> parts[m].name]
    BY <2>1, Zenon DEF ReferencesOf
  <2>3. AttributeOf(a) = AttributeOf(parts[m])
    BY <2>2 DEF AttributeOf
  <2>4. parts[m] \in Range(parts)
    BY <1>5
  <2> QED
    BY <1>7, <2>2, <2>3, <2>4, Zenon
<1>9. ASSUME NEW p \in Range(parts), T!IsAttribute(p), T!IsClear(p)
      PROVE  \E a \in References(parts, 0) : AttributeOf(a) = AttributeOf(p)
  <2>1. PICK m \in 0 + 1 .. Len(parts) : p = parts[m]
    BY <1>5
  <2>2. PICK a : a = [scope |-> p.scope, name |-> p.name]
    OBVIOUS
  <2>3. a \in ReferencesOf(p)
    BY <1>7, <1>9, <2>2, Zenon DEF ReferencesOf
  <2>4. a \in References(parts, 0)
    BY <2>1, <2>3, Zenon DEF References
  <2>5. AttributeOf(a) = AttributeOf(p)
    BY <2>2 DEF AttributeOf
  <2> QED
    BY <2>4, <2>5, Zenon
<1>10. {AttributeOf(a) : a \in References(parts, 0)} = AttributesOf(parts)
  <2>1. \A y : (\E a \in References(parts, 0) : y = AttributeOf(a))
                 <=> \E p \in Range(parts) : T!IsAttribute(p) /\ T!IsClear(p) /\ y = AttributeOf(p)
    BY <1>8, <1>9, Zenon
  <2> QED
    BY <2>1, Zenon DEF AttributesOf
<1> QED
  BY <1>2, <1>4, <1>6, <1>10, Zenon

LEMMA TempoCardinality == \A S : T!Cardinality(S) = Cardinality(S)
  BY DEF T!Cardinality, Cardinality

LEMMA ManifestIsTyped ==
    ASSUME NEW s \in Manifests
    PROVE  /\ s.adapter = "tempo" /\ s.required \in BOOLEAN /\ s.criticality \in Criticality
           /\ s.queries \in Seq(T!Query) /\ Len(s.queries) \in Nat
           /\ DOMAIN s.queries = 1 .. Len(s.queries)
           /\ \A i \in DOMAIN s.queries : /\ s.queries[i].id \in ConsumerIDs
                                          /\ s.queries[i].criticality \in Criticality
           /\ \A i \in DOMAIN s.queries : s.queries[i].parts \in Seq(T!Part)
           /\ s.mappings \in Seq(T!Mapping) /\ Len(s.mappings) \in Nat
           /\ DOMAIN s.mappings = 1 .. Len(s.mappings)
           /\ \A k \in DOMAIN s.mappings : /\ s.mappings[k].scope \in T!Scope
                                           /\ s.mappings[k].openTelemetry \in Names
<1>1. s \in T!Manifest
  BY ManifestsAssumption
<1>2. s.queries \in Seq(T!Query) /\ s.mappings \in Seq(T!Mapping)
  BY <1>1 DEF T!Manifest
<1>3. \A i \in DOMAIN s.queries : s.queries[i] \in T!Query
  BY <1>2
<1>4. \A k \in DOMAIN s.mappings : s.mappings[k] \in T!Mapping
  BY <1>2
<1> QED
  BY <1>1, <1>2, <1>3, <1>4, TempoVocabulary DEF T!Manifest, T!Query, T!Mapping

LEMMA QueryConsumerIsTyped ==
    ASSUME source \in Manifests, NEW i \in DOMAIN source.queries, NEW u \in BOOLEAN
    PROVE  LET c == T!queryConsumer(source.queries[i], u)
           IN  c \in Consumer /\ c.id = source.queries[i].id /\ c.unresolved = u
<1>1. "high" \in Criticality
  BY DEF Criticality
<1> QED
  BY <1>1, ManifestIsTyped DEF T!queryConsumer, Consumer

(* So the attributes it finds are names.                                    *)
LEMMA AttributesAreNames ==
    ASSUME NEW s \in Manifests, NEW i \in DOMAIN s.queries,
           NEW a \in T!Analyze(T!Expression(s.queries[i].parts)).references
    PROVE  a.name \in Names
<1>1. PICK parts \in Seq(T!Part) : parts = s.queries[i].parts
  BY ManifestIsTyped
<1>2. AttributeOf(a) \in AttributesOf(parts)
  <2>1. a \in T!Analyze(T!Expression(parts)).references
    BY <1>1
  <2>2. AttributeOf(a) \in {AttributeOf(b) : b \in T!Analyze(T!Expression(parts)).references}
    BY <2>1
  <2> QED
    BY <2>2, ExpressionIsUnderstood, Zenon
<1>3. PICK p \in Range(parts) : T!IsAttribute(p) /\ T!IsClear(p) /\ AttributeOf(a) = AttributeOf(p)
  BY <1>2, Zenon DEF AttributesOf
<1>4. a.name = p.name
  BY <1>3 DEF AttributeOf
<1>5. p \in T!Range(s.queries[i].parts)
  BY <1>1, <1>3, Zenon DEF T!Range, Range
<1> QED
  BY <1>3, <1>4, <1>5, AttributesAssumption, Zenon

(* What one attribute of an accepted expression adds: its own symbol, and   *)
(* what its first mapping stands for.                                       *)
LEMMA AttributeIsMapped ==
    ASSUME source \in Manifests, NEW query, NEW a
    PROVE  LET x == [domain |-> "tempo", kind |-> T!KindOf(T!ScopeOf(a.scope)), parent |-> NoName,
                     name |-> a.name]
               new == T!appendReference(query, a)
           IN  /\ \A r \in new : r.consumer = query.id
               /\ {r.symbol : r \in {r \in new : r.symbol.domain = "tempo"}} = {x}
               /\ {r.symbol : r \in {r \in new : r.symbol.domain = "opentelemetry"}} = Mapped(source, x)
<1> DEFINE scope == T!ScopeOf(a.scope)
           x == [domain |-> "tempo", kind |-> T!KindOf(scope), parent |-> NoName, name |-> a.name]
           new == T!appendReference(query, a)
           hits == {k \in DOMAIN source.mappings : /\ source.mappings[k].scope = scope
                                                   /\ source.mappings[k].tempo = a.name}
           first == {k \in hits : \A j \in hits : k <= j}
           own == T!Use(query, "tempo", scope, a.name)
           other(k) == T!Use(query, "opentelemetry", scope, source.mappings[k].openTelemetry)
<1>1. new = {own} \cup {other(k) : k \in first}
  BY DEF T!appendReference
<1>2. own.consumer = query.id /\ own.symbol = x /\ own.symbol.domain = "tempo"
  BY DEF T!Use
<1>3. \A k : /\ other(k).consumer = query.id
             /\ other(k).symbol = [domain |-> "opentelemetry", kind |-> x.kind, parent |-> NoName,
                                   name |-> source.mappings[k].openTelemetry]
             /\ other(k).symbol.domain = "opentelemetry"
  BY DEF T!Use
<1>4. \A k \in DOMAIN source.mappings : k \in hits <=> Maps(source, k, x)
  <2>1. scope \in T!Scope
    BY DEF T!ScopeOf, T!Scope
  <2>2. \A y, z \in T!Scope : T!KindOf(y) = T!KindOf(z) => y = z
    BY DEF T!KindOf, T!Scope
  <2> QED
    BY <2>1, <2>2, ManifestIsTyped DEF Maps
<1>5. first = FirstMapping(source, x)
  <2>1. DOMAIN source.mappings = 1 .. Len(source.mappings) /\ Len(source.mappings) \in Nat
    BY ManifestIsTyped
  <2>2. \A k \in DOMAIN source.mappings : k \in first <=> k \in FirstMapping(source, x)
    <3> SUFFICES ASSUME NEW k \in DOMAIN source.mappings
                 PROVE  k \in first <=> k \in FirstMapping(source, x)
      OBVIOUS
    <3>1. k \in first <=> Maps(source, k, x) /\ \A j \in DOMAIN source.mappings : Maps(source, j, x) => k <= j
      BY <1>4
    <3>2. (\A j \in DOMAIN source.mappings : Maps(source, j, x) => k <= j)
            <=> \A j \in 1 .. k - 1 : ~ Maps(source, j, x)
      BY <2>1
    <3> QED
      BY <3>1, <3>2 DEF FirstMapping
  <2> QED
    BY <2>2 DEF FirstMapping
<1> HIDE DEF scope, x, new, hits, first, own, other
<1>6. \A r \in new : r.consumer = query.id
  BY <1>1, <1>2, <1>3
<1>7. {r.symbol : r \in {r \in new : r.symbol.domain = "tempo"}} = {x}
  BY <1>1, <1>2, <1>3
<1>8. {r.symbol : r \in {r \in new : r.symbol.domain = "opentelemetry"}} = Mapped(source, x)
  <2>1. {r.symbol : r \in {r \in new : r.symbol.domain = "opentelemetry"}} = {other(k).symbol : k \in first}
    BY <1>1, <1>2, <1>3
  <2>2. \A y : y \in {other(k).symbol : k \in first} <=> y \in Mapped(source, x)
    BY <1>3, <1>5 DEF Mapped
  <2> QED
    BY <2>1, <2>2
<1> QED
  BY <1>6, <1>7, <1>8 DEF x, new, scope

(* One more query: its consumer, its references, and a diagnostic if it is  *)
(* unresolved, leave those of the queries before it as they are.            *)
LEMMA OneMoreQuery ==
    ASSUME source \in Manifests, Distinct(source),
           NEW n \in Nat, n + 1 \in DOMAIN source.queries,
           NEW d, NEW accepted, Accounted(source, d, accepted, n),
           NEW e, DOMAIN e = DiscoveryFields, NEW more, accepted \subseteq more, more \subseteq accepted \cup {n + 1},
           NEW u \in BOOLEAN, n + 1 \notin more => u,
           NEW new, \A r \in new : r.consumer = source.queries[n + 1].id /\ n + 1 \in more,
           {r.symbol : r \in {r \in new : r.symbol.domain = "opentelemetry"}}
              = UNION {Mapped(source, x) : x \in {r.symbol : r \in {r \in new : r.symbol.domain = "tempo"}}},
           e.consumers = Append(d.consumers, T!queryConsumer(source.queries[n + 1], u)),
           e.references = d.references \cup new, new \subseteq Reference, e.productions = d.productions,
           e.diagnostics = d.diagnostics \cup
              (IF u THEN {[required |-> source.required, place |-> <<"query", source.queries[n + 1].id>>]} ELSE {})
    PROVE  Accounted(source, e, more, n + 1)
<1> DEFINE id == source.queries[n + 1].id
           place == <<"query", id>>
<1>1. /\ d.consumers \in Seq(Consumer) /\ Len(d.consumers) = n
      /\ accepted \subseteq 1 .. n
      /\ \A x \in d.diagnostics : x.required = source.required
      /\ \A r \in d.references : \E i \in accepted : r.consumer = source.queries[i].id
  BY DEF Accounted
<1>2. DOMAIN source.queries = 1 .. Len(source.queries) /\ Len(source.queries) \in Nat
  BY ManifestIsTyped
<1>3. \A i \in 1 .. n : i \in DOMAIN source.queries /\ source.queries[i].id # id
  BY <1>2 DEF Distinct
<1>4. /\ T!queryConsumer(source.queries[n + 1], u) \in Consumer
      /\ T!queryConsumer(source.queries[n + 1], u).id = id
      /\ T!queryConsumer(source.queries[n + 1], u).unresolved = u
  BY QueryConsumerIsTyped
<1>5. /\ e.consumers \in Seq(Consumer) /\ Len(e.consumers) = n + 1
      /\ \A i \in 1 .. n : e.consumers[i] = d.consumers[i]
      /\ e.consumers[n + 1] = T!queryConsumer(source.queries[n + 1], u)
  BY <1>1, <1>4
<1>6. PlacesOf(e) = PlacesOf(d) \cup (IF u THEN {place} ELSE {})
  <2>1. [required |-> source.required, place |-> place].place = place
    OBVIOUS
  <2>2. CASE u
    <3>1. e.diagnostics = d.diagnostics \cup {[required |-> source.required, place |-> place]}
      BY <2>2
    <3> QED
      BY <2>1, <2>2, <3>1 DEF PlacesOf
  <2>3. CASE ~ u
    BY <2>3 DEF PlacesOf
  <2> QED
    BY <2>2, <2>3
<1>7. \A i \in 1 .. n : /\ <<"query", source.queries[i].id>> # place
                        /\ <<"query", source.queries[i].id>> \in PlacesOf(e)
                              <=> <<"query", source.queries[i].id>> \in PlacesOf(d)
  BY <1>3, <1>6
<1>8. place \in PlacesOf(e) <=> u
  <2>1. place \notin PlacesOf(d)
    BY <1>3 DEF Accounted
  <2> QED
    BY <2>1, <1>6
<1>9. \A domain : \A i \in 1 .. n : SymbolsOf(e, source.queries[i].id, domain) = SymbolsOf(d, source.queries[i].id, domain)
  BY <1>3 DEF SymbolsOf
<1>10. \A domain : SymbolsOf(e, id, domain) = {r.symbol : r \in {r \in new : r.symbol.domain = domain}}
  <2>1. \A r \in d.references : r.consumer # id
    BY <1>1, <1>3
  <2> QED
    BY <2>1 DEF SymbolsOf
<1>11. \A i \in 1 .. n + 1 : i \in 1 .. n \/ i = n + 1
  OBVIOUS
<1>12. \A i \in 1 .. n + 1 :
          /\ e.consumers[i].id = source.queries[i].id
          /\ e.consumers[i].unresolved = (<<"query", source.queries[i].id>> \in PlacesOf(e))
          /\ i \notin more => e.consumers[i].unresolved
  <2> SUFFICES ASSUME NEW i \in 1 .. n + 1
               PROVE  /\ e.consumers[i].id = source.queries[i].id
                      /\ e.consumers[i].unresolved = (<<"query", source.queries[i].id>> \in PlacesOf(e))
                      /\ i \notin more => e.consumers[i].unresolved
    OBVIOUS
  <2>1. CASE i \in 1 .. n
    <3>1. /\ d.consumers[i].id = source.queries[i].id
          /\ d.consumers[i].unresolved = (<<"query", source.queries[i].id>> \in PlacesOf(d))
          /\ i \notin accepted => d.consumers[i].unresolved
      BY <2>1 DEF Accounted
    <3> QED
      BY <2>1, <3>1, <1>5, <1>7
  <2>2. CASE i = n + 1
    BY <2>2, <1>4, <1>5, <1>8
  <2> QED
    BY <1>11, <2>1, <2>2
<1>13. \A i \in 1 .. n + 1 :
          SymbolsOf(e, source.queries[i].id, "opentelemetry")
             = UNION {Mapped(source, x) : x \in SymbolsOf(e, source.queries[i].id, "tempo")}
  <2> SUFFICES ASSUME NEW i \in 1 .. n + 1
               PROVE  SymbolsOf(e, source.queries[i].id, "opentelemetry")
                        = UNION {Mapped(source, x) : x \in SymbolsOf(e, source.queries[i].id, "tempo")}
    OBVIOUS
  <2>1. CASE i \in 1 .. n
    <3>1. SymbolsOf(d, source.queries[i].id, "opentelemetry")
            = UNION {Mapped(source, x) : x \in SymbolsOf(d, source.queries[i].id, "tempo")}
      BY <2>1 DEF Accounted
    <3> QED
      BY <2>1, <3>1, <1>9
  <2>2. CASE i = n + 1
    BY <2>2, <1>10
  <2> QED
    BY <1>11, <2>1, <2>2
<1>14. \A x \in e.diagnostics : x.required = source.required
  BY <1>1
<1>15. \A p \in PlacesOf(e) : \E i \in 1 .. n + 1 : p = <<"query", source.queries[i].id>>
  <2> SUFFICES ASSUME NEW p \in PlacesOf(e)
               PROVE  \E i \in 1 .. n + 1 : p = <<"query", source.queries[i].id>>
    OBVIOUS
  <2>1. CASE p \in PlacesOf(d)
    BY <2>1 DEF Accounted
  <2>2. CASE p = place
    BY <2>2
  <2> QED
    BY <1>6, <2>1, <2>2
<1>16. \A r \in e.references : \E i \in more : r.consumer = source.queries[i].id
  BY <1>1
<1>17. more \subseteq 1 .. n + 1
  BY <1>1
<1>18. e.references \subseteq Reference /\ e.productions = {}
  BY DEF Accounted
<1> QED
  BY <1>18, <1>5, <1>12, <1>13, <1>14, <1>15, <1>16, <1>17 DEF Accounted

(* One more query, accepted or not, leaves the others understood.           *)
LEMMA OneMoreUnderstood ==
    ASSUME source \in Manifests, Distinct(source),
           NEW n \in Nat, n + 1 \in DOMAIN source.queries,
           NEW d, NEW accepted, Accounted(source, d, accepted, n), Understood(source, d, accepted),
           NEW e, NEW more, accepted \subseteq more, more \subseteq accepted \cup {n + 1},
           NEW u \in BOOLEAN, NEW new, \A r \in new : r.consumer = source.queries[n + 1].id,
           n + 1 \in more =>
              /\ {r.symbol : r \in {r \in new : r.symbol.domain = "tempo"}} = AttributesOf(source.queries[n + 1].parts)
              /\ u <=> Doubtful(source.queries[n + 1].parts),
           e.consumers = Append(d.consumers, T!queryConsumer(source.queries[n + 1], u)),
           e.references = d.references \cup new
    PROVE  Understood(source, e, more)
<1> DEFINE id == source.queries[n + 1].id
<1>1. /\ d.consumers \in Seq(Consumer) /\ Len(d.consumers) = n
      /\ accepted \subseteq 1 .. n
      /\ \A r \in d.references : \E i \in accepted : r.consumer = source.queries[i].id
  BY DEF Accounted
<1>2. DOMAIN source.queries = 1 .. Len(source.queries) /\ Len(source.queries) \in Nat
  BY ManifestIsTyped
<1>3. \A i \in 1 .. n : i \in DOMAIN source.queries /\ source.queries[i].id # id
  BY <1>2 DEF Distinct
<1>4. PICK c \in Consumer : c = T!queryConsumer(source.queries[n + 1], u) /\ c.unresolved = u
  BY QueryConsumerIsTyped
<1>5. (\A i \in 1 .. n : e.consumers[i] = d.consumers[i]) /\ e.consumers[n + 1] = c
  <2>1. e.consumers = Append(d.consumers, c)
    BY <1>4
  <2> QED
    BY <1>1, <2>1
<1>6. ASSUME NEW i \in accepted
      PROVE  /\ SymbolsOf(e, source.queries[i].id, "tempo") = AttributesOf(source.queries[i].parts)
             /\ e.consumers[i].unresolved <=> Doubtful(source.queries[i].parts)
  <2>1. /\ SymbolsOf(d, source.queries[i].id, "tempo") = AttributesOf(source.queries[i].parts)
        /\ d.consumers[i].unresolved <=> Doubtful(source.queries[i].parts)
    BY Zenon DEF Understood
  <2>2. i \in 1 .. n /\ e.consumers[i] = d.consumers[i]
    BY <1>1, <1>5
  <2>3. \A r \in new : r.consumer # source.queries[i].id
    BY <1>3, <2>2
  <2>4. SymbolsOf(e, source.queries[i].id, "tempo") = SymbolsOf(d, source.queries[i].id, "tempo")
    <3>1. {r \in e.references : r.consumer = source.queries[i].id /\ r.symbol.domain = "tempo"}
            = {r \in d.references : r.consumer = source.queries[i].id /\ r.symbol.domain = "tempo"}
      BY <2>3
    <3> QED
      BY <3>1 DEF SymbolsOf
  <2> QED
    BY <2>1, <2>2, <2>4, Zenon
<1>7. ASSUME n + 1 \in more
      PROVE  /\ SymbolsOf(e, id, "tempo") = AttributesOf(source.queries[n + 1].parts)
             /\ e.consumers[n + 1].unresolved <=> Doubtful(source.queries[n + 1].parts)
  <2>1. \A r \in d.references : r.consumer # id
    BY <1>1, <1>3
  <2>2. SymbolsOf(e, id, "tempo") = {r.symbol : r \in {r \in new : r.symbol.domain = "tempo"}}
    <3>1. {r \in e.references : r.consumer = id /\ r.symbol.domain = "tempo"}
            = {r \in new : r.symbol.domain = "tempo"}
      BY <2>1
    <3> QED
      BY <3>1 DEF SymbolsOf
  <2> QED
    BY <1>4, <1>5, <1>7, <2>2, Zenon
<1> QED
  BY <1>6, <1>7, Zenon DEF Understood

LEMMA TempoInit == Init => TempoInv
<1> SUFFICES ASSUME Init, Is("tempo") PROVE TempoInv
  BY DEF TempoInv
<1>1. T!Init
  BY InputsDiffer DEF Init, Is, R!Init, P!Init, O!Init
<1>2. /\ source \in Manifests /\ pc = "manifest" /\ at = 0
      /\ discovery = T!EmptyDiscovery /\ work = [accepted |-> {}]
  BY <1>1 DEF T!Init, T!Begin
<1>3. discovery = EmptyDiscovery
  BY <1>2 DEF T!EmptyDiscovery, EmptyDiscovery
<1>4. DOMAIN work = {"accepted"} /\ work.accepted = {}
  BY <1>2
<1>5. discovery.consumers \in Seq(Consumer) /\ Len(discovery.consumers) = 0
  BY <1>3, NothingDiscovered
<1>6. Accounted(source, discovery, {}, 0)
  BY <1>3, <1>5, NothingDiscovered DEF Accounted, PlacesOf
<1>7. Len(source.queries) \in Nat
  BY <1>2, ManifestIsTyped
<1>8. Understood(source, discovery, {})
  BY DEF Understood
<1> QED
  BY <1>2, <1>4, <1>6, <1>7, <1>8 DEF TempoInv

(* While the answer to a query is awaited. *)
LEMMA AskedFacts ==
    ASSUME TempoInv, Is("tempo"), pc = "asked"
    PROVE  /\ source \in Manifests /\ Distinct(source) /\ at \in Nat /\ at + 1 \in DOMAIN source.queries
           /\ Accounted(source, discovery, work.accepted, at) /\ DOMAIN work = {"accepted"}
           /\ DOMAIN discovery = DiscoveryFields /\ work.accepted \subseteq 1 .. at
           /\ Understood(source, discovery, work.accepted)
<1>1. /\ source \in Manifests /\ Distinct(source) /\ at \in 0 .. Len(source.queries)
      /\ at < Len(source.queries) /\ DOMAIN work = {"accepted"} /\ work.accepted \subseteq 1 .. at
      /\ Accounted(source, discovery, work.accepted, at)
      /\ Understood(source, discovery, work.accepted)
  BY DEF TempoInv
<1>2. at \in Nat /\ at + 1 \in DOMAIN source.queries
  BY <1>1, ManifestIsTyped
<1> QED
  BY <1>1, <1>2 DEF Accounted

LEMMA RejectedStep ==
    ASSUME TempoInv, Is("tempo"), T!Rejected
    PROVE  TempoInv'
<1> DEFINE query == source.queries[at + 1]
<1>1. /\ source \in Manifests /\ Distinct(source) /\ at \in Nat /\ at + 1 \in DOMAIN source.queries
      /\ Accounted(source, discovery, work.accepted, at) /\ DOMAIN work = {"accepted"}
      /\ DOMAIN discovery = DiscoveryFields /\ work.accepted \subseteq 1 .. at
      /\ Understood(source, discovery, work.accepted)
  BY AskedFacts DEF T!Rejected
<1>2. /\ pc' = "queries" /\ at' = at + 1 /\ UNCHANGED <<source, ctx, work>>
      /\ discovery' = [T!WithDiagnostic(discovery, <<"query", query.id>>)
                         EXCEPT !.consumers = Append(@, T!queryConsumer(query, TRUE))]
  BY DEF T!Rejected, T!CurrentQuery
<1>3. /\ DOMAIN discovery' = DiscoveryFields
      /\ discovery'.consumers = Append(discovery.consumers, T!queryConsumer(query, TRUE))
      /\ discovery'.references = discovery.references \cup {}
      /\ discovery'.productions = discovery.productions
      /\ discovery'.diagnostics = discovery.diagnostics \cup
            (IF TRUE THEN {[required |-> source.required, place |-> <<"query", query.id>>]} ELSE {})
  BY <1>1, <1>2 DEF T!WithDiagnostic, DiscoveryFields
<1>4. UNION {Mapped(source, x) : x \in {}} = {}
  OBVIOUS
<1>5. Accounted(source, discovery', work.accepted, at + 1)
  <2> DEFINE new == {}
             u == TRUE
             acc == work.accepted
  <2>1. at + 1 \notin acc => u
    OBVIOUS
  <2>2. \A r \in new : r.consumer = source.queries[at + 1].id /\ at + 1 \in acc
    OBVIOUS
  <2>3. {r.symbol : r \in {r \in new : r.symbol.domain = "opentelemetry"}}
          = UNION {Mapped(source, x) : x \in {r.symbol : r \in {r \in new : r.symbol.domain = "tempo"}}}
    OBVIOUS
  <2>4. acc \subseteq acc /\ acc \subseteq acc \cup {at + 1} /\ new \subseteq Reference /\ u \in BOOLEAN
    OBVIOUS
  <2>5. Accounted(source, discovery, acc, at)
    BY <1>1
  <2> HIDE DEF new, u, acc
  <2>6. /\ discovery'.consumers = Append(discovery.consumers, T!queryConsumer(source.queries[at + 1], u))
        /\ discovery'.references = discovery.references \cup new
        /\ discovery'.diagnostics = discovery.diagnostics \cup
            (IF u THEN {[required |-> source.required, place |-> <<"query", source.queries[at + 1].id>>]} ELSE {})
    BY <1>3 DEF new, u
  <2>7. Accounted(source, discovery', acc, at + 1)
    BY <1>1, <1>3, <2>1, <2>2, <2>3, <2>4, <2>5, <2>6, OneMoreQuery
  <2> QED
    BY <2>7 DEF acc
<1>6. at' \in 0 .. Len(source'.queries) /\ work'.accepted \subseteq 1 .. at'
  BY <1>1, <1>2, ManifestIsTyped
<1>7. Understood(source, discovery', work.accepted)
  <2>1. PICK acc : acc = work.accepted
    OBVIOUS
  <2>2. PICK d, e : d = discovery /\ e = discovery'
    OBVIOUS
  <2>3. PICK n \in Nat : n = at
    BY <1>1
  <2>4. PICK new : new = {}
    OBVIOUS
  <2>5. /\ Accounted(source, d, acc, n) /\ Understood(source, d, acc) /\ acc \subseteq acc \cup {n + 1}
        /\ \A r \in new : r.consumer = source.queries[n + 1].id
        /\ n + 1 \in DOMAIN source.queries
        /\ n + 1 \notin acc
    BY <1>1, <2>1, <2>2, <2>3, <2>4
  <2>6. /\ e.consumers = Append(d.consumers, T!queryConsumer(source.queries[n + 1], TRUE))
        /\ e.references = d.references \cup new
    BY <1>3, <2>2, <2>3, <2>4
  <2>7. Understood(source, e, acc)
    BY <1>1, <2>5, <2>6, OneMoreUnderstood
  <2> QED
    BY <2>1, <2>2, <2>7
<1> QED
  BY <1>1, <1>2, <1>5, <1>6, <1>7 DEF TempoInv, Distinct

(* What the scanner found in an expression becomes references, each of a    *)
(* symbol and of those it is mapped to.                                     *)
LEMMA AttributesAreMapped ==
    ASSUME source \in Manifests, NEW i \in DOMAIN source.queries
    PROVE  LET query == source.queries[i]
               found == T!Analyze(T!Expression(query.parts)).references
               new == UNION {T!appendReference(query, a) : a \in found}
           IN  /\ new \subseteq Reference
               /\ \A r \in new : r.consumer = query.id
               /\ {r.symbol : r \in {r \in new : r.symbol.domain = "tempo"}} = {AttributeOf(a) : a \in found}
               /\ {r.symbol : r \in {r \in new : r.symbol.domain = "opentelemetry"}}
                     = UNION {Mapped(source, x) : x \in {r.symbol : r \in {r \in new : r.symbol.domain = "tempo"}}}
<1> DEFINE query == source.queries[i]
           found == T!Analyze(T!Expression(query.parts)).references
           of(a) == T!appendReference(query, a)
           new == UNION {of(a) : a \in found}
           x(a) == AttributeOf(a)
<1>1. \A a : /\ \A r \in of(a) : r.consumer = query.id
             /\ {r.symbol : r \in {r \in of(a) : r.symbol.domain = "tempo"}} = {x(a)}
             /\ {r.symbol : r \in {r \in of(a) : r.symbol.domain = "opentelemetry"}} = Mapped(source, x(a))
  BY AttributeIsMapped DEF AttributeOf
<1>2. \A a \in found : of(a) \subseteq Reference
  <2> SUFFICES ASSUME NEW a \in found, NEW r \in of(a) PROVE r \in Reference
    OBVIOUS
  <2>1. a.name \in Names
    BY AttributesAreNames
  <2>2. PICK domain \in {"tempo", "opentelemetry"}, name \in Names : r = T!Use(query, domain, T!ScopeOf(a.scope), name)
    <3>1. \A k \in DOMAIN source.mappings : source.mappings[k].openTelemetry \in Names
      BY ManifestIsTyped
    <3> QED
      BY <2>1, <3>1 DEF T!appendReference
  <2> DEFINE symbol == [domain |-> domain, kind |-> T!KindOf(T!ScopeOf(a.scope)), parent |-> NoName, name |-> name]
  <2>3. T!KindOf(T!ScopeOf(a.scope)) \in Kinds
    BY DEF T!KindOf, Kinds
  <2>4. symbol \in Symbol
    BY <2>3 DEF Symbol, Domains
  <2>5. r = [consumer |-> query.id, requiresResolution |-> FALSE, scope |-> "", symbol |-> symbol]
    BY <2>2 DEF T!Use
  <2>6. query.id \in ConsumerIDs
    BY ManifestIsTyped
  <2> HIDE DEF symbol, query
  <2> QED
    BY <2>4, <2>5, <2>6 DEF Reference
<1> HIDE DEF of, x, found, query
<1>3. new \subseteq Reference /\ \A r \in new : r.consumer = query.id
  BY <1>1, <1>2
<1>4. ASSUME NEW a
      PROVE  /\ \A r \in of(a) : r.symbol.domain = "tempo" => r.symbol = x(a)
             /\ \E r \in of(a) : r.symbol.domain = "tempo" /\ r.symbol = x(a)
  <2>1. {r.symbol : r \in {r \in of(a) : r.symbol.domain = "tempo"}} = {x(a)}
    BY <1>1
  <2>2. \A r \in of(a) : r.symbol.domain = "tempo" => r.symbol \in {x(a)}
    BY <2>1
  <2>3. x(a) \in {r.symbol : r \in {r \in of(a) : r.symbol.domain = "tempo"}}
    BY <2>1
  <2> QED
    BY <2>2, <2>3
<1>5. {r.symbol : r \in {r \in new : r.symbol.domain = "tempo"}} = {x(a) : a \in found}
  <2>1. ASSUME NEW r \in new, r.symbol.domain = "tempo" PROVE \E a \in found : r.symbol = x(a)
    <3>1. PICK a \in found : r \in of(a)
      OBVIOUS
    <3> QED
      BY <1>4, <2>1, <3>1
  <2>2. ASSUME NEW a \in found PROVE \E r \in new : r.symbol.domain = "tempo" /\ r.symbol = x(a)
    <3>1. PICK r \in of(a) : r.symbol.domain = "tempo" /\ r.symbol = x(a)
      BY <1>4
    <3> QED
      BY <3>1
  <2>3. \A y : y \in {r.symbol : r \in {r \in new : r.symbol.domain = "tempo"}} <=> y \in {x(a) : a \in found}
    BY <2>1, <2>2
  <2> QED
    BY <2>3
<1>6. ASSUME NEW y
      PROVE  (\E r \in new : r.symbol.domain = "opentelemetry" /\ y = r.symbol)
                <=> \E a \in found : y \in Mapped(source, x(a))
  <2>1. ASSUME NEW r \in new, r.symbol.domain = "opentelemetry" PROVE \E a \in found : r.symbol \in Mapped(source, x(a))
    <3>1. PICK a \in found : r \in of(a)
      OBVIOUS
    <3> QED
      BY <1>1, <2>1, <3>1
  <2>2. ASSUME NEW a \in found, y \in Mapped(source, x(a)) PROVE \E r \in new : r.symbol.domain = "opentelemetry" /\ y = r.symbol
    BY <1>1, <2>2
  <2> QED
    BY <2>1, <2>2
<1>7. {r.symbol : r \in {r \in new : r.symbol.domain = "opentelemetry"}} = UNION {Mapped(source, x(a)) : a \in found}
  BY <1>6
<1>8. UNION {Mapped(source, y) : y \in {x(a) : a \in found}} = UNION {Mapped(source, x(a)) : a \in found}
  OBVIOUS
<1>9. {r.symbol : r \in {r \in new : r.symbol.domain = "opentelemetry"}}
         = UNION {Mapped(source, y) : y \in {r.symbol : r \in {r \in new : r.symbol.domain = "tempo"}}}
  BY <1>5, <1>7, <1>8
<1> QED
  BY <1>3, <1>5, <1>9 DEF of, found, query, x

LEMMA AcceptedStep ==
    ASSUME TempoInv, Is("tempo"), T!Accepted
    PROVE  TempoInv'
<1> DEFINE query == source.queries[at + 1]
           analysis == T!Analyze(T!Expression(query.parts))
           new == UNION {T!appendReference(query, a) : a \in analysis.references}
           u == analysis.unresolved # {}
           more == work.accepted \cup {at + 1}
<1>1. /\ source \in Manifests /\ Distinct(source) /\ at \in Nat /\ at + 1 \in DOMAIN source.queries
      /\ Accounted(source, discovery, work.accepted, at) /\ DOMAIN work = {"accepted"}
      /\ DOMAIN discovery = DiscoveryFields /\ work.accepted \subseteq 1 .. at
      /\ Understood(source, discovery, work.accepted)
  BY AskedFacts DEF T!Accepted
<1>2. /\ pc' = "queries" /\ at' = at + 1 /\ UNCHANGED <<source, ctx>>
      /\ work' = [work EXCEPT !.accepted = @ \cup {at + 1}]
      /\ discovery' = [IF u THEN T!WithDiagnostic(discovery, <<"query", query.id>>) ELSE discovery
                         EXCEPT !.consumers = Append(@, T!queryConsumer(query, u)),
                                !.references = @ \cup new]
  BY DEF T!Accepted, T!CurrentQuery
<1>3. new \subseteq Reference /\ \A r \in new : r.consumer = query.id
  BY <1>1, AttributesAreMapped
<1>4. {r.symbol : r \in {r \in new : r.symbol.domain = "opentelemetry"}}
         = UNION {Mapped(source, x) : x \in {r.symbol : r \in {r \in new : r.symbol.domain = "tempo"}}}
  BY <1>1, AttributesAreMapped
<1>5. u \in BOOLEAN
  OBVIOUS
<1>10. /\ {r.symbol : r \in {r \in new : r.symbol.domain = "tempo"}} = AttributesOf(query.parts)
       /\ u <=> Doubtful(query.parts)
  <2>1. query.parts \in Seq(T!Part)
    BY <1>1, ManifestIsTyped
  <2>2. {r.symbol : r \in {r \in new : r.symbol.domain = "tempo"}} = {AttributeOf(a) : a \in analysis.references}
    BY <1>1, AttributesAreMapped
  <2> QED
    BY <2>1, <2>2, ExpressionIsUnderstood, Zenon
<1> HIDE DEF new, u, analysis
<1>6. /\ DOMAIN discovery' = DiscoveryFields
      /\ discovery'.consumers = Append(discovery.consumers, T!queryConsumer(query, u))
      /\ discovery'.references = discovery.references \cup new
      /\ discovery'.productions = discovery.productions
      /\ discovery'.diagnostics = discovery.diagnostics \cup
            (IF u THEN {[required |-> source.required, place |-> <<"query", query.id>>]} ELSE {})
  <2>1. CASE u
    BY <1>1, <1>2, <2>1 DEF T!WithDiagnostic, DiscoveryFields
  <2>2. CASE ~ u
    BY <1>1, <1>2, <2>2 DEF DiscoveryFields
  <2> QED
    BY <2>1, <2>2
<1>7. DOMAIN work' = {"accepted"} /\ work'.accepted = more
  BY <1>1, <1>2
<1>8. Accounted(source, discovery', more, at + 1)
  <2>1. at + 1 \in more /\ work.accepted \subseteq more /\ more \subseteq work.accepted \cup {at + 1}
    OBVIOUS
  <2>2. \A r \in new : r.consumer = source.queries[at + 1].id /\ at + 1 \in more
    BY <1>3
  <2> HIDE DEF more
  <2>3. discovery'.diagnostics = discovery.diagnostics \cup
            (IF u THEN {[required |-> source.required, place |-> <<"query", source.queries[at + 1].id>>]} ELSE {})
    BY <1>6
  <2>4. discovery'.consumers = Append(discovery.consumers, T!queryConsumer(source.queries[at + 1], u))
    BY <1>6
  <2> QED
    BY <1>1, <1>3, <1>4, <1>5, <1>6, <2>1, <2>2, <2>3, <2>4, OneMoreQuery
<1>9. at' \in 0 .. Len(source'.queries) /\ work'.accepted \subseteq 1 .. at'
  BY <1>1, <1>2, <1>7, ManifestIsTyped
<1>11. Understood(source, discovery', more)
  <2>1. PICK d, e : d = discovery /\ e = discovery'
    OBVIOUS
  <2>2. PICK n \in Nat : n = at
    BY <1>1
  <2>3. work.accepted \subseteq more /\ more \subseteq work.accepted \cup {n + 1}
    BY <2>2
  <2> HIDE DEF more
  <2>4. /\ Accounted(source, d, work.accepted, n) /\ Understood(source, d, work.accepted)
        /\ \A r \in new : r.consumer = source.queries[n + 1].id
        /\ n + 1 \in DOMAIN source.queries
    BY <1>1, <1>3, <2>1, <2>2
  <2>5. /\ {r.symbol : r \in {r \in new : r.symbol.domain = "tempo"}} = AttributesOf(source.queries[n + 1].parts)
        /\ u <=> Doubtful(source.queries[n + 1].parts)
    BY <1>10, <2>2, Zenon
  <2>6. /\ e.consumers = Append(d.consumers, T!queryConsumer(source.queries[n + 1], u))
        /\ e.references = d.references \cup new
    BY <1>6, <2>1, <2>2
  <2>7. Understood(source, e, more)
    BY <1>1, <1>5, <2>3, <2>4, <2>5, <2>6, OneMoreUnderstood
  <2> QED
    BY <2>1, <2>7
<1> QED
  BY <1>1, <1>2, <1>7, <1>8, <1>9, <1>11 DEF TempoInv, Distinct

LEMMA TempoStep == TempoInv /\ [Next]_vars => TempoInv'
<1> SUFFICES ASSUME TempoInv, [Next]_vars, Is("tempo"), source' = source PROVE TempoInv'
  BY SourceIsConstant DEF TempoInv, Is
<1>1. CASE UNCHANGED vars
  BY <1>1 DEF TempoInv, Is, vars, Distinct
<1>2. CASE Cancel
  BY <1>2 DEF TempoInv, Is, Cancel, Distinct
<1>3. ~ R!Next /\ ~ P!Next /\ ~ O!Next
  BY RuntimeMoves, PersesMoves, OwnershipMoves DEF TempoInv
<1>4. CASE T!RefuseManifest \/ T!Stopped
  <2>1. pc' = "failed" /\ UNCHANGED <<ctx, at, work>>
    BY <1>4 DEF T!RefuseManifest, T!Stopped, T!Fail
  <2> QED
    BY <2>1 DEF TempoInv
<1>5. CASE T!AcceptManifest
  <2>1. pc = "manifest" /\ pc' = "queries" /\ UNCHANGED <<ctx, at, work, discovery>>
    BY <1>5 DEF T!AcceptManifest
  <2>2. T!IsInjective([i \in DOMAIN source.queries |-> source.queries[i].id])
    BY <1>5 DEF T!AcceptManifest, T!DuplicateQuery
  <2>3. Distinct(source)
    BY <2>2 DEF Distinct, T!IsInjective
  <2> QED
    BY <2>1, <2>3 DEF TempoInv
<1>6. CASE T!Ask
  <2>1. pc = "queries" /\ pc' = "asked" /\ at < Len(source.queries) /\ UNCHANGED <<ctx, at, work, discovery>>
    BY <1>6 DEF T!Ask
  <2> QED
    BY <2>1 DEF TempoInv, Distinct
<1>7. CASE T!EndOfManifest
  <2>1. pc = "queries" /\ pc' = "loaded" /\ at = Len(source.queries) /\ UNCHANGED <<ctx, at, work, discovery>>
    BY <1>7 DEF T!EndOfManifest
  <2> QED
    BY <2>1 DEF TempoInv, Distinct
<1> QED
  BY <1>1, <1>2, <1>3, <1>4, <1>5, <1>6, <1>7, RejectedStep, AcceptedStep DEF Next, T!Next

(* What was accepted has been understood.                                   *)
LEMMA AcceptedIsUnderstood == TempoInv => AttributesAreFound
<1> SUFFICES ASSUME TempoInv, Is("tempo"), pc # "failed", NEW i \in work.accepted
             PROVE  /\ T!ReferencesOf(source.queries[i], "tempo")
                          = {[domain |-> "tempo", kind |-> T!KindOf(T!ScopeOf(p.scope)), parent |-> NoName,
                              name |-> p.name] :
                                p \in {p \in T!Range(source.queries[i].parts) : T!IsAttribute(p) /\ T!IsClear(p)}}
                    /\ \A c \in T!ConsumerOf(source.queries[i]) :
                          c.unresolved <=> \E p \in T!Range(source.queries[i].parts) : ~ T!IsClear(p)
  BY Zenon DEF AttributesAreFound, T!AttributesAreFound
<1>1. /\ source \in Manifests /\ at \in 0 .. Len(source.queries) /\ work.accepted \subseteq 1 .. at
      /\ Accounted(source, discovery, work.accepted, at) /\ Understood(source, discovery, work.accepted)
  BY DEF TempoInv
<1>2. Distinct(source)
  BY <1>1 DEF TempoInv
<1>3. /\ SymbolsOf(discovery, source.queries[i].id, "tempo") = AttributesOf(source.queries[i].parts)
      /\ discovery.consumers[i].unresolved <=> Doubtful(source.queries[i].parts)
  BY <1>1, Zenon DEF Understood
<1>4. \A s : T!Range(s) = Range(s)
  BY Zenon DEF T!Range, Range
<1>5. ASSUME NEW c \in T!ConsumerOf(source.queries[i]) PROVE c = discovery.consumers[i]
  <2>1. /\ discovery.consumers \in Seq(Consumer) /\ Len(discovery.consumers) = at
        /\ \A j \in 1 .. at : discovery.consumers[j].id = source.queries[j].id
    BY <1>1 DEF Accounted
  <2>2. PICK j \in 1 .. at : c = discovery.consumers[j] /\ c.id = source.queries[i].id
    BY <2>1 DEF T!ConsumerOf, T!Range
  <2>3. i \in DOMAIN source.queries /\ j \in DOMAIN source.queries
    BY <1>1, ManifestIsTyped
  <2>4. j = i
    BY <1>2, <2>1, <2>2, <2>3 DEF Distinct
  <2> QED
    BY <2>2, <2>4
<1>6. T!ReferencesOf(source.queries[i], "tempo") = SymbolsOf(discovery, source.queries[i].id, "tempo")
  BY DEF T!ReferencesOf, SymbolsOf
<1> QED
  BY <1>3, <1>4, <1>5, <1>6, Zenon DEF AttributesOf, AttributeOf, Doubtful

(* What the invariant says of a manifest that was loaded.                   *)
LEMMA LoadedManifest == TempoInv => QueriesAreAccounted
<1> SUFFICES ASSUME TempoInv, Is("tempo"), pc = "loaded"
             PROVE  T!QueriesAreAccounted
  BY DEF QueriesAreAccounted, T!QueriesAreAccounted
<1>1. /\ source \in Manifests /\ Distinct(source) /\ at = Len(source.queries)
      /\ Accounted(source, discovery, work.accepted, Len(source.queries))
  BY DEF TempoInv
<1>2. Len(source.queries) \in Nat /\ DOMAIN source.queries = 1 .. Len(source.queries)
  BY <1>1, ManifestIsTyped
<1>3. discovery.consumers \in Seq(Consumer) /\ Len(discovery.consumers) = Len(source.queries)
  BY <1>1 DEF Accounted
<1>4. ASSUME NEW i \in DOMAIN source.queries
      PROVE  T!ConsumerOf(source.queries[i]) = {discovery.consumers[i]}
  <2>1. T!Range(discovery.consumers) = {discovery.consumers[j] : j \in 1 .. Len(source.queries)}
    BY <1>3 DEF T!Range
  <2>2. \A j \in 1 .. Len(source.queries) : discovery.consumers[j].id = source.queries[j].id
    BY <1>1 DEF Accounted
  <2>3. \A j \in 1 .. Len(source.queries) : discovery.consumers[j].id = source.queries[i].id <=> j = i
    BY <1>1, <1>2, <2>2 DEF Distinct
  <2> QED
    BY <1>2, <2>1, <2>3 DEF T!ConsumerOf
<1>5. ASSUME NEW i \in DOMAIN source.queries, NEW domain
      PROVE  T!ReferencesOf(source.queries[i], domain) = SymbolsOf(discovery, source.queries[i].id, domain)
  BY DEF T!ReferencesOf, SymbolsOf
<1>6. ASSUME NEW place PROVE T!Diagnosed(place) = (place \in PlacesOf(discovery))
  BY DEF T!Diagnosed, PlacesOf
<1> DEFINE maps(k, x) == /\ T!KindOf(source.mappings[k].scope) = x.kind
                         /\ source.mappings[k].tempo = x.name
           first(x) == {k \in DOMAIN source.mappings : maps(k, x) /\ \A j \in 1 .. k - 1 : ~ maps(j, x)}
           mapped(x) == {[domain |-> "opentelemetry", kind |-> x.kind, parent |-> NoName,
                          name |-> source.mappings[k].openTelemetry] : k \in first(x)}
<1>7. ASSUME NEW x PROVE mapped(x) = Mapped(source, x)
  BY DEF Mapped, FirstMapping, Maps
<1> HIDE DEF mapped
<1>8. ASSUME NEW i \in DOMAIN source.queries
      PROVE  LET query == source.queries[i]
                 used == T!ReferencesOf(query, "tempo")
             IN  /\ Cardinality(T!ConsumerOf(query)) = 1
                 /\ \A c \in T!ConsumerOf(query) : c.unresolved = T!Diagnosed(<<"query", query.id>>)
                 /\ i \notin work.accepted => T!Diagnosed(<<"query", query.id>>) /\ used = {}
                 /\ T!ReferencesOf(query, "opentelemetry") = UNION {mapped(x) : x \in used}
  <2> DEFINE query == source.queries[i]
  <2>1. /\ discovery.consumers[i].unresolved = (<<"query", query.id>> \in PlacesOf(discovery))
        /\ i \notin work.accepted => discovery.consumers[i].unresolved
        /\ SymbolsOf(discovery, query.id, "opentelemetry")
              = UNION {Mapped(source, x) : x \in SymbolsOf(discovery, query.id, "tempo")}
    BY <1>1, <1>2 DEF Accounted
  <2>2. Cardinality(T!ConsumerOf(query)) = 1
    BY <1>4, FS_Singleton
  <2>3. \A c \in T!ConsumerOf(query) : c.unresolved = T!Diagnosed(<<"query", query.id>>)
    BY <1>4, <1>6, <2>1
  <2>4. ASSUME i \notin work.accepted PROVE T!Diagnosed(<<"query", query.id>>) /\ T!ReferencesOf(query, "tempo") = {}
    <3>1. T!Diagnosed(<<"query", query.id>>)
      BY <1>6, <2>1, <2>4
    <3>2. \A r \in discovery.references : r.consumer # query.id
      <4>1. /\ \A r \in discovery.references : \E j \in work.accepted : r.consumer = source.queries[j].id
            /\ work.accepted \subseteq 1 .. Len(source.queries)
        BY <1>1 DEF Accounted
      <4>2. \A j \in work.accepted : source.queries[j].id # query.id
        BY <1>1, <1>2, <2>4, <4>1 DEF Distinct
      <4> QED
        BY <4>1, <4>2
    <3> QED
      BY <3>1, <3>2 DEF T!ReferencesOf
  <2>5. T!ReferencesOf(query, "opentelemetry") = UNION {mapped(x) : x \in T!ReferencesOf(query, "tempo")}
    BY <1>5, <1>7, <2>1
  <2> QED
    BY <2>2, <2>3, <2>4, <2>5
<1>9. pc = "loaded"
  OBVIOUS
<1> QED
  BY <1>3, <1>8, <1>9, TempoCardinality DEF T!QueriesAreAccounted, mapped

(* The invariant of the Tempo adapter, for every manifest and whenever the  *)
(* deadline passes.                                                         *)
THEOREM TempoInvariant == Spec => []TempoInv
  BY TempoInit, TempoStep, PTL DEF Spec

(* A manifest that was loaded is complete: each of its queries is a         *)
(* consumer, resolved only if Tempo accepted it, and with the references of *)
(* its attributes through their first mappings.                             *)
THEOREM ManifestsAreComplete == Spec => []QueriesAreAccounted
  BY TempoInvariant, LoadedManifest, PTL

(* The scanner inverts the writing of an expression: of each query Tempo    *)
(* accepted, whatever parts it has, the references are exactly its span and *)
(* resource attributes, and it is unresolved exactly when a part leaves a   *)
(* doubt.                                                                   *)
THEOREM AcceptedQueriesAreRead == Spec => []AttributesAreFound
  BY TempoInvariant, AcceptedIsUnderstood, PTL

-----------------------------------------------------------------------------
(* Runtime queries                                                          *)

(* The least finite set without a greatest element would have one.          *)
LEMMA GreatestOfFinite ==
    ASSUME NEW S \in SUBSET Nat, S # {}, IsFiniteSet(S)
    PROVE  \E i \in S : \A j \in S : j <= i
<1> DEFINE Has(A) == \E i \in A : \A j \in A : j <= i
           lacking == {A \in FiniteSubsetsOf(S) : A # {} /\ ~ Has(A)}
<1> SUFFICES ASSUME ~ Has(S) PROVE FALSE
  OBVIOUS
<1>1. S \in lacking /\ lacking \subseteq FiniteSubsetsOf(S)
  BY DEF FiniteSubsetsOf
<1>2. \A A \in lacking : A \subseteq S /\ IsFiniteSet(A) /\ A # {} /\ ~ Has(A)
  BY DEF FiniteSubsetsOf
<1>3. \A A \in FiniteSubsetsOf(S) : A # {} /\ A \notin lacking => Has(A)
  OBVIOUS
<1> HIDE DEF lacking
<1>4. PICK A \in lacking : \A B \in lacking : <<B, A>> \notin StrictSubsetOrdering(S)
  BY <1>1, FS_StrictSubsetOrderingWellFounded, WFMin
<1>5. A \subseteq S /\ IsFiniteSet(A) /\ A # {} /\ ~ Has(A)
  BY <1>2
<1>6. PICK x \in A : TRUE
  BY <1>5
<1> DEFINE B == A \ {x}
<1>7. B \in FiniteSubsetsOf(S) /\ <<B, A>> \in StrictSubsetOrdering(S)
  <2>1. IsFiniteSet(B)
    BY <1>5, FS_Subset
  <2> QED
    BY <1>5, <1>6, <2>1 DEF FiniteSubsetsOf, StrictSubsetOrdering
<1>8. B = {} \/ Has(B)
  BY <1>3, <1>4, <1>7
<1>9. Has(A)
  <2>1. CASE B = {}
    <3>1. A = {x} /\ x \in Nat
      BY <1>5, <1>6, <2>1
    <3> QED
      BY <3>1
  <2>2. CASE Has(B)
    <3>1. PICK y \in B : \A j \in B : j <= y
      BY <2>2
    <3>2. x \in Nat /\ y \in Nat /\ y \in A /\ \A j \in A : j \in Nat /\ (j = x \/ j \in B)
      BY <1>5
    <3>3. CASE x <= y
      BY <3>1, <3>2, <3>3
    <3>4. CASE y <= x
      BY <3>1, <3>2, <3>4
    <3> QED
      BY <3>2, <3>3, <3>4
  <2> QED
    BY <1>8, <2>1, <2>2
<1> QED
  BY <1>5, <1>9

LEMMA RuntimeVocabulary ==
    /\ R!Criticality = Criticality /\ R!Symbol = Symbol
    /\ R!Consumer = Consumer /\ R!Reference = Reference /\ R!Production = Production
  BY DEF R!Criticality, Criticality, R!Symbol, Symbol, R!Domains, Domains, R!Kinds, Kinds,
         R!Consumer, Consumer, R!Reference, Reference, R!Production, Production

LEMMA RuntimeCardinality == \A S : R!Cardinality(S) = Cardinality(S)
  BY DEF R!Cardinality, Cardinality

LEMMA LogIsTyped ==
    ASSUME NEW s \in Logs
    PROVE  /\ s.adapter = "runtime_queries" /\ s.required \in BOOLEAN /\ s.window \in Nat
           /\ s.criticality \in Criticality
           /\ Len(s.lines) \in Nat /\ DOMAIN s.lines = 1 .. Len(s.lines)
           /\ \A i \in DOMAIN s.lines : /\ s.lines[i].time \in Nat
                                        /\ s.lines[i].query \in Queries \cup {NoQuery}
<1>1. s \in R!Log
  BY LogsAssumption
<1>2. s.lines \in Seq(R!Line) /\ s.window \in Nat /\ s.adapter = "runtime_queries" /\ s.required \in BOOLEAN
      /\ s.criticality \in Criticality
  BY <1>1, RuntimeVocabulary DEF R!Log
<1>3. \A i \in DOMAIN s.lines : s.lines[i] \in R!Line
  BY <1>2
<1> QED
  BY <1>2, <1>3 DEF R!Line

LEMMA EventIsTyped ==
    ASSUME NEW s \in Logs, NEW i \in DOMAIN s.lines, Legible(s, i)
    PROVE  /\ EventOf(s, i) \in Event /\ i \in Recorded(s)
           /\ EventOf(s, i).line = i /\ EventOf(s, i).time = s.lines[i].time
           /\ EventOf(s, i).query = s.lines[i].query
           /\ EventOf(s, i).origins = R!originsOf(s.format, s.lines[i])
<1>1. s.lines[i].shape = "object" /\ s.lines[i].query \in Queries /\ s.lines[i].time \in Nat /\ i \in Nat
  BY LogIsTyped DEF Legible, R!Decodes
<1>2. R!originsOf(s.format, s.lines[i]) \subseteq Origins
  BY DEF R!originsOf, Origins
<1> QED
  BY <1>1, <1>2 DEF EventOf, R!observedEvent, Event, Recorded

LEMMA UpToIsFinite ==
    ASSUME NEW s \in Logs, NEW n
    PROVE  /\ IsFiniteSet(Recorded(s)) /\ IsFiniteSet(UpTo(s, n)) /\ Cardinality(UpTo(s, n)) \in Nat
<1>1. Recorded(s) \subseteq 1 .. Len(s.lines) /\ UpTo(s, n) \subseteq 1 .. Len(s.lines) /\ Len(s.lines) \in Nat
  BY LogIsTyped DEF Recorded, UpTo
<1>2. IsFiniteSet(1 .. Len(s.lines))
  BY <1>1, FS_Interval
<1> QED
  BY <1>1, <1>2, FS_Subset, FS_CardinalityType

(* One more line.                                                           *)
LEMMA NextLine ==
    ASSUME NEW s \in Logs, NEW n \in Nat, n + 1 \in DOMAIN s.lines
    PROVE  /\ n + 1 \in Recorded(s) => /\ UpTo(s, n + 1) = UpTo(s, n) \cup {n + 1}
                                       /\ Cardinality(UpTo(s, n + 1)) = Cardinality(UpTo(s, n)) + 1
           /\ n + 1 \notin Recorded(s) => UpTo(s, n + 1) = UpTo(s, n)
           /\ n + 1 \notin UpTo(s, n)
<1>1. Recorded(s) \subseteq Nat
  BY LogIsTyped DEF Recorded
<1>2. n + 1 \in Recorded(s) => UpTo(s, n + 1) = UpTo(s, n) \cup {n + 1}
  BY <1>1 DEF UpTo
<1>3. n + 1 \notin Recorded(s) => UpTo(s, n + 1) = UpTo(s, n)
  BY <1>1 DEF UpTo
<1>4. n + 1 \notin UpTo(s, n)
  BY DEF UpTo
<1> QED
  BY <1>2, <1>3, <1>4, UpToIsFinite, FS_AddElement

LEMMA FewerUpTo ==
    ASSUME NEW s \in Logs, NEW i \in Int, NEW n \in Int, i <= n
    PROVE  Cardinality(UpTo(s, i)) <= Cardinality(UpTo(s, n))
<1>1. UpTo(s, i) \subseteq UpTo(s, n)
  BY LogIsTyped DEF UpTo, Recorded
<1> QED
  BY <1>1, UpToIsFinite, FS_Subset

LEMMA RuntimeInit == Init => RuntimeInv
<1> SUFFICES ASSUME Init, Is("runtime_queries") PROVE RuntimeInv
  BY DEF RuntimeInv
<1>1. R!Init
  BY InputsDiffer DEF Init, Is, T!Init, P!Init, O!Init
<1>2. /\ source \in Logs /\ pc = "lines" /\ at = 0
      /\ discovery = R!EmptyDiscovery /\ work = [records |-> 0, events |-> << >>, aggregates |-> << >>]
  BY <1>1 DEF R!Init, R!Begin
<1>3. discovery = EmptyDiscovery
  BY <1>2 DEF R!EmptyDiscovery, EmptyDiscovery
<1>4. /\ DOMAIN work = {"records", "events", "aggregates"} /\ work.records = 0
      /\ work.events = << >> /\ work.aggregates = << >>
  BY <1>2
<1>5. UpTo(source, 0) = {}
  BY <1>2, LogIsTyped DEF UpTo, Recorded
<1>6. Len(source.lines) \in Nat
  BY <1>2, LogIsTyped
<1>7. OnlyDiagnostics(source, discovery)
  BY <1>3, NothingDiscovered DEF OnlyDiagnostics
<1>8. EventsOf(source, work.events, EventLines(source, 0))
  BY <1>4, <1>5, <1>6 DEF EventsOf, EventLines
<1>9. Scanned(source, work.records, work.events, discovery, 0)
  BY <1>4, <1>5, <1>7, <1>8, FS_EmptySet, MaxRecordsAssumption DEF Scanned
<1> QED
  BY <1>2, <1>4, <1>6, <1>7, <1>9, MaxRecordsAssumption DEF RuntimeInv

(* While the lines are read. *)
LEMMA ReadingFacts ==
    ASSUME RuntimeInv, Is("runtime_queries"), pc = "lines"
    PROVE  /\ source \in Logs /\ DOMAIN work = {"records", "events", "aggregates"}
           /\ at \in Nat /\ at <= Len(source.lines)
           /\ (at < Len(source.lines) => at + 1 \in DOMAIN source.lines /\ R!CurrentLine = source.lines[at + 1])
           /\ Scanned(source, work.records, work.events, discovery, at)
           /\ work.aggregates = << >>
           /\ DOMAIN discovery = DiscoveryFields /\ work.records \in Nat
<1>1. /\ source \in Logs /\ at \in 0 .. Len(source.lines)
      /\ Scanned(source, work.records, work.events, discovery, at)
  BY DEF RuntimeInv
<1>2. at < Len(source.lines) => at + 1 \in DOMAIN source.lines
  BY <1>1, LogIsTyped
<1> QED
  BY <1>1, <1>2 DEF RuntimeInv, R!CurrentLine, OnlyDiagnostics

LEMMA DiagnosedLine ==
    ASSUME NEW s, s = source, NEW d, OnlyDiagnostics(s, d), NEW place
    PROVE  LET e == R!WithDiagnostic(d, place)
           IN  OnlyDiagnostics(s, e) /\ PlacesOf(e) = PlacesOf(d) \cup {place}
<1> DEFINE e == R!WithDiagnostic(d, place)
           x == [required |-> source.required, place |-> place]
<1>1. /\ DOMAIN e = DiscoveryFields /\ e.consumers = d.consumers
      /\ e.references = d.references /\ e.productions = d.productions
      /\ e.diagnostics = d.diagnostics \cup {x}
  BY DEF OnlyDiagnostics, R!WithDiagnostic, DiscoveryFields
<1>2. x.required = s.required /\ x.place = place
  OBVIOUS
<1> HIDE DEF e, x
<1>3. PlacesOf(e) = PlacesOf(d) \cup {place}
  BY <1>1, <1>2 DEF PlacesOf
<1>4. OnlyDiagnostics(s, e)
  BY <1>1, <1>2 DEF OnlyDiagnostics
<1> QED
  BY <1>3, <1>4 DEF e

LEMMA SkipBlankStep ==
    ASSUME RuntimeInv, Is("runtime_queries"), R!SkipBlank
    PROVE  RuntimeInv'
<1>1. /\ pc = "lines" /\ at < Len(source.lines) /\ R!CurrentLine.shape = "blank"
      /\ at' = at + 1 /\ UNCHANGED <<source, work, discovery, pc>>
  BY DEF R!SkipBlank, R!Reading
<1>2. /\ source \in Logs /\ at \in Nat /\ at + 1 \in DOMAIN source.lines
      /\ R!CurrentLine = source.lines[at + 1]
      /\ Scanned(source, work.records, work.events, discovery, at)
  BY <1>1, ReadingFacts
<1>3. UpTo(source, at + 1) = UpTo(source, at)
  BY <1>1, <1>2, NextLine DEF Recorded
<1>4. Scanned(source, work.records, work.events, discovery, at + 1)
  <2>1. Len(work.events) \in Nat
    BY <1>2 DEF Scanned, EventsOf
  <2>2. EventLines(source, at + 1) = EventLines(source, at)
    BY <1>3 DEF EventLines
  <2> QED
    BY <1>2, <1>3, <2>1, <2>2 DEF Scanned
<1>5. at + 1 \in 0 .. Len(source.lines)
  BY <1>2, LogIsTyped
<1> QED
  BY <1>1, <1>4, <1>5 DEF RuntimeInv

LEMMA RejectStep ==
    ASSUME RuntimeInv, Is("runtime_queries"), R!Reject
    PROVE  RuntimeInv'
<1>1. /\ pc = "lines" /\ at < Len(source.lines) /\ R!CurrentLine.shape # "blank"
      /\ work.records < MaxRecords /\ ~ R!Decodes(source.format, R!CurrentLine)
      /\ discovery' = R!WithDiagnostic(discovery, <<"line", at + 1>>)
      /\ work' = [work EXCEPT !.records = @ + 1]
      /\ at' = at + 1 /\ UNCHANGED <<source, pc>>
  BY DEF R!Reject, R!Reading
<1>2. /\ source \in Logs /\ at \in Nat /\ at + 1 \in DOMAIN source.lines
      /\ R!CurrentLine = source.lines[at + 1]
      /\ Scanned(source, work.records, work.events, discovery, at)
      /\ DOMAIN work = {"records", "events", "aggregates"}
      /\ work.aggregates = << >>
  BY <1>1, ReadingFacts
<1>3. at + 1 \in Recorded(source) /\ ~ Legible(source, at + 1)
  BY <1>1, <1>2 DEF Recorded, Legible
<1>4. /\ UpTo(source, at + 1) = UpTo(source, at) \cup {at + 1}
      /\ Cardinality(UpTo(source, at + 1)) = Cardinality(UpTo(source, at)) + 1
  BY <1>2, <1>3, NextLine
<1>5. /\ DOMAIN work' = {"records", "events", "aggregates"}
      /\ work'.records = work.records + 1 /\ work'.events = work.events /\ work'.aggregates = << >>
  BY <1>1, <1>2
<1>6. OnlyDiagnostics(source, discovery') /\ PlacesOf(discovery') = PlacesOf(discovery) \cup {<<"line", at + 1>>}
  BY <1>1, <1>2, DiagnosedLine DEF Scanned
<1>7. Scanned(source, work.records + 1, work.events, discovery', at + 1)
  <2>1. work.records + 1 = Cardinality(UpTo(source, at + 1)) /\ work.records + 1 <= MaxRecords
    <3>1. work.records = Cardinality(UpTo(source, at)) /\ Cardinality(UpTo(source, at)) \in Nat
      BY <1>2, UpToIsFinite DEF Scanned
    <3> QED
      BY <3>1, <1>1, <1>4, MaxRecordsAssumption
  <2>2. EventLines(source, at + 1) = EventLines(source, at)
    BY <1>3, <1>4 DEF EventLines
  <2>3. EventsOf(source, work.events, EventLines(source, at + 1)) /\ Len(work.events) <= at + 1
    <3>1. EventsOf(source, work.events, EventLines(source, at)) /\ Len(work.events) <= at
      BY <1>2 DEF Scanned
    <3>2. Len(work.events) \in Nat
      BY <3>1 DEF EventsOf
    <3> QED
      BY <3>1, <3>2, <2>2, <1>2
  <2>4. \A i \in UpTo(source, at + 1) : ~ Legible(source, i) => <<"line", i>> \in PlacesOf(discovery')
    BY <1>2, <1>4, <1>6 DEF Scanned
  <2> QED
    BY <1>6, <2>1, <2>3, <2>4 DEF Scanned
<1>8. at + 1 \in 0 .. Len(source.lines)
  BY <1>2, LogIsTyped
<1>9. work'.records \in 0 .. MaxRecords
  BY <1>1, <1>5, MaxRecordsAssumption DEF RuntimeInv
<1> QED
  BY <1>1, <1>2, <1>5, <1>6, <1>7, <1>8, <1>9 DEF RuntimeInv

LEMMA AcceptStep ==
    ASSUME RuntimeInv, Is("runtime_queries"), R!Accept
    PROVE  RuntimeInv'
<1> DEFINE new == EventOf(source, at + 1)
           S == EventLines(source, at)
<1>1. /\ pc = "lines" /\ at < Len(source.lines)
      /\ work.records < MaxRecords /\ R!Decodes(source.format, R!CurrentLine)
      /\ work' = [work EXCEPT !.records = @ + 1,
                              !.events = Append(@, R!observedEvent(source.format, R!CurrentLine, at + 1))]
      /\ at' = at + 1 /\ UNCHANGED <<source, discovery, pc>>
  BY DEF R!Accept, R!Reading
<1>2. /\ source \in Logs /\ at \in Nat /\ at + 1 \in DOMAIN source.lines
      /\ R!CurrentLine = source.lines[at + 1]
      /\ Scanned(source, work.records, work.events, discovery, at)
      /\ DOMAIN work = {"records", "events", "aggregates"}
      /\ work.aggregates = << >>
  BY <1>1, ReadingFacts
<1>3. Legible(source, at + 1)
  BY <1>1, <1>2 DEF Legible
<1>4. new \in Event /\ at + 1 \in Recorded(source) /\ new.line = at + 1
  BY <1>2, <1>3, EventIsTyped
<1>5. /\ UpTo(source, at + 1) = UpTo(source, at) \cup {at + 1}
      /\ Cardinality(UpTo(source, at + 1)) = Cardinality(UpTo(source, at)) + 1
  BY <1>2, <1>4, NextLine
<1>6. /\ DOMAIN work' = {"records", "events", "aggregates"}
      /\ work'.records = work.records + 1 /\ work'.events = Append(work.events, new)
      /\ work'.aggregates = << >>
  BY <1>1, <1>2 DEF EventOf
<1>7. EventLines(source, at + 1) = S \cup {at + 1}
  BY <1>3, <1>5 DEF EventLines
<1>8. EventsOf(source, work.events, S) /\ Len(work.events) <= at
  BY <1>2 DEF Scanned
<1>9. \A i \in S : i <= at /\ i \in Nat
  BY <1>2, LogIsTyped DEF UpTo, Recorded, EventLines
<1> HIDE DEF S
<1> DEFINE events == Append(work.events, new)
<1>10. /\ events \in Seq(Event) /\ Len(events) = Len(work.events) + 1
       /\ \A k \in DOMAIN work.events : events[k] = work.events[k]
       /\ events[Len(work.events) + 1] = new
       /\ DOMAIN events = DOMAIN work.events \cup {Len(work.events) + 1}
       /\ DOMAIN work.events = 1 .. Len(work.events) /\ Len(work.events) \in Nat
  BY <1>4, <1>8 DEF EventsOf
<1>11. new = EventOf(source, new.line)
  BY <1>4
<1> HIDE DEF events, new
<1>12. EventsOf(source, events, S \cup {at + 1})
  <2>1. Len(events) <= Len(source.lines)
    BY <1>1, <1>2, <1>8, <1>10, LogIsTyped
  <2>2. \A k \in DOMAIN work.events : work.events[k].line \in S /\ work.events[k] = EventOf(source, work.events[k].line)
    BY <1>8 DEF EventsOf
  <2>3. \A k \in DOMAIN events : events[k].line \in S \cup {at + 1} /\ events[k] = EventOf(source, events[k].line)
    BY <1>4, <1>10, <1>11, <2>2
  <2>4. \A j, k \in DOMAIN events : j < k => events[j].line < events[k].line
    <3> SUFFICES ASSUME NEW j \in DOMAIN events, NEW k \in DOMAIN events, j < k
                 PROVE  events[j].line < events[k].line
      OBVIOUS
    <3>1. j \in DOMAIN work.events
      BY <1>10
    <3>2. CASE k \in DOMAIN work.events
      BY <3>1, <3>2, <1>8, <1>10 DEF EventsOf
    <3>3. CASE k = Len(work.events) + 1
      BY <3>1, <3>3, <2>2, <1>2, <1>4, <1>9, <1>10
    <3> QED
      BY <3>2, <3>3, <1>10
  <2>5. \A i \in S \cup {at + 1} : \E k \in DOMAIN events : events[k].line = i
    <3>1. \A i \in S : \E k \in DOMAIN work.events : work.events[k].line = i
      BY <1>8 DEF EventsOf
    <3> QED
      BY <3>1, <1>4, <1>10
  <2> QED
    BY <1>10, <2>1, <2>3, <2>4, <2>5 DEF EventsOf
<1>13. work.records + 1 = Cardinality(UpTo(source, at + 1)) /\ work.records + 1 <= MaxRecords
  <2>1. work.records = Cardinality(UpTo(source, at)) /\ Cardinality(UpTo(source, at)) \in Nat
    BY <1>2, UpToIsFinite DEF Scanned
  <2> QED
    BY <2>1, <1>1, <1>5, MaxRecordsAssumption
<1>14. \A i \in UpTo(source, at + 1) : ~ Legible(source, i) => <<"line", i>> \in PlacesOf(discovery)
  BY <1>2, <1>3, <1>5 DEF Scanned
<1>15. Len(events) <= at + 1
  BY <1>2, <1>8, <1>10
<1>16. Scanned(source, work.records + 1, events, discovery, at + 1)
  BY <1>2, <1>7, <1>12, <1>13, <1>14, <1>15 DEF Scanned
<1>17. at + 1 \in 0 .. Len(source.lines)
  BY <1>2, LogIsTyped
<1>18. work'.events = events
  BY <1>6 DEF events
<1>19. work'.records \in 0 .. MaxRecords
  BY <1>1, <1>6, MaxRecordsAssumption DEF RuntimeInv
<1>20. OnlyDiagnostics(source, discovery)
  BY <1>2 DEF Scanned
<1> QED
  BY <1>1, <1>2, <1>6, <1>16, <1>17, <1>18, <1>19, <1>20 DEF RuntimeInv

(* At the end of the file, or at the record that is one too many, every     *)
(* record has been accounted for.                                           *)
LEMMA LinesAreDone ==
    ASSUME NEW s \in Logs, NEW n \in Nat, n <= Len(s.lines), NEW records, NEW events, NEW d,
           Scanned(s, records, events, d, n),
           NEW e, PlacesOf(d) \subseteq PlacesOf(e),
           n < Len(s.lines) => /\ n + 1 \in Recorded(s) /\ records = MaxRecords
                               /\ <<"line", n + 1>> \in PlacesOf(e)
    PROVE  EventsOf(s, events, Observed(s)) /\ Accountable(s, e)
<1>1. Recorded(s) \subseteq 1 .. Len(s.lines) /\ Len(s.lines) \in Nat
  BY LogIsTyped DEF Recorded
<1>2. records = Cardinality(UpTo(s, n)) /\ records <= MaxRecords /\ records \in Nat
  BY UpToIsFinite DEF Scanned
<1>3. ASSUME NEW i \in Recorded(s), i > n
      PROVE  /\ n < Len(s.lines) /\ n + 1 \in Recorded(s) /\ n + 1 <= i
             /\ Cardinality(UpTo(s, n + 1)) > MaxRecords
             /\ Cardinality(UpTo(s, i)) > MaxRecords
  <2>1. i \in Nat /\ n < Len(s.lines) /\ n + 1 <= i
    BY <1>1, <1>3
  <2>2. n + 1 \in Recorded(s) /\ records = MaxRecords
    BY <2>1
  <2>3. Cardinality(UpTo(s, n + 1)) = MaxRecords + 1
    <3>1. n + 1 \in DOMAIN s.lines
      BY <2>2 DEF Recorded
    <3>2. Cardinality(UpTo(s, n + 1)) = Cardinality(UpTo(s, n)) + 1
      BY <2>2, <3>1, NextLine
    <3> QED
      BY <1>2, <2>2, <3>2
  <2>4. Cardinality(UpTo(s, n + 1)) <= Cardinality(UpTo(s, i))
    BY <2>1, FewerUpTo
  <2>5. Cardinality(UpTo(s, i)) \in Nat
    BY UpToIsFinite
  <2> QED
    BY <2>1, <2>2, <2>3, <2>4, <2>5, MaxRecordsAssumption
<1>4. ASSUME NEW i \in Recorded(s), i <= n
      PROVE  i \in UpTo(s, n) /\ Cardinality(UpTo(s, i)) <= MaxRecords
  <2>1. i \in Nat /\ Cardinality(UpTo(s, i)) <= Cardinality(UpTo(s, n))
    BY <1>1, <1>4, FewerUpTo
  <2>2. Cardinality(UpTo(s, i)) \in Nat
    BY UpToIsFinite
  <2> QED
    BY <1>2, <1>4, <2>1, <2>2, MaxRecordsAssumption DEF UpTo
<1>5. Observed(s) = EventLines(s, n)
  <2>1. ASSUME NEW i \in Observed(s) PROVE i \in EventLines(s, n)
    <3>1. i \in Recorded(s) /\ Cardinality(UpTo(s, i)) <= MaxRecords /\ Legible(s, i)
      BY <2>1 DEF Observed
    <3>2. i \in Nat /\ Cardinality(UpTo(s, i)) \in Nat
      BY <1>1, <3>1, UpToIsFinite
    <3>3. i <= n
      BY <1>3, <3>1, <3>2, MaxRecordsAssumption
    <3> QED
      BY <1>4, <3>1, <3>3 DEF EventLines
  <2>2. ASSUME NEW i \in EventLines(s, n) PROVE i \in Observed(s)
    <3>1. i \in Recorded(s) /\ i <= n /\ Legible(s, i)
      BY DEF EventLines, UpTo
    <3> QED
      BY <1>4, <3>1 DEF Observed
  <2> QED
    BY <2>1, <2>2
<1>6. EventsOf(s, events, Observed(s))
  BY <1>5 DEF Scanned
<1>7. ASSUME NEW i \in Recorded(s) \ Observed(s)
      PROVE  \/ <<"line", i>> \in PlacesOf(e)
             \/ \E j \in Recorded(s) : /\ j < i /\ Cardinality(UpTo(s, j)) > MaxRecords
                                       /\ <<"line", j>> \in PlacesOf(e)
  <2>1. CASE i <= n
    <3>1. i \in UpTo(s, n) /\ ~ Legible(s, i)
      BY <1>4, <2>1 DEF Observed
    <3> QED
      BY <3>1 DEF Scanned
  <2>2. CASE i > n
    <3>1. /\ n < Len(s.lines) /\ n + 1 \in Recorded(s) /\ n + 1 <= i
          /\ Cardinality(UpTo(s, n + 1)) > MaxRecords
      BY <1>3, <2>2
    <3>2. <<"line", n + 1>> \in PlacesOf(e)
      BY <3>1
    <3>3. CASE n + 1 = i
      BY <3>2, <3>3
    <3>4. CASE n + 1 < i
      BY <3>1, <3>2, <3>4
    <3>5. i \in Nat
      BY <1>1
    <3> QED
      BY <3>1, <3>3, <3>4, <3>5
  <2>3. i <= n \/ i > n
    BY <1>1
  <2> QED
    BY <2>1, <2>2, <2>3
<1> QED
  BY <1>6, <1>7 DEF Accountable

LEMMA NothingAggregated == ASSUME NEW s, NEW events PROVE Aggregated(s, events, << >>, 0)
<1>1. EventsIn(s, events, 0) = {}
  BY DEF EventsIn
<1>2. DOMAIN << >> = {}
  OBVIOUS
<1> QED
  BY <1>1, <1>2 DEF Aggregated

LEMMA LinesStep ==
    ASSUME RuntimeInv, Is("runtime_queries"), R!Overflow \/ R!EndOfFile
    PROVE  RuntimeInv'
<1>1. pc = "lines" /\ pc' = "aggregate" /\ at' = 0 /\ UNCHANGED <<source, work>>
  BY DEF R!Overflow, R!Reading, R!EndOfFile
<1>2. /\ source \in Logs /\ at \in Nat /\ at <= Len(source.lines)
      /\ (at < Len(source.lines) => at + 1 \in DOMAIN source.lines /\ R!CurrentLine = source.lines[at + 1])
      /\ Scanned(source, work.records, work.events, discovery, at)
      /\ DOMAIN work = {"records", "events", "aggregates"}
      /\ work.aggregates = << >>
  BY <1>1, ReadingFacts
<1>3. OnlyDiagnostics(source, discovery)
  BY <1>2 DEF Scanned
<1>4. /\ OnlyDiagnostics(source, discovery')
      /\ EventsOf(source, work.events, Observed(source)) /\ Accountable(source, discovery')
  <2>1. CASE R!Overflow
    <3>1. /\ at < Len(source.lines) /\ R!CurrentLine.shape # "blank" /\ work.records = MaxRecords
          /\ discovery' = R!WithDiagnostic(discovery, <<"line", at + 1>>)
      BY <2>1 DEF R!Overflow, R!Reading
    <3>2. at + 1 \in Recorded(source)
      BY <1>2, <3>1 DEF Recorded
    <3>3. OnlyDiagnostics(source, discovery') /\ PlacesOf(discovery') = PlacesOf(discovery) \cup {<<"line", at + 1>>}
      BY <1>3, <3>1, DiagnosedLine
    <3>4. PlacesOf(discovery) \subseteq PlacesOf(discovery') /\ <<"line", at + 1>> \in PlacesOf(discovery')
      BY <3>3
    <3> QED
      BY <1>2, <3>1, <3>2, <3>3, <3>4, LinesAreDone
  <2>2. CASE R!EndOfFile
    <3>1. at = Len(source.lines) /\ discovery' = discovery
      BY <2>2 DEF R!EndOfFile
    <3>2. PlacesOf(discovery) \subseteq PlacesOf(discovery') /\ ~ (at < Len(source.lines))
      BY <1>2, <3>1
    <3> QED
      BY <1>2, <1>3, <3>1, <3>2, LinesAreDone
  <2> QED
    BY <2>1, <2>2
<1>5. 0 \in 0 .. Len(work.events)
  <2>1. Len(work.events) \in Nat
    BY <1>4 DEF EventsOf
  <2> QED
    BY <2>1
<1> QED
  BY <1>1, <1>2, <1>4, <1>5, NothingAggregated DEF RuntimeInv

(* While the events are aggregated. *)
LEMMA AggregatingFacts ==
    ASSUME RuntimeInv, Is("runtime_queries"), pc = "aggregate"
    PROVE  /\ source \in Logs /\ DOMAIN work = {"records", "events", "aggregates"}
           /\ at \in Nat /\ at <= Len(work.events) /\ Len(work.events) \in Nat
           /\ work.events \in Seq(Event) /\ DOMAIN work.events = 1 .. Len(work.events)
           /\ OnlyDiagnostics(source, discovery)
           /\ EventsOf(source, work.events, Observed(source)) /\ Accountable(source, discovery)
           /\ Aggregated(source, work.events, work.aggregates, at)
<1>1. /\ source \in Logs /\ DOMAIN work = {"records", "events", "aggregates"}
      /\ at \in 0 .. Len(work.events) /\ OnlyDiagnostics(source, discovery)
      /\ EventsOf(source, work.events, Observed(source)) /\ Accountable(source, discovery)
      /\ Aggregated(source, work.events, work.aggregates, at)
  BY DEF RuntimeInv
<1>2. work.events \in Seq(Event)
  BY <1>1 DEF EventsOf
<1> QED
  BY <1>1, <1>2

LEMMA SkipOldStep ==
    ASSUME RuntimeInv, Is("runtime_queries"), R!SkipOld
    PROVE  RuntimeInv'
<1>1. /\ pc = "aggregate" /\ at < Len(work.events) /\ at' = at + 1
      /\ ~ R!inWindow(work.events[at + 1], R!anchorOf(work.events))
      /\ UNCHANGED <<source, work, discovery, pc>>
  BY DEF R!SkipOld, R!Aggregating, R!CurrentEvent
<1>2. /\ source \in Logs /\ at \in Nat /\ Len(work.events) \in Nat
      /\ Aggregated(source, work.events, work.aggregates, at)
  BY <1>1, AggregatingFacts
<1>3. ~ InWindow(source, work.events, at + 1)
  BY <1>1 DEF InWindow, R!inWindow
<1>4. EventsIn(source, work.events, at + 1) = EventsIn(source, work.events, at)
  BY <1>2, <1>3 DEF EventsIn
<1>5. Aggregated(source, work.events, work.aggregates, at + 1)
  BY <1>2, <1>4 DEF Aggregated, EventsFor
<1>6. at + 1 \in 0 .. Len(work.events)
  BY <1>1, <1>2
<1> QED
  BY <1>1, <1>5, <1>6 DEF RuntimeInv

(* What one more event does to the aggregate of its query.                  *)
Extended(a, event) ==
    LET newer == \/ event.time > a.lastSeen
                 \/ event.time = a.lastSeen /\ event.line < a.latestLine
    IN  [executionCount |-> a.executionCount + 1,
         firstSeen |-> IF event.time < a.firstSeen THEN event.time ELSE a.firstSeen,
         lastSeen |-> IF newer THEN event.time ELSE a.lastSeen,
         latestLine |-> IF newer THEN event.line ELSE a.latestLine,
         origins |-> a.origins \cup event.origins]
Fresh(event) == [executionCount |-> 0, firstSeen |-> event.time, lastSeen |-> event.time,
                 latestLine |-> event.line, origins |-> {}]

LEMMA FirstEvent ==
    ASSUME NEW events \in Seq(Event), NEW k \in DOMAIN events
    PROVE  Exact(events, {k}, Extended(Fresh(events[k]), events[k]))
<1> DEFINE e == events[k]
           b == Extended(Fresh(e), e)
<1>1. e \in Event
  OBVIOUS
<1>2. e.time \in Nat /\ e.line \in Nat /\ e.origins \subseteq Origins
  BY <1>1 DEF Event
<1>3. /\ b.executionCount = 1 /\ b.firstSeen = e.time /\ b.lastSeen = e.time
      /\ b.latestLine = e.line /\ b.origins = e.origins /\ b \in Aggregate
  BY <1>2 DEF Extended, Fresh, Aggregate
<1>4. Cardinality({k}) = 1
  BY FS_Singleton
<1>5. UNION {events[j].origins : j \in {k}} = e.origins
  OBVIOUS
<1> HIDE DEF b
<1>6. Exact(events, {k}, b)
  BY <1>2, <1>3, <1>4, <1>5 DEF Exact
<1> QED
  BY <1>6 DEF b

LEMMA OneMoreObservation ==
    ASSUME NEW events \in Seq(Event), NEW k \in DOMAIN events, NEW K \in SUBSET DOMAIN events,
           IsFiniteSet(K), k \notin K, NEW a, Exact(events, K, a)
    PROVE  Exact(events, K \cup {k}, Extended(a, events[k]))
<1> DEFINE e == events[k]
           b == Extended(a, e)
           newer == e.time > a.lastSeen \/ (e.time = a.lastSeen /\ e.line < a.latestLine)
<1>1. \A j \in DOMAIN events : events[j] \in Event
  OBVIOUS
<1>2. \A j \in DOMAIN events : events[j].time \in Nat /\ events[j].line \in Nat /\ events[j].origins \subseteq Origins
  BY <1>1 DEF Event
<1>3. /\ a.executionCount \in Nat /\ a.firstSeen \in Nat /\ a.lastSeen \in Nat
      /\ a.latestLine \in Nat /\ a.origins \subseteq Origins
  BY DEF Exact, Aggregate
<1>4. /\ b.executionCount = a.executionCount + 1
      /\ b.firstSeen = IF e.time < a.firstSeen THEN e.time ELSE a.firstSeen
      /\ b.lastSeen = IF newer THEN e.time ELSE a.lastSeen
      /\ b.latestLine = IF newer THEN e.line ELSE a.latestLine
      /\ b.origins = a.origins \cup e.origins
  BY DEF Extended
<1>5. b \in Aggregate
  BY <1>2, <1>3 DEF Extended, Aggregate
<1> HIDE DEF b
<1>6. b.executionCount = Cardinality(K \cup {k})
  BY <1>4, FS_AddElement DEF Exact
<1>7. \A j \in K : /\ a.firstSeen <= events[j].time /\ events[j].time <= a.lastSeen
                   /\ events[j].line < a.latestLine => events[j].time < a.lastSeen
  BY DEF Exact
<1>8. \A j \in K \cup {k} : b.firstSeen <= events[j].time /\ events[j].time <= b.lastSeen
  BY <1>2, <1>3, <1>4, <1>7
<1>9. \E j \in K \cup {k} : events[j].time = b.firstSeen
  BY <1>4 DEF Exact
<1>10. \E j \in K \cup {k} : events[j].time = b.lastSeen /\ events[j].line = b.latestLine
  BY <1>4 DEF Exact
<1>11. \A j \in K \cup {k} : events[j].line < b.latestLine => events[j].time < b.lastSeen
  <2>1. ASSUME NEW j \in K, events[j].line < b.latestLine PROVE events[j].time < b.lastSeen
    <3>1. events[j].time \in Nat /\ events[j].line \in Nat /\ e.time \in Nat /\ e.line \in Nat
      BY <1>2
    <3>2. /\ events[j].time <= a.lastSeen
          /\ events[j].line < a.latestLine => events[j].time < a.lastSeen
      BY <1>7
    <3> QED
      BY <1>3, <1>4, <2>1, <3>1, <3>2
  <2>2. e.line < b.latestLine => e.time < b.lastSeen
    BY <1>2, <1>3, <1>4
  <2> QED
    BY <2>1, <2>2
<1>12. b.origins = UNION {events[j].origins : j \in K \cup {k}}
  <2>1. a.origins = UNION {events[j].origins : j \in K}
    BY DEF Exact
  <2> QED
    BY <2>1, <1>4
<1>13. Exact(events, K \cup {k}, b)
  BY <1>5, <1>6, <1>8, <1>9, <1>10, <1>11, <1>12 DEF Exact
<1> QED
  BY <1>13 DEF b

LEMMA OneMoreEvent ==
    ASSUME NEW s, NEW events \in Seq(Event), NEW m \in Nat, m + 1 \in DOMAIN events,
           NEW aggregates, Aggregated(s, events, aggregates, m), InWindow(s, events, m + 1)
    PROVE  Aggregated(s, events, R!observe(aggregates, events[m + 1]), m + 1)
<1> DEFINE k == m + 1
           e == events[k]
           next == R!observe(aggregates, e)
           K(q) == EventsFor(s, events, m, q)
<1>1. /\ EventsIn(s, events, m + 1) = EventsIn(s, events, m) \cup {k}
      /\ EventsIn(s, events, m) \subseteq DOMAIN events /\ IsFiniteSet(EventsIn(s, events, m))
      /\ k \notin EventsIn(s, events, m)
  <2>1. 1 .. m + 1 = (1 .. m) \cup {k} /\ 1 .. m \subseteq DOMAIN events /\ k \notin 1 .. m
    OBVIOUS
  <2>2. EventsIn(s, events, m) \subseteq 1 .. m
    BY DEF EventsIn
  <2>3. IsFiniteSet(1 .. m)
    BY FS_Interval
  <2>4. IsFiniteSet(EventsIn(s, events, m))
    BY <2>2, <2>3, FS_Subset
  <2> QED
    BY <2>1, <2>2, <2>4 DEF EventsIn
<1>2. /\ DOMAIN next = DOMAIN aggregates \cup {e.query}
      /\ \A q \in DOMAIN aggregates : q # e.query => next[q] = aggregates[q]
      /\ e.query \in DOMAIN aggregates => next[e.query] = Extended(aggregates[e.query], e)
      /\ e.query \notin DOMAIN aggregates => next[e.query] = Extended(Fresh(e), e)
  BY DEF R!observe, Extended, Fresh
<1> HIDE DEF next
<1>3. DOMAIN next = {events[j].query : j \in EventsIn(s, events, m + 1)}
  BY <1>1, <1>2 DEF Aggregated
<1>4. ASSUME NEW q \in DOMAIN next
      PROVE  Exact(events, EventsFor(s, events, m + 1, q), next[q])
  <2>1. CASE q # e.query
    <3>1. q \in DOMAIN aggregates /\ next[q] = aggregates[q]
      BY <1>2, <2>1
    <3>2. EventsFor(s, events, m + 1, q) = K(q)
      BY <1>1, <2>1 DEF EventsFor
    <3> QED
      BY <3>1, <3>2 DEF Aggregated
  <2>2. CASE q = e.query /\ q \in DOMAIN aggregates
    <3>1. Exact(events, K(q), aggregates[q]) /\ next[q] = Extended(aggregates[q], e)
      BY <1>2, <2>2 DEF Aggregated
    <3>2. EventsFor(s, events, m + 1, q) = K(q) \cup {k}
      BY <1>1, <2>2 DEF EventsFor
    <3>3. K(q) \in SUBSET DOMAIN events /\ IsFiniteSet(K(q)) /\ k \notin K(q)
      <4>1. K(q) \subseteq EventsIn(s, events, m)
        BY DEF EventsFor
      <4> QED
        BY <4>1, <1>1, FS_Subset
    <3> HIDE DEF K
    <3>4. Exact(events, K(q) \cup {k}, Extended(aggregates[q], events[k]))
      BY <3>1, <3>3, OneMoreObservation
    <3> QED
      BY <3>1, <3>2, <3>4
  <2>3. CASE q = e.query /\ q \notin DOMAIN aggregates
    <3>1. next[q] = Extended(Fresh(e), e)
      BY <1>2, <2>3
    <3>2. K(q) = {}
      BY <2>3 DEF Aggregated, EventsFor
    <3>3. EventsFor(s, events, m + 1, q) = {k}
      BY <1>1, <2>3, <3>2 DEF EventsFor
    <3>4. Exact(events, {k}, Extended(Fresh(events[k]), events[k]))
      BY FirstEvent
    <3> QED
      BY <3>1, <3>3, <3>4
  <2> QED
    BY <2>1, <2>2, <2>3
<1>5. Aggregated(s, events, next, m + 1)
  BY <1>3, <1>4 DEF Aggregated
<1> QED
  BY <1>5 DEF next

LEMMA ObserveStep ==
    ASSUME RuntimeInv, Is("runtime_queries"), R!Observe
    PROVE  RuntimeInv'
<1>1. /\ pc = "aggregate" /\ at < Len(work.events) /\ at' = at + 1
      /\ R!inWindow(work.events[at + 1], R!anchorOf(work.events))
      /\ work' = [work EXCEPT !.aggregates = R!observe(@, work.events[at + 1])]
      /\ UNCHANGED <<source, discovery, pc>>
  BY DEF R!Observe, R!Aggregating, R!CurrentEvent
<1>2. /\ source \in Logs /\ at \in Nat /\ Len(work.events) \in Nat
      /\ work.events \in Seq(Event) /\ at + 1 \in DOMAIN work.events
      /\ Aggregated(source, work.events, work.aggregates, at)
      /\ DOMAIN work = {"records", "events", "aggregates"}
  BY <1>1, AggregatingFacts
<1>3. InWindow(source, work.events, at + 1)
  BY <1>1 DEF InWindow, R!inWindow
<1>4. Aggregated(source, work.events, R!observe(work.aggregates, work.events[at + 1]), at + 1)
  BY <1>2, <1>3, OneMoreEvent
<1>5. at + 1 \in 0 .. Len(work.events)
  BY <1>1, <1>2
<1>6. /\ DOMAIN work' = {"records", "events", "aggregates"}
      /\ work'.records = work.records /\ work'.events = work.events
      /\ work'.aggregates = R!observe(work.aggregates, work.events[at + 1])
  BY <1>1, <1>2
<1> QED
  BY <1>1, <1>4, <1>5, <1>6 DEF RuntimeInv

(* Sorting a finite set neither loses nor repeats a member.                 *)
LEMMA SequenceOfSet ==
    ASSUME NEW S, IsFiniteSet(S)
    PROVE  /\ R!Listed(S) \in Seq(S) /\ Len(R!Listed(S)) = Cardinality(S)
           /\ DOMAIN R!Listed(S) = 1 .. Cardinality(S)
           /\ \A x \in S : \E i \in DOMAIN R!Listed(S) : R!Listed(S)[i] = x
<1> DEFINE n == Cardinality(S)
<1>1. n \in Nat /\ ExistsBijection(1 .. n, S)
  BY FS_CardinalityType
<1>2. R!Bijection(1 .. n, S) = Bijection(1 .. n, S)
  BY Zenon DEF R!Bijection, R!Injection, R!Surjection, R!IsInjective, Bijection, Injection, Surjection, IsInjective
<1>3. R!Listed(S) = CHOOSE f \in Bijection(1 .. n, S) : TRUE
  BY <1>2, RuntimeCardinality, Zenon DEF R!Listed
<1> DEFINE f == R!Listed(S)
<1>4. f \in Bijection(1 .. n, S)
  BY <1>1, <1>3, Zenon DEF ExistsBijection
<1>5. f \in Injection(1 .. n, S) /\ f \in Surjection(1 .. n, S)
  BY <1>4, Zenon DEF Bijection
<1>6. f \in [1 .. n -> S]
  BY <1>5, Zenon DEF Injection
<1> HIDE DEF f, n
<1>7. \A x \in S : \E i \in 1 .. n : f[i] = x
  BY <1>5 DEF Surjection
<1>8. f \in Seq(S) /\ Len(f) = n /\ DOMAIN f = 1 .. n
  BY <1>1, <1>6
<1> QED
  BY <1>7, <1>8 DEF f, n

LEMMA AggregatesAreFinite ==
    ASSUME NEW s, NEW events \in Seq(Event), NEW m \in Nat, m <= Len(events),
           NEW aggregates, Aggregated(s, events, aggregates, m)
    PROVE  IsFiniteSet(DOMAIN aggregates) /\ DOMAIN aggregates \subseteq Queries
<1> DEFINE K == EventsIn(s, events, m)
           f == [k \in K |-> events[k].query]
<1>1. IsFiniteSet(K) /\ K \subseteq DOMAIN events
  <2>1. K \subseteq 1 .. m
    BY DEF EventsIn
  <2>2. 1 .. m \subseteq DOMAIN events
    OBVIOUS
  <2>3. IsFiniteSet(1 .. m)
    BY FS_Interval
  <2> HIDE DEF K
  <2> QED
    BY <2>1, <2>2, <2>3, FS_Subset
<1>2. DOMAIN aggregates = {events[k].query : k \in K}
  BY DEF Aggregated
<1> HIDE DEF K
<1>3. f \in Surjection(K, DOMAIN aggregates)
  BY <1>2 DEF Surjection
<1>4. IsFiniteSet(DOMAIN aggregates)
  BY <1>1, <1>3, FS_Surjection
<1>5. \A k \in K : events[k].query \in Queries
  <2>1. \A k \in K : events[k] \in Event
    BY <1>1
  <2> QED
    BY <2>1 DEF Event
<1> QED
  BY <1>2, <1>4, <1>5

(* What the analyzer finds in an expression.                                *)
LEMMA ReferencesAreTyped ==
    ASSUME NEW a, a.symbols \subseteq Symbol, a.patterns \subseteq Symbol, NEW r \in ReferencesIn(a)
    PROVE  r.symbol \in Symbol /\ r.requiresResolution \in BOOLEAN /\ r.scope = ""
<1>1. PICK s \in Symbol, b \in BOOLEAN : r = [symbol |-> s, requiresResolution |-> b, scope |-> ""]
  BY DEF ReferencesIn
<1> QED
  BY <1>1

LEMMA AppendAggregatesStep ==
    ASSUME RuntimeInv, Is("runtime_queries"), R!AppendAggregates
    PROVE  RuntimeInv'
<1> DEFINE queries == DOMAIN work.aggregates
           order == R!Listed(queries)
           places == {[required |-> source.required, place |-> <<"line", work.aggregates[q].latestLine>>] :
                         q \in {q \in queries : Analyses[q].unresolved}}
<1>1. /\ pc = "aggregate" /\ pc' = "loaded" /\ at = Len(work.events)
      /\ discovery' = [discovery EXCEPT
             !.consumers = [i \in DOMAIN order |-> R!queryConsumer(order[i])],
             !.references = UNION {R!queryReferences(q) : q \in queries},
             !.diagnostics = @ \cup places]
      /\ UNCHANGED <<source, at, work>>
  BY DEF R!AppendAggregates
<1>2. /\ source \in Logs /\ work.events \in Seq(Event) /\ at \in Nat /\ at <= Len(work.events)
      /\ OnlyDiagnostics(source, discovery) /\ Accountable(source, discovery)
      /\ Aggregated(source, work.events, work.aggregates, at)
  BY <1>1, AggregatingFacts
<1>3. IsFiniteSet(queries) /\ queries \subseteq Queries
  BY <1>2, AggregatesAreFinite
<1>4. /\ order \in Seq(queries)
      /\ \A q \in queries : \E i \in DOMAIN order : order[i] = q
      /\ \A i \in DOMAIN order : order[i] \in queries
  BY <1>3, SequenceOfSet
<1>5. DOMAIN order = 1 .. Len(order) /\ Len(order) \in Nat
  BY <1>4
<1> HIDE DEF queries, order, places
<1>6. /\ DOMAIN discovery' = DiscoveryFields /\ discovery'.productions = {}
      /\ discovery'.consumers = [i \in DOMAIN order |-> R!queryConsumer(order[i])]
      /\ discovery'.references = UNION {R!queryReferences(q) : q \in queries}
      /\ discovery'.diagnostics = discovery.diagnostics \cup places
  BY <1>1, <1>2 DEF OnlyDiagnostics, DiscoveryFields
<1>7. \A q \in queries : R!queryConsumer(q) \in Consumer /\ R!queryConsumer(q).id = q
  <2>1. "high" \in Criticality /\ source.criticality \in Criticality
    BY <1>2, LogIsTyped DEF Criticality
  <2>2. \A q \in queries : q \in ConsumerIDs /\ Analyses[q].unresolved \in BOOLEAN
    BY <1>3, AnalysesAssumption
  <2> QED
    BY <2>1, <2>2 DEF R!queryConsumer, Consumer
<1>8. /\ discovery'.consumers \in Seq(Consumer)
      /\ Range(discovery'.consumers) = {R!queryConsumer(order[i]) : i \in DOMAIN order}
  <2>1. \A i \in DOMAIN order : R!queryConsumer(order[i]) \in Consumer
    BY <1>4, <1>7
  <2> QED
    BY <1>5, <1>6, <2>1 DEF Range
<1>9. {c.id : c \in Range(discovery'.consumers)} = queries
  <2>1. ASSUME NEW y \in {c.id : c \in Range(discovery'.consumers)} PROVE y \in queries
    BY <1>4, <1>7, <1>8
  <2>2. ASSUME NEW q \in queries PROVE \E c \in Range(discovery'.consumers) : c.id = q
    <3>1. PICK i \in DOMAIN order : order[i] = q
      BY <1>4
    <3> QED
      BY <3>1, <1>7, <1>8
  <2> QED
    BY <2>1, <2>2
<1>10. discovery'.references \subseteq Reference
  <2> SUFFICES ASSUME NEW q \in queries, NEW r \in R!queryReferences(q) PROVE r \in Reference
    BY <1>6
  <2>1. /\ q \in ConsumerIDs
        /\ Analyses[q].symbols \subseteq Symbol /\ Analyses[q].patterns \subseteq Symbol
    BY <1>3, AnalysesAssumption
  <2>2. PICK x \in R!ReferencesIn(Analyses[q]) :
          r = [consumer |-> q, symbol |-> x.symbol,
               requiresResolution |-> x.requiresResolution, scope |-> x.scope]
    BY DEF R!queryReferences
  <2>3. x.symbol \in Symbol /\ x.requiresResolution \in BOOLEAN /\ x.scope = ""
    BY <2>1, <2>2, ReferencesAreTyped DEF R!ReferencesIn, ReferencesIn
  <2> QED
    BY <2>1, <2>2, <2>3 DEF Reference
<1>11. \A x \in places : x.required = source.required
  BY DEF places
<1>12. \A x \in discovery'.diagnostics : x.required = source.required
  BY <1>2, <1>6, <1>11 DEF OnlyDiagnostics
<1>13. PlacesOf(discovery) \subseteq PlacesOf(discovery')
  BY <1>6 DEF PlacesOf
<1>14. ASSUME NEW q \in queries, Analyses[q].unresolved
       PROVE  <<"line", work.aggregates[q].latestLine>> \in PlacesOf(discovery')
  <2> DEFINE x == [required |-> source.required, place |-> <<"line", work.aggregates[q].latestLine>>]
  <2>1. x \in places /\ x.place = <<"line", work.aggregates[q].latestLine>>
    BY <1>14 DEF places
  <2> HIDE DEF x
  <2> QED
    BY <1>6, <2>1 DEF PlacesOf
<1>15. Accountable(source, discovery')
  BY <1>2, <1>13 DEF Accountable
<1>16. \A c \in Range(discovery'.consumers) : c.unresolved = Analyses[c.id].unresolved
  <2>1. \A q \in queries : R!queryConsumer(q).unresolved = Analyses[q].unresolved
    BY DEF R!queryConsumer
  <2> QED
    BY <1>4, <1>7, <1>8, <2>1
<1>17. \A q \in queries : R!queryReferences(q) \subseteq discovery'.references
  BY <1>6
<1>18. FoundInLog(source, work.aggregates, discovery')
  BY <1>6, <1>8, <1>9, <1>10, <1>12, <1>14, <1>16, <1>17 DEF FoundInLog, queries
<1> QED
  BY <1>1, <1>15, <1>18 DEF RuntimeInv

LEMMA RuntimeStep == RuntimeInv /\ [Next]_vars => RuntimeInv'
<1> SUFFICES ASSUME RuntimeInv, [Next]_vars, Is("runtime_queries"), source' = source PROVE RuntimeInv'
  BY SourceIsConstant DEF RuntimeInv, Is
<1>1. CASE UNCHANGED vars
  BY <1>1 DEF RuntimeInv, Is, vars
<1>2. CASE Cancel
  BY <1>2 DEF RuntimeInv, Is, Cancel
<1>3. ~ T!Next /\ ~ P!Next /\ ~ O!Next
  BY TempoMoves, PersesMoves, OwnershipMoves DEF RuntimeInv
<1>4. CASE R!Unreadable \/ R!Stopped
  <2>1. /\ pc = "lines" /\ pc' = "failed" /\ UNCHANGED <<at, work>>
        /\ discovery' = R!WithDiagnostic(R!EmptyDiscovery, R!Whole)
    BY <1>4 DEF R!Unreadable, R!Stopped, R!Fail
  <2>2. R!EmptyDiscovery = EmptyDiscovery
    BY DEF R!EmptyDiscovery, EmptyDiscovery
  <2>3. OnlyDiagnostics(source, EmptyDiscovery)
    BY NothingDiscovered DEF OnlyDiagnostics
  <2>4. OnlyDiagnostics(source, discovery')
    BY <2>1, <2>2, <2>3, DiagnosedLine
  <2> QED
    BY <2>1, <2>4 DEF RuntimeInv
<1> QED
  BY <1>1, <1>2, <1>3, <1>4, SkipBlankStep, RejectStep, AcceptStep, LinesStep, SkipOldStep, ObserveStep,
     AppendAggregatesStep DEF Next, R!Next

(* The anchor of the window is the newest of the events.                    *)
LEMMA AnchorIsNewest ==
    ASSUME NEW events \in Seq(Event), NEW k0 \in DOMAIN events
    PROVE  LET anchor == R!anchorOf(events)
           IN  /\ \E k \in DOMAIN events : events[k].time = anchor
               /\ \A k \in DOMAIN events : events[k].time <= anchor
<1> DEFINE times == {events[k].time : k \in DOMAIN events}
           n == Len(events)
           Newest(t) == \A k \in DOMAIN events : events[k].time <= t
<1>1. \A k \in DOMAIN events : events[k].time \in Nat
  <2>1. \A k \in DOMAIN events : events[k] \in Event
    OBVIOUS
  <2> QED
    BY <2>1 DEF Event
<1>2. times \in SUBSET Nat /\ times # {}
  BY <1>1
<1>3. IsFiniteSet(times)
  <2> DEFINE f == [k \in DOMAIN events |-> events[k].time]
  <2>1. f \in Surjection(DOMAIN events, times)
    BY DEF Surjection
  <2>2. IsFiniteSet(DOMAIN events)
    <3>1. DOMAIN events = 1 .. n /\ n \in Nat
      OBVIOUS
    <3> QED
      BY <3>1, FS_Interval
  <2> QED
    BY <2>1, <2>2, FS_Surjection
<1> HIDE DEF times
<1>4. \E t \in times : \A u \in times : u <= t
  BY <1>2, <1>3, GreatestOfFinite
<1>5. \E t \in times : Newest(t)
  BY <1>4 DEF times
<1>6. R!anchorOf(events) = CHOOSE t \in times : Newest(t)
  BY DEF R!anchorOf, times
<1> HIDE DEF Newest
<1>7. R!anchorOf(events) \in times /\ Newest(R!anchorOf(events))
  BY <1>5, <1>6
<1> QED
  BY <1>7 DEF times, Newest

(* The window holds what is recent.                                         *)
LEMMA WindowIsRecent ==
    ASSUME NEW s \in Logs, NEW events, EventsOf(s, events, Observed(s)), NEW k \in DOMAIN events
    PROVE  /\ events[k].line \in Observed(s) /\ s.lines[events[k].line].time = events[k].time
           /\ s.lines[events[k].line].query = events[k].query
           /\ R!originsOf(s.format, s.lines[events[k].line]) = events[k].origins
           /\ InWindow(s, events, k) <=>
                 (s.window > 0 => \A j \in Observed(s) : s.lines[j].time <= events[k].time + s.window)
<1>1. /\ events \in Seq(Event) /\ s.window \in Nat
      /\ \A i \in DOMAIN events : events[i].line \in Observed(s) /\ events[i] = EventOf(s, events[i].line)
      /\ \A j \in Observed(s) : \E i \in DOMAIN events : events[i].line = j
  BY LogIsTyped DEF EventsOf
<1>2. \A j \in Observed(s) : j \in DOMAIN s.lines /\ Legible(s, j)
  BY DEF Observed, Recorded
<1>3. \A i \in DOMAIN events : /\ s.lines[events[i].line].time = events[i].time
                               /\ s.lines[events[i].line].query = events[i].query
                               /\ R!originsOf(s.format, s.lines[events[i].line]) = events[i].origins
                               /\ events[i].time \in Nat
  <2> TAKE i \in DOMAIN events
  <2>1. events[i].line \in DOMAIN s.lines /\ Legible(s, events[i].line)
    BY <1>1, <1>2
  <2>2. events[i].time \in Nat
    <3>1. events[i] \in Event
      BY <1>1
    <3> QED
      BY <3>1 DEF Event
  <2>3. events[i] = EventOf(s, events[i].line)
    BY <1>1
  <2>4. /\ EventOf(s, events[i].line).time = s.lines[events[i].line].time
        /\ EventOf(s, events[i].line).query = s.lines[events[i].line].query
        /\ EventOf(s, events[i].line).origins = R!originsOf(s.format, s.lines[events[i].line])
    BY <2>1, EventIsTyped
  <2> QED
    BY <2>2, <2>3, <2>4
<1>4. /\ \E i \in DOMAIN events : events[i].time = R!anchorOf(events)
      /\ \A i \in DOMAIN events : events[i].time <= R!anchorOf(events)
  BY <1>1, AnchorIsNewest
<1>5. R!anchorOf(events) \in Nat
  BY <1>3, <1>4
<1>6. events[k].time + s.window >= R!anchorOf(events)
        <=> \A i \in DOMAIN events : events[i].time <= events[k].time + s.window
  BY <1>1, <1>3, <1>4, <1>5
<1>7. (\A i \in DOMAIN events : events[i].time <= events[k].time + s.window)
        <=> \A j \in Observed(s) : s.lines[j].time <= events[k].time + s.window
  <2>1. ASSUME \A i \in DOMAIN events : events[i].time <= events[k].time + s.window, NEW j \in Observed(s)
        PROVE  s.lines[j].time <= events[k].time + s.window
    <3>1. PICK i \in DOMAIN events : events[i].line = j
      BY <1>1
    <3> QED
      BY <1>3, <2>1, <3>1
  <2>2. ASSUME \A j \in Observed(s) : s.lines[j].time <= events[k].time + s.window, NEW i \in DOMAIN events
        PROVE  events[i].time <= events[k].time + s.window
    <3>1. events[i].line \in Observed(s)
      BY <1>1
    <3> QED
      BY <1>3, <2>2, <3>1
  <2> QED
    BY <2>1, <2>2
<1>8. InWindow(s, events, k) <=>
         (s.window > 0 => \A j \in Observed(s) : s.lines[j].time <= events[k].time + s.window)
  <2>1. InWindow(s, events, k) <=> (s.window = 0 \/ events[k].time + s.window >= R!anchorOf(events))
    BY DEF InWindow
  <2>2. s.window = 0 <=> ~(s.window > 0)
    BY <1>1
  <2> QED
    BY <1>6, <1>7, <2>1, <2>2
<1> QED
  BY <1>1, <1>3, <1>8

(* What the invariant says of a log that was loaded.                        *)
LEMMA LoadedLog == RuntimeInv => NoObservationIsLost
<1> SUFFICES ASSUME RuntimeInv, Is("runtime_queries"), pc = "loaded"
             PROVE  R!NoObservationIsLost
  BY DEF NoObservationIsLost, R!NoObservationIsLost
<1> DEFINE s == source
           events == work.events
           m == Len(events)
           K(q) == EventsFor(s, events, m, q)
           of(q) == {i \in R!Recent : source.lines[i].query = q}
<1>1. /\ s \in Logs /\ EventsOf(s, events, Observed(s)) /\ Accountable(s, discovery)
      /\ Aggregated(s, events, work.aggregates, m) /\ FoundInLog(s, work.aggregates, discovery)
  BY DEF RuntimeInv
<1>2. events \in Seq(Event) /\ DOMAIN events = 1 .. m /\ m \in Nat
  BY <1>1 DEF EventsOf
<1>3. /\ R!Records = Recorded(s) /\ R!Observations = Observed(s)
      /\ \A i : R!RecordNumber(i) = Cardinality(UpTo(s, i))
  BY RuntimeCardinality DEF R!Records, R!Observations, R!RecordNumber, Recorded, Observed, UpTo, Legible
<1>4. ASSUME NEW place PROVE R!Diagnosed(place) <=> place \in PlacesOf(discovery)
  BY DEF R!Diagnosed, PlacesOf
<1>5. R!Recent = {i \in Observed(s) :
                    s.window > 0 => \A j \in Observed(s) : s.lines[j].time <= s.lines[i].time + s.window}
  BY <1>3 DEF R!Recent, R!TimeOf
<1>6. \A k \in DOMAIN events :
         /\ s.lines[events[k].line].time = events[k].time
         /\ s.lines[events[k].line].query = events[k].query
         /\ R!originsOf(s.format, s.lines[events[k].line]) = events[k].origins
         /\ k \in EventsIn(s, events, m) <=> events[k].line \in R!Recent
  <2> TAKE k \in DOMAIN events
  <2>1. /\ events[k].line \in Observed(s) /\ s.lines[events[k].line].time = events[k].time
        /\ s.lines[events[k].line].query = events[k].query
        /\ R!originsOf(s.format, s.lines[events[k].line]) = events[k].origins
        /\ InWindow(s, events, k) <=>
              (s.window > 0 => \A j \in Observed(s) : s.lines[j].time <= events[k].time + s.window)
    BY <1>1, WindowIsRecent
  <2>2. k \in EventsIn(s, events, m) <=> InWindow(s, events, k)
    BY <1>2 DEF EventsIn
  <2> QED
    BY <1>5, <2>1, <2>2
<1>7. ASSUME NEW i \in R!Recent
      PROVE  \E k \in EventsIn(s, events, m) : events[k].line = i
  <2>1. PICK k \in DOMAIN events : events[k].line = i
    BY <1>1, <1>5, <1>7 DEF EventsOf
  <2> QED
    BY <1>6, <1>7, <2>1
<1>8. EventsIn(s, events, m) \subseteq DOMAIN events
  BY <1>2 DEF EventsIn
<1> HIDE DEF s, events, m
<1>9. ASSUME NEW q
      PROVE  /\ K(q) \subseteq DOMAIN events
             /\ \A k \in K(q) : events[k].line \in of(q)
             /\ \A i \in of(q) : \E k \in K(q) : events[k].line = i
  BY <1>6, <1>7, <1>8 DEF EventsFor, s
<1>10. ASSUME NEW q
       PROVE  Cardinality(of(q)) = Cardinality(K(q))
  <2> DEFINE f == [k \in K(q) |-> events[k].line]
  <2>1. \A j, k \in DOMAIN events : events[j].line = events[k].line => j = k
    <3>1. \A j, k \in DOMAIN events : j < k => events[j].line < events[k].line
      BY <1>1 DEF EventsOf
    <3>2. \A k \in DOMAIN events : events[k].line \in Nat
      <4>1. \A k \in DOMAIN events : events[k] \in Event
        BY <1>2
      <4> QED
        BY <4>1 DEF Event
    <3> QED
      BY <3>1, <3>2, <1>2
  <2>2. K(q) \subseteq 1 .. m
    BY <1>2, <1>9
  <2>3. IsFiniteSet(K(q))
    BY <1>2, <2>2, FS_Interval, FS_Subset
  <2>4. f \in Bijection(K(q), of(q))
    <3>1. f \in [K(q) -> of(q)]
      BY <1>9
    <3>2. IsInjective(f)
      BY <1>9, <2>1 DEF IsInjective
    <3>3. \A i \in of(q) : \E k \in K(q) : f[k] = i
      BY <1>9
    <3> QED
      BY <3>1, <3>2, <3>3 DEF Bijection, Injection, Surjection
  <2> HIDE DEF f, K, of
  <2> QED
    BY <2>3, <2>4, FS_Bijection DEF ExistsBijection
<1>11. \A i \in R!Records \ R!Observations :
          \/ R!Diagnosed(<<"line", i>>)
          \/ \E j \in R!Records : j < i /\ R!RecordNumber(j) > MaxRecords /\ R!Diagnosed(<<"line", j>>)
  BY <1>1, <1>3, <1>4 DEF Accountable
<1>12. DOMAIN work.aggregates = {source.lines[i].query : i \in R!Recent}
  <2>1. DOMAIN work.aggregates = {events[k].query : k \in EventsIn(s, events, m)}
    BY <1>1 DEF Aggregated
  <2>2. ASSUME NEW i \in R!Recent PROVE source.lines[i].query \in DOMAIN work.aggregates
    BY <1>6, <1>7, <1>8, <2>1 DEF s
  <2>3. ASSUME NEW q \in DOMAIN work.aggregates PROVE \E i \in R!Recent : q = source.lines[i].query
    BY <1>6, <1>8, <2>1 DEF s
  <2> QED
    BY <2>2, <2>3
<1>13. {c.id : c \in R!Range(discovery.consumers)} = DOMAIN work.aggregates
  <2>1. R!Range(discovery.consumers) = Range(discovery.consumers)
    BY DEF R!Range, Range
  <2> QED
    BY <1>1, <2>1 DEF FoundInLog
<1>14. ASSUME NEW q \in DOMAIN work.aggregates
       PROVE  LET a == work.aggregates[q]
              IN  /\ a.executionCount = Cardinality(of(q))
                  /\ \A i \in of(q) : R!TimeOf(i) \in a.firstSeen .. a.lastSeen
                  /\ \E i \in of(q) : R!TimeOf(i) = a.firstSeen
                  /\ a.latestLine \in of(q) /\ R!TimeOf(a.latestLine) = a.lastSeen
                  /\ \A i \in of(q) : i < a.latestLine => R!TimeOf(i) < a.lastSeen
                  /\ a.origins = UNION {R!originsOf(source.format, source.lines[i]) : i \in of(q)}
                  /\ Analyses[q].unresolved => R!Diagnosed(<<"line", a.latestLine>>)
  <2> DEFINE a == work.aggregates[q]
  <2>1. Exact(events, K(q), a)
    BY <1>1 DEF Aggregated
  <2>2. /\ K(q) \subseteq DOMAIN events
        /\ \A k \in K(q) : events[k].line \in of(q)
        /\ \A i \in of(q) : \E k \in K(q) : events[k].line = i
    BY <1>9
  <2>3. \A k \in K(q) : /\ R!TimeOf(events[k].line) = events[k].time
                        /\ R!originsOf(source.format, source.lines[events[k].line]) = events[k].origins
    BY <1>6, <2>2 DEF R!TimeOf, s
  <2>4. a.executionCount = Cardinality(of(q))
    BY <1>10, <2>1 DEF Exact
  <2>5. a.firstSeen \in Nat /\ a.lastSeen \in Nat /\ \A k \in DOMAIN events : events[k].time \in Nat
    <3>1. \A k \in DOMAIN events : events[k] \in Event
      BY <1>2
    <3>2. a \in Aggregate
      BY <2>1 DEF Exact
    <3> QED
      BY <3>1, <3>2 DEF Event, Aggregate
  <2> HIDE DEF K, of, a
  <2>6. \A i \in of(q) : R!TimeOf(i) \in a.firstSeen .. a.lastSeen
    <3> TAKE i \in of(q)
    <3>1. PICK k \in K(q) : events[k].line = i
      BY <2>2
    <3>2. a.firstSeen <= events[k].time /\ events[k].time <= a.lastSeen /\ events[k].time \in Nat
      BY <2>1, <2>2, <2>5 DEF Exact
    <3> QED
      BY <2>3, <2>5, <3>1, <3>2
  <2>7. \E i \in of(q) : R!TimeOf(i) = a.firstSeen
    BY <2>1, <2>2, <2>3 DEF Exact
  <2>8. a.latestLine \in of(q) /\ R!TimeOf(a.latestLine) = a.lastSeen
    BY <2>1, <2>2, <2>3 DEF Exact
  <2>9. \A i \in of(q) : i < a.latestLine => R!TimeOf(i) < a.lastSeen
    BY <2>1, <2>2, <2>3 DEF Exact
  <2>10. a.origins = UNION {R!originsOf(source.format, source.lines[i]) : i \in of(q)}
    <3>1. a.origins = UNION {events[k].origins : k \in K(q)}
      BY <2>1 DEF Exact
    <3>2. ASSUME NEW o
          PROVE  (\E k \in K(q) : o \in events[k].origins)
                    <=> \E i \in of(q) : o \in R!originsOf(source.format, source.lines[i])
      BY <2>2, <2>3
    <3> QED
      BY <3>1, <3>2
  <2>11. Analyses[q].unresolved => R!Diagnosed(<<"line", a.latestLine>>)
    BY <1>1, <1>4 DEF FoundInLog, a
  <2> QED
    BY <2>4, <2>6, <2>7, <2>8, <2>9, <2>10, <2>11 DEF a, of
<1>15. pc = "loaded"
  OBVIOUS
<1> QED
  BY <1>11, <1>12, <1>13, <1>14, <1>15, RuntimeCardinality DEF R!NoObservationIsLost

(* The invariant of the runtime-query adapter, for every log, window and    *)
(* limit, whenever the deadline passes.                                     *)
THEOREM RuntimeInvariant == Spec => []RuntimeInv
  BY RuntimeInit, RuntimeStep, PTL DEF Spec

(* No record of a query log disappears in silence, and what a query's       *)
(* aggregate says of its executions in the window is exact.                 *)
THEOREM LogsAreAccounted == Spec => []NoObservationIsLost
  BY RuntimeInvariant, LoadedLog, PTL

-----------------------------------------------------------------------------
(* Ownership                                                                *)

LEMMA RepositoryIsTyped ==
    ASSUME NEW s \in Repositories
    PROVE  /\ s.adapter = "ownership"
           /\ Len(s.metadata) \in Nat /\ DOMAIN s.metadata = 1 .. Len(s.metadata)
           /\ \A p \in DOMAIN s.files :
                 /\ p \in O!Range(SortedPaths) /\ p # NoPath
                 /\ s.files[p].rules \in Seq(O!MetadataRule) /\ s.files[p].lines \in Seq(O!CodeownersLine)
           /\ s.consumers \in Seq(O!OwnedConsumer) /\ Len(s.consumers) \in Nat
           /\ DOMAIN s.consumers = 1 .. Len(s.consumers)
           /\ DOMAIN s.discovery = DiscoveryFields
           /\ s.discovery.consumers \in Seq(Consumer) /\ s.discovery.references \subseteq Reference
           /\ s.discovery.productions \subseteq Production
           /\ \A x \in s.discovery.diagnostics : x.required \in BOOLEAN
<1>1. O!IsRepository(s)
  BY RepositoriesAssumption
<1>2. /\ s.adapter = "ownership" /\ s.metadata \in Seq(Seq(O!Segments) \ {<< >>})
      /\ DOMAIN s.files \subseteq O!Range(SortedPaths)
      /\ \A p \in DOMAIN s.files : s.files[p] \in O!File
      /\ s.consumers \in Seq(O!OwnedConsumer)
      /\ s.discovery \in [consumers : Seq(O!Consumer), references : SUBSET O!Reference,
                          productions : SUBSET O!Production,
                          diagnostics : SUBSET [required : BOOLEAN, place : {O!Whole}]]
  BY <1>1 DEF O!IsRepository
<1>3. O!Consumer = Consumer /\ O!Reference = Reference /\ O!Production = Production
  BY DEF O!Criticality, Criticality, O!Symbol, Symbol, O!Domains, Domains, O!Kinds, Kinds,
         O!Consumer, Consumer, O!Reference, Reference, O!Production, Production
<1>4. \A p \in DOMAIN s.files : s.files[p].rules \in Seq(O!MetadataRule) /\ s.files[p].lines \in Seq(O!CodeownersLine)
  BY <1>2 DEF O!File
<1>5. \A p \in DOMAIN s.files : p \in O!Range(SortedPaths) /\ p # NoPath
  BY <1>2, SortedPathsAssumption
<1>6. Len(s.metadata) \in Nat /\ DOMAIN s.metadata = 1 .. Len(s.metadata)
  BY <1>2
<1>7. Len(s.consumers) \in Nat /\ DOMAIN s.consumers = 1 .. Len(s.consumers)
  BY <1>2
<1>8. /\ DOMAIN s.discovery = DiscoveryFields
      /\ s.discovery.consumers \in Seq(Consumer) /\ s.discovery.references \subseteq Reference
      /\ s.discovery.productions \subseteq Production
      /\ \A x \in s.discovery.diagnostics : x.required \in BOOLEAN
  BY <1>2, <1>3 DEF DiscoveryFields
<1> QED
  BY <1>2, <1>4, <1>5, <1>6, <1>7, <1>8

LEMMA FilesAreThere ==
    ASSUME NEW s, NEW k
    PROVE  FilesOf(s, k) \subseteq DOMAIN s.files
  BY DEF FilesOf, O!Expand, O!filesUnder

LEMMA PositionOfPath ==
    /\ DOMAIN SortedPaths \subseteq Nat
    /\ \A i \in DOMAIN SortedPaths : Position(SortedPaths[i]) = i
<1>1. DOMAIN SortedPaths \subseteq Nat
  BY SortedPathsAssumption
<1>2. ASSUME NEW i \in DOMAIN SortedPaths PROVE Position(SortedPaths[i]) = i
  <2>1. \A j \in DOMAIN SortedPaths : SortedPaths[j] = SortedPaths[i] => j = i
    BY SortedPathsAssumption
  <2> QED
    BY <2>1 DEF Position
<1> QED
  BY <1>1, <1>2

LEMMA NamedSoFar ==
    ASSUME NEW s, NEW n \in Nat
    PROVE  /\ Named(s, 0) = {}
           /\ Named(s, n + 1) = Named(s, n) \cup FilesOf(s, n + 1)
           /\ Named(s, n) \subseteq DOMAIN s.files
           /\ \A p \in Named(s, n), k \in Nat : FirstNames(s, k, p) => k <= n
           /\ \A p \in FilesOf(s, n + 1) \ Named(s, n) : FirstNames(s, n + 1, p)
<1>1. Named(s, 0) = {}
  BY DEF Named
<1>2. 1 .. n + 1 = (1 .. n) \cup {n + 1}
  OBVIOUS
<1>3. Named(s, n + 1) = Named(s, n) \cup FilesOf(s, n + 1)
  BY <1>2 DEF Named
<1>4. Named(s, n) \subseteq DOMAIN s.files
  BY FilesAreThere DEF Named
<1>5. ASSUME NEW p \in Named(s, n), NEW k \in Nat, FirstNames(s, k, p) PROVE k <= n
  <2>1. PICK j \in 1 .. n : p \in FilesOf(s, j)
    BY DEF Named
  <2>2. j \notin 1 .. k - 1
    BY <1>5, <2>1 DEF FirstNames
  <2> QED
    BY <2>1, <2>2
<1>6. ASSUME NEW p \in FilesOf(s, n + 1) \ Named(s, n) PROVE FirstNames(s, n + 1, p)
  <2>1. \A j \in 1 .. (n + 1) - 1 : j \in 1 .. n
    OBVIOUS
  <2> QED
    BY <2>1 DEF Named, FirstNames
<1> QED
  BY <1>1, <1>3, <1>4, <1>5, <1>6

LEMMA FirstIsUnique ==
    ASSUME NEW s, NEW p, NEW j \in Nat, NEW k \in Nat, j > 0, k > 0, FirstNames(s, j, p), FirstNames(s, k, p)
    PROVE  j = k
<1>1. j \notin 1 .. k - 1 /\ k \notin 1 .. j - 1
  BY DEF FirstNames
<1> QED
  BY <1>1

(* The files that are loaded come after those that have been, and so do     *)
(* their rules.                                                             *)
LEMMA RulesOfFile ==
    ASSUME NEW s \in Repositories, NEW k \in DOMAIN s.metadata, NEW rules, NEW loaded, NEW path,
           path \notin loaded, FirstNames(s, k, path), path \in DOMAIN s.files,
           s.files[path].kind = "metadata",
           loaded \subseteq Named(s, k),
           \A p \in loaded : FirstNames(s, k, p) => Position(p) < Position(path),
           RulesAreFrom(s, rules, loaded)
    PROVE  RulesAreFrom(s, rules \o s.files[path].rules, loaded \cup {path})
<1> DEFINE new == s.files[path].rules
           n == Len(rules)
           m == Len(new)
           all == rules \o new
<1>1. rules \in Seq(O!MetadataRule) /\ new \in Seq(O!MetadataRule)
  BY RepositoryIsTyped DEF RulesAreFrom
<1>2. PICK g : Provenance(s, rules, loaded, g)
  BY DEF RulesAreFrom
<1>3. /\ n \in Nat /\ m \in Nat /\ DOMAIN rules = 1 .. n /\ DOMAIN new = 1 .. m
      /\ all \in Seq(O!MetadataRule) /\ Len(all) = n + m /\ DOMAIN all = 1 .. n + m
      /\ \A x \in 1 .. n : all[x] = rules[x]
      /\ \A x \in 1 .. n + m : x > n => all[x] = new[x - n]
  BY <1>1
<1> DEFINE h == [x \in 1 .. n + m |-> IF x <= n THEN g[x] ELSE <<k, path, x - n>>]
<1>4. /\ DOMAIN h = 1 .. n + m
      /\ \A x \in 1 .. n : h[x] = g[x]
      /\ \A x \in 1 .. n + m : x > n => h[x] = <<k, path, x - n>>
  BY <1>3
<1>5. k \in Nat /\ k > 0
  BY RepositoryIsTyped
<1>6. /\ \A x \in 1 .. n : /\ IsRule(s, g[x]) /\ g[x][2] \in loaded
                           /\ rules[x] = s.files[g[x][2]].rules[g[x][3]]
      /\ \A x, y \in 1 .. n : x < y => Precedes(g[x], g[y])
      /\ \A r : IsRule(s, r) /\ r[2] \in loaded => \E x \in 1 .. n : g[x] = r
  BY <1>2, <1>3 DEF Provenance
<1> HIDE DEF h, all, n, m, new
<1>7. ASSUME NEW x \in 1 .. n, NEW i PROVE Precedes(g[x], <<k, path, i>>)
  <2>1. /\ g[x][1] \in DOMAIN s.metadata /\ FirstNames(s, g[x][1], g[x][2]) /\ g[x][2] \in loaded
    BY <1>6 DEF IsRule
  <2>2. g[x][1] \in Nat /\ g[x][2] \in Named(s, k)
    BY <2>1, RepositoryIsTyped
  <2>3. g[x][1] <= k
    BY <1>5, <2>1, <2>2, NamedSoFar
  <2>4. g[x][1] = k => Position(g[x][2]) < Position(path)
    BY <2>1
  <2>5. <<k, path, i>>[1] = k /\ <<k, path, i>>[2] = path
    OBVIOUS
  <2> QED
    BY <1>5, <2>2, <2>3, <2>4, <2>5 DEF Precedes
<1>8. ASSUME NEW i \in 1 .. m PROVE IsRule(s, <<k, path, i>>)
  BY <1>3 DEF IsRule, new
<1>9. \A x \in 1 .. n + m : /\ IsRule(s, h[x]) /\ h[x][2] \in loaded \cup {path}
                            /\ all[x] = s.files[h[x][2]].rules[h[x][3]]
  <2> TAKE x \in 1 .. n + m
  <2>1. CASE x <= n
    <3>1. x \in 1 .. n
      BY <1>3, <2>1
    <3> QED
      BY <1>3, <1>4, <1>6, <3>1
  <2>2. CASE x > n
    <3>1. x - n \in 1 .. m /\ h[x] = <<k, path, x - n>> /\ all[x] = new[x - n]
      BY <1>3, <1>4, <2>2
    <3>2. h[x][2] = path /\ h[x][3] = x - n
      BY <3>1
    <3> QED
      BY <1>8, <3>1, <3>2 DEF new
  <2> QED
    BY <1>3, <2>1, <2>2
<1>10. \A x, y \in 1 .. n + m : x < y => Precedes(h[x], h[y])
  <2> SUFFICES ASSUME NEW x \in 1 .. n + m, NEW y \in 1 .. n + m, x < y
               PROVE  Precedes(h[x], h[y])
    OBVIOUS
  <2>1. CASE y <= n
    <3>1. x \in 1 .. n /\ y \in 1 .. n
      BY <1>3, <2>1
    <3> QED
      BY <1>4, <1>6, <3>1
  <2>2. CASE x <= n /\ y > n
    <3>1. x \in 1 .. n /\ h[y] = <<k, path, y - n>>
      BY <1>3, <1>4, <2>2
    <3> QED
      BY <1>4, <1>7, <3>1
  <2>3. CASE x > n /\ y > n
    <3>1. h[x] = <<k, path, x - n>> /\ h[y] = <<k, path, y - n>> /\ x - n < y - n
      BY <1>3, <1>4, <2>3
    <3> QED
      BY <3>1 DEF Precedes
  <2> QED
    BY <1>3, <2>1, <2>2, <2>3
<1>11. ASSUME NEW r, IsRule(s, r), r[2] \in loaded \cup {path} PROVE \E x \in 1 .. n + m : h[x] = r
  <2>1. CASE r[2] \in loaded
    <3>1. PICK x \in 1 .. n : g[x] = r
      BY <1>6, <1>11, <2>1
    <3> QED
      BY <1>3, <1>4, <3>1
  <2>2. CASE r[2] = path
    <3>1. r = <<r[1], path, r[3]>> /\ r[1] \in DOMAIN s.metadata /\ FirstNames(s, r[1], path) /\ r[3] \in 1 .. m
      BY <1>3, <1>11, <2>2 DEF IsRule, new
    <3>2. r[1] \in Nat /\ r[1] > 0
      BY <3>1, RepositoryIsTyped
    <3>3. r[1] = k
      BY <1>5, <3>1, <3>2, FirstIsUnique
    <3>4. n + r[3] \in 1 .. n + m /\ n + r[3] > n /\ (n + r[3]) - n = r[3]
      BY <1>3, <3>1
    <3> QED
      BY <1>4, <3>1, <3>3, <3>4
  <2> QED
    BY <1>11, <2>1, <2>2
<1>12. Provenance(s, all, loaded \cup {path}, h)
  <2>1. Len(all) \in Nat /\ DOMAIN all = 1 .. Len(all) /\ DOMAIN h = DOMAIN all /\ DOMAIN all = 1 .. n + m
    BY <1>3, <1>4
  <2>2. \A r : IsRule(s, r) /\ r[2] \in loaded \cup {path} => \E x \in DOMAIN all : h[x] = r
    BY <1>11, <2>1
  <2>3. \A x \in DOMAIN all : /\ IsRule(s, h[x]) /\ h[x][2] \in loaded \cup {path}
                              /\ all[x] = s.files[h[x][2]].rules[h[x][3]]
    BY <1>9, <2>1
  <2>4. \A x, y \in DOMAIN all : x < y => Precedes(h[x], h[y])
    BY <1>10, <2>1
  <2> QED
    BY <2>1, <2>2, <2>3, <2>4 DEF Provenance
<1> QED
  BY <1>3, <1>12 DEF RulesAreFrom, all, new

(* A file that is not a metadata file has no rules.                         *)
LEMMA RulesOfOtherFile ==
    ASSUME NEW s, NEW rules, NEW loaded, NEW path, s.files[path].kind # "metadata",
           RulesAreFrom(s, rules, loaded)
    PROVE  RulesAreFrom(s, rules, loaded \cup {path})
<1>1. PICK g : Provenance(s, rules, loaded, g)
  BY DEF RulesAreFrom
<1>2. Provenance(s, rules, loaded \cup {path}, g)
  BY <1>1 DEF Provenance, IsRule
<1> QED
  BY <1>2 DEF RulesAreFrom

LEMMA OwnershipInit == Init => OwnershipInv
<1> SUFFICES ASSUME Init, Is("ownership") PROVE OwnershipInv
  BY DEF OwnershipInv
<1>1. O!Init
  BY InputsDiffer DEF Init, Is, R!Init, T!Init, P!Init
<1>2. /\ source \in Repositories /\ pc = "enrich" /\ at = 0 /\ discovery = source.discovery
      /\ work = [rules |-> << >>, loaded |-> {}, codeowners |-> << >>, evidence |-> << >>]
  BY <1>1 DEF O!Init, O!Begin
<1>3. /\ DOMAIN work = {"rules", "loaded", "codeowners", "evidence"} /\ work.rules = << >>
      /\ work.loaded = {} /\ work.codeowners = << >> /\ work.evidence = << >>
  BY <1>2
<1>4. Advisory(source, discovery)
  BY <1>2, RepositoryIsTyped DEF Advisory
<1>5. RulesAreFrom(source, << >>, {})
  <2>1. Provenance(source, << >>, {}, << >>)
    BY DEF Provenance
  <2>2. << >> \in Seq(O!MetadataRule)
    OBVIOUS
  <2> QED
    BY <2>1, <2>2 DEF RulesAreFrom
<1>6. /\ << >> \in Seq(O!CodeownersLine) /\ Len(<< >>) = 0 /\ DOMAIN << >> = {} /\ 1 .. 0 = {}
      /\ Len(source.consumers) \in Nat
  BY <1>2, RepositoryIsTyped
<1>7. \E S : << >> \in Seq(S)
  <2>1. << >> \in Seq({})
    OBVIOUS
  <2> QED
    BY <2>1
<1> QED
  BY <1>2, <1>3, <1>4, <1>5, <1>6, <1>7 DEF OwnershipInv

(* The fields of the adapter that a step can leave alone. *)
LEMMA OwnershipFacts ==
    ASSUME OwnershipInv, Is("ownership")
    PROVE  /\ source \in Repositories /\ DOMAIN work = {"rules", "loaded", "codeowners", "evidence"}
           /\ Advisory(source, discovery) /\ DOMAIN discovery = DiscoveryFields
           /\ RulesAreFrom(source, work.rules, work.loaded)
           /\ work.loaded \subseteq DOMAIN source.files
           /\ Len(source.metadata) \in Nat /\ DOMAIN source.metadata = 1 .. Len(source.metadata)
  BY RepositoryIsTyped DEF OwnershipInv, Advisory

LEMMA IssuesAreAdvisory ==
    ASSUME OwnershipInv, Is("ownership"), NEW places
    PROVE  Advisory(source, O!Issues(places))
<1> DEFINE e == O!Issues(places)
           new == {[required |-> FALSE, place |-> p] : p \in places}
<1>1. /\ DOMAIN e = DiscoveryFields /\ e.consumers = discovery.consumers
      /\ e.references = discovery.references /\ e.productions = discovery.productions
      /\ e.diagnostics = discovery.diagnostics \cup new
  BY OwnershipFacts DEF O!Issues, DiscoveryFields
<1>2. \A x \in new : x.required = FALSE
  OBVIOUS
<1> HIDE DEF e, new
<1>3. Advisory(source, e)
  BY <1>1, <1>2, OwnershipFacts DEF Advisory
<1> QED
  BY <1>3 DEF e

LEMMA EnrichStep ==
    ASSUME OwnershipInv, Is("ownership"), O!Enrich
    PROVE  OwnershipInv'
<1>1. /\ pc = "enrich" /\ UNCHANGED <<source, ctx, at, work, discovery>>
      /\ \/ ~ source.enabled /\ pc' = "loaded"
         \/ source.enabled /\ pc' = "metadata"
  BY DEF O!Enrich
<1>2. at = 0 /\ work.loaded = {} /\ work.evidence = << >>
  BY <1>1 DEF OwnershipInv
<1>3. Named(source, 0) = {} /\ 0 \in 0 .. Len(source.metadata)
  <2>1. Len(source.metadata) \in Nat
    BY OwnershipFacts
  <2>2. Named(source, 0) = {}
    BY DEF Named
  <2> QED
    BY <2>1, <2>2
<1> QED
  BY <1>1, <1>2, <1>3 DEF OwnershipInv

LEMMA AbandonStep ==
    ASSUME OwnershipInv, Is("ownership"), O!Abandon, source' = source
    PROVE  OwnershipInv'
<1>1. pc' = "failed" /\ UNCHANGED <<ctx, at, work, discovery>>
  BY DEF O!Abandon
<1> QED
  BY <1>1 DEF OwnershipInv

LEMMA PatternWithoutFilesStep ==
    ASSUME OwnershipInv, Is("ownership"), O!PatternWithoutFiles
    PROVE  OwnershipInv'
<1>1. /\ pc = "metadata" /\ at < Len(source.metadata) /\ at' = at + 1
      /\ FilesOf(source, at + 1) = {}
      /\ discovery' = O!Issues({<<"pattern", O!Pattern>>})
      /\ UNCHANGED <<source, ctx, work, pc>>
  BY DEF O!PatternWithoutFiles, FilesOf, O!Pattern
<1>2. at \in 0 .. Len(source.metadata) /\ work.loaded = Named(source, at)
  BY <1>1 DEF OwnershipInv
<1>3. Named(source, at + 1) = Named(source, at) /\ at + 1 \in 0 .. Len(source.metadata)
  <2>1. Len(source.metadata) \in Nat /\ at \in Nat
    BY <1>2, OwnershipFacts
  <2>2. Named(source, at + 1) = Named(source, at) \cup FilesOf(source, at + 1)
    BY <2>1, NamedSoFar
  <2>3. at + 1 \in 0 .. Len(source.metadata)
    BY <1>1, <2>1
  <2>4. FilesOf(source, at + 1) = {}
    BY <1>1
  <2> QED
    BY <2>2, <2>3, <2>4
<1>4. Advisory(source, discovery')
  BY <1>1, IssuesAreAdvisory
<1> QED
  BY <1>1, <1>2, <1>3, <1>4 DEF OwnershipInv

LEMMA ExpandPatternStep ==
    ASSUME OwnershipInv, Is("ownership"), O!ExpandPattern
    PROVE  OwnershipInv'
<1>1. /\ pc = "metadata" /\ at < Len(source.metadata) /\ pc' = "files"
      /\ UNCHANGED <<source, ctx, at, work, discovery>>
  BY DEF O!ExpandPattern
<1>2. at \in Nat /\ work.loaded = Named(source, at) /\ source.enabled
  BY <1>1, OwnershipFacts DEF OwnershipInv
<1>3. Named(source, at) \subseteq Named(source, at + 1)
  BY <1>2, NamedSoFar
<1>4. \A p \in work.loaded : ~ FirstNames(source, at + 1, p)
  <2>1. at + 1 \in Nat /\ ~ (at + 1 <= at)
    BY <1>2
  <2>2. \A p \in Named(source, at) : FirstNames(source, at + 1, p) => at + 1 <= at
    BY <1>2, <2>1, NamedSoFar
  <2> QED
    BY <1>2, <2>1, <2>2
<1> QED
  BY <1>1, <1>2, <1>3, <1>4 DEF OwnershipInv

LEMMA LoadFileStep ==
    ASSUME OwnershipInv, Is("ownership"), O!LoadFile
    PROVE  OwnershipInv'
<1> DEFINE n == at + 1
<1>1. pc = "files" /\ UNCHANGED <<source, ctx, at, pc>>
  BY DEF O!LoadFile
<1>2. O!Unread = FilesOf(source, n) \ work.loaded
  BY DEF O!Unread, O!Pattern, FilesOf
<1>3. PICK i \in DOMAIN SortedPaths :
         LET path == SortedPaths[i]
         IN  /\ path \in FilesOf(source, n) \ work.loaded
             /\ \A j \in 1 .. i - 1 : SortedPaths[j] \notin FilesOf(source, n) \ work.loaded
             /\ IF source.files[path].kind = "metadata"
                   THEN /\ work' = [work EXCEPT !.loaded = @ \cup {path},
                                                !.rules = @ \o source.files[path].rules]
                        /\ UNCHANGED discovery
                   ELSE /\ work' = [work EXCEPT !.loaded = @ \cup {path}]
                        /\ discovery' = O!Issues({<<"file", path>>})
  BY <1>2 DEF O!LoadFile
<1> DEFINE path == SortedPaths[i]
<1>4. /\ at \in Nat /\ at < Len(source.metadata)
      /\ Named(source, at) \subseteq work.loaded /\ work.loaded \subseteq Named(source, n)
      /\ \A p \in work.loaded, u \in FilesOf(source, n) \ work.loaded :
            FirstNames(source, n, p) => Position(p) < Position(u)
  BY <1>1 DEF OwnershipInv
<1>5. /\ source \in Repositories /\ n \in DOMAIN source.metadata /\ path \in FilesOf(source, n)
      /\ path \in DOMAIN source.files /\ path \notin work.loaded
      /\ FirstNames(source, n, path)
      /\ Named(source, n) = Named(source, at) \cup FilesOf(source, n)
  <2>1. n \in DOMAIN source.metadata
    BY <1>4, OwnershipFacts
  <2> QED
    BY <1>3, <1>4, <2>1, OwnershipFacts, FilesAreThere, NamedSoFar
<1>6. \A u \in FilesOf(source, n) \ (work.loaded \cup {path}) : Position(path) < Position(u)
  <2> SUFFICES ASSUME NEW u \in FilesOf(source, n) \ (work.loaded \cup {path})
               PROVE  Position(path) < Position(u)
    OBVIOUS
  <2>1. u \in O!Range(SortedPaths)
    BY <1>5, FilesAreThere, RepositoryIsTyped
  <2>2. PICK j \in DOMAIN SortedPaths : u = SortedPaths[j]
    BY <2>1 DEF O!Range
  <2>3. j # i /\ j \notin 1 .. i - 1
    BY <1>3, <2>2
  <2>4. DOMAIN SortedPaths = 1 .. Len(SortedPaths) /\ Len(SortedPaths) \in Nat
    BY SortedPathsAssumption
  <2>5. i < j
    BY <2>3, <2>4
  <2> QED
    BY <2>2, <2>5, PositionOfPath
<1>7. /\ DOMAIN work' = {"rules", "loaded", "codeowners", "evidence"}
      /\ work'.loaded = work.loaded \cup {path} /\ work'.codeowners = work.codeowners
      /\ work'.evidence = work.evidence
      /\ source.files[path].kind = "metadata" => work'.rules = work.rules \o source.files[path].rules
      /\ source.files[path].kind # "metadata" => work'.rules = work.rules
  <2>1. CASE source.files[path].kind = "metadata"
    BY <1>3, <2>1, OwnershipFacts
  <2>2. CASE source.files[path].kind # "metadata"
    BY <1>3, <2>2, OwnershipFacts
  <2> QED
    BY <2>1, <2>2
<1>8. Advisory(source, discovery')
  BY <1>3, OwnershipFacts, IssuesAreAdvisory
<1> HIDE DEF path
<1>9. RulesAreFrom(source, work'.rules, work'.loaded)
  <2>1. CASE source.files[path].kind = "metadata"
    <3>1. \A p \in work.loaded : FirstNames(source, n, p) => Position(p) < Position(path)
      BY <1>4, <1>5
    <3>2. RulesAreFrom(source, work.rules \o source.files[path].rules, work.loaded \cup {path})
      BY <1>4, <1>5, <2>1, <3>1, OwnershipFacts, RulesOfFile
    <3> QED
      BY <1>7, <2>1, <3>2
  <2>2. CASE source.files[path].kind # "metadata"
    <3>1. RulesAreFrom(source, work.rules, work.loaded)
      BY OwnershipFacts
    <3>2. RulesAreFrom(source, work.rules, work.loaded \cup {path})
      BY <2>2, <3>1, RulesOfOtherFile
    <3> QED
      BY <1>7, <2>2, <3>2
  <2> QED
    BY <2>1, <2>2
<1>10. /\ work'.loaded \subseteq DOMAIN source.files
       /\ Named(source, at) \subseteq work'.loaded /\ work'.loaded \subseteq Named(source, n)
  BY <1>4, <1>5, <1>7, OwnershipFacts
<1>11. \A p \in work'.loaded, u \in FilesOf(source, n) \ work'.loaded :
          FirstNames(source, n, p) => Position(p) < Position(u)
  BY <1>4, <1>6, <1>7
<1>12. work.codeowners = << >> /\ work.evidence = << >> /\ work.codeowners \in Seq(O!CodeownersLine)
  BY <1>1 DEF OwnershipInv
<1>13. Len(<< >>) = 0 /\ DOMAIN << >> = {} /\ 1 .. 0 = {} /\ Len(source.consumers) \in Nat
  BY <1>5, RepositoryIsTyped
<1>14. source.enabled
  BY <1>1 DEF OwnershipInv
<1> QED
  BY <1>1, <1>4, <1>5, <1>7, <1>8, <1>9, <1>10, <1>11, <1>12, <1>13, <1>14 DEF OwnershipInv

LEMMA LeavePatternStep ==
    ASSUME OwnershipInv, Is("ownership"), O!LeavePattern
    PROVE  OwnershipInv'
<1>1. /\ pc = "files" /\ at' = at + 1 /\ pc' = "metadata"
      /\ FilesOf(source, at + 1) \subseteq work.loaded
      /\ UNCHANGED <<source, ctx, work, discovery>>
  BY DEF O!LeavePattern, O!Unread, O!Pattern, FilesOf
<1>2. /\ at \in Nat /\ at < Len(source.metadata)
      /\ Named(source, at) \subseteq work.loaded /\ work.loaded \subseteq Named(source, at + 1)
  BY <1>1 DEF OwnershipInv
<1>3. work.loaded = Named(source, at + 1) /\ at + 1 \in 0 .. Len(source.metadata)
  <2>1. Len(source.metadata) \in Nat
    BY OwnershipFacts
  <2>2. Named(source, at + 1) = Named(source, at) \cup FilesOf(source, at + 1)
    BY <1>2, NamedSoFar
  <2>3. at + 1 \in 0 .. Len(source.metadata)
    BY <1>2, <2>1
  <2>4. /\ Named(source, at) \subseteq work.loaded /\ work.loaded \subseteq Named(source, at + 1)
        /\ FilesOf(source, at + 1) \subseteq work.loaded
    BY <1>1, <1>2
  <2> QED
    BY <2>2, <2>3, <2>4
<1> QED
  BY <1>1, <1>3 DEF OwnershipInv

LEMMA LeaveMetadataStep ==
    ASSUME OwnershipInv, Is("ownership"), O!LeaveMetadata
    PROVE  OwnershipInv'
<1>1. /\ pc = "metadata" /\ pc' = "codeowners" /\ (at = Len(source.metadata) \/ ctx = "ended")
      /\ UNCHANGED <<source, ctx, at, work, discovery>>
  BY DEF O!LeaveMetadata
<1>2. ctx = "live" => work.loaded = Named(source, Len(source.metadata))
  BY <1>1 DEF OwnershipInv
<1> QED
  BY <1>1, <1>2 DEF OwnershipInv

(* The CODEOWNERS file that counts.                                         *)
LEMMA CandidatesAreListed ==
    ASSUME NEW s
    PROVE  DOMAIN Candidates(s) \in {1 .. 1, 1 .. 3}
<1>1. CASE s.codeownersPath # NoPath
  <2>1. Candidates(s) = <<s.codeownersPath>>
    BY <1>1 DEF Candidates
  <2> QED
    BY <2>1
<1>2. CASE s.codeownersPath = NoPath
  <2>1. Candidates(s) = O!SearchOrder
    BY <1>2 DEF Candidates
  <2>2. DOMAIN O!SearchOrder = 1 .. 3
    BY DEF O!SearchOrder
  <2> QED
    BY <2>1, <2>2
<1> QED
  BY <1>1, <1>2

LEMMA OneFileCounts ==
    ASSUME NEW s, NEW p, NEW q, Counts(s, p), Counts(s, q)
    PROVE  p = q
<1>1. PICK i \in DOMAIN Candidates(s) :
         /\ p = Candidates(s)[i] /\ p \in DOMAIN s.files
         /\ \A j \in 1 .. i - 1 : Candidates(s)[j] \notin DOMAIN s.files
  BY DEF Counts
<1>2. PICK k \in DOMAIN Candidates(s) :
         /\ q = Candidates(s)[k] /\ q \in DOMAIN s.files
         /\ \A j \in 1 .. k - 1 : Candidates(s)[j] \notin DOMAIN s.files
  BY DEF Counts
<1>3. i \in Nat /\ k \in Nat /\ i > 0 /\ k > 0
  BY CandidatesAreListed
<1>4. i \notin 1 .. k - 1 /\ k \notin 1 .. i - 1
  BY <1>1, <1>2
<1> QED
  BY <1>1, <1>2, <1>3, <1>4

LEMMA FoundCodeowners ==
    \A p : p \in O!findCodeowners <=> Counts(source, p)
<1> DEFINE c == Candidates(source)
           hits == {i \in DOMAIN c : /\ c[i] \in DOMAIN source.files
                                     /\ \A j \in 1 .. i - 1 : c[j] \notin DOMAIN source.files}
<1>1. O!findCodeowners = {c[i] : i \in hits}
  BY DEF O!findCodeowners, Candidates
<1>2. \A p : Counts(source, p) <=> \E i \in hits : p = c[i]
  BY DEF Counts
<1> HIDE DEF hits, c
<1> QED
  BY <1>1, <1>2

LEMMA LoadCodeownersStep ==
    ASSUME OwnershipInv, Is("ownership"), O!LoadCodeowners
    PROVE  OwnershipInv'
<1>1. pc = "codeowners" /\ pc' = "consumers" /\ at' = 0 /\ UNCHANGED <<source, ctx>>
  BY DEF O!LoadCodeowners
<1>2. /\ source \in Repositories /\ source.enabled /\ work.codeowners = << >> /\ work.evidence = << >>
      /\ DOMAIN work = {"rules", "loaded", "codeowners", "evidence"}
      /\ work.loaded \subseteq DOMAIN source.files
      /\ RulesAreFrom(source, work.rules, work.loaded)
      /\ ctx = "live" => work.loaded = Named(source, Len(source.metadata))
  BY <1>1 DEF OwnershipInv
<1>3. Advisory(source, discovery)
  BY OwnershipFacts
<1>4. << >> \in Seq(O!CodeownersLine)
  OBVIOUS
<1> DEFINE Done(lines) ==
             /\ DOMAIN work' = {"rules", "loaded", "codeowners", "evidence"}
             /\ work'.rules = work.rules /\ work'.loaded = work.loaded /\ work'.evidence = work.evidence
             /\ work'.codeowners = lines
             /\ Advisory(source, discovery')
             /\ lines \in Seq(O!CodeownersLine)
             /\ ctx = "live" => LinesAreOf(source, lines)
<1>6. \E lines : Done(lines)
  <2>1. CASE ~ source.codeowners \/ ctx = "ended"
    <3>1. work' = work /\ discovery' = discovery
      BY <2>1 DEF O!LoadCodeowners
    <3>2. ctx = "live" => LinesAreOf(source, << >>)
      BY <2>1 DEF LinesAreOf
    <3>3. Done(<< >>)
      BY <1>2, <1>3, <1>4, <3>1, <3>2
    <3> QED
      BY <3>3
  <2>2. CASE ~ (~ source.codeowners \/ ctx = "ended") /\ O!findCodeowners = {}
    <3>1. /\ work' = work
          /\ \/ discovery' = discovery
             \/ discovery' = O!Issues({<<"file", source.codeownersPath>>})
      BY <2>2 DEF O!LoadCodeowners
    <3>2. LinesAreOf(source, << >>)
      BY <2>2, FoundCodeowners DEF LinesAreOf
    <3>3. Advisory(source, discovery')
      BY <1>3, <3>1, IssuesAreAdvisory
    <3>4. Done(<< >>)
      BY <1>2, <1>4, <3>1, <3>2, <3>3
    <3> QED
      BY <3>4
  <2>3. CASE ~ (~ source.codeowners \/ ctx = "ended") /\ O!findCodeowners # {}
    <3>1. PICK path \in O!findCodeowners :
             LET lines == source.files[path].lines
             IN  IF source.files[path].kind # "codeowners"
                   THEN discovery' = O!Issues({<<"file", path>>}) /\ UNCHANGED work
                   ELSE /\ discovery' = O!Issues({<<"line", i>> : i \in {i \in DOMAIN lines : ~ lines[i].valid}})
                        /\ work' = [work EXCEPT !.codeowners = lines]
      BY <2>3 DEF O!LoadCodeowners
    <3>2. Counts(source, path) /\ path \in DOMAIN source.files
      BY <3>1, FoundCodeowners DEF Counts
    <3>3. Advisory(source, discovery')
      BY <3>1, IssuesAreAdvisory
    <3>4. CASE source.files[path].kind # "codeowners"
      <4>1. \A p : Counts(source, p) => source.files[p].kind # "codeowners"
        BY <3>2, <3>4, OneFileCounts
      <4>2. LinesAreOf(source, << >>)
        BY <4>1 DEF LinesAreOf
      <4>3. Done(<< >>)
        BY <1>2, <1>4, <3>1, <3>3, <3>4, <4>2
      <4> QED
        BY <4>3
    <3>5. CASE source.files[path].kind = "codeowners"
      <4>1. LinesAreOf(source, source.files[path].lines)
        BY <2>3, <3>2, <3>5 DEF LinesAreOf
      <4>2. source.files[path].lines \in Seq(O!CodeownersLine)
        BY <1>2, <3>2, RepositoryIsTyped
      <4>3. work' = [work EXCEPT !.codeowners = source.files[path].lines]
        BY <3>1, <3>5
      <4>4. Done(source.files[path].lines)
        BY <1>2, <3>3, <4>1, <4>2, <4>3
      <4> QED
        BY <4>4
    <3> QED
      BY <3>4, <3>5
  <2> QED
    BY <2>1, <2>2, <2>3
<1>7. PICK lines : Done(lines)
  BY <1>6
<1>8. work'.evidence = << >>
  BY <1>2, <1>7
<1>9. Len(<< >>) = 0 /\ DOMAIN << >> = {} /\ 1 .. 0 = {} /\ Len(source.consumers) \in Nat
  BY <1>2, RepositoryIsTyped
<1> QED
  BY <1>1, <1>2, <1>7, <1>8, <1>9 DEF OwnershipInv

LEMMA SelectedIs ==
    ASSUME NEW c
    PROVE  O!selectedEvidence(c) = Selected(source, work.rules, work.codeowners, c)
  BY DEF O!selectedEvidence, Selected, Owned, Ruled, Tagged

LEMMA AssignStep ==
    ASSUME OwnershipInv, Is("ownership"), O!Assign
    PROVE  OwnershipInv'
<1> DEFINE e == Selected(source, work.rules, work.codeowners, source.consumers[at + 1])
           n == Len(work.evidence)
<1>1. /\ pc = "consumers" /\ ctx = "live" /\ at < Len(source.consumers)
      /\ work' = [work EXCEPT !.evidence = Append(@, e)]
      /\ at' = at + 1 /\ UNCHANGED <<source, ctx, discovery, pc>>
  BY SelectedIs DEF O!Assign
<1>2. /\ source \in Repositories /\ source.enabled /\ at = n /\ n \in Nat /\ DOMAIN work.evidence = 1 .. n
      /\ DOMAIN work = {"rules", "loaded", "codeowners", "evidence"}
      /\ work.loaded = Named(source, Len(source.metadata)) /\ LinesAreOf(source, work.codeowners)
      /\ \A k \in DOMAIN work.evidence :
            work.evidence[k] = Selected(source, work.rules, work.codeowners, source.consumers[k])
  BY <1>1 DEF OwnershipInv
<1> HIDE DEF e
<1>3. /\ DOMAIN work' = {"rules", "loaded", "codeowners", "evidence"}
      /\ work'.rules = work.rules /\ work'.loaded = work.loaded /\ work'.codeowners = work.codeowners
      /\ work'.evidence = Append(work.evidence, e)
  BY <1>1, <1>2
<1>4. /\ Len(Append(work.evidence, e)) = n + 1 /\ DOMAIN Append(work.evidence, e) = 1 .. n + 1
      /\ \A k \in 1 .. n : Append(work.evidence, e)[k] = work.evidence[k]
      /\ Append(work.evidence, e)[n + 1] = e
  <2>1. PICK S : work.evidence \in Seq(S)
    BY DEF OwnershipInv
  <2>2. work.evidence \in Seq(S \cup {e})
    BY <2>1
  <2> QED
    BY <2>2
<1>8. \E S : Append(work.evidence, e) \in Seq(S)
  <2>1. PICK S : work.evidence \in Seq(S)
    BY DEF OwnershipInv
  <2>2. work.evidence \in Seq(S \cup {e})
    BY <2>1
  <2>3. Append(work.evidence, e) \in Seq(S \cup {e})
    BY <2>2
  <2> QED
    BY <2>3
<1>5. \A k \in 1 .. n + 1 :
         Append(work.evidence, e)[k] = Selected(source, work.rules, work.codeowners, source.consumers[k])
  <2> TAKE k \in 1 .. n + 1
  <2>1. CASE k \in 1 .. n
    BY <1>2, <1>4, <2>1
  <2>2. CASE k = n + 1
    BY <1>2, <1>4, <2>2 DEF e
  <2> QED
    BY <1>2, <2>1, <2>2
<1>6. n + 1 \in Nat /\ n + 1 <= Len(source.consumers)
  BY <1>1, <1>2, RepositoryIsTyped
<1>7. /\ Advisory(source, discovery) /\ RulesAreFrom(source, work.rules, work.loaded)
      /\ work.loaded \subseteq DOMAIN source.files /\ work.codeowners \in Seq(O!CodeownersLine)
  BY DEF OwnershipInv
<1> QED
  BY <1>1, <1>2, <1>3, <1>4, <1>5, <1>6, <1>7, <1>8 DEF OwnershipInv

LEMMA OwnershipStep == OwnershipInv /\ [Next]_vars => OwnershipInv'
<1> SUFFICES ASSUME OwnershipInv, [Next]_vars, Is("ownership"), source' = source PROVE OwnershipInv'
  BY SourceIsConstant DEF OwnershipInv, Is
<1>1. CASE UNCHANGED vars
  BY <1>1 DEF OwnershipInv, Is, vars
<1>2. CASE Cancel
  BY <1>2 DEF OwnershipInv, Is, Cancel
<1>3. ~ R!Next /\ ~ T!Next /\ ~ P!Next
  BY RuntimeMoves, TempoMoves, PersesMoves DEF OwnershipInv
<1>4. CASE O!RefuseToEnrich \/ O!StopAssigning
  BY <1>4, AbandonStep DEF O!RefuseToEnrich, O!StopAssigning
<1>5. CASE O!EndOfConsumers
  <2>1. /\ pc = "consumers" /\ pc' = "loaded" /\ at = Len(source.consumers)
        /\ UNCHANGED <<source, ctx, at, work, discovery>>
    BY <1>5 DEF O!EndOfConsumers
  <2> QED
    BY <2>1 DEF OwnershipInv
<1> QED
  BY <1>1, <1>2, <1>3, <1>4, <1>5, EnrichStep, PatternWithoutFilesStep, ExpandPatternStep, LoadFileStep,
     LeavePatternStep, LeaveMetadataStep, LoadCodeownersStep, AssignStep DEF Next, O!Next

LEMMA LastIsGreatest ==
    ASSUME NEW n \in Nat, NEW S \in SUBSET (1 .. n), S # {}
    PROVE  O!lastOf(S) \in S /\ \A j \in S : j <= O!lastOf(S)
<1>1. IsFiniteSet(1 .. n)
  BY FS_Interval
<1>2. IsFiniteSet(S)
  BY <1>1, FS_Subset
<1>3. S \in SUBSET Nat
  OBVIOUS
<1>4. \E i \in S : \A j \in S : j <= i
  BY <1>2, <1>3, GreatestOfFinite
<1> QED
  BY <1>4 DEF O!lastOf

(* The rules that speak of a consumer, in the files and as loaded.          *)
LEMMA RulesForConsumer ==
    ASSUME source \in Repositories, NEW c, NEW r
    PROVE  r \in O!RulesFor(c) <=>
              /\ IsRule(source, r) /\ r[2] \in Named(source, Len(source.metadata))
              /\ O!ruleMatches(source.files[r[2]].rules[r[3]], c)
<1> DEFINE there(k, p) == p \in O!Expand(DOMAIN source.files, source.metadata[k]).files
           naming(p) == {k \in DOMAIN source.metadata : there(k, p) /\ \A j \in 1 .. k - 1 : ~ there(j, p)}
           matching(p) == {i \in DOMAIN source.files[p].rules : O!ruleMatches(source.files[p].rules[i], c)}
           usable == {p \in O!MetadataFiles : O!Usable(p, "metadata")}
           rule(p) == {<<k, p, i>> : k \in naming(p), i \in matching(p)}
<1>1. O!RulesFor(c) = UNION {rule(p) : p \in usable}
  BY DEF O!RulesFor
<1>2. Len(source.metadata) \in Nat /\ DOMAIN source.metadata = 1 .. Len(source.metadata)
  BY RepositoryIsTyped
<1>3. \A p, k : k \in naming(p) <=> k \in DOMAIN source.metadata /\ FirstNames(source, k, p)
  BY DEF FirstNames, FilesOf
<1>4. O!MetadataFiles = Named(source, Len(source.metadata))
  <2>1. O!MetadataFiles = {p \in DOMAIN source.files : \E k \in DOMAIN source.metadata : p \in FilesOf(source, k)}
    BY DEF O!MetadataFiles, FilesOf
  <2>2. \A p : p \in Named(source, Len(source.metadata)) <=> \E k \in DOMAIN source.metadata : p \in FilesOf(source, k)
    BY <1>2 DEF Named
  <2> QED
    BY <2>1, <2>2, FilesAreThere
<1>5. \A p : p \in usable <=> p \in Named(source, Len(source.metadata)) /\ source.files[p].kind = "metadata"
  <2>1. Named(source, Len(source.metadata)) \subseteq DOMAIN source.files
    BY <1>2, NamedSoFar
  <2> QED
    BY <1>4, <2>1 DEF O!Usable
<1>6. \A p, i : i \in matching(p) <=> /\ i \in DOMAIN source.files[p].rules
                                      /\ O!ruleMatches(source.files[p].rules[i], c)
  OBVIOUS
<1> HIDE DEF naming, matching, usable
<1>7. ASSUME r \in O!RulesFor(c)
      PROVE  /\ IsRule(source, r) /\ r[2] \in Named(source, Len(source.metadata))
             /\ O!ruleMatches(source.files[r[2]].rules[r[3]], c)
  <2>1. PICK p \in usable : r \in rule(p)
    BY <1>1, <1>7
  <2>2. PICK k \in naming(p), i \in matching(p) : r = <<k, p, i>>
    BY <2>1
  <2>3. r[1] = k /\ r[2] = p /\ r[3] = i
    BY <2>2
  <2> QED
    BY <1>3, <1>5, <1>6, <2>2, <2>3 DEF IsRule
<1>8. ASSUME IsRule(source, r), r[2] \in Named(source, Len(source.metadata)),
             O!ruleMatches(source.files[r[2]].rules[r[3]], c)
      PROVE  r \in O!RulesFor(c)
  <2>1. r = <<r[1], r[2], r[3]>> /\ r[1] \in naming(r[2]) /\ r[3] \in matching(r[2]) /\ r[2] \in usable
    BY <1>3, <1>5, <1>6, <1>8 DEF IsRule
  <2>2. r \in rule(r[2])
    BY <2>1
  <2> QED
    BY <1>1, <2>1, <2>2
<1> QED
  BY <1>7, <1>8

(* The last rule that matches is the last one of the files.                 *)
LEMMA LastRuleCounts ==
    ASSUME source \in Repositories, RulesAreFrom(source, work.rules, Named(source, Len(source.metadata))), NEW c
    PROVE  /\ Ruled(work.rules, c) = {} <=> O!RulesFor(c) = {}
           /\ O!RulesFor(c) # {} =>
                 \E r \in O!RulesFor(c) :
                    /\ \A q \in O!RulesFor(c) : O!Later(r, q)
                    /\ work.rules[O!lastOf(Ruled(work.rules, c))] = source.files[r[2]].rules[r[3]]
<1> DEFINE n == Len(work.rules)
           K == Ruled(work.rules, c)
           all == Named(source, Len(source.metadata))
<1>1. PICK g : Provenance(source, work.rules, all, g)
  BY DEF RulesAreFrom
<1>2. /\ n \in Nat /\ DOMAIN work.rules = 1 .. n
      /\ \A x \in 1 .. n : /\ IsRule(source, g[x]) /\ g[x][2] \in all
                           /\ work.rules[x] = source.files[g[x][2]].rules[g[x][3]]
      /\ \A x, y \in 1 .. n : x < y => Precedes(g[x], g[y])
      /\ \A r : IsRule(source, r) /\ r[2] \in all => \E x \in 1 .. n : g[x] = r
  BY <1>1 DEF Provenance
<1>3. K \subseteq 1 .. n /\ \A x \in 1 .. n : x \in K <=> O!ruleMatches(work.rules[x], c)
  BY <1>2 DEF Ruled
<1> HIDE DEF K, n, all
<1>4. \A x \in K : g[x] \in O!RulesFor(c)
  BY <1>2, <1>3, RulesForConsumer DEF all
<1>5. ASSUME NEW r \in O!RulesFor(c) PROVE \E x \in K : g[x] = r
  <2>1. IsRule(source, r) /\ r[2] \in all /\ O!ruleMatches(source.files[r[2]].rules[r[3]], c)
    BY RulesForConsumer DEF all
  <2>2. PICK x \in 1 .. n : g[x] = r
    BY <1>2, <2>1
  <2> QED
    BY <1>2, <1>3, <2>1, <2>2
<1>6. K = {} <=> O!RulesFor(c) = {}
  BY <1>4, <1>5
<1>7. ASSUME O!RulesFor(c) # {}
      PROVE  \E r \in O!RulesFor(c) :
                /\ \A q \in O!RulesFor(c) : O!Later(r, q)
                /\ work.rules[O!lastOf(K)] = source.files[r[2]].rules[r[3]]
  <2> DEFINE x == O!lastOf(K)
  <2>1. x \in K /\ \A y \in K : y <= x
    BY <1>2, <1>3, <1>6, <1>7, LastIsGreatest
  <2> HIDE DEF x
  <2>2. g[x] \in O!RulesFor(c) /\ work.rules[x] = source.files[g[x][2]].rules[g[x][3]]
    BY <1>2, <1>3, <1>4, <2>1
  <2>3. \A a, b : O!Later(a, b) <=> \/ a[1] > b[1]
                                    \/ a[1] = b[1] /\ Position(a[2]) > Position(b[2])
                                    \/ a[1] = b[1] /\ a[2] = b[2] /\ a[3] >= b[3]
    BY DEF O!Later, Position
  <2>4. ASSUME NEW q \in O!RulesFor(c) PROVE O!Later(g[x], q)
    <3>1. PICK y \in K : g[y] = q
      BY <1>5
    <3>2. y \in 1 .. n /\ x \in 1 .. n /\ y <= x
      BY <1>3, <2>1
    <3>3. \A z \in 1 .. n : /\ g[z][1] \in Nat /\ g[z][3] \in Nat /\ Position(g[z][2]) \in Nat
      <4> TAKE z \in 1 .. n
      <4>1. /\ g[z][1] \in DOMAIN source.metadata /\ g[z][2] \in FilesOf(source, g[z][1])
            /\ g[z][3] \in DOMAIN source.files[g[z][2]].rules
        BY <1>2 DEF IsRule, FirstNames
      <4>2. g[z][2] \in DOMAIN source.files
        BY <4>1, FilesAreThere
      <4>3. g[z][1] \in Nat
        BY <4>1, RepositoryIsTyped
      <4>4. source.files[g[z][2]].rules \in Seq(O!MetadataRule) /\ g[z][2] \in O!Range(SortedPaths)
        BY <4>2, RepositoryIsTyped
      <4>5. g[z][3] \in Nat
        <5>1. \A r \in Seq(O!MetadataRule) : DOMAIN r \subseteq Nat
          OBVIOUS
        <5> QED
          BY <4>1, <4>4, <5>1
      <4>6. PICK i \in DOMAIN SortedPaths : g[z][2] = SortedPaths[i]
        BY <4>4 DEF O!Range
      <4>7. Position(g[z][2]) \in Nat
        BY <4>6, PositionOfPath
      <4> QED
        BY <4>3, <4>5, <4>7
    <3>4. CASE y = x
      <4>1. g[x][1] \in Nat /\ g[x][3] \in Nat
        BY <3>2, <3>3
      <4> QED
        BY <2>3, <3>1, <3>4, <4>1
    <3>5. CASE y < x
      <4>1. Precedes(g[y], g[x])
        BY <1>2, <3>2, <3>5
      <4>2. /\ g[x][1] \in Nat /\ g[x][3] \in Nat /\ Position(g[x][2]) \in Nat
            /\ g[y][1] \in Nat /\ g[y][3] \in Nat /\ Position(g[y][2]) \in Nat
        BY <3>2, <3>3
      <4>3. \/ g[x][1] > g[y][1]
            \/ g[x][1] = g[y][1] /\ Position(g[x][2]) > Position(g[y][2])
            \/ g[x][1] = g[y][1] /\ g[x][2] = g[y][2] /\ g[x][3] >= g[y][3]
        BY <4>1, <4>2 DEF Precedes
      <4> QED
        BY <2>3, <3>1, <4>3
    <3> QED
      BY <1>2, <3>2, <3>4, <3>5
  <2>5. work.rules[O!lastOf(K)] = source.files[g[x][2]].rules[g[x][3]]
    BY <2>2 DEF x
  <2> QED
    BY <2>2, <2>4, <2>5
<1> QED
  BY <1>6, <1>7 DEF K

(* The lines that speak of a consumer, in the file that counts and as       *)
(* loaded.                                                                  *)
LEMMA CodeownersCounts ==
    ASSUME source \in Repositories, NEW p
    PROVE  /\ Counts(source, p) => O!CodeownersPath = p /\ p \in DOMAIN source.files
           /\ O!CodeownersPath = p /\ p \in DOMAIN source.files => Counts(source, p)
<1>1. CASE source.codeownersPath # NoPath
  <2>1. Candidates(source) = <<source.codeownersPath>> /\ O!CodeownersPath = source.codeownersPath
    BY <1>1 DEF Candidates, O!CodeownersPath
  <2>2. DOMAIN Candidates(source) = 1 .. 1 /\ Candidates(source)[1] = source.codeownersPath
    BY <2>1
  <2> QED
    BY <2>1, <2>2 DEF Counts
<1>2. CASE source.codeownersPath = NoPath
  <2> DEFINE order == O!SearchOrder
             there == {i \in DOMAIN order : order[i] \in DOMAIN source.files}
             first == CHOOSE i \in there : \A j \in there : i <= j
  <2>1. Candidates(source) = order /\ O!CodeownersPath = IF there = {} THEN NoPath ELSE order[first]
    BY <1>2 DEF Candidates, O!CodeownersPath
  <2>2. DOMAIN order = 1 .. 3
    BY DEF O!SearchOrder
  <2> HIDE DEF order
  <2>3. there \subseteq {1, 2, 3} /\ \A i \in 1 .. 3 : i \in there <=> order[i] \in DOMAIN source.files
    BY <2>2
  <2> HIDE DEF there
  <2>4. there # {} => \E i \in there : \A j \in there : i <= j
    <3>1. CASE 1 \in there
      BY <2>3, <3>1
    <3>2. CASE 1 \notin there /\ 2 \in there
      <4>1. \A j \in there : j = 2 \/ j = 3
        BY <2>3, <3>2
      <4>2. \A j \in there : 2 <= j
        BY <4>1
      <4> QED
        BY <3>2, <4>2
    <3>3. CASE 1 \notin there /\ 2 \notin there
      <4>1. \A j \in there : j = 3
        BY <2>3, <3>3
      <4> QED
        BY <4>1
    <3> QED
      BY <3>1, <3>2, <3>3
  <2>5. there # {} => first \in there /\ \A j \in there : first <= j
    BY <2>4
  <2> HIDE DEF first
  <2>6. NoPath \notin DOMAIN source.files
    BY RepositoryIsTyped
  <2>7. ASSUME Counts(source, p) PROVE O!CodeownersPath = p /\ p \in DOMAIN source.files
    <3>1. PICK i \in 1 .. 3 : /\ p = order[i] /\ p \in DOMAIN source.files
                              /\ \A j \in 1 .. i - 1 : order[j] \notin DOMAIN source.files
      BY <2>1, <2>2, <2>7 DEF Counts
    <3>2. i \in there
      BY <2>3, <3>1
    <3>3. first \in 1 .. 3 /\ first <= i /\ first \notin 1 .. i - 1
      <4>1. first \in there /\ first <= i
        BY <2>5, <3>2
      <4>2. first \in 1 .. 3
        BY <2>3, <4>1
      <4>3. order[first] \in DOMAIN source.files
        BY <2>3, <4>1, <4>2
      <4>4. first \notin 1 .. i - 1
        BY <3>1, <4>3
      <4> QED
        BY <4>1, <4>2, <4>4
    <3>4. first = i
      BY <3>3
    <3> QED
      BY <2>1, <3>1, <3>2, <3>4
  <2>8. ASSUME O!CodeownersPath = p, p \in DOMAIN source.files PROVE Counts(source, p)
    <3>1. there # {} /\ p = order[first]
      BY <2>1, <2>6, <2>8
    <3>2. first \in 1 .. 3 /\ \A j \in 1 .. first - 1 : order[j] \notin DOMAIN source.files
      <4>3. first \in there
        BY <2>5, <3>1
      <4>1. first \in 1 .. 3
        BY <2>3, <4>3
      <4>2. \A j \in 1 .. first - 1 : j \in 1 .. 3 /\ ~ (first <= j)
        BY <4>1
      <4> QED
        BY <2>3, <2>5, <3>1, <4>1, <4>2
    <3> QED
      BY <2>1, <2>2, <2>8, <3>1, <3>2 DEF Counts
  <2> QED
    BY <2>7, <2>8
<1> QED
  BY <1>1, <1>2

LEMMA LinesForConsumer ==
    ASSUME source \in Repositories, LinesAreOf(source, work.codeowners), NEW c
    PROVE  /\ O!LinesFor(c) = Owned(work.codeowners, c)
           /\ O!LinesFor(c) # {} => work.codeowners = source.files[O!CodeownersPath].lines
<1> DEFINE usable == /\ source.codeowners /\ O!CodeownersPath # NoPath
                     /\ O!Usable(O!CodeownersPath, "codeowners")
           path == O!CodeownersPath
<1>1. O!LinesFor(c) = IF usable THEN Owned(source.files[path].lines, c) ELSE {}
  BY DEF O!LinesFor, Owned
<1>2. usable <=> source.codeowners /\ path \in DOMAIN source.files /\ source.files[path].kind = "codeowners"
  BY RepositoryIsTyped DEF O!Usable
<1> HIDE DEF usable, path
<1>3. CASE usable
  <2>1. Counts(source, path)
    BY <1>2, <1>3, CodeownersCounts DEF path
  <2>2. work.codeowners = source.files[path].lines
    BY <1>2, <1>3, <2>1, OneFileCounts DEF LinesAreOf
  <2> QED
    BY <1>1, <1>3, <2>2 DEF path
<1>4. CASE ~ usable
  <2>1. \A p : Counts(source, p) => p = path /\ p \in DOMAIN source.files
    BY CodeownersCounts DEF path
  <2>2. work.codeowners = << >>
    BY <1>2, <1>4, <2>1 DEF LinesAreOf
  <2>3. Owned(<< >>, c) = {}
    BY DEF Owned
  <2> QED
    BY <1>1, <1>4, <2>2, <2>3
<1> QED
  BY <1>3, <1>4

(* The evidence that was selected names the owner of the best evidence in   *)
(* all configured files.                                                    *)
OwnerOf(c, owners) ==
    IF O!RulesFor(c) # {}
      THEN \E r \in O!RulesFor(c) : /\ \A q \in O!RulesFor(c) : O!Later(r, q)
                                    /\ owners = {source.files[r[2]].rules[r[3]].owner}
    ELSE IF c.owner # NoOwner THEN owners = {c.owner}
    ELSE IF O!LinesFor(c) # {}
      THEN \E i \in O!LinesFor(c) : /\ \A j \in O!LinesFor(c) : j <= i
                                    /\ owners = source.files[O!CodeownersPath].lines[i].owners
    ELSE IF source.dashboardTags /\ Cardinality(c.tags) = 1 THEN owners = c.tags
    ELSE owners = {}

LEMMA TaggedIs ==
    ASSUME NEW s, NEW c
    PROVE  /\ c.owner # NoOwner => Tagged(s, c).rank = 3 /\ Tagged(s, c).owners = {c.owner}
           /\ c.owner = NoOwner =>
                 /\ Tagged(s, c).rank \in {0, 1}
                 /\ Tagged(s, c).owners = IF s.dashboardTags /\ Cardinality(c.tags) = 1 THEN c.tags ELSE {}
<1>1. O!Cardinality(c.tags) = Cardinality(c.tags)
  BY DEF O!Cardinality, Cardinality
<1>2. CASE c.owner # NoOwner
  <2>1. O!existingOwnerEvidence(c) = [rank |-> 3, owners |-> {c.owner}, candidates |-> {}]
    BY <1>2 DEF O!existingOwnerEvidence
  <2>2. O!tagEvidence(c.tags).rank \in {0, 1}
    BY DEF O!tagEvidence, O!NoEvidence
  <2>3. Tagged(s, c) = O!existingOwnerEvidence(c)
    BY <2>1, <2>2 DEF Tagged, O!chooseEvidence
  <2> QED
    BY <1>2, <2>1, <2>3
<1>3. CASE c.owner = NoOwner
  <2>1. O!existingOwnerEvidence(c) = [rank |-> 0, owners |-> {}, candidates |-> {}]
    BY <1>3 DEF O!existingOwnerEvidence, O!NoEvidence
  <2>2. CASE ~ s.dashboardTags
    BY <1>3, <2>1, <2>2 DEF Tagged
  <2>3. CASE s.dashboardTags /\ c.tags = {}
    <3>1. Cardinality(c.tags) = 0
      BY <2>3, FS_EmptySet
    <3>2. O!tagEvidence(c.tags) = [rank |-> 0, owners |-> {}, candidates |-> {}]
      BY <2>3 DEF O!tagEvidence, O!NoEvidence
    <3>3. Tagged(s, c) = [rank |-> 0, owners |-> {}, candidates |-> {}]
      BY <2>1, <2>3, <3>2 DEF Tagged, O!chooseEvidence
    <3> QED
      BY <1>3, <3>1, <3>3
  <2>4. CASE s.dashboardTags /\ c.tags # {}
    <3>1. /\ O!tagEvidence(c.tags).rank = 1
          /\ O!tagEvidence(c.tags).owners = IF Cardinality(c.tags) = 1 THEN c.tags ELSE {}
      BY <1>1, <2>4 DEF O!tagEvidence
    <3>2. Tagged(s, c) = O!tagEvidence(c.tags)
      BY <2>1, <2>4, <3>1 DEF Tagged, O!chooseEvidence
    <3> QED
      BY <1>3, <2>4, <3>1, <3>2
  <2> QED
    BY <2>2, <2>3, <2>4
<1> QED
  BY <1>2, <1>3

LEMMA SelectedNamesTheOwner ==
    ASSUME source \in Repositories, RulesAreFrom(source, work.rules, Named(source, Len(source.metadata))),
           LinesAreOf(source, work.codeowners), work.codeowners \in Seq(O!CodeownersLine), NEW c
    PROVE  OwnerOf(c, Selected(source, work.rules, work.codeowners, c).owners)
<1> DEFINE e == Selected(source, work.rules, work.codeowners, c)
<1>1. CASE O!RulesFor(c) # {}
  <2>1. PICK r \in O!RulesFor(c) :
            /\ \A q \in O!RulesFor(c) : O!Later(r, q)
            /\ work.rules[O!lastOf(Ruled(work.rules, c))] = source.files[r[2]].rules[r[3]]
    BY <1>1, LastRuleCounts
  <2>2. Ruled(work.rules, c) # {}
    BY <1>1, LastRuleCounts
  <2>3. e.owners = {source.files[r[2]].rules[r[3]].owner}
    BY <2>1, <2>2 DEF Selected, O!metadataEvidence
  <2> QED
    BY <1>1, <2>1, <2>3 DEF OwnerOf
<1>2. CASE O!RulesFor(c) = {}
  <2>1. Ruled(work.rules, c) = {}
    BY <1>2, LastRuleCounts
  <2>2. O!LinesFor(c) = Owned(work.codeowners, c)
    BY LinesForConsumer
  <2>3. CASE O!LinesFor(c) = {}
    <3>1. e = Tagged(source, c)
      BY <2>1, <2>2, <2>3 DEF Selected
    <3> QED
      BY <1>2, <2>3, <3>1, TaggedIs DEF OwnerOf
  <2>4. CASE O!LinesFor(c) # {}
    <3> DEFINE i == O!lastOf(Owned(work.codeowners, c))
               line == work.codeowners[i]
    <3>1. e = O!chooseEvidence(Tagged(source, c), O!evidenceFromCodeowners(line))
      BY <2>1, <2>2, <2>4 DEF Selected
    <3>2. O!evidenceFromCodeowners(line).rank = 2 /\ O!evidenceFromCodeowners(line).owners = line.owners
      BY DEF O!evidenceFromCodeowners
    <3>3. i \in O!LinesFor(c) /\ \A j \in O!LinesFor(c) : j <= i
      <4>1. Len(work.codeowners) \in Nat /\ Owned(work.codeowners, c) \in SUBSET (1 .. Len(work.codeowners))
        BY DEF Owned
      <4>2. Owned(work.codeowners, c) # {}
        BY <2>2, <2>4
      <4> QED
        BY <2>2, <4>1, <4>2, LastIsGreatest
    <3>4. line = source.files[O!CodeownersPath].lines[i]
      BY <2>4, LinesForConsumer
    <3> HIDE DEF i, line, e
    <3>5. CASE c.owner # NoOwner
      <4>1. Tagged(source, c).rank = 3 /\ Tagged(source, c).owners = {c.owner}
        BY <3>5, TaggedIs
      <4>2. e = Tagged(source, c)
        BY <3>1, <3>2, <4>1 DEF O!chooseEvidence
      <4> QED
        BY <1>2, <3>5, <4>1, <4>2 DEF OwnerOf, e
    <3>6. CASE c.owner = NoOwner
      <4>1. Tagged(source, c).rank \in {0, 1}
        BY <3>6, TaggedIs
      <4>2. e = O!evidenceFromCodeowners(line)
        BY <3>1, <3>2, <4>1 DEF O!chooseEvidence
      <4>3. e.owners = source.files[O!CodeownersPath].lines[i].owners
        BY <3>2, <3>4, <4>2
      <4> QED
        BY <1>2, <2>4, <3>3, <3>6, <4>3 DEF OwnerOf, e
    <3> QED
      BY <3>5, <3>6
  <2> QED
    BY <2>3, <2>4
<1> QED
  BY <1>1, <1>2

LEMMA LoadedOwners == OwnershipInv => OwnerIsTheBestEvidence
<1> SUFFICES ASSUME OwnershipInv, Is("ownership"), pc = "loaded", source.enabled
    PROVE  O!OwnerIsTheBestEvidence
  BY DEF OwnerIsTheBestEvidence, O!OwnerIsTheBestEvidence
<1>1. /\ source \in Repositories /\ Advisory(source, discovery)
      /\ RulesAreFrom(source, work.rules, work.loaded)
      /\ work.codeowners \in Seq(O!CodeownersLine)
      /\ Len(work.evidence) = Len(source.consumers)
      /\ work.evidence # << >> => /\ work.loaded = Named(source, Len(source.metadata))
                                  /\ LinesAreOf(source, work.codeowners)
      /\ \A n \in DOMAIN work.evidence :
            work.evidence[n] = Selected(source, work.rules, work.codeowners, source.consumers[n])
      /\ DOMAIN work.evidence = 1 .. Len(work.evidence)
  BY DEF OwnershipInv
<1>2. DOMAIN source.consumers = 1 .. Len(source.consumers)
  BY <1>1, RepositoryIsTyped
<1>3. ASSUME NEW n \in DOMAIN source.consumers PROVE OwnerOf(source.consumers[n], work.evidence[n].owners)
  <2>1. n \in DOMAIN work.evidence
    BY <1>1, <1>2
  <2>2. work.evidence # << >>
    BY <2>1
  <2>3. work.loaded = Named(source, Len(source.metadata)) /\ LinesAreOf(source, work.codeowners)
    BY <1>1, <2>2
  <2>4. work.evidence[n] = Selected(source, work.rules, work.codeowners, source.consumers[n])
    BY <1>1, <2>1
  <2> QED
    BY <1>1, <2>3, <2>4, SelectedNamesTheOwner
<1>4. \A field \in {"consumers", "references", "productions"} : discovery[field] = source.discovery[field]
  BY <1>1 DEF Advisory
<1>5. \A x \in discovery.diagnostics \ source.discovery.diagnostics : ~ x.required
  BY <1>1 DEF Advisory
<1>6. \A S : O!Cardinality(S) = Cardinality(S)
  BY DEF O!Cardinality, Cardinality
<1> QED
  BY <1>3, <1>4, <1>5, <1>6 DEF O!OwnerIsTheBestEvidence, OwnerOf

(* The rules that were loaded are those of the files that were read, in the *)
(* order of the patterns, the files and the lines, and the evidence of each *)
(* consumer is chosen out of all of them; the discovery of the loaders is   *)
(* only added diagnostics to that are not required.                         *)
THEOREM OwnershipInvariant == Spec => []OwnershipInv
  BY OwnershipInit, OwnershipStep, PTL DEF Spec

(* An enrichment that succeeds assigns each consumer the owner that the     *)
(* best evidence in all configured files names, and changes nothing that    *)
(* the verdict rests on.                                                    *)
THEOREM OwnersAreTheBestEvidence == Spec => []OwnerIsTheBestEvidence
  BY OwnershipInvariant, LoadedOwners, PTL

-----------------------------------------------------------------------------
(* Source patterns                                                          *)

(* A function that obeys the recursion of matchSegments.                    *)
Solves(pattern, candidate, match) ==
    match = [here \in (1 .. Len(pattern) + 1) \X (1 .. Len(candidate) + 1) |->
            LET p == here[1]
                c == here[2]
            IN  IF p > Len(pattern) THEN c > Len(candidate)
                ELSE IF pattern[p] = "**"
                  THEN match[<<p + 1, c>>] \/ (c <= Len(candidate) /\ match[<<p, c + 1>>])
                ELSE /\ c <= Len(candidate)
                     /\ pattern[p] \in {"*", candidate[c]}
                     /\ match[<<p + 1, c + 1>>]]

LEMMA MatchSolves ==
    ASSUME NEW pattern, NEW candidate, NEW g, Solves(pattern, candidate, g)
    PROVE  \E m : Solves(pattern, candidate, m) /\ (matchSegments(pattern, candidate) <=> m[<<1, 1>>])
<1> DEFINE m == CHOOSE m : Solves(pattern, candidate, m)
<1>1. Solves(pattern, candidate, m)
  BY Zenon
<1>2. matchSegments(pattern, candidate) <=> m[<<1, 1>>]
  BY Zenon DEF matchSegments, Solves
<1> HIDE DEF m
<1> QED
  BY <1>1, <1>2

(* The pattern from segment p on stands for the candidate from segment c    *)
(* on: end[i] is where the stretch of segment i ends.                       *)
StandsFor(segment, path, begin, end) ==
    IF segment = "**" THEN begin <= end
    ELSE end = begin + 1 /\ segment \in {"*", path[end]}
Endings(pattern, path, p) == [p - 1 .. Len(pattern) -> 0 .. Len(path)]
Stretches(pattern, path, p, c, end) ==
    /\ end[p - 1] = c - 1 /\ end[Len(pattern)] = Len(path)
    /\ \A i \in p .. Len(pattern) : StandsFor(pattern[i], path, end[i - 1], end[i])
From(pattern, path, p, c) == \E end \in Endings(pattern, path, p) : Stretches(pattern, path, p, c, end)

LEMMA FromEnd ==
    ASSUME NEW pattern, NEW path, Len(pattern) \in Nat, Len(path) \in Nat, NEW c \in 1 .. Len(path) + 1
    PROVE  From(pattern, path, Len(pattern) + 1, c) <=> c > Len(path)
<1> DEFINE n == Len(pattern)
           l == Len(path)
<1>1. (n + 1) - 1 = n /\ n + 1 .. n = {} /\ n \in n .. n
  OBVIOUS
<1>2. ASSUME NEW end \in Endings(pattern, path, n + 1), Stretches(pattern, path, n + 1, c, end) PROVE c > l
  BY <1>1, <1>2 DEF Stretches
<1>3. ASSUME c > l PROVE From(pattern, path, n + 1, c)
  <2> DEFINE end == [i \in n .. n |-> l]
  <2>1. end \in Endings(pattern, path, n + 1)
    BY <1>1 DEF Endings
  <2>2. end[n] = l /\ c - 1 = l
    BY <1>1, <1>3
  <2>3. Stretches(pattern, path, n + 1, c, end)
    BY <1>1, <2>2 DEF Stretches
  <2> QED
    BY <2>1, <2>3 DEF From
<1> QED
  BY <1>2, <1>3 DEF From

LEMMA FromUnfolds ==
    ASSUME NEW pattern, NEW path, Len(pattern) \in Nat, Len(path) \in Nat,
           NEW p \in 1 .. Len(pattern), NEW c \in 1 .. Len(path) + 1
    PROVE  From(pattern, path, p, c) <=>
              \E e \in 0 .. Len(path) : StandsFor(pattern[p], path, c - 1, e) /\ From(pattern, path, p + 1, e + 1)
<1> DEFINE n == Len(pattern)
           l == Len(path)
<1>1. (p + 1) - 1 = p /\ p \in p - 1 .. n /\ p - 1 \in p - 1 .. n /\ n \in p .. n
  OBVIOUS
<1>2. ASSUME NEW end \in Endings(pattern, path, p), Stretches(pattern, path, p, c, end)
      PROVE  end[p] \in 0 .. l /\ StandsFor(pattern[p], path, c - 1, end[p]) /\ From(pattern, path, p + 1, end[p] + 1)
  <2> DEFINE rest == [i \in p .. n |-> end[i]]
  <2>1. end \in [p - 1 .. n -> 0 .. l] /\ \A i \in p .. n : i \in p - 1 .. n
    BY DEF Endings
  <2>2. end[p] \in 0 .. l
    BY <1>1, <2>1
  <2>3. rest \in Endings(pattern, path, p + 1)
    BY <1>1, <2>1 DEF Endings
  <2>4. rest[p] = (end[p] + 1) - 1 /\ rest[n] = l
    BY <1>1, <1>2, <2>2 DEF Stretches
  <2>5. ASSUME NEW i \in p + 1 .. n PROVE StandsFor(pattern[i], path, rest[i - 1], rest[i])
    <3>1. i \in p .. n /\ i - 1 \in p .. n
      OBVIOUS
    <3>2. rest[i - 1] = end[i - 1] /\ rest[i] = end[i]
      BY <3>1
    <3> QED
      BY <1>2, <3>1, <3>2 DEF Stretches
  <2> HIDE DEF rest
  <2>6. Stretches(pattern, path, p + 1, end[p] + 1, rest)
    BY <1>1, <2>4, <2>5 DEF Stretches
  <2>7. StandsFor(pattern[p], path, c - 1, end[p])
    BY <1>1, <1>2 DEF Stretches
  <2> QED
    BY <2>2, <2>3, <2>6, <2>7 DEF From
<1>3. ASSUME NEW e \in 0 .. l, StandsFor(pattern[p], path, c - 1, e), From(pattern, path, p + 1, e + 1)
      PROVE  From(pattern, path, p, c)
  <2>1. PICK rest \in Endings(pattern, path, p + 1) : Stretches(pattern, path, p + 1, e + 1, rest)
    BY <1>3 DEF From
  <2>2. rest \in [p .. n -> 0 .. l] /\ rest[p] = e /\ rest[n] = l
    BY <1>1, <2>1 DEF Endings, Stretches
  <2> DEFINE end == [i \in p - 1 .. n |-> IF i = p - 1 THEN c - 1 ELSE rest[i]]
  <2>3. \A i \in p - 1 .. n : i = p - 1 \/ i \in p .. n
    OBVIOUS
  <2>4. end \in Endings(pattern, path, p)
    BY <2>2, <2>3 DEF Endings
  <2>5. end[p - 1] = c - 1 /\ \A i \in p .. n : end[i] = rest[i]
    BY <1>1
  <2>6. ASSUME NEW i \in p .. n PROVE StandsFor(pattern[i], path, end[i - 1], end[i])
    <3>1. CASE i = p
      BY <1>3, <2>2, <2>5, <3>1
    <3>2. CASE i # p
      <4>1. i \in p + 1 .. n /\ i - 1 \in p .. n
        BY <3>2
      <4>2. end[i - 1] = rest[i - 1] /\ end[i] = rest[i]
        BY <2>5, <4>1
      <4> QED
        BY <2>1, <4>1, <4>2 DEF Stretches
    <3> QED
      BY <3>1, <3>2
  <2> HIDE DEF end
  <2>7. Stretches(pattern, path, p, c, end)
    BY <1>1, <2>2, <2>5, <2>6 DEF Stretches
  <2> QED
    BY <2>4, <2>7 DEF From
<1> QED
  BY <1>2, <1>3 DEF From

(* It obeys the recursion.                                                  *)
LEMMA FromRecurs ==
    ASSUME NEW pattern, NEW path, Len(pattern) \in Nat, Len(path) \in Nat,
           NEW p \in 1 .. Len(pattern), NEW c \in 1 .. Len(path) + 1
    PROVE  From(pattern, path, p, c) <=>
              IF pattern[p] = "**"
                THEN From(pattern, path, p + 1, c) \/ (c <= Len(path) /\ From(pattern, path, p, c + 1))
              ELSE c <= Len(path) /\ pattern[p] \in {"*", path[c]} /\ From(pattern, path, p + 1, c + 1)
<1> DEFINE l == Len(path)
           Then(e) == From(pattern, path, p + 1, e + 1)
<1>1. From(pattern, path, p, c) <=> \E e \in 0 .. l : StandsFor(pattern[p], path, c - 1, e) /\ Then(e)
  BY FromUnfolds
<1>2. CASE pattern[p] = "**"
  <2>1. From(pattern, path, p, c) <=> \E e \in 0 .. l : c - 1 <= e /\ Then(e)
    BY <1>1, <1>2 DEF StandsFor
  <2>2. CASE c <= l
    <3>1. From(pattern, path, p, c + 1) <=> \E e \in 0 .. l : StandsFor(pattern[p], path, (c + 1) - 1, e) /\ Then(e)
      <4>1. c + 1 \in 1 .. l + 1
        BY <2>2
      <4> QED
        BY <4>1, FromUnfolds
    <3>2. From(pattern, path, p, c + 1) <=> \E e \in 0 .. l : c <= e /\ Then(e)
      BY <1>2, <3>1 DEF StandsFor
    <3>3. Then(c - 1) <=> From(pattern, path, p + 1, c)
      <4>1. (c - 1) + 1 = c
        OBVIOUS
      <4> QED
        BY <4>1
    <3> HIDE DEF Then
    <3>4. \A e \in 0 .. l : c - 1 <= e <=> e = c - 1 \/ c <= e
      OBVIOUS
    <3>5. c - 1 \in 0 .. l /\ c - 1 <= c - 1
      BY <2>2
    <3> QED
      BY <1>2, <2>1, <2>2, <3>2, <3>3, <3>4, <3>5
  <2>3. CASE ~ (c <= l)
    <3>1. c - 1 = l /\ c - 1 \in 0 .. l /\ \A e \in 0 .. l : c - 1 <= e <=> e = c - 1
      BY <2>3
    <3>2. Then(c - 1) <=> From(pattern, path, p + 1, c)
      <4>1. (c - 1) + 1 = c
        OBVIOUS
      <4> QED
        BY <4>1
    <3> HIDE DEF Then
    <3> QED
      BY <1>2, <2>1, <2>3, <3>1, <3>2
  <2> QED
    BY <2>2, <2>3
<1>3. CASE pattern[p] # "**"
  <2>1. From(pattern, path, p, c) <=> \E e \in 0 .. l : e = (c - 1) + 1 /\ pattern[p] \in {"*", path[e]} /\ Then(e)
    BY <1>1, <1>3 DEF StandsFor
  <2>2. (c - 1) + 1 = c /\ (c \in 0 .. l <=> c <= l)
    OBVIOUS
  <2>3. From(pattern, path, p, c) <=> c \in 0 .. l /\ pattern[p] \in {"*", path[c]} /\ Then(c)
    <3> HIDE DEF Then
    <3> QED
      BY <2>1, <2>2
  <2> QED
    BY <1>3, <2>2, <2>3
<1> QED
  BY <1>2, <1>3

Places(pattern, path) == (1 .. Len(pattern) + 1) \X (1 .. Len(path) + 1)
Recurs(pattern, path, match, p, c) ==
    IF p > Len(pattern) THEN c > Len(path)
    ELSE IF pattern[p] = "**"
      THEN match[<<p + 1, c>>] \/ (c <= Len(path) /\ match[<<p, c + 1>>])
    ELSE /\ c <= Len(path)
         /\ pattern[p] \in {"*", path[c]}
         /\ match[<<p + 1, c + 1>>]

LEMMA RecursBoolean ==
    ASSUME NEW pattern, NEW path, Len(path) \in Nat, NEW match, NEW p, NEW c \in Nat
    PROVE  Recurs(pattern, path, match, p, c) \in BOOLEAN
<1>1. CASE p > Len(pattern)
  <2>1. Recurs(pattern, path, match, p, c) = (c > Len(path))
    BY <1>1, Zenon DEF Recurs
  <2>2. (c > Len(path)) \in BOOLEAN
    OBVIOUS
  <2> QED
    BY <2>1, <2>2
<1>2. CASE ~ (p > Len(pattern)) /\ pattern[p] = "**"
  <2>1. Recurs(pattern, path, match, p, c) = (match[<<p + 1, c>>] \/ (c <= Len(path) /\ match[<<p, c + 1>>]))
    BY <1>2, Zenon DEF Recurs
  <2>2. (match[<<p + 1, c>>] \/ (c <= Len(path) /\ match[<<p, c + 1>>])) \in BOOLEAN
    BY Zenon
  <2> QED
    BY <2>1, <2>2
<1>3. CASE ~ (p > Len(pattern)) /\ pattern[p] # "**"
  <2>1. Recurs(pattern, path, match, p, c) =
           (c <= Len(path) /\ pattern[p] \in {"*", path[c]} /\ match[<<p + 1, c + 1>>])
    BY <1>3, Zenon DEF Recurs
  <2>2. (c <= Len(path) /\ pattern[p] \in {"*", path[c]} /\ match[<<p + 1, c + 1>>]) \in BOOLEAN
    BY Zenon
  <2> QED
    BY <2>1, <2>2
<1> QED
  BY <1>1, <1>2, <1>3

LEMMA SolvesRecurs ==
    ASSUME NEW pattern, NEW path, NEW match
    PROVE  Solves(pattern, path, match) <=>
              match = [here \in Places(pattern, path) |-> Recurs(pattern, path, match, here[1], here[2])]
  BY DEF Solves, Places, Recurs

LEMMA PlacesAre ==
    ASSUME NEW pattern, NEW path, Len(pattern) \in Nat, Len(path) \in Nat
    PROVE  /\ \A p \in 1 .. Len(pattern) + 1, c \in 1 .. Len(path) + 1 : <<p, c>> \in Places(pattern, path)
           /\ \A here \in Places(pattern, path) : /\ here[1] \in 1 .. Len(pattern) + 1 /\ here[2] \in 1 .. Len(path) + 1
                                                /\ here = <<here[1], here[2]>>
  BY DEF Places

LEMMA FromSolves ==
    ASSUME NEW pattern, NEW path, Len(pattern) \in Nat, Len(path) \in Nat
    PROVE  Solves(pattern, path, [here \in Places(pattern, path) |-> From(pattern, path, here[1], here[2])])
<1> DEFINE g == [here \in Places(pattern, path) |-> From(pattern, path, here[1], here[2])]
<1>1. ASSUME NEW p \in 1 .. Len(pattern) + 1, NEW c \in 1 .. Len(path) + 1
      PROVE  g[<<p, c>>] <=> From(pattern, path, p, c)
  <2>1. <<p, c>> \in Places(pattern, path) /\ <<p, c>>[1] = p /\ <<p, c>>[2] = c
    BY PlacesAre
  <2> QED
    BY <2>1
<1> HIDE DEF g
<1>2. ASSUME NEW p \in 1 .. Len(pattern) + 1, NEW c \in 1 .. Len(path) + 1
      PROVE  From(pattern, path, p, c) <=> Recurs(pattern, path, g, p, c)
  <2>1. CASE p > Len(pattern)
    <3>1. p = Len(pattern) + 1
      BY <2>1
    <3> QED
      BY <2>1, <3>1, FromEnd DEF Recurs
  <2>2. CASE p <= Len(pattern)
    <3>1. /\ p \in 1 .. Len(pattern) /\ p + 1 \in 1 .. Len(pattern) + 1 /\ ~ (p > Len(pattern))
          /\ c <= Len(path) => c + 1 \in 1 .. Len(path) + 1
      BY <2>2
    <3>2. g[<<p + 1, c>>] <=> From(pattern, path, p + 1, c)
      BY <3>1, <1>1
    <3>3. c <= Len(path) => (g[<<p, c + 1>>] <=> From(pattern, path, p, c + 1))
      BY <3>1, <1>1
    <3>4. c <= Len(path) => (g[<<p + 1, c + 1>>] <=> From(pattern, path, p + 1, c + 1))
      BY <3>1, <1>1
    <3>5. From(pattern, path, p, c) <=>
              IF pattern[p] = "**"
                THEN From(pattern, path, p + 1, c) \/ (c <= Len(path) /\ From(pattern, path, p, c + 1))
              ELSE c <= Len(path) /\ pattern[p] \in {"*", path[c]} /\ From(pattern, path, p + 1, c + 1)
      BY <3>1, FromRecurs
    <3> QED
      BY <3>1, <3>2, <3>3, <3>4, <3>5, Zenon DEF Recurs
  <2> QED
    BY <2>1, <2>2
<1>3. ASSUME NEW here \in Places(pattern, path)
      PROVE  From(pattern, path, here[1], here[2]) <=> Recurs(pattern, path, g, here[1], here[2])
  BY <1>2, PlacesAre
<1>4. g = [here \in Places(pattern, path) |-> Recurs(pattern, path, g, here[1], here[2])]
  <2> DEFINE h == [here \in Places(pattern, path) |-> Recurs(pattern, path, g, here[1], here[2])]
  <2>1. g = [here \in Places(pattern, path) |-> From(pattern, path, here[1], here[2])]
    BY DEF g
  <2>2. ASSUME NEW here \in Places(pattern, path)
        PROVE  From(pattern, path, here[1], here[2]) = Recurs(pattern, path, g, here[1], here[2])
    <3>1. From(pattern, path, here[1], here[2]) \in BOOLEAN
      BY Zenon DEF From
    <3>2. Recurs(pattern, path, g, here[1], here[2]) \in BOOLEAN
      <4>1. here[2] \in Nat
        BY PlacesAre
      <4> QED
        BY <4>1, RecursBoolean
    <3> QED
      BY <1>3, <3>1, <3>2
  <2>3. g = h
    BY <2>1, <2>2, Zenon
  <2> QED
    BY <2>3
<1>5. Solves(pattern, path, g)
  BY <1>4, SolvesRecurs
<1> QED
  BY <1>5 DEF g

(* Whatever obeys the recursion says the same, from the end of pattern and  *)
(* path on.                                                                 *)
LEMMA SolutionIsFrom ==
    ASSUME NEW pattern, NEW path, Len(pattern) \in Nat, Len(path) \in Nat,
           NEW m, Solves(pattern, path, m),
           NEW p \in 1 .. Len(pattern) + 1, NEW c \in 1 .. Len(path) + 1
    PROVE  m[<<p, c>>] <=> From(pattern, path, p, c)
<1> DEFINE Agrees(here) == m[here] <=> From(pattern, path, here[1], here[2])
           Left(here) == (Len(pattern) + 1 - here[1]) + (Len(path) + 1 - here[2])
           wrong == {here \in Places(pattern, path) : ~ Agrees(here)}
           S == {Left(here) : here \in wrong}
<1> SUFFICES wrong = {}
  <2>1. <<p, c>> \in Places(pattern, path) /\ <<p, c>>[1] = p /\ <<p, c>>[2] = c
    BY PlacesAre
  <2>2. Agrees(<<p, c>>)
    BY <2>1
  <2> QED
    BY <2>1, <2>2
<1>1. SUFFICES ASSUME wrong # {} PROVE FALSE
  OBVIOUS
<1>2. ASSUME NEW here \in Places(pattern, path) PROVE Left(here) \in Nat
  <2>1. here[1] \in 1 .. Len(pattern) + 1 /\ here[2] \in 1 .. Len(path) + 1
    BY PlacesAre
  <2>2. \A x \in 1 .. Len(pattern) + 1, y \in 1 .. Len(path) + 1 :
           (Len(pattern) + 1 - x) + (Len(path) + 1 - y) \in Nat
    OBVIOUS
  <2> QED
    BY <2>1, <2>2
<1>3. S \in SUBSET Nat /\ S # {}
  BY <1>1, <1>2
<1>4. PICK k \in S : \A j \in S : k <= j
  BY <1>3, LeastOfNaturals
<1>5. PICK bad \in wrong : Left(bad) = k
  BY <1>4
<1>6. \A here \in Places(pattern, path) : Left(here) < Left(bad) => Agrees(here)
  <2> TAKE here \in Places(pattern, path)
  <2>1. Left(here) \in Nat /\ Left(bad) \in Nat
    BY <1>2
  <2>2. here \in wrong => Left(bad) <= Left(here)
    BY <1>4, <1>5
  <2> HIDE DEF Left, Agrees
  <2> QED
    BY <2>1, <2>2
<1>7. PICK x \in 1 .. Len(pattern) + 1, y \in 1 .. Len(path) + 1 : bad = <<x, y>>
  BY PlacesAre
<1>8. m[<<x, y>>] <=> Recurs(pattern, path, m, x, y)
  <2>1. m = [here \in Places(pattern, path) |-> Recurs(pattern, path, m, here[1], here[2])]
    BY SolvesRecurs
  <2>2. <<x, y>> \in Places(pattern, path) /\ <<x, y>>[1] = x /\ <<x, y>>[2] = y
    BY PlacesAre
  <2> QED
    BY <2>1, <2>2
<1>9. ASSUME NEW u \in 1 .. Len(pattern) + 1, NEW v \in 1 .. Len(path) + 1, u >= x, v >= y, u + v > x + y
      PROVE  m[<<u, v>>] <=> From(pattern, path, u, v)
  <2>1. <<u, v>> \in Places(pattern, path) /\ <<u, v>>[1] = u /\ <<u, v>>[2] = v
    BY PlacesAre
  <2>2. Left(<<u, v>>) < Left(bad)
    BY <1>7, <1>9, <2>1
  <2>3. Agrees(<<u, v>>)
    BY <1>6, <2>1, <2>2
  <2> QED
    BY <2>1, <2>3
<1>10. Recurs(pattern, path, m, x, y) <=> From(pattern, path, x, y)
  <2>1. CASE x > Len(pattern)
    <3>1. x = Len(pattern) + 1
      BY <2>1
    <3> QED
      BY <2>1, <3>1, FromEnd DEF Recurs
  <2>2. CASE x <= Len(pattern)
    <3>1. /\ x \in 1 .. Len(pattern) /\ x + 1 \in 1 .. Len(pattern) + 1 /\ ~ (x > Len(pattern))
          /\ y <= Len(path) => y + 1 \in 1 .. Len(path) + 1
      BY <2>2
    <3>2. m[<<x + 1, y>>] <=> From(pattern, path, x + 1, y)
      BY <3>1, <1>9
    <3>3. y <= Len(path) => (m[<<x, y + 1>>] <=> From(pattern, path, x, y + 1))
      BY <3>1, <1>9
    <3>4. y <= Len(path) => (m[<<x + 1, y + 1>>] <=> From(pattern, path, x + 1, y + 1))
      BY <3>1, <1>9
    <3>5. From(pattern, path, x, y) <=>
              IF pattern[x] = "**"
                THEN From(pattern, path, x + 1, y) \/ (y <= Len(path) /\ From(pattern, path, x, y + 1))
              ELSE y <= Len(path) /\ pattern[x] \in {"*", path[y]} /\ From(pattern, path, x + 1, y + 1)
      BY <3>1, FromRecurs
    <3> QED
      BY <3>1, <3>2, <3>3, <3>4, <3>5, Zenon DEF Recurs
  <2> QED
    BY <2>1, <2>2
<1>11. ~ Agrees(bad) /\ bad[1] = x /\ bad[2] = y
  BY <1>7
<1> QED
  BY <1>7, <1>8, <1>10, <1>11

LEMMA MatchIsFrom ==
    ASSUME NEW pattern, NEW path, Len(pattern) \in Nat, Len(path) \in Nat
    PROVE  matchSegments(pattern, path) <=> From(pattern, path, 1, 1)
<1>1. PICK m : Solves(pattern, path, m) /\ (matchSegments(pattern, path) <=> m[<<1, 1>>])
  BY FromSolves, MatchSolves
<1>2. 1 \in 1 .. Len(pattern) + 1 /\ 1 \in 1 .. Len(path) + 1
  OBVIOUS
<1> QED
  BY <1>1, <1>2, SolutionIsFrom

(* The reference definition has the ends of all but an empty pattern.       *)
LEMMA FromIsMatches ==
    ASSUME NEW Text, NEW pattern \in Seq(Text), pattern # << >>, NEW path, Len(path) \in Nat
    PROVE  From(pattern, path, 1, 1) <=> Matches(pattern, path)
<1> DEFINE n == Len(pattern)
           l == Len(path)
           begin(end, i) == IF i = 1 THEN 0 ELSE end[i - 1]
           Fits(end) == /\ \A i \in DOMAIN pattern :
                             IF pattern[i] = "**" THEN begin(end, i) <= end[i]
                             ELSE end[i] = begin(end, i) + 1 /\ pattern[i] \in {"*", path[end[i]]}
                        /\ end[n] = l
<1>1. DOMAIN pattern = 1 .. n /\ n \in Nat /\ n > 0
  OBVIOUS
<1>2. Matches(pattern, path) <=> \E end \in [1 .. n -> 0 .. l] : Fits(end)
  BY DEF Matches
<1>3. ASSUME NEW end \in Endings(pattern, path, 1), Stretches(pattern, path, 1, 1, end)
      PROVE  \E e \in [1 .. n -> 0 .. l] : Fits(e)
  <2> DEFINE e == [i \in 1 .. n |-> end[i]]
  <2>1. 1 - 1 = 0 /\ \A i \in 1 .. n : i \in 1 - 1 .. n
    BY <1>1
  <2>2. end \in [0 .. n -> 0 .. l] /\ e \in [1 .. n -> 0 .. l]
    BY <2>1 DEF Endings
  <2>3. end[0] = 0 /\ end[n] = l
    BY <2>1, <1>3 DEF Stretches
  <2>4. ASSUME NEW i \in 1 .. n PROVE begin(e, i) = end[i - 1] /\ e[i] = end[i]
    <3>1. i = 1 \/ i - 1 \in 1 .. n
      OBVIOUS
    <3> QED
      BY <2>3, <3>1
  <2>5. \A i \in 1 .. n : StandsFor(pattern[i], path, end[i - 1], end[i])
    BY <1>3 DEF Stretches
  <2>6. Fits(e)
    <3>1. e[n] = l
      BY <1>1, <2>3
    <3>2. ASSUME NEW i \in DOMAIN pattern
          PROVE  IF pattern[i] = "**" THEN begin(e, i) <= e[i]
                 ELSE e[i] = begin(e, i) + 1 /\ pattern[i] \in {"*", path[e[i]]}
      <4>1. begin(e, i) = end[i - 1] /\ e[i] = end[i]
        BY <1>1, <2>4
      <4>2. StandsFor(pattern[i], path, end[i - 1], end[i])
        BY <1>1, <2>5
      <4> HIDE DEF e, begin
      <4> QED
        BY <4>1, <4>2 DEF StandsFor
    <3> QED
      BY <3>1, <3>2
  <2> HIDE DEF Fits
  <2> QED
    BY <2>2, <2>6
<1>4. ASSUME NEW e \in [1 .. n -> 0 .. l], Fits(e)
      PROVE  From(pattern, path, 1, 1)
  <2> DEFINE end == [i \in 0 .. n |-> IF i = 0 THEN 0 ELSE e[i]]
  <2>1. 1 - 1 = 0 /\ \A i \in 0 .. n : i = 0 \/ i \in 1 .. n
    BY <1>1
  <2>2. end \in Endings(pattern, path, 1)
    BY <2>1 DEF Endings
  <2>3. end[0] = 0 /\ \A i \in 1 .. n : end[i] = e[i]
    BY <1>1
  <2>4. ASSUME NEW i \in 1 .. n PROVE StandsFor(pattern[i], path, end[i - 1], end[i])
    <3>1. begin(e, i) = end[i - 1] /\ e[i] = end[i]
      <4>1. i = 1 \/ i - 1 \in 1 .. n
        OBVIOUS
      <4> QED
        BY <2>3, <4>1
    <3>2. IF pattern[i] = "**" THEN begin(e, i) <= e[i]
          ELSE e[i] = begin(e, i) + 1 /\ pattern[i] \in {"*", path[e[i]]}
      BY <1>1, <1>4
    <3> HIDE DEF end, begin
    <3> QED
      BY <3>1, <3>2 DEF StandsFor
  <2>5. end[n] = l
    BY <1>1, <1>4, <2>3
  <2> HIDE DEF end
  <2>6. Stretches(pattern, path, 1, 1, end)
    BY <2>1, <2>3, <2>4, <2>5 DEF Stretches
  <2> QED
    BY <2>2, <2>6 DEF From
<1> QED
  BY <1>2, <1>3, <1>4 DEF From

LEMMA MatchIsMeant ==
    ASSUME NEW Text, NEW pattern \in Seq(Text), pattern # << >>, NEW path, Len(path) \in Nat
    PROVE  matchSegments(pattern, path) <=> Matches(pattern, path)
<1>1. Len(pattern) \in Nat
  OBVIOUS
<1> QED
  BY <1>1, MatchIsFrom, FromIsMatches

(* The ends a match gives to the segments of a pattern; those of a literal  *)
(* beginning are given.                                                     *)
MatchEnds(pattern, path, end) ==
    LET begin(i) == IF i = 1 THEN 0 ELSE end[i - 1]
    IN  /\ \A i \in DOMAIN pattern :
             IF pattern[i] = "**" THEN begin(i) <= end[i]
             ELSE end[i] = begin(i) + 1 /\ pattern[i] \in {"*", path[end[i]]}
        /\ end[Len(pattern)] = Len(path)

LEMMA MatchesIs ==
    ASSUME NEW pattern, NEW path
    PROVE  Matches(pattern, path) <=> \E end \in [1 .. Len(pattern) -> 0 .. Len(path)] : MatchEnds(pattern, path, end)
  BY DEF Matches, MatchEnds

LEMMA LiteralEnds ==
    ASSUME NEW Text, NEW pattern \in Seq(Text), NEW path, NEW end, MatchEnds(pattern, path, end),
           NEW r \in 0 .. Len(pattern), \A i \in 1 .. r : pattern[i] \notin {"*", "**"}
    PROVE  \A i \in 1 .. r : end[i] = i /\ pattern[i] = path[i]
<1> DEFINE wrong == {i \in 1 .. r : end[i] # i}
<1>1. ASSUME NEW i \in 1 .. r
      PROVE  end[i] = (IF i = 1 THEN 0 ELSE end[i - 1]) + 1 /\ pattern[i] = path[end[i]]
  <2>1. i \in DOMAIN pattern /\ pattern[i] \notin {"*", "**"}
    OBVIOUS
  <2> QED
    BY <2>1 DEF MatchEnds
<1>2. wrong = {}
  <2> SUFFICES ASSUME wrong # {} PROVE FALSE
    OBVIOUS
  <2>1. wrong \in SUBSET Nat
    OBVIOUS
  <2>2. PICK k \in wrong : \A j \in wrong : k <= j
    BY <2>1, LeastOfNaturals
  <2>3. k = 1 \/ (k - 1 \in 1 .. r /\ k - 1 \notin wrong)
    BY <2>2
  <2>4. end[k] = k
    <3>1. k \in 1 .. r /\ end[k] = (IF k = 1 THEN 0 ELSE end[k - 1]) + 1
      BY <1>1
    <3>2. CASE k = 1
      BY <3>1, <3>2
    <3>3. CASE k # 1
      <4>1. end[k - 1] = k - 1
        BY <2>3, <3>3
      <4> QED
        BY <3>1, <3>3, <4>1
    <3> QED
      BY <3>2, <3>3
  <2> QED
    BY <2>4
<1> QED
  BY <1>1, <1>2

LEMMA UnderIs ==
    ASSUME NEW Text, NEW pattern \in Seq(Text), NEW Some, NEW path \in Seq(Some), NEW r \in 0 .. Len(pattern)
    PROVE  IsUnder(path, SubSeq(pattern, 1, r)) <=> r <= Len(path) /\ \A i \in 1 .. r : pattern[i] = path[i]
<1> DEFINE s == SubSeq(pattern, 1, r)
<1>1. s \in Seq(Text) /\ Len(s) = r /\ \A i \in 1 .. r : s[i] = pattern[i]
  OBVIOUS
<1> HIDE DEF s
<1>2. SubSeq(s, 1, r) = s
  BY <1>1
<1>3. ASSUME r <= Len(path)
      PROVE  s = SubSeq(path, 1, r) <=> \A i \in 1 .. r : pattern[i] = path[i]
  <2> DEFINE t == SubSeq(path, 1, r)
  <2>1. t \in Seq(Some) /\ Len(t) = r /\ \A i \in 1 .. r : t[i] = path[i]
    BY <1>3
  <2> HIDE DEF t
  <2>2. ASSUME \A i \in 1 .. r : pattern[i] = path[i] PROVE s = t
    <3>1. s \in Seq(Text \cup Some) /\ t \in Seq(Text \cup Some)
      BY <1>1, <2>1
    <3>2. \A i \in 1 .. Len(s) : s[i] = t[i]
      BY <1>1, <2>1, <2>2
    <3>3. Len(s) = Len(t)
      BY <1>1, <2>1
    <3> QED
      BY <3>1, <3>2, <3>3, SeqEqual
  <2>3. ASSUME s = t PROVE \A i \in 1 .. r : pattern[i] = path[i]
    BY <1>1, <2>1, <2>3
  <2>4. s = t <=> \A i \in 1 .. r : pattern[i] = path[i]
    BY <2>2, <2>3
  <2> QED
    BY <2>4 DEF t
<1>4. IsUnder(path, s) <=> r <= Len(path) /\ s = SubSeq(path, 1, r)
  BY <1>1, <1>2 DEF IsUnder
<1>5. IsUnder(path, s) <=> r <= Len(path) /\ \A i \in 1 .. r : pattern[i] = path[i]
  BY <1>3, <1>4
<1> QED
  BY <1>5 DEF s

LEMMA LiteralMatch ==
    ASSUME NEW Text, NEW pattern \in Seq(Text), pattern # << >>, ~ hasMeta(pattern),
           NEW Some, NEW path \in Seq(Some)
    PROVE  Matches(pattern \o <<"**">>, path) <=> IsUnder(path, pattern)
<1> DEFINE n == Len(pattern)
           q == pattern \o <<"**">>
<1>1. /\ q \in Seq(Text \cup {"**"}) /\ Len(q) = n + 1 /\ n \in Nat /\ n > 0 /\ DOMAIN q = 1 .. n + 1
      /\ \A i \in 1 .. n : q[i] = pattern[i]
      /\ q[n + 1] = "**"
  OBVIOUS
<1>2. \A i \in 1 .. n : pattern[i] \notin {"*", "**"}
  BY DEF hasMeta
<1>3. IsUnder(path, pattern) <=> n <= Len(path) /\ \A i \in 1 .. n : pattern[i] = path[i]
  <2>1. SubSeq(pattern, 1, n) = pattern /\ n \in 0 .. n
    OBVIOUS
  <2> QED
    BY <2>1, UnderIs
<1> HIDE DEF q
<1>4. ASSUME NEW end \in [1 .. n + 1 -> 0 .. Len(path)], MatchEnds(q, path, end)
      PROVE  n <= Len(path) /\ \A i \in 1 .. n : pattern[i] = path[i]
  <2>1. n \in 0 .. Len(q) /\ \A i \in 1 .. n : q[i] \notin {"*", "**"}
    BY <1>1, <1>2
  <2>2. \A i \in 1 .. n : end[i] = i /\ q[i] = path[i]
    <3>1. q \in Seq(Text \cup {"**"})
      BY <1>1
    <3> HIDE DEF n
    <3> QED
      BY <3>1, <1>4, <2>1, LiteralEnds
  <2>3. n \in 1 .. n /\ n \in 1 .. n + 1
    BY <1>1
  <2>4. n \in 0 .. Len(path)
    BY <2>2, <2>3
  <2> QED
    BY <1>1, <2>2, <2>4
<1>5. ASSUME n <= Len(path), \A i \in 1 .. n : pattern[i] = path[i]
      PROVE  \E end \in [1 .. n + 1 -> 0 .. Len(path)] : MatchEnds(q, path, end)
  <2> DEFINE end == [i \in 1 .. n + 1 |-> IF i = n + 1 THEN Len(path) ELSE i]
  <2>1. Len(path) \in Nat
    OBVIOUS
  <2>2. end \in [1 .. n + 1 -> 0 .. Len(path)]
    BY <1>1, <1>5, <2>1
  <2>3. end[n + 1] = Len(path) /\ \A i \in 1 .. n : end[i] = i
    BY <1>1
  <2> HIDE DEF end
  <2>4. ASSUME NEW i \in DOMAIN q
        PROVE  IF q[i] = "**" THEN (IF i = 1 THEN 0 ELSE end[i - 1]) <= end[i]
               ELSE end[i] = (IF i = 1 THEN 0 ELSE end[i - 1]) + 1 /\ q[i] \in {"*", path[end[i]]}
    <3>1. CASE i = n + 1
      <4>1. i # 1 /\ i - 1 \in 1 .. n /\ q[i] = "**"
        BY <1>1, <3>1
      <4>2. end[i - 1] <= end[i]
        BY <1>5, <2>3, <3>1, <4>1
      <4> QED
        BY <4>1, <4>2
    <3>2. CASE i \in 1 .. n
      <4>1. q[i] # "**" /\ end[i] = i /\ q[i] = path[i] /\ (i = 1 \/ i - 1 \in 1 .. n)
        BY <1>1, <1>2, <1>5, <2>3, <3>2
      <4>2. end[i] = (IF i = 1 THEN 0 ELSE end[i - 1]) + 1
        BY <2>3, <4>1, <3>2
      <4> QED
        BY <4>1, <4>2
    <3> QED
      BY <1>1, <3>1, <3>2
  <2>5. MatchEnds(q, path, end)
    BY <1>1, <2>3, <2>4 DEF MatchEnds
  <2> QED
    BY <2>2, <2>5
<1>6. Matches(q, path) <=> \E end \in [1 .. n + 1 -> 0 .. Len(path)] : MatchEnds(q, path, end)
  BY <1>1, MatchesIs
<1>7. Matches(q, path) <=> IsUnder(path, pattern)
  BY <1>3, <1>4, <1>5, <1>6
<1> QED
  BY <1>7 DEF q

LEMMA RootIs ==
    ASSUME NEW Text, NEW pattern \in Seq(Text)
    PROVE  \E r \in 0 .. Len(pattern) :
              /\ patternRoot(pattern) \in {<< >>, SubSeq(pattern, 1, r)}
              /\ \A i \in 1 .. r : pattern[i] \notin {"*", "**"}
<1> DEFINE literal == {i \in 0 .. Len(pattern) : ~ hasMeta(SubSeq(pattern, 1, i))}
           Greatest(i) == \A j \in literal : j <= i
           r == CHOOSE i \in literal : Greatest(i)
           root == SubSeq(pattern, 1, r)
<1>1. 0 \in literal
  <2>1. SubSeq(pattern, 1, 0) = << >> /\ 0 \in 0 .. Len(pattern)
    OBVIOUS
  <2> QED
    BY <2>1 DEF hasMeta
<1>2. \E i \in literal : Greatest(i)
  <2> DEFINE above == {k \in 0 .. Len(pattern) : \A j \in literal : j <= k}
  <2>1. Len(pattern) \in above
    OBVIOUS
  <2>2. PICK k \in above : \A j \in above : k <= j
    <3>1. above \in SUBSET Nat /\ above # {}
      BY <2>1
    <3> HIDE DEF above
    <3> QED
      BY <3>1, LeastOfNaturals
  <2>3. k \in literal
    <3> SUFFICES ASSUME k \notin literal PROVE FALSE
      OBVIOUS
    <3>1. k > 0 /\ k \in Nat /\ k \in 0 .. Len(pattern)
      BY <1>1, <2>2
    <3>2. \A j \in literal : j \in Nat /\ j <= k /\ j # k
      BY <2>2
    <3>3. k - 1 \in above
      BY <3>1, <3>2
    <3>4. k <= k - 1
      BY <2>2, <3>3
    <3> QED
      BY <3>1, <3>4
  <2> QED
    BY <2>2, <2>3
<1>3. r \in literal
  BY <1>2
<1>4. patternRoot(pattern) = IF root = <<"/">> THEN << >> ELSE root
  BY Zenon DEF patternRoot
<1> HIDE DEF r
<1>5. r \in 0 .. Len(pattern) /\ ~ hasMeta(root)
  BY <1>3
<1>6. ASSUME NEW i \in 1 .. r PROVE pattern[i] \notin {"*", "**"}
  <2>1. i \in DOMAIN root /\ root[i] = pattern[i]
    BY <1>5
  <2> QED
    BY <1>5, <2>1 DEF hasMeta
<1> QED
  BY <1>4, <1>5, <1>6

LEMMA MatchStartsAtRoot ==
    ASSUME NEW Text, NEW pattern \in Seq(Text), NEW Some, NEW path \in Seq(Some), Matches(pattern, path)
    PROVE  IsUnder(path, patternRoot(pattern))
<1>1. PICK end \in [1 .. Len(pattern) -> 0 .. Len(path)] : MatchEnds(pattern, path, end)
  BY MatchesIs
<1>2. PICK r \in 0 .. Len(pattern) :
         /\ patternRoot(pattern) \in {<< >>, SubSeq(pattern, 1, r)}
         /\ \A i \in 1 .. r : pattern[i] \notin {"*", "**"}
  BY RootIs
<1>3. \A i \in 1 .. r : end[i] = i /\ pattern[i] = path[i]
  BY <1>1, <1>2, LiteralEnds
<1>4. r <= Len(path)
  <2>1. CASE r = 0
    BY <2>1
  <2>2. CASE r # 0
    <3>1. r \in 1 .. r /\ r \in 1 .. Len(pattern)
      BY <2>2
    <3>2. r \in 0 .. Len(path)
      BY <1>3, <3>1
    <3> QED
      BY <3>2
  <2> QED
    BY <2>1, <2>2
<1>5. IsUnder(path, SubSeq(pattern, 1, r))
  BY <1>3, <1>4, UnderIs
<1>6. IsUnder(path, << >>)
  <2>1. SubSeq(<< >>, 1, 0) = << >> /\ SubSeq(path, 1, 0) = << >> /\ Len(<< >>) = 0 /\ Len(path) \in Nat
    OBVIOUS
  <2> QED
    BY <2>1 DEF IsUnder
<1> QED
  BY <1>2, <1>5, <1>6

LEMMA ExpandIsMeant ==
    ASSUME NEW Text, NEW pattern \in Seq(Text), pattern # << >>, NEW Some, NEW tree,
           \A path \in tree : path \in Seq(Some) /\ path[1] # "/"
    PROVE  Expand(tree, pattern).files =
              {path \in tree : Matches(IF hasMeta(pattern) THEN pattern ELSE pattern \o <<"**">>, path)}
<1>1. CASE hasMeta(pattern)
  <2>1. Expand(tree, pattern).files = {path \in filesUnder(tree, patternRoot(pattern)) : matchSegments(pattern, path)}
    BY <1>1 DEF Expand
  <2>2. ASSUME NEW path \in tree
        PROVE  path \in filesUnder(tree, patternRoot(pattern)) /\ matchSegments(pattern, path)
                 <=> Matches(pattern, path)
    <3>1. Len(path) \in Nat /\ path[1] # "/"
      OBVIOUS
    <3>2. matchSegments(pattern, path) <=> Matches(pattern, path)
      BY <3>1, MatchIsMeant
    <3>3. path \in filesUnder(tree, patternRoot(pattern)) <=> IsUnder(path, patternRoot(pattern))
      BY <3>1 DEF filesUnder
    <3>4. Matches(pattern, path) => IsUnder(path, patternRoot(pattern))
      BY MatchStartsAtRoot
    <3> QED
      BY <3>2, <3>3, <3>4
  <2>3. filesUnder(tree, patternRoot(pattern)) \subseteq tree
    BY DEF filesUnder
  <2> QED
    BY <1>1, <2>1, <2>2, <2>3
<1>2. CASE ~ hasMeta(pattern)
  <2>1. Expand(tree, pattern).files = filesUnder(tree, pattern)
    BY <1>2 DEF Expand
  <2>2. ASSUME NEW path \in tree
        PROVE  path \in filesUnder(tree, pattern) <=> Matches(pattern \o <<"**">>, path)
    <3>1. path \in filesUnder(tree, pattern) <=> IsUnder(path, pattern)
      BY DEF filesUnder
    <3>2. Matches(pattern \o <<"**">>, path) <=> IsUnder(path, pattern)
      BY <1>2, LiteralMatch
    <3> QED
      BY <3>1, <3>2
  <2>3. filesUnder(tree, pattern) \subseteq tree
    BY DEF filesUnder
  <2> QED
    BY <1>2, <2>1, <2>2, <2>3
<1> QED
  BY <1>1, <1>2

(* The patterns of Ownership are those of SourcePatterns.                   *)
LEMMA PatternsAreThose ==
    /\ \A tree, pattern : O!Expand(tree, pattern) = Expand(tree, pattern)
    /\ \A pattern : O!hasMeta(pattern) = hasMeta(pattern)
    /\ \A pattern, path : O!Matches(pattern, path) = Matches(pattern, path)
<1>1. ASSUME NEW s, NEW t PROVE O!IsUnder(s, t) = IsUnder(s, t)
  BY DEF O!IsUnder, IsUnder
<1>2. ASSUME NEW pattern PROVE O!hasMeta(pattern) = hasMeta(pattern)
  BY DEF O!hasMeta, hasMeta
<1>3. ASSUME NEW pattern, NEW path PROVE O!Matches(pattern, path) = Matches(pattern, path)
  BY Zenon DEF O!Matches, Matches
<1>4. ASSUME NEW pattern, NEW path PROVE O!matchSegments(pattern, path) = matchSegments(pattern, path)
  BY Zenon DEF O!matchSegments, matchSegments
<1>5. ASSUME NEW pattern PROVE O!patternRoot(pattern) = patternRoot(pattern)
  BY Zenon DEF O!patternRoot, patternRoot, O!hasMeta, hasMeta
<1>6. ASSUME NEW tree, NEW root PROVE O!filesUnder(tree, root) = filesUnder(tree, root)
  BY <1>1, Zenon DEF O!filesUnder, filesUnder
<1>7. ASSUME NEW tree, NEW pattern PROVE O!Expand(tree, pattern) = Expand(tree, pattern)
  BY <1>2, <1>4, <1>5, <1>6, Zenon DEF O!Expand, Expand
<1> QED
  BY <1>2, <1>3, <1>7

LEMMA PatternsAreMeant ==
    ASSUME NEW s \in Repositories, NEW k \in DOMAIN s.metadata
    PROVE  FilesOf(s, k) =
              {p \in DOMAIN s.files :
                 O!Matches(IF O!hasMeta(s.metadata[k]) THEN s.metadata[k] ELSE s.metadata[k] \o <<"**">>, p)}
<1> DEFINE pattern == s.metadata[k]
           tree == DOMAIN s.files
<1>1. s.metadata \in Seq(Seq(O!Segments) \ {<< >>}) /\ tree \subseteq O!Range(SortedPaths)
  BY RepositoriesAssumption DEF O!IsRepository
<1>2. pattern \in Seq(O!Segments) /\ pattern # << >>
  BY <1>1
<1>3. \A path \in tree : path \in Seq(O!Segments) /\ path[1] # "/"
  BY <1>1, PathsAreRelative
<1> HIDE DEF pattern, tree
<1>4. Expand(tree, pattern).files =
         {path \in tree : Matches(IF hasMeta(pattern) THEN pattern ELSE pattern \o <<"**">>, path)}
  BY <1>2, <1>3, ExpandIsMeant
<1>5. O!Expand(tree, pattern).files =
         {path \in tree : O!Matches(IF O!hasMeta(pattern) THEN pattern ELSE pattern \o <<"**">>, path)}
  BY <1>4, PatternsAreThose, Zenon
<1> QED
  BY <1>5 DEF FilesOf, pattern, tree

LEMMA IssuesAreReported ==
    ASSUME OwnershipInv, Is("ownership"), NEW places
    PROVE  /\ PlacesOf(discovery) \subseteq PlacesOf(O!Issues(places))
           /\ places \subseteq PlacesOf(O!Issues(places))
<1> DEFINE e == O!Issues(places)
           new == {[required |-> FALSE, place |-> p] : p \in places}
<1>1. e.diagnostics = discovery.diagnostics \cup new
  BY OwnershipFacts DEF O!Issues, DiscoveryFields
<1>2. ASSUME NEW p \in places PROVE \E x \in new : x.place = p
  <2>1. [required |-> FALSE, place |-> p] \in new /\ [required |-> FALSE, place |-> p].place = p
    OBVIOUS
  <2> QED
    BY <2>1, Zenon
<1> HIDE DEF e, new
<1>3. PlacesOf(discovery) \subseteq PlacesOf(e) /\ places \subseteq PlacesOf(e)
  BY <1>1, <1>2 DEF PlacesOf
<1> QED
  BY <1>3 DEF e

LEMMA ReportStep == OwnershipInv /\ ReportInv /\ [Next]_vars => ReportInv'
<1> SUFFICES ASSUME OwnershipInv, ReportInv, [Next]_vars, Is("ownership"), source' = source PROVE ReportInv'
  BY SourceIsConstant DEF ReportInv, Is
<1>1. CASE UNCHANGED vars
  BY <1>1 DEF ReportInv, vars
<1>2. CASE Cancel
  BY <1>2 DEF ReportInv, Cancel
<1>3. ~ R!Next /\ ~ T!Next /\ ~ P!Next
  BY RuntimeMoves, TempoMoves, PersesMoves DEF OwnershipInv
<1>4. CASE O!Enrich
  <2>1. /\ pc = "enrich" /\ pc' \in {"loaded", "metadata"}
        /\ UNCHANGED <<source, ctx, at, work, discovery>>
    BY <1>4 DEF O!Enrich
  <2>2. at = 0 /\ 1 .. 0 = {}
    BY <2>1 DEF OwnershipInv
  <2> QED
    BY <2>1, <2>2 DEF ReportInv, Reported
<1>5. CASE O!PatternWithoutFiles
  <2>1. /\ pc = "metadata" /\ at' = at + 1
        /\ discovery' = O!Issues({<<"pattern", source.metadata[at + 1]>>})
        /\ UNCHANGED <<source, ctx, work, pc>>
    BY <1>5 DEF O!PatternWithoutFiles, O!Pattern
  <2>2. at \in Nat
    BY <2>1, OwnershipFacts DEF OwnershipInv
  <2>3. \A k \in 1 .. at + 1 : k \in 1 .. at \/ k = at + 1
    BY <2>2
  <2>4. /\ PlacesOf(discovery) \subseteq PlacesOf(discovery')
        /\ <<"pattern", source.metadata[at + 1]>> \in PlacesOf(discovery')
    BY <2>1, IssuesAreReported
  <2>5. Reported(source, discovery', at + 1)
    BY <2>1, <2>3, <2>4 DEF ReportInv, Reported
  <2> QED
    BY <2>1, <2>5 DEF ReportInv
<1>6. CASE O!ExpandPattern
  <2>1. /\ pc = "metadata" /\ pc' = "files" /\ FilesOf(source, at + 1) # {}
        /\ UNCHANGED <<source, ctx, at, work, discovery>>
    BY <1>6 DEF O!ExpandPattern, O!Pattern, FilesOf
  <2> QED
    BY <2>1 DEF ReportInv
<1>7. CASE O!LoadFile
  <2>1. /\ pc = "files" /\ UNCHANGED <<source, ctx, at, pc>>
        /\ discovery' = discovery \/ \E places : discovery' = O!Issues(places)
    BY <1>7 DEF O!LoadFile
  <2>2. PlacesOf(discovery) \subseteq PlacesOf(discovery')
    BY <2>1, IssuesAreReported
  <2> QED
    BY <2>1, <2>2 DEF ReportInv, Reported
<1>8. CASE O!LeavePattern
  <2>1. /\ pc = "files" /\ pc' = "metadata" /\ at' = at + 1
        /\ O!Unread = {} /\ UNCHANGED <<source, ctx, work, discovery>>
    BY <1>8 DEF O!LeavePattern
  <2>2. at \in Nat
    BY <2>1 DEF OwnershipInv
  <2>3. \A k \in 1 .. at + 1 : k \in 1 .. at \/ k = at + 1
    BY <2>2
  <2>4. FilesOf(source, at + 1) # {}
    BY <2>1 DEF ReportInv
  <2>5. Reported(source, discovery, at + 1)
    BY <2>1, <2>3, <2>4 DEF ReportInv, Reported
  <2> QED
    BY <2>1, <2>5 DEF ReportInv
<1>9. CASE O!LeaveMetadata
  <2>1. /\ pc = "metadata" /\ pc' = "codeowners" /\ (at = Len(source.metadata) \/ ctx = "ended")
        /\ UNCHANGED <<source, ctx, at, work, discovery>>
    BY <1>9 DEF O!LeaveMetadata
  <2> QED
    BY <2>1 DEF ReportInv
<1>10. CASE O!LoadCodeowners
  <2>1. pc = "codeowners" /\ pc' = "consumers" /\ UNCHANGED <<source, ctx>>
    BY <1>10 DEF O!LoadCodeowners
  <2>2. discovery' = discovery \/ \E places : discovery' = O!Issues(places)
    <3>1. CASE ~ source.codeowners \/ ctx = "ended"
      BY <1>10, <3>1 DEF O!LoadCodeowners
    <3>2. CASE ~ (~ source.codeowners \/ ctx = "ended") /\ O!findCodeowners = {}
      BY <1>10, <3>2 DEF O!LoadCodeowners
    <3>3. CASE ~ (~ source.codeowners \/ ctx = "ended") /\ O!findCodeowners # {}
      <4>1. PICK path \in O!findCodeowners :
               LET lines == source.files[path].lines
               IN  \/ discovery' = O!Issues({<<"file", path>>})
                   \/ discovery' = O!Issues({<<"line", i>> : i \in {i \in DOMAIN lines : ~ lines[i].valid}})
        BY <1>10, <3>3 DEF O!LoadCodeowners
      <4> QED
        BY <4>1
    <3> QED
      BY <3>1, <3>2, <3>3
  <2>3. PlacesOf(discovery) \subseteq PlacesOf(discovery')
    BY <2>2, IssuesAreReported
  <2> QED
    BY <2>1, <2>3 DEF ReportInv, Reported
<1>11. CASE O!Assign
  <2>1. pc = "consumers" /\ UNCHANGED <<source, ctx, discovery, pc>>
    BY <1>11 DEF O!Assign
  <2> QED
    BY <2>1 DEF ReportInv
<1>12. CASE O!RefuseToEnrich \/ O!StopAssigning \/ O!EndOfConsumers
  <2>1. pc' \in {"failed", "loaded"}
    BY <1>12 DEF O!RefuseToEnrich, O!StopAssigning, O!Abandon, O!EndOfConsumers
  <2> QED
    BY <2>1 DEF ReportInv
<1> QED
  BY <1>1, <1>2, <1>3, <1>4, <1>5, <1>6, <1>7, <1>8, <1>9, <1>10, <1>11, <1>12 DEF Next, O!Next

LEMMA FoundAndLoaded == OwnershipInv /\ ReportInv => PatternsFindTheirFiles
<1> SUFFICES ASSUME OwnershipInv, ReportInv, Is("ownership"), NEW k \in DOMAIN source.metadata
             PROVE  LET pattern == source.metadata[k]
                        meant == {p \in DOMAIN source.files :
                                    O!Matches(IF O!hasMeta(pattern) THEN pattern ELSE pattern \o <<"**">>, p)}
                    IN  /\ O!Expand(DOMAIN source.files, pattern).files = meant
                        /\ pc = "consumers" /\ ctx = "live" =>
                              /\ meant \subseteq work.loaded
                              /\ meant = {} => O!Diagnosed(<<"pattern", pattern>>)
  BY DEF PatternsFindTheirFiles, O!PatternsFindTheirFiles
<1> DEFINE pattern == source.metadata[k]
           meant == {p \in DOMAIN source.files :
                       O!Matches(IF O!hasMeta(pattern) THEN pattern ELSE pattern \o <<"**">>, p)}
<1>1. FilesOf(source, k) = meant
  BY OwnershipFacts, PatternsAreMeant
<1> HIDE DEF meant
<1>2. k \in 1 .. Len(source.metadata)
  BY OwnershipFacts
<1>3. ASSUME pc = "consumers", ctx = "live"
      PROVE  meant \subseteq work.loaded /\ (meant = {} => O!Diagnosed(<<"pattern", pattern>>))
  <2>1. work.loaded = Named(source, Len(source.metadata))
    BY <1>3 DEF OwnershipInv
  <2>2. Reported(source, discovery, Len(source.metadata))
    BY <1>3 DEF ReportInv
  <2> QED
    BY <1>1, <1>2, <2>1, <2>2 DEF Named, Reported, O!Diagnosed, PlacesOf
<1> QED
  BY <1>1, <1>3 DEF FilesOf, meant

(* A source pattern finds exactly the files it means, whatever the tree and *)
(* the pattern are, and a pattern that finds none does not go unnoticed: the*)
(* wildcards of the code are those of the reference definition, and no walk *)
(* starts below a file that it should find.                                 *)
THEOREM PatternsMeanTheirFiles == Spec => []PatternsFindTheirFiles
<1>1. Init => ReportInv
  <2> SUFFICES ASSUME Init, Is("ownership") PROVE pc = "enrich"
    BY DEF ReportInv
  <2>1. O!Init
    BY InputsDiffer DEF Init, Is, R!Init, T!Init, P!Init
  <2> QED
    BY <2>1 DEF O!Init, O!Begin
<1>2. Spec => []ReportInv
  BY <1>1, ReportStep, OwnershipInvariant, PTL DEF Spec
<1> QED
  BY <1>2, OwnershipInvariant, FoundAndLoaded, PTL
-----------------------------------------------------------------------------
(* Perses                                                                   *)

LEMMA PersesVocabulary ==
    /\ P!Criticality = Criticality /\ P!Symbol = Symbol
    /\ P!Consumer = Consumer /\ P!Reference = Reference /\ P!Production = Production
  BY DEF P!Criticality, Criticality, P!Symbol, Symbol, P!Domains, Domains, P!Kinds, Kinds,
         P!Consumer, Consumer, P!Reference, Reference, P!Production, Production

LEMMA PersesCardinality == \A S : P!Cardinality(S) = Cardinality(S)
  BY DEF P!Cardinality, Cardinality

LEMMA EndpointsAre ==
    /\ Len(P!Endpoints) = 3 /\ DOMAIN P!Endpoints = 1 .. 3
    /\ P!Endpoints[1] = "metrics" /\ P!Endpoints[2] = "partial" /\ P!Endpoints[3] = "pending"
    /\ \A i \in 1 .. 3 : P!Endpoints[i] \in EndpointNames
    /\ \A i, j \in 1 .. 3 : P!Endpoints[i] = P!Endpoints[j] => i = j
    /\ \A e \in EndpointNames : \E i \in 1 .. 3 : e = P!Endpoints[i]
<1>1. /\ Len(P!Endpoints) = 3 /\ DOMAIN P!Endpoints = 1 .. 3
      /\ P!Endpoints[1] = "metrics" /\ P!Endpoints[2] = "partial" /\ P!Endpoints[3] = "pending"
  BY DEF P!Endpoints
<1>2. \A i \in 1 .. 3 : i = 1 \/ i = 2 \/ i = 3
  OBVIOUS
<1>3. 1 \in 1 .. 3 /\ 2 \in 1 .. 3 /\ 3 \in 1 .. 3
  OBVIOUS
<1>4. \A i \in 1 .. 3 : P!Endpoints[i] \in EndpointNames
  BY <1>1, <1>2 DEF EndpointNames
<1>5. \A i, j \in 1 .. 3 : P!Endpoints[i] = P!Endpoints[j] => i = j
  BY <1>1, <1>2
<1>6. \A e \in EndpointNames : \E i \in 1 .. 3 : e = P!Endpoints[i]
  BY <1>1, <1>3 DEF EndpointNames
<1> QED
  BY <1>1, <1>4, <1>5, <1>6

LEMMA ExpressionsAreBounded ==
    /\ Expressions \subseteq Nat /\ IsFiniteSet(Expressions)
    /\ \A e \in Expressions : e # 0 => /\ ExpressionAnalyses[e].symbols \subseteq Symbol
                                       /\ ExpressionAnalyses[e].patterns \subseteq Symbol
                                       /\ ExpressionAnalyses[e].unresolved \in BOOLEAN
<1>1. ExpressionAnalyses \in Seq([symbols : SUBSET Symbol, patterns : SUBSET Symbol, unresolved : BOOLEAN])
  BY ExpressionAnalysesAssumption
<1>2. Len(ExpressionAnalyses) \in Nat /\ DOMAIN ExpressionAnalyses = 1 .. Len(ExpressionAnalyses)
  BY <1>1
<1>3. Expressions = 0 .. Len(ExpressionAnalyses)
  BY <1>2 DEF Expressions
<1>4. IsFiniteSet(0 .. Len(ExpressionAnalyses))
  BY <1>2, FS_Interval
<1>5. ASSUME NEW e \in Expressions, e # 0
      PROVE  /\ ExpressionAnalyses[e].symbols \subseteq Symbol
             /\ ExpressionAnalyses[e].patterns \subseteq Symbol
             /\ ExpressionAnalyses[e].unresolved \in BOOLEAN
  <2> DEFINE Analysis == [symbols : SUBSET Symbol, patterns : SUBSET Symbol, unresolved : BOOLEAN]
  <2>1. ExpressionAnalyses \in Seq(Analysis) /\ e \in DOMAIN ExpressionAnalyses
    BY <1>1, <1>5 DEF Expressions
  <2> HIDE DEF Analysis
  <2>2. ExpressionAnalyses[e] \in Analysis
    BY <2>1
  <2> QED
    BY <2>2 DEF Analysis
<1> QED
  BY <1>2, <1>3, <1>4, <1>5

LEMMA ServiceIsTyped ==
    ASSUME NEW s \in Services
    PROVE  /\ s.adapter = "perses_usage" /\ s.required \in BOOLEAN
           /\ \A e \in EndpointNames :
                 /\ Len(s.answers[e]) \in Nat /\ DOMAIN s.answers[e] = 1 .. Len(s.answers[e])
                 /\ s.answers[e] \in Seq(P!Entry)
                 /\ \A j \in DOMAIN s.answers[e] : s.answers[e][j] \in P!Entry
<1>1. s \in P!Service
  BY ServicesAssumption
<1>2. /\ s.adapter = "perses_usage" /\ s.required \in BOOLEAN
      /\ \A e \in EndpointNames : s.answers[e] \in Seq(P!Entry)
  BY <1>1 DEF P!Service, EndpointNames
<1> QED
  BY <1>2

LEMMA EntryIsTyped ==
    ASSUME NEW x \in P!Entry
    PROVE  /\ Len(x.usage) \in Nat /\ DOMAIN x.usage = 1 .. Len(x.usage)
           /\ x.metric \in Names \cup {NoName} /\ x.matching \subseteq Names \cup {NoName}
           /\ \A i \in DOMAIN x.usage : /\ x.usage[i].kind \in ConsumerKinds
                                        /\ x.usage[i].name \in Names \cup {NoName}
                                        /\ x.usage[i].expression \in Expressions
<1>1. x.usage \in Seq(P!Use) /\ x.metric \in Names \cup {NoName} /\ x.matching \subseteq Names \cup {NoName}
  BY DEF P!Entry
<1>2. \A i \in DOMAIN x.usage : x.usage[i] \in P!Use
  BY <1>1
<1> QED
  BY <1>1, <1>2 DEF P!Use, ConsumerKinds, Expressions

-----------------------------------------------------------------------------
(* The loops: entries, targets, uses.                                       *)

LEMMA NothingReadYet ==
    ASSUME NEW s \in Services, NEW answered \in SUBSET EndpointNames, NEW e \in EndpointNames, e \notin answered
    PROVE  /\ EntriesRead(s, answered \cup {e}, e, 0) = EntriesRead(s, answered, "none", 0)
           /\ "none" \notin EndpointNames
<1>1. "none" \notin EndpointNames
  BY DEF EndpointNames
<1>2. \A f \in EndpointNames : DOMAIN s.answers[f] = 1 .. Len(s.answers[f]) /\ Len(s.answers[f]) \in Nat
  BY ServiceIsTyped
<1>3. ASSUME NEW q
      PROVE  q \in EntriesRead(s, answered \cup {e}, e, 0) <=> q \in EntriesRead(s, answered, "none", 0)
  <2>1. ASSUME q \in EndpointNames \X Nat, q[2] \in DOMAIN s.answers[q[1]] PROVE ~ (q[2] <= 0)
    <3>1. q[1] \in EndpointNames
      BY <2>1
    <3>2. q[2] \in 1 .. Len(s.answers[q[1]])
      BY <1>2, <2>1, <3>1
    <3> QED
      BY <1>2, <3>1, <3>2
  <2> QED
    BY <1>1, <2>1 DEF EntriesRead
<1> QED
  BY <1>1, <1>3

LEMMA AllRead ==
    ASSUME NEW s \in Services, NEW answered \in SUBSET EndpointNames, NEW e \in EndpointNames
    PROVE  EntriesRead(s, answered, e, Len(s.answers[e])) = EntriesRead(s, answered, "none", 0)
<1>1. "none" \notin EndpointNames
  BY DEF EndpointNames
<1>2. DOMAIN s.answers[e] = 1 .. Len(s.answers[e]) /\ Len(s.answers[e]) \in Nat
  BY ServiceIsTyped
<1>3. \A j \in DOMAIN s.answers[e] : j <= Len(s.answers[e])
  BY <1>2
<1> QED
  BY <1>1, <1>3 DEF EntriesRead

(* The answer of e has an entry after its first n.                          *)
ReadsOn(s, answered, e, n) ==
    /\ s \in Services /\ answered \in SUBSET EndpointNames /\ e \in answered
    /\ n \in Nat /\ n < Len(s.answers[e])

LEMMA OneMoreEntry ==
    ASSUME NEW s, NEW answered, NEW e, NEW n, ReadsOn(s, answered, e, n)
    PROVE  /\ EntriesRead(s, answered, e, n + 1) = EntriesRead(s, answered, e, n) \cup {<<e, n + 1>>}
           /\ EntryAt(s, <<e, n + 1>>) = s.answers[e][n + 1] /\ s.answers[e][n + 1] \in P!Entry
<1> USE DEF ReadsOn
<1>1. e \in EndpointNames
  OBVIOUS
<1>2. /\ DOMAIN s.answers[e] = 1 .. Len(s.answers[e]) /\ Len(s.answers[e]) \in Nat
      /\ \A j \in DOMAIN s.answers[e] : s.answers[e][j] \in P!Entry
  BY <1>1, ServiceIsTyped
<1>3. n + 1 \in DOMAIN s.answers[e] /\ n + 1 \in Nat
  BY <1>2
<1>4. <<e, n + 1>>[1] = e /\ <<e, n + 1>>[2] = n + 1
  OBVIOUS
<1>5. ASSUME NEW q
      PROVE  q \in EntriesRead(s, answered, e, n + 1) <=> q \in EntriesRead(s, answered, e, n) \cup {<<e, n + 1>>}
  <2>1. ASSUME q \in EntriesRead(s, answered, e, n + 1), q \notin EntriesRead(s, answered, e, n)
        PROVE  q = <<e, n + 1>>
    <3>1. q \in EndpointNames \X Nat /\ q[1] = e /\ q[2] <= n + 1 /\ ~ (q[2] <= n)
      BY <2>1 DEF EntriesRead
    <3>2. q[2] \in Nat
      BY <3>1
    <3>3. q[2] = n + 1
      BY <3>1, <3>2
    <3> QED
      BY <3>1, <3>3
  <2>2. ASSUME q \in EntriesRead(s, answered, e, n) PROVE q \in EntriesRead(s, answered, e, n + 1)
    <3>1. q \in EndpointNames \X Nat /\ (q[1] = e => q[2] <= n)
      BY <2>2 DEF EntriesRead
    <3>2. q[1] = e => q[2] <= n + 1
      BY <3>1
    <3> QED
      BY <2>2, <3>2 DEF EntriesRead
  <2>3. <<e, n + 1>> \in EntriesRead(s, answered, e, n + 1)
    BY <1>1, <1>3, <1>4 DEF EntriesRead
  <2> QED
    BY <2>1, <2>2, <2>3
<1> QED
  BY <1>2, <1>3, <1>4, <1>5 DEF EntryAt

LEMMA SaidByHas ==
    ASSUME NEW s, NEW answered, NEW open, NEW n, NEW u
    PROVE  u \in SaidBy(s, answered, open, n) <=>
              \E q \in EntriesRead(s, answered, open, n) :
                 P!Usable(EntryAt(s, q)) /\ u \in P!UsesOf(q[1], EntryAt(s, q))
  BY DEF SaidBy

LEMMA SaidByMore ==
    ASSUME NEW s, NEW answered, NEW e, NEW n, ReadsOn(s, answered, e, n)
    PROVE  /\ ~ P!Usable(s.answers[e][n + 1]) =>
                 SaidBy(s, answered, e, n + 1) = SaidBy(s, answered, e, n)
           /\ P!Usable(s.answers[e][n + 1]) =>
                 SaidBy(s, answered, e, n + 1) = SaidBy(s, answered, e, n) \cup P!UsesOf(e, s.answers[e][n + 1])
<1>1. PICK q : /\ EntriesRead(s, answered, e, n + 1) = EntriesRead(s, answered, e, n) \cup {q}
               /\ EntryAt(s, q) = s.answers[e][n + 1] /\ q[1] = e
  <2>1. /\ EntriesRead(s, answered, e, n + 1) = EntriesRead(s, answered, e, n) \cup {<<e, n + 1>>}
        /\ EntryAt(s, <<e, n + 1>>) = s.answers[e][n + 1]
    BY OneMoreEntry
  <2>2. <<e, n + 1>>[1] = e
    OBVIOUS
  <2> QED
    BY <2>1, <2>2
<1>3. ASSUME NEW u
      PROVE  u \in SaidBy(s, answered, e, n + 1) <=>
                \/ u \in SaidBy(s, answered, e, n)
                \/ P!Usable(s.answers[e][n + 1]) /\ u \in P!UsesOf(e, s.answers[e][n + 1])
  <2>1. u \in SaidBy(s, answered, e, n + 1) <=>
           \E p \in EntriesRead(s, answered, e, n + 1) :
              P!Usable(EntryAt(s, p)) /\ u \in P!UsesOf(p[1], EntryAt(s, p))
    BY SaidByHas
  <2>2. u \in SaidBy(s, answered, e, n) <=>
           \E p \in EntriesRead(s, answered, e, n) :
              P!Usable(EntryAt(s, p)) /\ u \in P!UsesOf(p[1], EntryAt(s, p))
    BY SaidByHas
  <2> QED
    BY <1>1, <2>1, <2>2
<1> QED
  BY <1>3

LEMMA ComplainedMore ==
    ASSUME NEW s, NEW answered, NEW e, NEW n, ReadsOn(s, answered, e, n), NEW places, NEW more, places \subseteq more,
           Complained(s, answered, e, n, places),
           LET x == s.answers[e][n + 1]
           IN  \/ P!Usable(x) /\ ~ HasNameless(x, Len(x.usage))
               \/ <<"metric", x.metric>> \in more
    PROVE  Complained(s, answered, e, n + 1, more)
<1>1. /\ EntriesRead(s, answered, e, n + 1) = EntriesRead(s, answered, e, n) \cup {<<e, n + 1>>}
      /\ EntryAt(s, <<e, n + 1>>) = s.answers[e][n + 1]
  BY OneMoreEntry
<1>2. ASSUME NEW q \in EntriesRead(s, answered, e, n + 1)
      PROVE  \/ P!Usable(EntryAt(s, q)) /\ ~ HasNameless(EntryAt(s, q), Len(EntryAt(s, q).usage))
             \/ <<"metric", EntryAt(s, q).metric>> \in more
  <2>1. CASE q \in EntriesRead(s, answered, e, n)
    BY <2>1 DEF Complained
  <2>2. CASE q = <<e, n + 1>>
    <3>1. EntryAt(s, q) = s.answers[e][n + 1]
      BY <1>1, <2>2
    <3> QED
      BY <3>1
  <2> QED
    BY <1>1, <2>1, <2>2
<1> QED
  BY <1>2 DEF Complained

(* What is told of an entry.                                                *)
LEMMA TargetsHave ==
    ASSUME NEW e, NEW x, NEW t
    PROVE  t \in P!Targets(e, x) <=>
              \/ t = P!Target(x.metric, e = "partial")
              \/ e = "partial" /\ \E m \in x.matching \ {NoName} : t = P!Target(m, FALSE)
<1> DEFINE main == P!Target(x.metric, e = "partial")
           names == IF e = "partial" THEN x.matching \ {NoName} ELSE {}
           confirmed(m) == P!Target(m, FALSE)
<1>1. P!Targets(e, x) = {main} \cup {confirmed(m) : m \in names}
  BY DEF P!Targets
<1>2. \A m : m \in names <=> e = "partial" /\ m \in x.matching \ {NoName}
  OBVIOUS
<1> HIDE DEF main, names, confirmed
<1>3. t \in P!Targets(e, x) <=> t = main \/ \E m \in names : t = confirmed(m)
  BY <1>1
<1> QED
  BY <1>2, <1>3 DEF main, confirmed

LEMMA TargetsAreTyped ==
    ASSUME NEW x \in P!Entry, P!Usable(x), NEW e, NEW t \in P!Targets(e, x)
    PROVE  t.metric \in Names /\ t.partial \in BOOLEAN
<1>1. x.metric \in Names
  BY EntryIsTyped DEF P!Usable
<1>2. \A m \in x.matching \ {NoName} : m \in Names
  BY EntryIsTyped
<1>3. \A m, b : P!Target(m, b).metric = m /\ P!Target(m, b).partial = b
  BY DEF P!Target
<1>4. CASE t = P!Target(x.metric, e = "partial")
  <2>1. (e = "partial") \in BOOLEAN
    OBVIOUS
  <2> QED
    BY <1>1, <1>3, <1>4, <2>1
<1>5. CASE \E m \in x.matching \ {NoName} : t = P!Target(m, FALSE)
  <2>1. PICK m \in x.matching \ {NoName} : t = P!Target(m, FALSE)
    BY <1>5
  <2>2. t.metric \in Names
    BY <1>2, <2>1 DEF P!Target
  <2>3. t.partial \in BOOLEAN
    BY <2>1 DEF P!Target
  <2> QED
    BY <2>2, <2>3
<1>6. \/ t = P!Target(x.metric, e = "partial")
      \/ e = "partial" /\ \E m \in x.matching \ {NoName} : t = P!Target(m, FALSE)
  BY TargetsHave
<1> QED
  BY <1>4, <1>5, <1>6

LEMMA ToldIsTyped ==
    ASSUME NEW x \in P!Entry, NEW t, t.metric \in Names, t.partial \in BOOLEAN, NEW i \in DOMAIN x.usage, x.usage[i].name # NoName
    PROVE  LET u == P!Told(x.usage[i], t.metric, t.partial)
           IN  /\ u \in Telling /\ u.id = P!IDOf(x.usage[i]) /\ u.id.kind = x.usage[i].kind
               /\ u.expression = x.usage[i].expression /\ u.metric = t.metric /\ u.partial = t.partial
<1>1. /\ x.usage[i].kind \in ConsumerKinds /\ x.usage[i].name \in Names /\ x.usage[i].expression \in Expressions
  BY EntryIsTyped
<1> QED
  BY <1>1 DEF P!Told, P!IDOf, Telling

LEMMA NothingTold ==
    ASSUME NEW x \in P!Entry, NEW t PROVE ToldOf(x, t, 0) = {} /\ ToldOfAll(x, {}) = {} /\ ~ HasNameless(x, 0)
<1>1. \A i \in DOMAIN x.usage : ~ (i <= 0)
  BY EntryIsTyped
<1> QED
  BY <1>1 DEF ToldOf, NamedUses, ToldOfAll, HasNameless

LEMMA OneMoreTold ==
    ASSUME NEW x \in P!Entry, NEW t, NEW n \in Nat, n < Len(x.usage)
    PROVE  /\ n + 1 \in DOMAIN x.usage
           /\ x.usage[n + 1].name = NoName => ToldOf(x, t, n + 1) = ToldOf(x, t, n) /\ HasNameless(x, n + 1)
           /\ x.usage[n + 1].name # NoName =>
                 /\ ToldOf(x, t, n + 1) = ToldOf(x, t, n) \cup {P!Told(x.usage[n + 1], t.metric, t.partial)}
                 /\ HasNameless(x, n + 1) => HasNameless(x, n)
<1>1. DOMAIN x.usage = 1 .. Len(x.usage) /\ Len(x.usage) \in Nat
  BY EntryIsTyped
<1>2. n + 1 \in DOMAIN x.usage /\ \A i \in DOMAIN x.usage : i <= n + 1 <=> i <= n \/ i = n + 1
  BY <1>1
<1>3. NamedUses(x, n + 1) = NamedUses(x, n) \cup (IF x.usage[n + 1].name = NoName THEN {} ELSE {n + 1})
  BY <1>2 DEF NamedUses
<1> DEFINE told(i) == P!Told(x.usage[i], t.metric, t.partial)
<1>4. ToldOf(x, t, n) = {told(i) : i \in NamedUses(x, n)} /\ ToldOf(x, t, n + 1) = {told(i) : i \in NamedUses(x, n + 1)}
  BY DEF ToldOf
<1> HIDE DEF told
<1>5. ASSUME x.usage[n + 1].name = NoName PROVE ToldOf(x, t, n + 1) = ToldOf(x, t, n) /\ HasNameless(x, n + 1)
  <2>1. n + 1 <= n + 1
    OBVIOUS
  <2> QED
    BY <1>2, <1>3, <1>4, <1>5, <2>1 DEF HasNameless
<1>6. ASSUME x.usage[n + 1].name # NoName
      PROVE  /\ ToldOf(x, t, n + 1) = ToldOf(x, t, n) \cup {told(n + 1)}
             /\ HasNameless(x, n + 1) => HasNameless(x, n)
  <2>1. ToldOf(x, t, n + 1) = ToldOf(x, t, n) \cup {told(n + 1)}
    BY <1>3, <1>4, <1>6
  <2>2. HasNameless(x, n + 1) => HasNameless(x, n)
    BY <1>2, <1>6 DEF HasNameless
  <2> QED
    BY <2>1, <2>2
<1> QED
  BY <1>2, <1>5, <1>6 DEF told

LEMMA ToldHas ==
    ASSUME NEW x, NEW t, NEW n, NEW y
    PROVE  y \in ToldOf(x, t, n) <=> \E i \in NamedUses(x, n) : y = P!Told(x.usage[i], t.metric, t.partial)
  BY DEF ToldOf

LEMMA ToldOfAllHas ==
    ASSUME NEW x, NEW ts, NEW y
    PROVE  y \in ToldOfAll(x, ts) <=> \E t \in ts : y \in ToldOf(x, t, Len(x.usage))
  BY DEF ToldOfAll

LEMMA OneMoreTarget ==
    ASSUME NEW x, NEW ts, NEW t
    PROVE  ToldOfAll(x, ts \cup {t}) = ToldOfAll(x, ts) \cup ToldOf(x, t, Len(x.usage))
<1>1. ASSUME NEW y
      PROVE  y \in ToldOfAll(x, ts \cup {t}) <=> y \in ToldOfAll(x, ts) \/ y \in ToldOf(x, t, Len(x.usage))
  <2>1. /\ y \in ToldOfAll(x, ts) <=> \E v \in ts : y \in ToldOf(x, v, Len(x.usage))
        /\ y \in ToldOfAll(x, ts \cup {t}) <=> \E v \in ts \cup {t} : y \in ToldOf(x, v, Len(x.usage))
    BY ToldOfAllHas
  <2> QED
    BY <2>1
<1> QED
  BY <1>1

LEMMA UsesAreTold ==
    ASSUME NEW x \in P!Entry, NEW e \in EndpointNames
    PROVE  P!UsesOf(e, x) = ToldOfAll(x, P!Targets(e, x))
<1> DEFINE named == {u \in P!Range(x.usage) : u.name # NoName}
<1>1. P!Range(x.usage) = {x.usage[i] : i \in DOMAIN x.usage}
  BY DEF P!Range
<1>2. \A i \in DOMAIN x.usage : i <= Len(x.usage)
  BY EntryIsTyped
<1>3. \A u : u \in named <=> \E i \in NamedUses(x, Len(x.usage)) : u = x.usage[i]
  BY <1>1, <1>2 DEF NamedUses
<1>4. ASSUME NEW y
      PROVE  y \in P!UsesOf(e, x) <=>
                \/ \E u \in named : y = P!Told(u, x.metric, e = "partial")
                \/ e = "partial" /\ \E u \in named, m \in x.matching \ {NoName} : y = P!Told(u, m, FALSE)
  <2> DEFINE main(u) == P!Told(u, x.metric, e = "partial")
             confirmed(u, m) == P!Told(u, m, FALSE)
  <2>1. P!UsesOf(e, x) = {main(u) : u \in named}
                           \cup (IF e # "partial" THEN {}
                                 ELSE {confirmed(u, m) : u \in named, m \in x.matching \ {NoName}})
    BY DEF P!UsesOf
  <2> HIDE DEF named, main, confirmed
  <2>2. y \in P!UsesOf(e, x) <=>
           \/ \E u \in named : y = main(u)
           \/ e = "partial" /\ \E u \in named, m \in x.matching \ {NoName} : y = confirmed(u, m)
    BY <2>1
  <2> QED
    BY <2>2 DEF main, confirmed
<1> HIDE DEF named
<1>5. \A m, b : P!Target(m, b).metric = m /\ P!Target(m, b).partial = b
  BY DEF P!Target
<1>6. ASSUME NEW y
      PROVE  y \in ToldOfAll(x, P!Targets(e, x)) <=>
                \E t \in P!Targets(e, x) : \E u \in named : y = P!Told(u, t.metric, t.partial)
  <2>1. y \in ToldOfAll(x, P!Targets(e, x)) <=> \E t \in P!Targets(e, x) : y \in ToldOf(x, t, Len(x.usage))
    BY ToldOfAllHas
  <2>2. \A t : y \in ToldOf(x, t, Len(x.usage)) <=> \E u \in named : y = P!Told(u, t.metric, t.partial)
    <3> TAKE t
    <3>1. y \in ToldOf(x, t, Len(x.usage)) <=>
             \E i \in NamedUses(x, Len(x.usage)) : y = P!Told(x.usage[i], t.metric, t.partial)
      BY ToldHas DEF P!Told
    <3> QED
      BY <1>3, <3>1
  <2> QED
    BY <2>1, <2>2
<1>7. ASSUME NEW y
      PROVE  (\E t \in P!Targets(e, x) : \E u \in named : y = P!Told(u, t.metric, t.partial)) <=>
                \/ \E u \in named : y = P!Told(u, x.metric, e = "partial")
                \/ e = "partial" /\ \E u \in named, m \in x.matching \ {NoName} : y = P!Told(u, m, FALSE)
  <2> DEFINE main == P!Target(x.metric, e = "partial")
  <2>1. main.metric = x.metric /\ main.partial = (e = "partial")
    BY DEF P!Target
  <2>2. \A t : t \in P!Targets(e, x) <=>
                 \/ t = main
                 \/ e = "partial" /\ \E m \in x.matching \ {NoName} : t = P!Target(m, FALSE)
    BY TargetsHave
  <2>3. \A u : P!Told(u, main.metric, main.partial) = P!Told(u, x.metric, e = "partial")
    BY <2>1
  <2> DEFINE by(u, t) == P!Told(u, t.metric, t.partial)
             confirmed(m) == P!Target(m, FALSE)
  <2>4. \A u, m : by(u, confirmed(m)) = P!Told(u, m, FALSE)
    BY <1>5
  <2>5. \A t : t \in P!Targets(e, x) <=>
                 t = main \/ (e = "partial" /\ \E m \in x.matching \ {NoName} : t = confirmed(m))
    BY <2>2
  <2>6. \A u : by(u, main) = P!Told(u, x.metric, e = "partial")
    BY <2>3
  <2> HIDE DEF main, by, confirmed
  <2>7. (\E t \in P!Targets(e, x) : \E u \in named : y = by(u, t)) <=>
           \/ \E u \in named : y = by(u, main)
           \/ e = "partial" /\ \E u \in named, m \in x.matching \ {NoName} : y = by(u, confirmed(m))
    BY <2>5
  <2> QED
    BY <2>4, <2>6, <2>7 DEF by
<1> QED
  BY <1>4, <1>6, <1>7

-----------------------------------------------------------------------------
(* A use is added to the state of its consumer.                             *)
LEMMA StateGrows ==
    ASSUME NEW S, S \subseteq Telling, NEW u \in Telling, NEW st,
           \/ StateIs(S, u.id, st)
           \/ /\ \A v \in S : v.id # u.id
              /\ st.expression = u.expression /\ st.unresolved = FALSE /\ st.references = {},
           NEW conflict \in BOOLEAN, conflict <=> u.id.kind \in P!Rules /\ st.expression # u.expression,
           NEW told,
           told.expression = IF conflict /\ u.expression < st.expression THEN u.expression ELSE st.expression,
           told.unresolved = (st.unresolved \/ conflict),
           told.references = st.references \cup ReferencesBy(u)
    PROVE  StateIs(S \cup {u}, u.id, told)
<1>1. \A v \in S \cup {u} : v.expression \in Nat
  BY ExpressionsAreBounded DEF Telling
<1>2. st.unresolved \in BOOLEAN /\ st.expression \in Nat
  <2>1. CASE StateIs(S, u.id, st)
    BY <1>1, <2>1 DEF StateIs
  <2>2. CASE st.expression = u.expression /\ st.unresolved = FALSE
    <3>1. st.unresolved \in BOOLEAN
      BY <2>2
    <3> QED
      BY <1>1, <2>2, <3>1
  <2> QED
    BY <2>1, <2>2
<1>3. told.unresolved \in BOOLEAN
  BY <1>2
<1>4. told.unresolved <=> st.unresolved \/ conflict
  BY <1>2
<1>5. \/ told.expression = u.expression
      \/ told.expression = st.expression /\ st.expression # u.expression
  BY <1>2
<1>6. st.expression # u.expression => StateIs(S, u.id, st)
  OBVIOUS
<1>7. \E v \in S \cup {u} : v.id = u.id /\ v.expression = told.expression
  BY <1>5, <1>6 DEF StateIs
<1>8. ASSUME u.id.kind \in P!Rules, NEW v \in S \cup {u}, v.id = u.id PROVE told.expression <= v.expression
  <2>1. told.expression <= u.expression /\ told.expression <= st.expression /\ told.expression \in Nat
    BY <1>1, <1>2, <1>8
  <2>2. CASE v = u
    BY <2>1, <2>2
  <2>3. CASE v \in S
    <3>1. StateIs(S, u.id, st)
      BY <1>8, <2>3
    <3>2. st.expression <= v.expression
      BY <1>8, <2>3, <3>1 DEF StateIs
    <3> QED
      BY <1>1, <1>2, <2>1, <3>2
  <2> QED
    BY <2>2, <2>3
<1>9. ASSUME told.unresolved
      PROVE  u.id.kind \in P!Rules /\ \E v, w \in S \cup {u} : v.id = u.id /\ w.id = u.id /\ v.expression # w.expression
  <2>1. CASE conflict
    <3>1. StateIs(S, u.id, st) /\ u.id.kind \in P!Rules
      BY <1>6, <2>1
    <3>2. PICK v \in S : v.id = u.id /\ v.expression = st.expression
      BY <3>1 DEF StateIs
    <3> QED
      BY <2>1, <3>1, <3>2
  <2>2. CASE ~ conflict
    <3>1. st.unresolved
      BY <1>4, <1>9, <2>2
    <3>2. StateIs(S, u.id, st)
      BY <3>1
    <3> QED
      BY <3>1, <3>2 DEF StateIs
  <2> QED
    BY <2>1, <2>2
<1>10. ASSUME u.id.kind \in P!Rules, NEW v \in S \cup {u}, NEW w \in S \cup {u},
              v.id = u.id, w.id = u.id, v.expression # w.expression
       PROVE  told.unresolved
  <2>1. CASE v \in S /\ w \in S
    <3>1. StateIs(S, u.id, st)
      BY <1>10, <2>1
    <3>2. st.unresolved
      BY <1>10, <2>1, <3>1 DEF StateIs
    <3> QED
      BY <1>4, <3>2
  <2>2. CASE v = u \/ w = u
    <3>1. PICK x \in S : x.id = u.id /\ x.expression # u.expression
      BY <1>10, <2>2
    <3>2. StateIs(S, u.id, st)
      BY <3>1
    <3>3. PICK y \in S : y.id = u.id /\ y.expression = st.expression
      BY <3>2 DEF StateIs
    <3>4. CASE st.expression = u.expression
      <4>1. st.unresolved
        BY <1>10, <3>1, <3>2, <3>3, <3>4 DEF StateIs
      <4> QED
        BY <1>4, <4>1
    <3>5. CASE st.expression # u.expression
      BY <1>4, <1>10, <3>5
    <3> QED
      BY <3>4, <3>5
  <2> QED
    BY <2>1, <2>2
<1>11. \A r : r \in told.references <=> \E v \in S \cup {u} : v.id = u.id /\ r \in ReferencesBy(v)
  <2> TAKE r
  <2>1. r \in st.references <=> \E v \in S : v.id = u.id /\ r \in ReferencesBy(v)
    <3>1. CASE StateIs(S, u.id, st)
      BY <3>1 DEF StateIs
    <3>2. CASE (\A v \in S : v.id # u.id) /\ st.references = {}
      BY <3>2
    <3> QED
      BY <3>1, <3>2
  <2> QED
    BY <2>1
<1> QED
  BY <1>3, <1>7, <1>8, <1>9, <1>10, <1>11 DEF StateIs

LEMMA StateStays ==
    ASSUME NEW S, NEW u, NEW id, u.id # id, NEW st, StateIs(S, id, st)
    PROVE  StateIs(S \cup {u}, id, st)
<1>1. \A v : v.id = id => (v \in S \cup {u} <=> v \in S)
  OBVIOUS
<1> QED
  BY <1>1 DEF StateIs

(* What TellUse makes of the states.                                        *)
ToldState(use, t) ==
    [expression |-> IF P!Conflict(use) /\ use.expression < P!StateOf(use).expression
                      THEN use.expression ELSE P!StateOf(use).expression,
     unresolved |-> P!StateOf(use).unresolved \/ P!Conflict(use),
     references |-> P!StateOf(use).references \cup P!addUsageReference(use, t)]
ToldStates(use, t) ==
    [i \in DOMAIN work.states \cup {P!IDOf(use)} |->
       IF i = P!IDOf(use) THEN ToldState(use, t) ELSE work.states[i]]

LEMMA OneMoreUse ==
    ASSUME NEW S, NEW places, NEW more, places \subseteq more, StatesAre(S, work.states, places),
           NEW use, NEW t, NEW u, u \in Telling, u.id = P!IDOf(use), u.id.kind = use.kind,
           u.expression = use.expression, u.metric = t.metric, u.partial = t.partial,
           P!Conflict(use) => <<"consumer", P!IDOf(use)>> \in more
    PROVE  StatesAre(S \cup {u}, ToldStates(use, t), more)
<1> DEFINE id == P!IDOf(use)
           st == P!StateOf(use)
           told == ToldState(use, t)
           after == ToldStates(use, t)
<1>1. S \subseteq Telling /\ S \cup {u} \subseteq Telling
  BY DEF StatesAre
<1>2. DOMAIN after = DOMAIN work.states \cup {id} /\ after[id] = told
      /\ \A i \in DOMAIN work.states : i # id => after[i] = work.states[i]
  BY DEF ToldStates
<1>3. IsFiniteSet(DOMAIN after)
  <2>1. IsFiniteSet(DOMAIN work.states)
    BY DEF StatesAre
  <2> HIDE DEF after, id
  <2> QED
    BY <1>2, <2>1, FS_AddElement
<1>4. \A i : i \in DOMAIN after <=> \E v \in S \cup {u} : v.id = i
  <2>1. \A i : i \in DOMAIN work.states <=> \E v \in S : v.id = i
    BY DEF StatesAre
  <2> HIDE DEF after, id
  <2>2. u.id = id
    BY DEF id
  <2> QED
    BY <1>2, <2>1, <2>2
<1>5. ReferencesBy(u) = P!addUsageReference(use, t)
  BY DEF ReferencesBy, P!addUsageReference
<1>6. P!Conflict(use) \in BOOLEAN /\ (P!Conflict(use) <=> u.id.kind \in P!Rules /\ st.expression # u.expression)
  BY DEF P!Conflict
<1>7. \/ StateIs(S, id, st) /\ id \in DOMAIN work.states /\ st = work.states[id]
      \/ /\ \A v \in S : v.id # id
         /\ st.expression = u.expression /\ st.unresolved = FALSE /\ st.references = {}
  <2>1. CASE id \in DOMAIN work.states
    <3>1. st = work.states[id]
      BY <2>1 DEF P!StateOf
    <3>2. StateIs(S, id, work.states[id])
      BY <2>1 DEF StatesAre
    <3> QED
      BY <2>1, <3>1, <3>2
  <2>2. CASE id \notin DOMAIN work.states
    <3>1. st = P!NewState(use)
      BY <2>2 DEF P!StateOf
    <3>2. \A v \in S : v.id # id
      BY <2>2 DEF StatesAre
    <3> QED
      BY <3>1, <3>2 DEF P!NewState
  <2> QED
    BY <2>1, <2>2
<1>8. /\ told.expression = IF P!Conflict(use) /\ u.expression < st.expression THEN u.expression ELSE st.expression
      /\ told.unresolved = (st.unresolved \/ P!Conflict(use))
      /\ told.references = st.references \cup ReferencesBy(u)
  BY <1>5 DEF ToldState
<1>9. StateIs(S \cup {u}, id, told)
  <2>1. PICK conflict \in BOOLEAN : conflict = P!Conflict(use)
    BY <1>6
  <2>2. conflict <=> u.id.kind \in P!Rules /\ st.expression # u.expression
    BY <1>6, <2>1
  <2>3. /\ told.expression = IF conflict /\ u.expression < st.expression THEN u.expression ELSE st.expression
        /\ told.unresolved = (st.unresolved \/ conflict)
        /\ told.references = st.references \cup ReferencesBy(u)
    BY <1>8, <2>1
  <2> HIDE DEF st, told
  <2>4. \/ StateIs(S, u.id, st)
        \/ (\A v \in S : v.id # u.id) /\ st.expression = u.expression /\ st.unresolved = FALSE /\ st.references = {}
    BY <1>7
  <2>5. StateIs(S \cup {u}, u.id, told)
    BY <1>1, <2>2, <2>3, <2>4, StateGrows
  <2> QED
    BY <2>5
<1>10. told.unresolved => <<"consumer", id>> \in more
  <2>1. ASSUME st.unresolved PROVE <<"consumer", id>> \in places
    <3>1. id \in DOMAIN work.states /\ st = work.states[id]
      BY <1>7, <2>1
    <3> QED
      BY <2>1, <3>1 DEF StatesAre
  <2>2. st.unresolved \in BOOLEAN
    <3>1. CASE StateIs(S, id, st)
      BY <3>1 DEF StateIs
    <3>2. CASE st.unresolved = FALSE
      BY <3>2
    <3> QED
      BY <1>7, <3>1, <3>2
  <2> QED
    BY <1>6, <1>8, <2>1, <2>2
<1>11. ASSUME NEW i \in DOMAIN after
       PROVE  StateIs(S \cup {u}, i, after[i]) /\ (after[i].unresolved => <<"consumer", i>> \in more)
  <2>1. CASE i = id
    <3> HIDE DEF after, told, id
    <3> QED
      BY <1>2, <1>9, <1>10, <2>1
  <2>2. CASE i # id
    <3>1. i \in DOMAIN work.states /\ after[i] = work.states[i]
      BY <1>2, <1>11, <2>2
    <3>2. StateIs(S, i, work.states[i]) /\ (work.states[i].unresolved => <<"consumer", i>> \in places)
      BY <3>1 DEF StatesAre
    <3> HIDE DEF after
    <3> QED
      BY <2>2, <3>1, <3>2, StateStays
  <2> QED
    BY <2>1, <2>2
<1> HIDE DEF after
<1> QED
  BY <1>1, <1>3, <1>4, <1>11 DEF StatesAre, after

-----------------------------------------------------------------------------
(* The diagnostics of a step, and the initial state.                        *)
LEMMA PersesDiagnoses ==
    ASSUME Is("perses_usage"), source \in Services, NEW d, OnlyDiagnostics(source, d), NEW place
    PROVE  LET e == P!WithDiagnostic(d, place)
           IN  /\ OnlyDiagnostics(source, e)
               /\ PlacesOf(e) = PlacesOf(d) \cup {place} /\ PlacesOf(d) \subseteq PlacesOf(e)
<1>1. P!WithDiagnostic(d, place) = WithDiagnostic(d, place)
  BY DEF P!WithDiagnostic, WithDiagnostic
<1> DEFINE e == WithDiagnostic(d, place)
<1>2. /\ DOMAIN e = DiscoveryFields
      /\ e.consumers = d.consumers /\ e.references = d.references /\ e.productions = d.productions
      /\ e.diagnostics = d.diagnostics \cup {[required |-> source.required, place |-> place]}
  BY DiagnosticIsAdded DEF OnlyDiagnostics
<1> HIDE DEF e
<1>3. OnlyDiagnostics(source, e)
  BY <1>2 DEF OnlyDiagnostics
<1>4. PlacesOf(e) = PlacesOf(d) \cup {place}
  <2>1. \A c : \A y : y \in PlacesOf(c) <=> \E x \in c.diagnostics : y = x.place
    BY DEF PlacesOf
  <2> DEFINE x == [required |-> source.required, place |-> place]
  <2>2. x.place = place
    OBVIOUS
  <2>3. e.diagnostics = d.diagnostics \cup {x}
    BY <1>2
  <2> HIDE DEF x
  <2> QED
    BY <2>1, <2>2, <2>3
<1> QED
  BY <1>1, <1>3, <1>4 DEF e

LEMMA PersesInit == P!Init => PersesInv
<1> SUFFICES ASSUME P!Init PROVE PersesInv
  OBVIOUS
<1>1. /\ source \in Services /\ pc = "metrics" /\ at = 0 /\ discovery = EmptyDiscovery
      /\ work = [states |-> << >>, answered |-> {}, entry |-> 0, told |-> {}, target |-> P!NoTarget, use |-> 0]
  BY DEF P!Init, P!Begin, P!EmptyDiscovery, EmptyDiscovery
<1>2. work.answered = {} /\ work.states = << >> /\ DOMAIN work = {"states", "answered", "entry", "told", "target", "use"}
  BY <1>1
<1>3. EntriesRead(source, {}, "none", 0) = {}
  BY DEF EntriesRead
<1>4. SaidBy(source, work.answered, "none", 0) = {}
  BY <1>2, <1>3, SaidByHas
<1>5. DOMAIN work.states = {} /\ IsFiniteSet(DOMAIN work.states)
  BY <1>2, FS_EmptySet
<1>6. StatesAre({}, work.states, PlacesOf(discovery))
  BY <1>5 DEF StatesAre
<1>7. Complained(source, work.answered, "none", 0, PlacesOf(discovery))
  BY <1>2, <1>3 DEF Complained
<1>8. OnlyDiagnostics(source, discovery)
  BY <1>1, NothingDiscovered DEF OnlyDiagnostics
<1>9. at \in 0 .. 3 /\ \A i \in 1 .. at : FALSE
  BY <1>1
<1>10. \A e \in EndpointNames : e \notin work.answered
  BY <1>2
<1>11. PersesShape
  BY <1>1, <1>2, <1>5, <1>8, <1>9, <1>10, EndpointsAre DEF PersesShape
<1>12. BetweenAnswers
  BY <1>4, <1>6, <1>7, <1>10, EndpointsAre DEF BetweenAnswers, StatesSay
<1> QED
  BY <1>1, <1>11, <1>12 DEF PersesInv, InAnswer, BetweenEntries, InEntry, BetweenTargets, InUsage

LEMMA MorePlaces ==
    ASSUME NEW S, NEW states, NEW places, NEW more, places \subseteq more
    PROVE  /\ StatesAre(S, states, places) => StatesAre(S, states, more)
           /\ \A s, answered, open, n :
                 Complained(s, answered, open, n, places) => Complained(s, answered, open, n, more)
  BY DEF StatesAre, Complained

(* Where a call is while it reads an answer.                                *)
LEMMA WhereItReads ==
    ASSUME PersesInv, Is("perses_usage"), pc \in {"entries", "targets", "usage"}
    PROVE  /\ source \in Services /\ at \in 0 .. 2 /\ at + 1 \in 1 .. 3
           /\ work.answered \in SUBSET EndpointNames /\ P!Endpoint \in work.answered /\ P!Endpoint \in EndpointNames
           /\ work.entry \in Nat /\ work.entry <= Len(source.answers[P!Endpoint])
           /\ Len(source.answers[P!Endpoint]) \in Nat
           /\ work.entry < Len(source.answers[P!Endpoint]) => P!CurrentEntry \in P!Entry
           /\ OnlyDiagnostics(source, discovery)
           /\ Complained(source, work.answered, P!Endpoint, work.entry, PlacesOf(discovery))
<1>1. PersesShape /\ InAnswer
  BY DEF PersesInv
<1>2. /\ source \in Services /\ at \in 0 .. 2 /\ at + 1 \in 1 .. 3
      /\ work.answered \in SUBSET EndpointNames /\ P!Endpoint \in work.answered
      /\ work.entry \in 0 .. Len(source.answers[P!Endpoint])
      /\ OnlyDiagnostics(source, discovery)
      /\ Complained(source, work.answered, P!Endpoint, work.entry, PlacesOf(discovery))
  BY <1>1 DEF PersesShape, InAnswer
<1>3. P!Endpoint \in EndpointNames
  BY <1>2
<1>4. /\ Len(source.answers[P!Endpoint]) \in Nat
      /\ DOMAIN source.answers[P!Endpoint] = 1 .. Len(source.answers[P!Endpoint])
      /\ \A j \in DOMAIN source.answers[P!Endpoint] : source.answers[P!Endpoint][j] \in P!Entry
  BY <1>2, <1>3, ServiceIsTyped
<1>5. work.entry \in Nat /\ work.entry <= Len(source.answers[P!Endpoint])
  BY <1>2, <1>4
<1>6. ASSUME work.entry < Len(source.answers[P!Endpoint]) PROVE P!CurrentEntry \in P!Entry
  <2>1. work.entry + 1 \in DOMAIN source.answers[P!Endpoint]
    BY <1>4, <1>5, <1>6
  <2> QED
    BY <1>4, <2>1 DEF P!CurrentEntry
<1> QED
  BY <1>2, <1>3, <1>4, <1>5, <1>6

(* A step within an answer keeps the shape.                                 *)
LEMMA ShapeIsKept ==
    ASSUME PersesInv, Is("perses_usage"), pc \in {"entries", "targets", "usage"},
           pc' \in {"entries", "targets", "usage"}, source' = source, at' = at,
           DOMAIN work' = DOMAIN work, work'.answered = work.answered,
           DOMAIN work'.states \subseteq ConsumerIDs,
           OnlyDiagnostics(source, discovery'), PlacesOf(discovery) \subseteq PlacesOf(discovery')
    PROVE  PersesShape' /\ BetweenAnswers'
<1>1. PersesShape
  BY DEF PersesInv
<1>2. PersesShape'
  BY <1>1 DEF PersesShape
<1>3. BetweenAnswers'
  BY DEF BetweenAnswers
<1> QED
  BY <1>2, <1>3

LEMMA PersesAnswers ==
    ASSUME PersesInv, Is("perses_usage"), P!Answers
    PROVE  PersesInv'
<1>1. PersesShape /\ BetweenAnswers /\ pc = "metrics" /\ at < 3
  BY EndpointsAre DEF PersesInv, P!Answers, P!Asking
<1>2. /\ source' = source /\ at' = at /\ discovery' = discovery /\ pc' = "entries"
      /\ work' = [work EXCEPT !.answered = @ \cup {P!Endpoint}, !.entry = 0]
  BY DEF P!Answers
<1>3. /\ DOMAIN work' = DOMAIN work /\ work'.states = work.states
      /\ work'.answered = work.answered \cup {P!Endpoint} /\ work'.entry = 0
  BY <1>1, <1>2 DEF PersesShape
<1>4. /\ source \in Services /\ at \in 0 .. 2 /\ at + 1 \in 1 .. 3
      /\ work.answered \in SUBSET EndpointNames
  BY <1>1 DEF PersesShape
<1>5. P!Endpoint \in EndpointNames /\ P!Endpoint = P!Endpoints[at + 1] /\ P!Endpoint' = P!Endpoint
  BY <1>2, <1>4, EndpointsAre DEF P!Endpoint
<1>6. P!Endpoint \notin work.answered
  <2>1. \A i \in 1 .. 3 : P!Endpoints[i] \in work.answered => i <= at
    BY <1>1 DEF BetweenAnswers
  <2> QED
    BY <1>4, <1>5, <2>1
<1>7. EntriesRead(source, work.answered \cup {P!Endpoint}, P!Endpoint, 0) = EntriesRead(source, work.answered, "none", 0)
  BY <1>4, <1>5, <1>6, NothingReadYet
<1>8. SaidSoFar' = SaidBy(source, work.answered, "none", 0)
  BY <1>2, <1>3, <1>5, <1>7 DEF SaidSoFar, SaidBy
<1>9. Complained(source, work'.answered, P!Endpoint, 0, PlacesOf(discovery))
  BY <1>1, <1>3, <1>7 DEF BetweenAnswers, Complained
<1>10. BetweenEntries'
  BY <1>1, <1>2, <1>3, <1>8 DEF BetweenEntries, BetweenAnswers, StatesSay
<1>11. InAnswer'
  <2>1. Len(source.answers[P!Endpoint]) \in Nat
    BY <1>4, <1>5, ServiceIsTyped
  <2>2. 0 \in 0 .. Len(source.answers[P!Endpoint])
    BY <2>1
  <2> QED
    BY <1>1, <1>2, <1>3, <1>5, <1>9, <2>2 DEF InAnswer
<1>12. PersesShape'
  <2>1. \A i \in 1 .. 3 : P!Endpoints[i] \in work'.answered => i <= at + 1
    <3>1. \A i \in 1 .. 3 : P!Endpoints[i] = P!Endpoint => i = at + 1
      BY <1>4, <1>5, EndpointsAre
    <3>2. \A i \in 1 .. 3 : P!Endpoints[i] \in work.answered => i <= at + 1
      BY <1>1 DEF PersesShape
    <3> QED
      BY <1>3, <1>4, <3>1, <3>2
  <2> QED
    BY <1>1, <1>2, <1>3, <1>5, <2>1 DEF PersesShape
<1> QED
  BY <1>2, <1>10, <1>11, <1>12 DEF PersesInv, BetweenAnswers, InEntry, BetweenTargets, InUsage

LEMMA PersesSkipsEntry ==
    ASSUME PersesInv, Is("perses_usage"), P!SkipEntry
    PROVE  PersesInv'
<1>1. pc = "entries" /\ work.entry < Len(source.answers[P!Endpoint]) /\ ~ P!Usable(P!CurrentEntry)
  BY DEF P!SkipEntry, P!Reading
<1>2. /\ source' = source /\ at' = at /\ pc' = pc
      /\ discovery' = P!WithDiagnostic(discovery, <<"metric", P!CurrentEntry.metric>>)
      /\ work' = [work EXCEPT !.entry = @ + 1]
  BY DEF P!SkipEntry
<1>3. PersesShape /\ InAnswer /\ BetweenEntries
  BY DEF PersesInv
<1>4. /\ DOMAIN work' = DOMAIN work /\ work'.states = work.states
      /\ work'.answered = work.answered /\ work'.entry = work.entry + 1
  BY <1>2, <1>3 DEF PersesShape
<1>5. /\ source \in Services /\ work.answered \in SUBSET EndpointNames /\ P!Endpoint \in work.answered
      /\ work.entry \in Nat /\ Len(source.answers[P!Endpoint]) \in Nat
      /\ OnlyDiagnostics(source, discovery) /\ at \in 0 .. 2
      /\ Complained(source, work.answered, P!Endpoint, work.entry, PlacesOf(discovery))
  BY <1>1, WhereItReads
<1>6. P!Endpoint' = P!Endpoint /\ P!CurrentEntry = source.answers[P!Endpoint][work.entry + 1]
  BY <1>2 DEF P!Endpoint, P!CurrentEntry
<1>7. /\ OnlyDiagnostics(source, discovery')
      /\ <<"metric", P!CurrentEntry.metric>> \in PlacesOf(discovery')
      /\ PlacesOf(discovery) \subseteq PlacesOf(discovery')
  BY <1>2, <1>5, PersesDiagnoses
<1>8. ReadsOn(source, work.answered, P!Endpoint, work.entry)
  BY <1>1, <1>5 DEF ReadsOn
<1>9. SaidBy(source, work.answered, P!Endpoint, work.entry + 1) = SaidBy(source, work.answered, P!Endpoint, work.entry)
  <2>1. ~ P!Usable(source.answers[P!Endpoint][work.entry + 1])
    BY <1>1, <1>6
  <2> QED
    BY <1>8, <2>1, SaidByMore
<1>10. Complained(source, work.answered, P!Endpoint, work.entry + 1, PlacesOf(discovery'))
  <2>1. <<"metric", source.answers[P!Endpoint][work.entry + 1].metric>> \in PlacesOf(discovery')
    BY <1>6, <1>7
  <2> QED
    BY <1>5, <1>7, <1>8, <2>1, ComplainedMore
<1>11. BetweenEntries'
  <2>1. StatesAre(SaidSoFar, work.states, PlacesOf(discovery))
    BY <1>1, <1>3 DEF BetweenEntries, StatesSay
  <2>2. StatesAre(SaidSoFar, work.states, PlacesOf(discovery'))
    BY <1>7, <2>1, MorePlaces
  <2>3. SaidSoFar' = SaidSoFar
    BY <1>2, <1>4, <1>6, <1>9 DEF SaidSoFar
  <2> QED
    BY <1>4, <2>2, <2>3 DEF BetweenEntries, StatesSay
<1>12. InAnswer'
  <2>1. work.entry + 1 \in 0 .. Len(source.answers[P!Endpoint])
    BY <1>1, <1>5
  <2> QED
    BY <1>2, <1>4, <1>5, <1>6, <1>10, <2>1 DEF InAnswer
<1>13. PersesShape' /\ BetweenAnswers'
  <2>1. DOMAIN work'.states \subseteq ConsumerIDs
    BY <1>3, <1>4 DEF PersesShape
  <2> QED
    BY <1>1, <1>2, <1>4, <1>7, <2>1, ShapeIsKept
<1> QED
  BY <1>1, <1>2, <1>11, <1>12, <1>13 DEF PersesInv, InEntry, BetweenTargets, InUsage

(* A step that stays in its entry keeps what was known of the answer.       *)
LEMMA AnswerIsKept ==
    ASSUME PersesInv, Is("perses_usage"), pc \in {"entries", "targets", "usage"}, source' = source, at' = at,
           work'.answered = work.answered, work'.entry = work.entry,
           PlacesOf(discovery) \subseteq PlacesOf(discovery')
    PROVE  /\ InAnswer' /\ P!Endpoint' = P!Endpoint /\ P!CurrentEntry' = P!CurrentEntry /\ SaidSoFar' = SaidSoFar
<1>1. P!Endpoint' = P!Endpoint
  BY DEF P!Endpoint
<1>2. P!CurrentEntry' = P!CurrentEntry /\ SaidSoFar' = SaidSoFar
  BY <1>1 DEF P!CurrentEntry, SaidSoFar
<1>3. InAnswer
  BY DEF PersesInv
<1>4. Complained(source, work.answered, P!Endpoint, work.entry, PlacesOf(discovery'))
  BY WhereItReads, MorePlaces
<1>5. InAnswer'
  BY <1>1, <1>3, <1>4 DEF InAnswer
<1> QED
  BY <1>1, <1>2, <1>5

LEMMA PersesEntersEntry ==
    ASSUME PersesInv, Is("perses_usage"), P!EnterEntry
    PROVE  PersesInv'
<1>1. pc = "entries" /\ work.entry < Len(source.answers[P!Endpoint]) /\ P!Usable(P!CurrentEntry)
  BY DEF P!EnterEntry, P!Reading
<1>2. /\ source' = source /\ at' = at /\ pc' = "targets"
      /\ work' = [work EXCEPT !.told = {}]
      /\ discovery' = P!WithDiagnostic(discovery, <<"metric", P!CurrentEntry.metric>>) \/ discovery' = discovery
  BY DEF P!EnterEntry
<1>3. PersesShape /\ BetweenEntries
  BY DEF PersesInv
<1>4. /\ DOMAIN work' = DOMAIN work /\ work'.states = work.states
      /\ work'.answered = work.answered /\ work'.entry = work.entry /\ work'.told = {}
  BY <1>2, <1>3 DEF PersesShape
<1>5. OnlyDiagnostics(source, discovery) /\ source \in Services /\ P!CurrentEntry \in P!Entry
  BY <1>1, WhereItReads
<1>6. OnlyDiagnostics(source, discovery') /\ PlacesOf(discovery) \subseteq PlacesOf(discovery')
  BY <1>2, <1>5, PersesDiagnoses
<1>7. /\ InAnswer' /\ P!Endpoint' = P!Endpoint /\ P!CurrentEntry' = P!CurrentEntry /\ SaidSoFar' = SaidSoFar
  BY <1>1, <1>2, <1>4, <1>6, AnswerIsKept
<1>8. PersesShape' /\ BetweenAnswers'
  <2>1. DOMAIN work'.states \subseteq ConsumerIDs
    BY <1>3, <1>4 DEF PersesShape
  <2>2. pc \in {"entries", "targets", "usage"} /\ pc' \in {"entries", "targets", "usage"}
    BY <1>1, <1>2
  <2> QED
    BY <1>2, <1>4, <1>6, <2>1, <2>2, ShapeIsKept
<1>9. InEntry'
  BY <1>1, <1>2, <1>4, <1>7 DEF InEntry
<1>10. BetweenTargets'
  <2>1. ToldOfAll(P!CurrentEntry, {}) = {}
    BY <1>5, NothingTold
  <2>2. StatesAre(SaidSoFar, work.states, PlacesOf(discovery))
    BY <1>1, <1>3 DEF BetweenEntries, StatesSay
  <2>3. StatesAre(SaidSoFar, work.states, PlacesOf(discovery'))
    BY <1>6, <2>2, MorePlaces
  <2>4. SaidSoFar \cup ToldOfAll(P!CurrentEntry, {}) = SaidSoFar
    BY <2>1
  <2> QED
    BY <1>4, <1>7, <2>3, <2>4 DEF BetweenTargets, StatesSay
<1> QED
  BY <1>2, <1>7, <1>8, <1>9, <1>10 DEF PersesInv, BetweenEntries, InUsage

LEMMA PersesTakesTarget ==
    ASSUME PersesInv, Is("perses_usage"), P!NextTarget
    PROVE  PersesInv'
<1>1. pc = "targets"
  BY DEF P!NextTarget
<1>2. PICK t \in P!Targets(P!Endpoint, P!CurrentEntry) \ work.told :
         /\ work.told = {} => t = P!Target(P!CurrentEntry.metric, P!Endpoint = "partial")
         /\ work' = [work EXCEPT !.target = t, !.use = 0]
  BY DEF P!NextTarget
<1>3. source' = source /\ at' = at /\ pc' = "usage" /\ discovery' = discovery
  BY DEF P!NextTarget
<1>4. PersesShape /\ InEntry /\ BetweenTargets
  BY DEF PersesInv
<1>5. /\ DOMAIN work' = DOMAIN work /\ work'.states = work.states
      /\ work'.answered = work.answered /\ work'.entry = work.entry /\ work'.told = work.told
      /\ work'.target = t /\ work'.use = 0
  BY <1>2, <1>4 DEF PersesShape
<1>6. OnlyDiagnostics(source, discovery) /\ P!CurrentEntry \in P!Entry
  BY <1>1, <1>4, WhereItReads DEF InEntry
<1>7. /\ InAnswer' /\ P!Endpoint' = P!Endpoint /\ P!CurrentEntry' = P!CurrentEntry /\ SaidSoFar' = SaidSoFar
  BY <1>1, <1>3, <1>5, AnswerIsKept
<1>8. PersesShape' /\ BetweenAnswers'
  <2>1. DOMAIN work'.states \subseteq ConsumerIDs
    BY <1>4, <1>5 DEF PersesShape
  <2>2. pc \in {"entries", "targets", "usage"} /\ pc' \in {"entries", "targets", "usage"}
    BY <1>1, <1>3
  <2> QED
    BY <1>3, <1>5, <1>6, <2>1, <2>2, ShapeIsKept
<1>9. InEntry'
  BY <1>1, <1>3, <1>4, <1>5, <1>7 DEF InEntry
<1>10. InUsage'
  <2>1. ToldOf(P!CurrentEntry, t, 0) = {} /\ ~ HasNameless(P!CurrentEntry, 0)
    BY <1>6, NothingTold
  <2>2. StatesAre(SaidSoFar \cup ToldOfAll(P!CurrentEntry, work.told), work.states, PlacesOf(discovery))
    BY <1>1, <1>4 DEF BetweenTargets, StatesSay
  <2>3. (SaidSoFar \cup ToldOfAll(P!CurrentEntry, work.told)) \cup ToldOf(P!CurrentEntry, t, 0)
          = SaidSoFar \cup ToldOfAll(P!CurrentEntry, work.told)
    BY <2>1
  <2>4. 0 \in 0 .. Len(P!CurrentEntry.usage)
    BY <1>6, EntryIsTyped
  <2>5. work.told = {} => t.metric = P!CurrentEntry.metric
    BY <1>2 DEF P!Target
  <2> QED
    BY <1>2, <1>3, <1>5, <1>7, <2>1, <2>2, <2>3, <2>4, <2>5 DEF InUsage, StatesSay
<1> QED
  BY <1>3, <1>7, <1>8, <1>9, <1>10 DEF PersesInv, BetweenEntries, BetweenTargets

LEMMA PersesLeavesEntry ==
    ASSUME PersesInv, Is("perses_usage"), P!LeaveEntry
    PROVE  PersesInv'
<1>1. pc = "targets" /\ P!Targets(P!Endpoint, P!CurrentEntry) \subseteq work.told
  BY DEF P!LeaveEntry
<1>2. /\ source' = source /\ at' = at /\ pc' = "entries" /\ discovery' = discovery
      /\ work' = [work EXCEPT !.entry = @ + 1]
  BY DEF P!LeaveEntry
<1>3. PersesShape /\ InEntry /\ BetweenTargets
  BY DEF PersesInv
<1>4. /\ DOMAIN work' = DOMAIN work /\ work'.states = work.states
      /\ work'.answered = work.answered /\ work'.entry = work.entry + 1
  BY <1>2, <1>3 DEF PersesShape
<1>5. /\ work.entry < Len(source.answers[P!Endpoint]) /\ P!Usable(P!CurrentEntry)
      /\ work.told = P!Targets(P!Endpoint, P!CurrentEntry)
      /\ work.told # {} /\ HasNameless(P!CurrentEntry, Len(P!CurrentEntry.usage)) =>
            <<"metric", P!CurrentEntry.metric>> \in PlacesOf(discovery)
  BY <1>1, <1>3 DEF InEntry
<1>6. /\ source \in Services /\ work.answered \in SUBSET EndpointNames /\ P!Endpoint \in work.answered
      /\ work.entry \in Nat /\ Len(source.answers[P!Endpoint]) \in Nat
      /\ OnlyDiagnostics(source, discovery) /\ at \in 0 .. 2
      /\ Complained(source, work.answered, P!Endpoint, work.entry, PlacesOf(discovery))
      /\ P!CurrentEntry \in P!Entry /\ P!Endpoint \in EndpointNames
  BY <1>1, <1>5, WhereItReads
<1>7. P!Endpoint' = P!Endpoint /\ P!CurrentEntry = source.answers[P!Endpoint][work.entry + 1]
  BY <1>2 DEF P!Endpoint, P!CurrentEntry
<1>8. ReadsOn(source, work.answered, P!Endpoint, work.entry)
  BY <1>5, <1>6 DEF ReadsOn
<1>9. work.told # {}
  <2>1. P!Target(P!CurrentEntry.metric, P!Endpoint = "partial") \in P!Targets(P!Endpoint, P!CurrentEntry)
    BY DEF P!Targets
  <2> QED
    BY <1>5, <2>1
<1>10. Complained(source, work.answered, P!Endpoint, work.entry + 1, PlacesOf(discovery))
  <2>1. \/ P!Usable(P!CurrentEntry) /\ ~ HasNameless(P!CurrentEntry, Len(P!CurrentEntry.usage))
        \/ <<"metric", P!CurrentEntry.metric>> \in PlacesOf(discovery)
    BY <1>5, <1>9
  <2> QED
    BY <1>6, <1>7, <1>8, <2>1, ComplainedMore
<1>11. SaidBy(source, work.answered, P!Endpoint, work.entry + 1)
         = SaidSoFar \cup ToldOfAll(P!CurrentEntry, work.told)
  <2>1. P!UsesOf(P!Endpoint, P!CurrentEntry) = ToldOfAll(P!CurrentEntry, work.told)
    BY <1>5, <1>6, UsesAreTold
  <2>2. SaidBy(source, work.answered, P!Endpoint, work.entry + 1)
          = SaidBy(source, work.answered, P!Endpoint, work.entry) \cup P!UsesOf(P!Endpoint, P!CurrentEntry)
    BY <1>5, <1>7, <1>8, SaidByMore
  <2> QED
    BY <2>1, <2>2 DEF SaidSoFar
<1>12. BetweenEntries'
  <2>1. StatesAre(SaidSoFar \cup ToldOfAll(P!CurrentEntry, work.told), work.states, PlacesOf(discovery))
    BY <1>1, <1>3 DEF BetweenTargets, StatesSay
  <2>2. SaidSoFar' = SaidSoFar \cup ToldOfAll(P!CurrentEntry, work.told)
    BY <1>2, <1>4, <1>7, <1>11 DEF SaidSoFar
  <2> QED
    BY <1>2, <1>4, <2>1, <2>2 DEF BetweenEntries, StatesSay
<1>13. InAnswer'
  <2>1. work.entry + 1 \in 0 .. Len(source.answers[P!Endpoint])
    BY <1>5, <1>6
  <2> QED
    BY <1>2, <1>4, <1>6, <1>7, <1>10, <2>1 DEF InAnswer
<1>14. PersesShape' /\ BetweenAnswers'
  <2>1. DOMAIN work'.states \subseteq ConsumerIDs
    BY <1>3, <1>4 DEF PersesShape
  <2>2. pc \in {"entries", "targets", "usage"} /\ pc' \in {"entries", "targets", "usage"}
    BY <1>1, <1>2
  <2> QED
    BY <1>2, <1>4, <1>6, <2>1, <2>2, ShapeIsKept
<1> QED
  BY <1>2, <1>12, <1>13, <1>14 DEF PersesInv, InEntry, BetweenTargets, InUsage

LEMMA PersesEndsAnswer ==
    ASSUME PersesInv, Is("perses_usage"), P!EndOfAnswer
    PROVE  PersesInv'
<1>1. pc = "entries" /\ work.entry = Len(source.answers[P!Endpoint])
  BY DEF P!EndOfAnswer
<1>2. source' = source /\ at' = at + 1 /\ pc' = "metrics" /\ work' = work /\ discovery' = discovery
  BY DEF P!EndOfAnswer
<1>3. PersesShape /\ InAnswer /\ BetweenEntries
  BY DEF PersesInv
<1>4. /\ source \in Services /\ work.answered \in SUBSET EndpointNames /\ P!Endpoint \in work.answered
      /\ OnlyDiagnostics(source, discovery) /\ at \in 0 .. 2 /\ at + 1 \in 1 .. 3
      /\ Complained(source, work.answered, P!Endpoint, work.entry, PlacesOf(discovery))
      /\ P!Endpoint \in EndpointNames
  BY <1>1, WhereItReads
<1>5. EntriesRead(source, work.answered, P!Endpoint, work.entry) = EntriesRead(source, work.answered, "none", 0)
  BY <1>1, <1>4, AllRead
<1>6. SaidSoFar = SaidBy(source, work.answered, "none", 0)
  BY <1>5 DEF SaidSoFar, SaidBy
<1>7. Complained(source, work.answered, "none", 0, PlacesOf(discovery))
  BY <1>4, <1>5 DEF Complained
<1>8. BetweenAnswers'
  <2>1. StatesAre(SaidSoFar, work.states, PlacesOf(discovery))
    BY <1>1, <1>3 DEF BetweenEntries, StatesSay
  <2>2. \A i \in 1 .. 3 : P!Endpoints[i] \in work.answered => i <= at + 1
    BY <1>3 DEF PersesShape
  <2> QED
    BY <1>2, <1>6, <1>7, <2>1, <2>2 DEF BetweenAnswers, StatesSay
<1>9. PersesShape'
  <2>1. \A i \in 1 .. 3 : P!Endpoints[i] \in work.answered => i <= at + 1 + 1
    BY <1>3, <1>4 DEF PersesShape
  <2>2. \A i \in 1 .. at + 1 :
           P!Endpoints[i] \in work.answered \/ <<"endpoint", P!Endpoints[i]>> \in PlacesOf(discovery)
    <3>1. \A i \in 1 .. at + 1 : i \in 1 .. at \/ i = at + 1
      BY <1>4
    <3>2. P!Endpoints[at + 1] \in work.answered
      BY <1>4 DEF P!Endpoint
    <3> QED
      BY <1>1, <1>3, <3>1, <3>2 DEF PersesShape
  <2> QED
    BY <1>1, <1>2, <1>3, <1>4, <2>1, <2>2 DEF PersesShape
<1> QED
  BY <1>2, <1>8, <1>9 DEF PersesInv, InAnswer, BetweenEntries, InEntry, BetweenTargets, InUsage

(* Where a call is while it tells of a target.                              *)
LEMMA WhereItTells ==
    ASSUME PersesInv, Is("perses_usage"), pc = "usage"
    PROVE  /\ P!CurrentEntry \in P!Entry /\ P!Usable(P!CurrentEntry)
           /\ Len(P!CurrentEntry.usage) \in Nat /\ work.use \in Nat /\ work.use <= Len(P!CurrentEntry.usage)
           /\ work.target \in P!Targets(P!Endpoint, P!CurrentEntry)
           /\ work.target.metric \in Names /\ work.target.partial \in BOOLEAN
<1>1. InEntry /\ InUsage
  BY DEF PersesInv
<1>2. P!CurrentEntry \in P!Entry
  BY <1>1, WhereItReads DEF InEntry
<1>3. Len(P!CurrentEntry.usage) \in Nat
  BY <1>2, EntryIsTyped
<1>4. P!Usable(P!CurrentEntry) /\ work.target \in P!Targets(P!Endpoint, P!CurrentEntry)
  BY <1>1 DEF InEntry, InUsage
<1>5. work.use \in Nat /\ work.use <= Len(P!CurrentEntry.usage)
  BY <1>1, <1>3 DEF InUsage
<1>6. work.target.metric \in Names /\ work.target.partial \in BOOLEAN
  BY <1>2, <1>4, TargetsAreTyped
<1> QED
  BY <1>2, <1>3, <1>4, <1>5, <1>6

(* A step to the next use.                                                  *)
LEMMA UsageGoesOn ==
    ASSUME PersesInv, Is("perses_usage"), pc = "usage", pc' = "usage", source' = source, at' = at,
           work.use < Len(P!CurrentEntry.usage),
           DOMAIN work' = DOMAIN work, work'.answered = work.answered, work'.entry = work.entry,
           work'.told = work.told, work'.target = work.target, work'.use = work.use + 1,
           DOMAIN work'.states \subseteq ConsumerIDs,
           OnlyDiagnostics(source, discovery'), PlacesOf(discovery) \subseteq PlacesOf(discovery'),
           StatesAre((SaidSoFar \cup ToldOfAll(P!CurrentEntry, work.told))
                       \cup ToldOf(P!CurrentEntry, work.target, work.use + 1),
                     work'.states, PlacesOf(discovery')),
           work.told = {} /\ HasNameless(P!CurrentEntry, work.use + 1) =>
               <<"metric", P!CurrentEntry.metric>> \in PlacesOf(discovery')
    PROVE  PersesInv'
<1>1. InEntry /\ InUsage
  BY DEF PersesInv
<1>2. /\ InAnswer' /\ P!Endpoint' = P!Endpoint /\ P!CurrentEntry' = P!CurrentEntry /\ SaidSoFar' = SaidSoFar
  BY AnswerIsKept
<1>3. PersesShape' /\ BetweenAnswers'
  BY ShapeIsKept
<1>4. InEntry'
  BY <1>1, <1>2 DEF InEntry
<1>5. InUsage'
  <2>1. work.use + 1 \in 0 .. Len(P!CurrentEntry.usage)
    BY WhereItTells
  <2>2. /\ work.target \in P!Targets(P!Endpoint, P!CurrentEntry)
        /\ work.told = {} => work.target.metric = P!CurrentEntry.metric
    BY <1>1 DEF InUsage
  <2> QED
    BY <1>2, <2>1, <2>2 DEF InUsage, StatesSay
<1> QED
  BY <1>2, <1>3, <1>4, <1>5 DEF PersesInv, BetweenEntries, BetweenTargets

LEMMA PersesSkipsUse ==
    ASSUME PersesInv, Is("perses_usage"), P!SkipUse
    PROVE  PersesInv'
<1>1. pc = "usage" /\ work.use < Len(P!CurrentEntry.usage) /\ P!CurrentUse.name = NoName
  BY DEF P!SkipUse, P!Telling
<1>2. /\ source' = source /\ at' = at /\ pc' = pc /\ work' = [work EXCEPT !.use = @ + 1]
      /\ discovery' = P!WithDiagnostic(discovery, <<"metric", work.target.metric>>)
  BY DEF P!SkipUse
<1>3. PersesShape /\ InUsage
  BY DEF PersesInv
<1>4. /\ DOMAIN work' = DOMAIN work /\ work'.states = work.states
      /\ work'.answered = work.answered /\ work'.entry = work.entry /\ work'.told = work.told
      /\ work'.target = work.target /\ work'.use = work.use + 1
  BY <1>2, <1>3 DEF PersesShape
<1>5. OnlyDiagnostics(source, discovery) /\ source \in Services
  BY <1>1, WhereItReads
<1>6. /\ OnlyDiagnostics(source, discovery') /\ <<"metric", work.target.metric>> \in PlacesOf(discovery')
      /\ PlacesOf(discovery) \subseteq PlacesOf(discovery')
  BY <1>2, <1>5, PersesDiagnoses
<1>7. ToldOf(P!CurrentEntry, work.target, work.use + 1) = ToldOf(P!CurrentEntry, work.target, work.use)
  <2>1. P!CurrentUse = P!CurrentEntry.usage[work.use + 1]
    BY DEF P!CurrentUse
  <2> QED
    BY <1>1, <2>1, WhereItTells, OneMoreTold
<1>8. StatesAre((SaidSoFar \cup ToldOfAll(P!CurrentEntry, work.told))
                  \cup ToldOf(P!CurrentEntry, work.target, work.use + 1),
                work'.states, PlacesOf(discovery'))
  <2>1. StatesAre((SaidSoFar \cup ToldOfAll(P!CurrentEntry, work.told))
                    \cup ToldOf(P!CurrentEntry, work.target, work.use),
                  work.states, PlacesOf(discovery))
    BY <1>1, <1>3 DEF InUsage, StatesSay
  <2> QED
    BY <1>4, <1>6, <1>7, <2>1, MorePlaces
<1>9. work.told = {} => <<"metric", P!CurrentEntry.metric>> \in PlacesOf(discovery')
  BY <1>1, <1>3, <1>6 DEF InUsage
<1>10. DOMAIN work'.states \subseteq ConsumerIDs
  BY <1>3, <1>4 DEF PersesShape
<1>11. pc = "usage" /\ pc' = "usage"
  BY <1>1, <1>2
<1> QED
  BY <1>1, <1>2, <1>4, <1>6, <1>8, <1>9, <1>10, <1>11, UsageGoesOn

LEMMA PersesTellsUse ==
    ASSUME PersesInv, Is("perses_usage"), P!TellUse
    PROVE  PersesInv'
<1>1. pc = "usage" /\ work.use < Len(P!CurrentEntry.usage) /\ P!CurrentUse.name # NoName
  BY DEF P!TellUse, P!Telling
<1>2. PersesShape /\ InUsage
  BY DEF PersesInv
<1>3. /\ source' = source /\ at' = at /\ pc' = pc
      /\ DOMAIN work' = DOMAIN work /\ work'.states = ToldStates(P!CurrentUse, work.target)
      /\ work'.answered = work.answered /\ work'.entry = work.entry /\ work'.told = work.told
      /\ work'.target = work.target /\ work'.use = work.use + 1
  BY <1>2 DEF P!TellUse, ToldStates, ToldState, PersesShape
<1>4. /\ P!Conflict(P!CurrentUse) =>
            discovery' = P!WithDiagnostic(discovery, <<"consumer", P!IDOf(P!CurrentUse)>>)
      /\ ~ P!Conflict(P!CurrentUse) => discovery' = discovery
  BY DEF P!TellUse
<1>5. OnlyDiagnostics(source, discovery) /\ source \in Services
  BY <1>1, WhereItReads
<1>6. /\ OnlyDiagnostics(source, discovery') /\ PlacesOf(discovery) \subseteq PlacesOf(discovery')
      /\ P!Conflict(P!CurrentUse) => <<"consumer", P!IDOf(P!CurrentUse)>> \in PlacesOf(discovery')
  BY <1>4, <1>5, PersesDiagnoses
<1> DEFINE u == P!Told(P!CurrentUse, work.target.metric, work.target.partial)
<1>7. /\ P!CurrentUse = P!CurrentEntry.usage[work.use + 1]
      /\ work.use + 1 \in DOMAIN P!CurrentEntry.usage
      /\ ToldOf(P!CurrentEntry, work.target, work.use + 1) = ToldOf(P!CurrentEntry, work.target, work.use) \cup {u}
      /\ HasNameless(P!CurrentEntry, work.use + 1) => HasNameless(P!CurrentEntry, work.use)
  <2>1. P!CurrentUse = P!CurrentEntry.usage[work.use + 1]
    BY DEF P!CurrentUse
  <2> QED
    BY <1>1, <2>1, WhereItTells, OneMoreTold
<1>8. /\ u \in Telling /\ u.id = P!IDOf(P!CurrentUse) /\ u.id.kind = P!CurrentUse.kind
      /\ u.expression = P!CurrentUse.expression /\ u.metric = work.target.metric /\ u.partial = work.target.partial
  BY <1>1, <1>7, WhereItTells, ToldIsTyped
<1> DEFINE S == (SaidSoFar \cup ToldOfAll(P!CurrentEntry, work.told))
                  \cup ToldOf(P!CurrentEntry, work.target, work.use)
<1>9. StatesAre(S, work.states, PlacesOf(discovery))
  BY <1>1, <1>2 DEF InUsage, StatesSay
<1> HIDE DEF u
<1>10. StatesAre(S \cup {u}, work'.states, PlacesOf(discovery'))
  <2> HIDE DEF S
  <2> QED
    BY <1>3, <1>6, <1>8, <1>9, OneMoreUse
<1>11. StatesAre((SaidSoFar \cup ToldOfAll(P!CurrentEntry, work.told))
                   \cup ToldOf(P!CurrentEntry, work.target, work.use + 1),
                 work'.states, PlacesOf(discovery'))
  <2>1. S \cup {u} = (SaidSoFar \cup ToldOfAll(P!CurrentEntry, work.told))
                        \cup ToldOf(P!CurrentEntry, work.target, work.use + 1)
    BY <1>7
  <2> QED
    BY <1>10, <2>1
<1>12. work.told = {} /\ HasNameless(P!CurrentEntry, work.use + 1) =>
          <<"metric", P!CurrentEntry.metric>> \in PlacesOf(discovery')
  BY <1>1, <1>2, <1>6, <1>7 DEF InUsage
<1>13. DOMAIN work'.states \subseteq ConsumerIDs
  <2>1. DOMAIN work'.states = DOMAIN work.states \cup {u.id}
    BY <1>3, <1>8 DEF ToldStates
  <2>2. u.id \in ConsumerIDs
    BY <1>8, UsersAssumption DEF Telling, ConsumerKinds
  <2> QED
    BY <1>2, <2>1, <2>2 DEF PersesShape
<1>14. pc = "usage" /\ pc' = "usage"
  BY <1>1, <1>3
<1> QED
  BY <1>1, <1>3, <1>6, <1>11, <1>12, <1>13, <1>14, UsageGoesOn

LEMMA PersesEndsUsage ==
    ASSUME PersesInv, Is("perses_usage"), P!EndOfUsage
    PROVE  PersesInv'
<1>1. pc = "usage" /\ work.use = Len(P!CurrentEntry.usage)
  BY DEF P!EndOfUsage
<1>2. /\ source' = source /\ at' = at /\ pc' = "targets" /\ discovery' = discovery
      /\ work' = [work EXCEPT !.told = @ \cup {work.target}]
  BY DEF P!EndOfUsage
<1>3. PersesShape /\ InEntry /\ InUsage
  BY DEF PersesInv
<1>4. /\ DOMAIN work' = DOMAIN work /\ work'.states = work.states
      /\ work'.answered = work.answered /\ work'.entry = work.entry
      /\ work'.told = work.told \cup {work.target}
  BY <1>2, <1>3 DEF PersesShape
<1>5. OnlyDiagnostics(source, discovery)
  BY <1>1, WhereItReads
<1>6. /\ InAnswer' /\ P!Endpoint' = P!Endpoint /\ P!CurrentEntry' = P!CurrentEntry /\ SaidSoFar' = SaidSoFar
  BY <1>1, <1>2, <1>4, AnswerIsKept
<1>7. PersesShape' /\ BetweenAnswers'
  <2>1. DOMAIN work'.states \subseteq ConsumerIDs
    BY <1>3, <1>4 DEF PersesShape
  <2>2. pc \in {"entries", "targets", "usage"} /\ pc' \in {"entries", "targets", "usage"}
    BY <1>1, <1>2
  <2> QED
    BY <1>2, <1>4, <1>5, <2>1, <2>2, ShapeIsKept
<1>8. InEntry'
  <2>1. HasNameless(P!CurrentEntry, Len(P!CurrentEntry.usage)) =>
            <<"metric", P!CurrentEntry.metric>> \in PlacesOf(discovery)
    BY <1>1, <1>3 DEF InEntry, InUsage
  <2>2. work.target \in P!Targets(P!Endpoint, P!CurrentEntry)
    BY <1>1, WhereItTells
  <2> QED
    BY <1>1, <1>2, <1>3, <1>4, <1>6, <2>1, <2>2 DEF InEntry
<1>9. BetweenTargets'
  <2>1. ToldOfAll(P!CurrentEntry, work.told \cup {work.target})
          = ToldOfAll(P!CurrentEntry, work.told) \cup ToldOf(P!CurrentEntry, work.target, work.use)
    BY <1>1, OneMoreTarget
  <2>2. StatesAre((SaidSoFar \cup ToldOfAll(P!CurrentEntry, work.told))
                    \cup ToldOf(P!CurrentEntry, work.target, work.use),
                  work.states, PlacesOf(discovery))
    BY <1>1, <1>3 DEF InUsage, StatesSay
  <2>3. SaidSoFar \cup ToldOfAll(P!CurrentEntry, work.told \cup {work.target})
          = (SaidSoFar \cup ToldOfAll(P!CurrentEntry, work.told))
              \cup ToldOf(P!CurrentEntry, work.target, work.use)
    BY <2>1
  <2> QED
    BY <1>2, <1>4, <1>6, <2>2, <2>3 DEF BetweenTargets, StatesSay
<1> QED
  BY <1>2, <1>6, <1>7, <1>8, <1>9 DEF PersesInv, BetweenEntries, InUsage

LEMMA PersesDoesNotAnswer ==
    ASSUME PersesInv, Is("perses_usage"), P!DoesNotAnswer
    PROVE  PersesInv'
<1>1. pc = "metrics" /\ at < 3 /\ PersesShape /\ BetweenAnswers
  BY EndpointsAre DEF P!DoesNotAnswer, P!Asking, PersesInv
<1>2. /\ source \in Services /\ at \in 0 .. 2 /\ at + 1 \in 1 .. 3 /\ OnlyDiagnostics(source, discovery)
  BY <1>1 DEF PersesShape
<1>3. CASE P!Endpoint = "metrics"
  <2>1. /\ source' = source /\ at' = at /\ work' = work /\ pc' = "failed"
        /\ discovery' = P!WithDiagnostic(P!EmptyDiscovery, P!Whole)
    BY <1>3 DEF P!DoesNotAnswer, P!Fail
  <2>2. OnlyDiagnostics(source, P!EmptyDiscovery)
    BY NothingDiscovered DEF P!EmptyDiscovery, EmptyDiscovery, OnlyDiagnostics
  <2>3. OnlyDiagnostics(source, discovery')
    BY <1>2, <2>1, <2>2, PersesDiagnoses
  <2>4. PersesShape'
    BY <1>1, <2>1, <2>3 DEF PersesShape
  <2> QED
    BY <2>1, <2>4 DEF PersesInv, BetweenAnswers, InAnswer, BetweenEntries, InEntry, BetweenTargets, InUsage
<1>4. CASE P!Endpoint # "metrics"
  <2>1. /\ source' = source /\ at' = at + 1 /\ work' = work /\ pc' = pc
        /\ discovery' = P!WithDiagnostic(discovery, <<"endpoint", P!Endpoint>>)
    BY <1>4 DEF P!DoesNotAnswer
  <2>2. /\ OnlyDiagnostics(source, discovery') /\ <<"endpoint", P!Endpoint>> \in PlacesOf(discovery')
        /\ PlacesOf(discovery) \subseteq PlacesOf(discovery')
    BY <1>2, <2>1, PersesDiagnoses
  <2>3. BetweenAnswers'
    <3>1. /\ StatesAre(SaidBy(source, work.answered, "none", 0), work.states, PlacesOf(discovery'))
          /\ Complained(source, work.answered, "none", 0, PlacesOf(discovery'))
      BY <1>1, <2>2, MorePlaces DEF BetweenAnswers, StatesSay
    <3>2. \A i \in 1 .. 3 : P!Endpoints[i] \in work.answered => i <= at + 1
      BY <1>1 DEF PersesShape
    <3> QED
      BY <2>1, <3>1, <3>2 DEF BetweenAnswers, StatesSay
  <2>4. PersesShape'
    <3>1. \A i \in 1 .. 3 : P!Endpoints[i] \in work.answered => i <= at + 1 + 1
      BY <1>1, <1>2 DEF PersesShape
    <3>2. \A i \in 1 .. at + 1 :
             P!Endpoints[i] \in work.answered \/ <<"endpoint", P!Endpoints[i]>> \in PlacesOf(discovery')
      <4>1. \A i \in 1 .. at + 1 : i \in 1 .. at \/ i = at + 1
        BY <1>2
      <4>2. P!Endpoint = P!Endpoints[at + 1]
        BY DEF P!Endpoint
      <4>3. \A i \in 1 .. at :
               P!Endpoints[i] \in work.answered \/ <<"endpoint", P!Endpoints[i]>> \in PlacesOf(discovery)
        BY <1>1 DEF PersesShape
      <4> QED
        BY <2>2, <4>1, <4>2, <4>3
    <3> QED
      BY <1>1, <1>2, <2>1, <2>2, <3>1, <3>2 DEF PersesShape
  <2> QED
    BY <1>1, <2>1, <2>3, <2>4 DEF PersesInv, InAnswer, BetweenEntries, InEntry, BetweenTargets, InUsage
<1> QED
  BY <1>3, <1>4

-----------------------------------------------------------------------------
(* The discovery is built.                                                  *)
LEMMA MetricIsSymbol == \A m \in Names : P!Metric(m) \in Symbol
  BY DEF P!Metric, Symbol, Domains, Kinds

LEMMA ReferencesAre ==
    ASSUME NEW m
    PROVE  /\ P!MayRead(m).symbol = P!Metric(m) /\ P!MayRead(m).scope = "" /\ P!MayRead(m).requiresResolution = TRUE
           /\ P!Reads(m).symbol = P!Metric(m) /\ P!Reads(m).scope = "" /\ P!Reads(m).requiresResolution = FALSE
           /\ P!MayUseLabelsOf(m).symbol = P!Metric(m) /\ P!MayUseLabelsOf(m).scope = "labels"
           /\ P!MayUseLabelsOf(m).requiresResolution = TRUE
  BY DEF P!MayRead, P!Reads, P!MayUseLabelsOf

LEMMA StateIsTyped ==
    ASSUME NEW S, NEW states, NEW places, StatesAre(S, states, places), NEW id \in DOMAIN states
    PROVE  /\ id \in ConsumerIDs /\ id.name \in Names /\ id.kind \in ConsumerKinds
           /\ states[id].unresolved \in BOOLEAN /\ states[id].expression \in Expressions
           /\ P!NotUnderstood(id, states[id]) \in BOOLEAN
           /\ \A r \in states[id].references \cup P!expressionReferences(id, states[id]) :
                 P!Owned(id, r) \in Reference
<1>1. StateIs(S, id, states[id]) /\ S \subseteq Telling
  BY DEF StatesAre
<1>2. PICK u \in S : u.id = id /\ u.expression = states[id].expression
  BY <1>1 DEF StateIs
<1>3. /\ id \in [kind : ConsumerKinds, name : Names] /\ states[id].expression \in Expressions
  BY <1>1, <1>2 DEF Telling
<1>4. id \in ConsumerIDs /\ id.name \in Names /\ id.kind \in ConsumerKinds
  BY <1>3, UsersAssumption DEF ConsumerKinds
<1>5. states[id].unresolved \in BOOLEAN
  BY <1>1 DEF StateIs
<1>6. P!NotUnderstood(id, states[id]) \in BOOLEAN
  BY DEF P!NotUnderstood
<1>7. ASSUME NEW r \in states[id].references
      PROVE  P!Owned(id, r) \in Reference
  <2>1. PICK v \in S : r \in ReferencesBy(v)
    BY <1>1, <1>7 DEF StateIs
  <2>2. v.metric \in Names
    BY <1>1, <2>1 DEF Telling
  <2>3. P!Metric(v.metric) \in Symbol
    BY <2>2, MetricIsSymbol
  <2>4. r = P!MayRead(v.metric) \/ r = P!Reads(v.metric) \/ r = P!MayUseLabelsOf(v.metric)
    BY <2>1 DEF ReferencesBy, P!addUsageReference
  <2>5. r.symbol = P!Metric(v.metric) /\ r.scope \in {"", "labels"}
    BY <2>4, ReferencesAre
  <2>6. r.requiresResolution \in BOOLEAN
    BY <2>4, ReferencesAre
  <2> QED
    BY <1>4, <2>3, <2>5, <2>6 DEF P!Owned, Reference
<1>8. ASSUME NEW r \in P!expressionReferences(id, states[id])
      PROVE  P!Owned(id, r) \in Reference
  <2>1. /\ id.kind \in P!Rules /\ ~ P!NotUnderstood(id, states[id])
        /\ r \in P!ReferencesIn(ExpressionAnalyses[states[id].expression])
    BY <1>8 DEF P!expressionReferences
  <2>2. states[id].expression # 0
    BY <2>1 DEF P!NotUnderstood
  <2>3. /\ ExpressionAnalyses[states[id].expression].symbols \subseteq Symbol
        /\ ExpressionAnalyses[states[id].expression].patterns \subseteq Symbol
    BY <1>3, <2>2, ExpressionsAreBounded
  <2>4. r.symbol \in Symbol /\ r.requiresResolution \in BOOLEAN /\ r.scope = ""
    BY <2>1, <2>3, ReferencesAreTyped DEF P!ReferencesIn, ReferencesIn
  <2> QED
    BY <1>4, <2>4 DEF P!Owned, Reference
<1> QED
  BY <1>3, <1>4, <1>5, <1>6, <1>7, <1>8

LEMMA PersesSequence ==
    ASSUME NEW S, IsFiniteSet(S)
    PROVE  /\ P!Listed(S) \in Seq(S) /\ Len(P!Listed(S)) = Cardinality(S)
           /\ DOMAIN P!Listed(S) = 1 .. Cardinality(S)
           /\ \A x \in S : \E i \in DOMAIN P!Listed(S) : P!Listed(S)[i] = x
<1>1. P!Listed(S) = R!Listed(S)
  BY Zenon DEF P!Listed, R!Listed, P!Cardinality, R!Cardinality, P!Bijection, P!Injection, P!Surjection, P!IsInjective,
               R!Bijection, R!Injection, R!Surjection, R!IsInjective
<1> QED
  BY <1>1, SequenceOfSet

LEMMA PersesBuilds ==
    ASSUME PersesInv, Is("perses_usage"), P!Build
    PROVE  PersesInv'
<1>1. pc = "metrics" /\ at = 3 /\ PersesShape /\ BetweenAnswers
  BY EndpointsAre DEF P!Build, PersesInv
<1> DEFINE states == work.states
           ids == P!Listed(DOMAIN states)
           S == SaidBy(source, work.answered, "none", 0)
           Unclear(id) == P!NotUnderstood(id, states[id])
           ConsumerOf(id) == [id |-> id, criticality |-> P!CriticalityOf(id),
                              unresolved |-> states[id].unresolved \/ Unclear(id)]
           DiagnosticOf(id) == [required |-> source.required, place |-> <<"consumer", id>>]
           Unclears == {id \in DOMAIN states : Unclear(id)}
           d == discovery'
<1>2. /\ source' = source /\ at' = at /\ work' = work /\ pc' = "loaded"
      /\ DOMAIN d = DiscoveryFields
      /\ d.consumers = [i \in DOMAIN ids |-> ConsumerOf(ids[i])]
      /\ \A r : r \in d.references <=>
            \E id \in DOMAIN states : \E x \in states[id].references \cup P!expressionReferences(id, states[id]) :
               r = P!Owned(id, x)
      /\ d.productions = {[consumer |-> id, symbol |-> P!Metric(id.name)] :
                             id \in {id \in DOMAIN states : id.kind = "recording_rule"}}
      /\ d.diagnostics = discovery.diagnostics \cup {DiagnosticOf(id) : id \in Unclears}
  BY DEF P!Build, DiscoveryFields
<1>3. StatesAre(S, states, PlacesOf(discovery)) /\ OnlyDiagnostics(source, discovery)
  BY <1>1 DEF PersesShape, BetweenAnswers, StatesSay
<1>4. \A id \in DOMAIN states :
         /\ id \in ConsumerIDs /\ id.name \in Names /\ id.kind \in ConsumerKinds
         /\ states[id].unresolved \in BOOLEAN /\ Unclear(id) \in BOOLEAN
         /\ \A r \in states[id].references \cup P!expressionReferences(id, states[id]) :
               P!Owned(id, r) \in Reference
  BY <1>3, StateIsTyped
<1>5. /\ ids \in Seq(DOMAIN states) /\ Len(ids) = Cardinality(DOMAIN states)
      /\ DOMAIN ids = 1 .. Cardinality(DOMAIN states)
      /\ \A x \in DOMAIN states : \E i \in DOMAIN ids : ids[i] = x
      /\ Cardinality(DOMAIN states) \in Nat
  <2>1. IsFiniteSet(DOMAIN states)
    BY <1>3 DEF StatesAre
  <2> QED
    BY <2>1, PersesSequence, FS_CardinalityType
<1>6. \A id : ConsumerIs(id, states[id], ConsumerOf(id)) /\ ConsumerOf(id).id = id
  BY DEF ConsumerIs
<1>7. \A id \in DOMAIN states : ConsumerOf(id) \in Consumer
  <2> TAKE id \in DOMAIN states
  <2>1. (states[id].unresolved \/ Unclear(id)) \in BOOLEAN
    BY <1>4
  <2>2. P!CriticalityOf(id) \in Criticality
    BY DEF P!CriticalityOf, Criticality
  <2> HIDE DEF Unclear
  <2> QED
    BY <1>4, <2>1, <2>2 DEF Consumer
<1> HIDE DEF ids, ConsumerOf, DiagnosticOf, Unclear
<1>8. \A i \in DOMAIN ids : ids[i] \in DOMAIN states
  BY <1>5
<1>9. /\ d.consumers \in Seq(Consumer) /\ Len(d.consumers) = Cardinality(DOMAIN states)
      /\ DOMAIN d.consumers = DOMAIN ids /\ \A i \in DOMAIN ids : d.consumers[i] = ConsumerOf(ids[i])
  BY <1>2, <1>5, <1>7, <1>8
<1>10. \A c : c \in Range(d.consumers) <=> \E i \in DOMAIN ids : c = ConsumerOf(ids[i])
  BY <1>9 DEF Range
<1>11. /\ \A c \in Range(d.consumers) : c.id \in DOMAIN states /\ ConsumerIs(c.id, states[c.id], c)
       /\ \A id \in DOMAIN states : \E c \in Range(d.consumers) : c.id = id
  BY <1>5, <1>6, <1>8, <1>10
<1>12. d.references \subseteq Reference
  BY <1>2, <1>4
<1>13. d.productions \subseteq Production
  <2>1. \A id \in DOMAIN states : [consumer |-> id, symbol |-> P!Metric(id.name)] \in Production
    BY <1>4, MetricIsSymbol DEF Production
  <2> QED
    BY <1>2, <2>1
<1>14. {p.consumer : p \in d.productions} = {id \in DOMAIN states : id.kind = "recording_rule"}
  <2> DEFINE ProductionOf(id) == [consumer |-> id, symbol |-> P!Metric(id.name)]
             Recordings == {id \in DOMAIN states : id.kind = "recording_rule"}
  <2>1. d.productions = {ProductionOf(id) : id \in Recordings} /\ \A id : ProductionOf(id).consumer = id
    BY <1>2
  <2> HIDE DEF ProductionOf, Recordings
  <2>2. {p.consumer : p \in d.productions} = Recordings
    BY <2>1
  <2> QED
    BY <2>2 DEF Recordings
<1>15. \A p : p \in PlacesOf(d) <=> p \in PlacesOf(discovery) \/ \E id \in Unclears : p = DiagnosticOf(id).place
  BY <1>2 DEF PlacesOf
<1>16. \A id : DiagnosticOf(id).place = <<"consumer", id>> /\ DiagnosticOf(id).required = source.required
  BY DEF DiagnosticOf
<1>17. \A id \in DOMAIN states : Unclear(id) => <<"consumer", id>> \in PlacesOf(d)
  BY <1>15, <1>16
<1>18. \A x \in d.diagnostics : x.required = source.required
  BY <1>2, <1>3, <1>16 DEF OnlyDiagnostics
<1>19. Built(source, states, d)
  BY <1>2, <1>9, <1>11, <1>12, <1>13, <1>14, <1>17, <1>18 DEF Built, Unclear
<1>20. PlacesOf(discovery) \subseteq PlacesOf(d)
  BY <1>15
<1>21. BetweenAnswers'
  <2>1. StatesAre(S, states, PlacesOf(d)) /\ Complained(source, work.answered, "none", 0, PlacesOf(d))
    BY <1>1, <1>3, <1>20, MorePlaces DEF BetweenAnswers
  <2> QED
    BY <1>1, <1>2, <2>1 DEF BetweenAnswers, StatesSay
<1>22. PersesShape'
  BY <1>1, <1>2, <1>19, <1>20 DEF PersesShape
<1> QED
  BY <1>2, <1>21, <1>22 DEF PersesInv, InAnswer, BetweenEntries, InEntry, BetweenTargets, InUsage

LEMMA PersesStep == PersesInv /\ [Next]_vars => PersesInv'
<1> SUFFICES ASSUME PersesInv, [Next]_vars, Is("perses_usage"), source' = source PROVE PersesInv'
  BY SourceIsConstant DEF PersesInv, Is
<1>1. ASSUME UNCHANGED <<source, at, work, discovery, pc>> PROVE PersesInv'
  <2>1. P!Endpoint' = P!Endpoint /\ P!CurrentEntry' = P!CurrentEntry /\ SaidSoFar' = SaidSoFar
    BY <1>1 DEF P!Endpoint, P!CurrentEntry, SaidSoFar
  <2>2. PersesShape' /\ BetweenAnswers' /\ InAnswer' /\ BetweenEntries'
    BY <1>1, <2>1 DEF PersesInv, PersesShape, BetweenAnswers, InAnswer, BetweenEntries, StatesSay
  <2>3. InEntry' /\ BetweenTargets' /\ InUsage'
    BY <1>1, <2>1 DEF PersesInv, InEntry, BetweenTargets, InUsage, StatesSay
  <2> QED
    BY <2>2, <2>3 DEF PersesInv
<1>2. CASE UNCHANGED vars
  BY <1>1, <1>2 DEF vars
<1>3. CASE Cancel
  BY <1>1, <1>3 DEF Cancel
<1>4. ~ R!Next /\ ~ T!Next /\ ~ O!Next
  BY RuntimeMoves, TempoMoves, OwnershipMoves DEF PersesInv, PersesShape
<1>5. CASE P!Next
  BY <1>5, PersesAnswers, PersesSkipsEntry, PersesEntersEntry, PersesTakesTarget, PersesLeavesEntry, PersesEndsAnswer,
     PersesSkipsUse, PersesTellsUse, PersesEndsUsage, PersesDoesNotAnswer, PersesBuilds DEF P!Next
<1> QED
  BY <1>2, <1>3, <1>4, <1>5 DEF Next

(* What an adapter has told of the consumers is what the endpoints that     *)
(* answered said of them, after any number of the steps of its loops.       *)
THEOREM PersesInvariant == Spec => []PersesInv
<1>1. Init => PersesInv
  <2>1. ASSUME R!Init \/ T!Init \/ O!Init PROVE ~ Is("perses_usage")
    BY <2>1, InputsDiffer DEF R!Init, T!Init, O!Init, Is
  <2> QED
    BY <2>1, PersesInit DEF Init, PersesInv
<1> QED
  BY <1>1, PersesStep, PTL DEF Spec

-----------------------------------------------------------------------------
(* What was built is what was said.                                         *)
LEMMA MoreThanOne ==
    ASSUME NEW S, IsFiniteSet(S), NEW x0 \in S
    PROVE  P!Cardinality(S) > 1 <=> \E x, y \in S : x # y
<1>1. Cardinality(S) \in Nat /\ Cardinality(S) # 0
  BY FS_CardinalityType, FS_EmptySet
<1>2. Cardinality(S) = 1 <=> \E x : S = {x}
  BY FS_Singleton
<1>3. (\E x : S = {x}) <=> ~ \E x, y \in S : x # y
  OBVIOUS
<1>4. Cardinality(S) > 1 <=> Cardinality(S) # 1
  BY <1>1
<1> QED
  BY <1>2, <1>3, <1>4, PersesCardinality

LEMMA SaidIsThat ==
    ASSUME PersesInv, Is("perses_usage"), pc = "loaded"
    PROVE  P!Said = SaidBy(source, work.answered, "none", 0)
<1>1. source \in Services /\ work.answered \subseteq EndpointNames
  BY DEF PersesInv, PersesShape
<1>2. "none" \notin EndpointNames
  BY DEF EndpointNames
<1>3. \A q : q \in EntriesRead(source, work.answered, "none", 0) <=>
               /\ q \in EndpointNames \X Nat /\ q[1] \in work.answered /\ q[2] \in DOMAIN source.answers[q[1]]
  BY <1>2 DEF EntriesRead
<1>4. ASSUME NEW u
      PROVE  u \in P!Said <=>
                \E e \in work.answered : \E x \in P!Range(source.answers[e]) : P!Usable(x) /\ u \in P!UsesOf(e, x)
  BY DEF P!Said
<1>5. \A e \in work.answered : \A x : x \in P!Range(source.answers[e]) <=>
         \E j \in DOMAIN source.answers[e] : x = source.answers[e][j]
  BY DEF P!Range
<1>6. \A e \in work.answered : e \in EndpointNames /\ DOMAIN source.answers[e] \subseteq Nat
  <2> TAKE e \in work.answered
  <2>1. e \in EndpointNames
    BY <1>1
  <2>2. DOMAIN source.answers[e] = 1 .. Len(source.answers[e]) /\ Len(source.answers[e]) \in Nat
    BY <1>1, <2>1, ServiceIsTyped
  <2> QED
    BY <2>1, <2>2
<1>7. ASSUME NEW u \in P!Said PROVE u \in SaidBy(source, work.answered, "none", 0)
  <2>1. PICK e \in work.answered : \E x \in P!Range(source.answers[e]) : P!Usable(x) /\ u \in P!UsesOf(e, x)
    BY <1>4, <1>7
  <2>2. PICK j \in DOMAIN source.answers[e] : P!Usable(source.answers[e][j]) /\ u \in P!UsesOf(e, source.answers[e][j])
    BY <1>5, <2>1
  <2>3. <<e, j>> \in EndpointNames \X Nat /\ <<e, j>>[1] = e /\ <<e, j>>[2] = j
    BY <1>6
  <2>4. <<e, j>> \in EntriesRead(source, work.answered, "none", 0)
    BY <1>3, <2>3
  <2>5. EntryAt(source, <<e, j>>) = source.answers[e][j]
    BY <2>3 DEF EntryAt
  <2>6. P!Usable(EntryAt(source, <<e, j>>)) /\ u \in P!UsesOf(<<e, j>>[1], EntryAt(source, <<e, j>>))
    BY <2>2, <2>3, <2>5
  <2> QED
    BY <2>4, <2>6, SaidByHas
<1>8. ASSUME NEW u \in SaidBy(source, work.answered, "none", 0) PROVE u \in P!Said
  <2>1. PICK q \in EntriesRead(source, work.answered, "none", 0) :
           P!Usable(EntryAt(source, q)) /\ u \in P!UsesOf(q[1], EntryAt(source, q))
    BY SaidByHas
  <2>2. q[1] \in work.answered /\ q[2] \in DOMAIN source.answers[q[1]] /\ EntryAt(source, q) = source.answers[q[1]][q[2]]
    BY <1>3 DEF EntryAt
  <2>3. EntryAt(source, q) \in P!Range(source.answers[q[1]])
    BY <1>5, <2>2
  <2> QED
    BY <1>4, <2>1, <2>2, <2>3
<1> QED
  BY <1>7, <1>8

(* The states and what was built of them, in terms of what was said.        *)
LEMMA LoadedUsage ==
    ASSUME PersesInv, Is("perses_usage"), pc = "loaded"
    PROVE  P!DiscoveryIsTheEvidence
<1> DEFINE states == work.states
           S == P!Said
           of(id) == {u \in S : u.id = id}
           expressions(id) == {u.expression : u \in of(id)}
           least(id) == CHOOSE e \in expressions(id) : \A f \in expressions(id) : e <= f
           metrics(id, partial) == {u.metric : u \in {u \in of(id) : u.partial = partial}}
<1>1. /\ source \in Services /\ work.answered \subseteq EndpointNames
      /\ StatesAre(S, states, PlacesOf(discovery))
      /\ Complained(source, work.answered, "none", 0, PlacesOf(discovery))
      /\ Built(source, states, discovery)
      /\ \A i \in 1 .. 3 : P!Endpoints[i] \in work.answered \/ <<"endpoint", P!Endpoints[i]>> \in PlacesOf(discovery)
  BY SaidIsThat DEF PersesInv, PersesShape, BetweenAnswers, StatesSay
<1>2. \A place : P!Diagnosed(place) <=> place \in PlacesOf(discovery)
  BY DEF P!Diagnosed, PlacesOf
<1>3. \A c : c \in P!Range(discovery.consumers) <=> c \in Range(discovery.consumers)
  BY DEF P!Range, Range
<1>4. P!Found = DOMAIN states
  <2>1. \A id : id \in P!Found <=> \E c \in Range(discovery.consumers) : id = c.id
    BY <1>3 DEF P!Found
  <2>2. /\ \A c \in Range(discovery.consumers) : c.id \in DOMAIN states
        /\ \A id \in DOMAIN states : \E c \in Range(discovery.consumers) : c.id = id
    BY <1>1 DEF Built
  <2> HIDE DEF states, S
  <2>3. \A id : id \in P!Found <=> id \in DOMAIN states
    BY <2>1, <2>2
  <2> QED
    BY <2>3
<1>5. P!Found = {u.id : u \in S}
  <2>1. \A id : id \in DOMAIN states <=> \E u \in S : u.id = id
    BY <1>1 DEF StatesAre
  <2> HIDE DEF states, S
  <2>2. \A id : id \in DOMAIN states <=> id \in {u.id : u \in S}
    BY <2>1
  <2> QED
    BY <1>4, <2>2
<1>6. Len(discovery.consumers) = P!Cardinality(P!Found)
  BY <1>1, <1>4, PersesCardinality DEF Built
<1>7. ASSUME NEW id \in DOMAIN states
      PROVE  /\ StateIs(S, id, states[id]) /\ id.kind \in ConsumerKinds
             /\ id.kind \in P!Rules <=> id.kind # "dashboard"
             /\ id.kind \in P!Rules => least(id) = states[id].expression
             /\ states[id].unresolved <=> id.kind \in P!Rules /\ P!Cardinality(expressions(id)) > 1
  <2>1. StateIs(S, id, states[id]) /\ S \subseteq Telling
    BY <1>1, <1>7 DEF StatesAre
  <2>2. id.kind \in ConsumerKinds /\ states[id].unresolved \in BOOLEAN
    BY <1>1, <1>7, StateIsTyped
  <2>3. id.kind \in P!Rules <=> id.kind # "dashboard"
    BY <2>2 DEF ConsumerKinds, P!Rules
  <2>4. expressions(id) \subseteq Expressions /\ states[id].expression \in expressions(id)
    BY <2>1 DEF StateIs, Telling
  <2>5. \A e : e \in expressions(id) <=> \E u \in S : u.id = id /\ e = u.expression
    OBVIOUS
  <2>6. ASSUME id.kind \in P!Rules PROVE least(id) = states[id].expression
    <3>1. \A f \in expressions(id) : states[id].expression <= f
      BY <2>1, <2>5, <2>6 DEF StateIs
    <3>2. expressions(id) \subseteq Nat
      BY <2>4, ExpressionsAreBounded
    <3> HIDE DEF expressions
    <3>3. least(id) \in expressions(id) /\ \A f \in expressions(id) : least(id) <= f
      BY <2>4, <3>1
    <3> HIDE DEF least
    <3> QED
      BY <2>4, <3>1, <3>2, <3>3
  <2>7. states[id].unresolved <=> id.kind \in P!Rules /\ P!Cardinality(expressions(id)) > 1
    <3>1. IsFiniteSet(expressions(id))
      BY <2>4, ExpressionsAreBounded, FS_Subset
    <3>2. P!Cardinality(expressions(id)) > 1 <=> \E e, f \in expressions(id) : e # f
      <4> HIDE DEF expressions
      <4> QED
        BY <2>4, <3>1, MoreThanOne
    <3>3. (\E e, f \in expressions(id) : e # f) <=>
             \E u, v \in S : u.id = id /\ v.id = id /\ u.expression # v.expression
      BY <2>5
    <3>4. states[id].unresolved <=>
             id.kind \in P!Rules /\ \E u, v \in S : u.id = id /\ v.id = id /\ u.expression # v.expression
      BY <2>1 DEF StateIs
    <3> HIDE DEF expressions
    <3> QED
      BY <3>2, <3>3, <3>4
  <2> QED
    BY <2>1, <2>2, <2>3, <2>6, <2>7
<1>8. ASSUME NEW id \in DOMAIN states
      PROVE  P!NotUnderstood(id, states[id]) <=>
                id.kind # "dashboard" /\ (least(id) = 0 \/ ExpressionAnalyses[least(id)].unresolved)
  <2> HIDE DEF least
  <2> QED
    BY <1>7 DEF P!NotUnderstood
<1>9. ASSUME NEW c \in P!Range(discovery.consumers)
      PROVE  /\ c.id \in DOMAIN states
             /\ c.unresolved = (states[c.id].unresolved \/ P!NotUnderstood(c.id, states[c.id]))
             /\ c.unresolved => P!Diagnosed(<<"consumer", c.id>>)
  <2>1. c.id \in DOMAIN states /\ ConsumerIs(c.id, states[c.id], c)
    BY <1>1, <1>3 DEF Built
  <2>2. c.unresolved = (states[c.id].unresolved \/ P!NotUnderstood(c.id, states[c.id]))
    BY <2>1 DEF ConsumerIs
  <2>3. states[c.id].unresolved => <<"consumer", c.id>> \in PlacesOf(discovery)
    BY <1>1, <2>1 DEF StatesAre
  <2>4. P!NotUnderstood(c.id, states[c.id]) => <<"consumer", c.id>> \in PlacesOf(discovery)
    BY <1>1, <2>1 DEF Built
  <2> QED
    BY <1>2, <2>1, <2>2, <2>3, <2>4
<1>10. ASSUME NEW id \in DOMAIN states, NEW r
       PROVE  r \in {q \in discovery.references : q.consumer = id} <=>
                 \E x \in states[id].references \cup P!expressionReferences(id, states[id]) : r = P!Owned(id, x)
  <2>1. \A i, x : P!Owned(i, x).consumer = i
    BY DEF P!Owned
  <2>2. r \in discovery.references <=>
           \E i \in DOMAIN states : \E x \in states[i].references \cup P!expressionReferences(i, states[i]) :
              r = P!Owned(i, x)
    BY <1>1 DEF Built
  <2> QED
    BY <2>1, <2>2
<1>11. ASSUME NEW id \in DOMAIN states, NEW x
       PROVE  x \in states[id].references <=>
                 \/ \E m \in metrics(id, TRUE) : x = P!MayRead(m)
                 \/ \E m \in metrics(id, FALSE) : x = P!Reads(m)
                 \/ id.kind = "dashboard" /\ \E m \in metrics(id, FALSE) : x = P!MayUseLabelsOf(m)
  <2>1. S \subseteq Telling /\ StateIs(S, id, states[id])
    BY <1>1, <1>7 DEF StatesAre
  <2>2. x \in states[id].references <=> \E u \in S : u.id = id /\ x \in ReferencesBy(u)
    BY <2>1 DEF StateIs
  <2>3. \A u \in S : u.partial = TRUE \/ u.partial = FALSE
    BY <2>1 DEF Telling
  <2>4. ASSUME NEW u \in S, u.id = id
        PROVE  x \in ReferencesBy(u) <=>
                  \/ u.partial = TRUE /\ x = P!MayRead(u.metric)
                  \/ u.partial = FALSE /\ x = P!Reads(u.metric)
                  \/ u.partial = FALSE /\ id.kind = "dashboard" /\ x = P!MayUseLabelsOf(u.metric)
    <3>1. CASE u.partial = TRUE
      <4>1. ReferencesBy(u) = {P!MayRead(u.metric)}
        BY <3>1 DEF ReferencesBy, P!addUsageReference
      <4> QED
        BY <3>1, <4>1
    <3>2. CASE u.partial = FALSE
      <4>1. ReferencesBy(u) = {P!Reads(u.metric)}
                                \cup (IF id.kind = "dashboard" THEN {P!MayUseLabelsOf(u.metric)} ELSE {})
        BY <2>4, <3>2 DEF ReferencesBy, P!addUsageReference
      <4> QED
        BY <3>2, <4>1
    <3> QED
      BY <2>3, <3>1, <3>2
  <2>6. \A m : m \in metrics(id, TRUE) <=> \E u \in S : u.id = id /\ u.partial = TRUE /\ m = u.metric
    OBVIOUS
  <2>7. \A m : m \in metrics(id, FALSE) <=> \E u \in S : u.id = id /\ u.partial = FALSE /\ m = u.metric
    OBVIOUS
  <2>8. x \in states[id].references <=>
           \/ \E u \in S : u.id = id /\ u.partial = TRUE /\ x = P!MayRead(u.metric)
           \/ \E u \in S : u.id = id /\ u.partial = FALSE /\ x = P!Reads(u.metric)
           \/ id.kind = "dashboard" /\ \E u \in S : u.id = id /\ u.partial = FALSE /\ x = P!MayUseLabelsOf(u.metric)
    BY <2>2, <2>4
  <2> DEFINE patterns == metrics(id, TRUE)
             confirmed == metrics(id, FALSE)
  <2>9. /\ \A m : m \in patterns <=> \E u \in S : u.id = id /\ u.partial = TRUE /\ m = u.metric
        /\ \A m : m \in confirmed <=> \E u \in S : u.id = id /\ u.partial = FALSE /\ m = u.metric
    BY <2>6, <2>7
  <2> HIDE DEF patterns, confirmed, S
  <2>10. x \in states[id].references <=>
            \/ \E m \in patterns : x = P!MayRead(m)
            \/ \E m \in confirmed : x = P!Reads(m)
            \/ id.kind = "dashboard" /\ \E m \in confirmed : x = P!MayUseLabelsOf(m)
    BY <2>8, <2>9
  <2> QED
    BY <2>10 DEF patterns, confirmed
<1>12. ASSUME NEW id \in DOMAIN states, NEW x
       PROVE  x \in P!expressionReferences(id, states[id]) <=>
                 /\ id.kind # "dashboard" /\ ~ (least(id) = 0 \/ ExpressionAnalyses[least(id)].unresolved)
                 /\ x \in P!ReferencesIn(ExpressionAnalyses[least(id)])
  <2> HIDE DEF least
  <2>1. /\ id.kind \in P!Rules <=> id.kind # "dashboard"
        /\ id.kind \in P!Rules => least(id) = states[id].expression
    BY <1>7
  <2>2. x \in P!expressionReferences(id, states[id]) <=>
           /\ id.kind \in P!Rules /\ ~ P!NotUnderstood(id, states[id])
           /\ x \in P!ReferencesIn(ExpressionAnalyses[states[id].expression])
    BY DEF P!expressionReferences
  <2> QED
    BY <1>8, <2>1, <2>2
<1>13. ASSUME NEW e \in work.answered, NEW x \in P!Range(source.answers[e])
       PROVE  /\ ~ P!Usable(x) => P!Diagnosed(<<"metric", x.metric>>)
              /\ P!Usable(x) /\ (\E u \in P!Range(x.usage) : u.name = NoName)
                    => P!Diagnosed(<<"metric", x.metric>>)
  <2>1. PICK j \in DOMAIN source.answers[e] : x = source.answers[e][j]
    BY DEF P!Range
  <2>2. e \in EndpointNames
    BY <1>1
  <2>3. j \in Nat /\ x \in P!Entry
    BY <1>1, <2>1, <2>2, ServiceIsTyped
  <2>4. <<e, j>> \in EntriesRead(source, work.answered, "none", 0)
    <3>1. e # "none" /\ <<e, j>>[1] = e /\ <<e, j>>[2] = j
      BY <2>2 DEF EndpointNames
    <3> QED
      BY <2>1, <2>2, <2>3, <3>1 DEF EntriesRead
  <2>5. EntryAt(source, <<e, j>>) = x
    BY <2>1 DEF EntryAt
  <2>6. (P!Usable(x) /\ ~ HasNameless(x, Len(x.usage))) \/ <<"metric", x.metric>> \in PlacesOf(discovery)
    BY <1>1, <2>4, <2>5 DEF Complained
  <2>7. ASSUME NEW u \in P!Range(x.usage), u.name = NoName PROVE HasNameless(x, Len(x.usage))
    <3>1. PICK i \in DOMAIN x.usage : u = x.usage[i]
      BY DEF P!Range
    <3>2. i <= Len(x.usage)
      BY <2>3, EntryIsTyped
    <3> QED
      BY <2>7, <3>1, <3>2 DEF HasNameless
  <2> QED
    BY <1>2, <2>6, <2>7
<1> DEFINE unclear(id) == least(id) = 0 \/ ExpressionAnalyses[least(id)].unresolved
           told(id) ==
               {P!Owned(id, P!MayRead(m)) : m \in metrics(id, TRUE)}
                 \cup {P!Owned(id, P!Reads(m)) : m \in metrics(id, FALSE)}
                 \cup (IF id.kind # "dashboard" THEN {} ELSE
                         {P!Owned(id, P!MayUseLabelsOf(m)) : m \in metrics(id, FALSE)})
                 \cup (IF ~ (id.kind # "dashboard") \/ unclear(id) THEN {} ELSE
                         {P!Owned(id, r) : r \in P!ReferencesIn(ExpressionAnalyses[least(id)])})
<1>14. ASSUME NEW id \in DOMAIN states
       PROVE  {q \in discovery.references : q.consumer = id} = told(id)
  <2> DEFINE patterns == metrics(id, TRUE)
             confirmed == metrics(id, FALSE)
             read == P!ReferencesIn(ExpressionAnalyses[least(id)])
             rule == id.kind # "dashboard"
             vague == unclear(id)
             Own(x) == P!Owned(id, x)
  <2>2. \A x : x \in states[id].references <=>
           \/ \E m \in patterns : x = P!MayRead(m)
           \/ \E m \in confirmed : x = P!Reads(m)
           \/ ~ rule /\ \E m \in confirmed : x = P!MayUseLabelsOf(m)
    BY <1>11
  <2>3. \A x : x \in P!expressionReferences(id, states[id]) <=>
           rule /\ ~ vague /\ x \in read
    BY <1>12
  <2>4. \A r : r \in {q \in discovery.references : q.consumer = id} <=>
           \E x \in states[id].references \cup P!expressionReferences(id, states[id]) : r = Own(x)
    BY <1>10
  <2>5. told(id) = {Own(P!MayRead(m)) : m \in patterns} \cup {Own(P!Reads(m)) : m \in confirmed}
                     \cup (IF rule THEN {} ELSE {Own(P!MayUseLabelsOf(m)) : m \in confirmed})
                     \cup (IF ~ rule \/ vague THEN {} ELSE {Own(y) : y \in read})
    OBVIOUS
  <2> HIDE DEF told, patterns, confirmed, read, rule, vague, Own
  <2>6. \A r : r \in told(id) <=>
           \/ \E m \in patterns : r = Own(P!MayRead(m))
           \/ \E m \in confirmed : r = Own(P!Reads(m))
           \/ ~ rule /\ \E m \in confirmed : r = Own(P!MayUseLabelsOf(m))
           \/ rule /\ ~ vague /\ \E y \in read : r = Own(y)
    BY <2>5
  <2>7. \A r : (\E x \in states[id].references \cup P!expressionReferences(id, states[id]) : r = Own(x)) <=>
           \/ \E m \in patterns : r = Own(P!MayRead(m))
           \/ \E m \in confirmed : r = Own(P!Reads(m))
           \/ ~ rule /\ \E m \in confirmed : r = Own(P!MayUseLabelsOf(m))
           \/ rule /\ ~ vague /\ \E y \in read : r = Own(y)
    BY <2>2, <2>3
  <2> QED
    BY <2>4, <2>6, <2>7
<1>15. ASSUME NEW c \in P!Range(discovery.consumers)
       PROVE  /\ c.unresolved <=> c.id.kind # "dashboard" /\ (P!Cardinality(expressions(c.id)) > 1 \/ unclear(c.id))
              /\ c.unresolved => P!Diagnosed(<<"consumer", c.id>>)
              /\ {q \in discovery.references : q.consumer = c.id} = told(c.id)
  <2>1. c.id \in DOMAIN states
    BY <1>9
  <2>2. states[c.id].unresolved <=> c.id.kind # "dashboard" /\ P!Cardinality(expressions(c.id)) > 1
    BY <1>7, <2>1
  <2>3. P!NotUnderstood(c.id, states[c.id]) <=> c.id.kind # "dashboard" /\ unclear(c.id)
    BY <1>8, <2>1
  <2>4. c.unresolved <=> states[c.id].unresolved \/ P!NotUnderstood(c.id, states[c.id])
    BY <1>9
  <2>5. {q \in discovery.references : q.consumer = c.id} = told(c.id)
    BY <1>14, <2>1
  <2> HIDE DEF told, unclear, expressions
  <2> QED
    BY <1>9, <2>2, <2>3, <2>4, <2>5
<1>16. {p.consumer : p \in discovery.productions} = {id \in P!Found : id.kind = "recording_rule"}
  BY <1>1, <1>4 DEF Built
<1>17. \A e \in P!Range(P!Endpoints) \ work.answered : P!Diagnosed(<<"endpoint", e>>)
  <2>1. \A e \in P!Range(P!Endpoints) : \E i \in 1 .. 3 : e = P!Endpoints[i]
    BY EndpointsAre DEF P!Range
  <2> QED
    BY <1>1, <1>2, <2>1
<1>18. \A e \in work.answered, x \in UNION {P!Range(source.answers[f]) : f \in work.answered} :
          x \in P!Range(source.answers[e]) =>
              /\ ~ P!Usable(x) => P!Diagnosed(<<"metric", x.metric>>)
              /\ P!Usable(x) /\ (\E u \in P!Range(x.usage) : u.name = NoName)
                    => \E m \in {x.metric} \cup x.matching : P!Diagnosed(<<"metric", m>>)
  BY <1>13
<1> QED
  BY <1>5, <1>6, <1>15, <1>16, <1>17, <1>18 DEF P!DiscoveryIsTheEvidence

(* What was loaded of a metrics-usage service is what the endpoints that    *)
(* answered said, in any order and however often, and what they did not say *)
(* has a diagnostic.                                                        *)
THEOREM UsageIsTheEvidence == Spec => []DiscoveryIsTheEvidence
<1>1. PersesInv => DiscoveryIsTheEvidence
  BY LoadedUsage DEF DiscoveryIsTheEvidence, P!DiscoveryIsTheEvidence
<1> QED
  BY <1>1, PersesInvariant, PTL

-----------------------------------------------------------------------------
(* The types                                                                *)

LEMMA ContextOnlyEnds == Next => ctx' = ctx \/ ctx' = "ended"
<1>1. R!Next => ctx' = ctx
  BY DEF R!Next, R!Unreadable, R!Stopped, R!Fail, R!SkipBlank, R!Reading, R!Overflow, R!Reject, R!Accept,
         R!EndOfFile, R!Aggregating, R!SkipOld, R!Observe, R!AppendAggregates
<1>2. T!Next => ctx' = ctx
  BY DEF T!Next, T!RefuseManifest, T!AcceptManifest, T!Stopped, T!Fail, T!Ask, T!Rejected, T!Accepted,
         T!EndOfManifest
<1>3. P!Next => ctx' = ctx
  BY DEF P!Next, P!Asking, P!Answers, P!Reading, P!SkipEntry, P!EnterEntry, P!NextTarget, P!LeaveEntry,
         P!EndOfAnswer, P!Telling, P!SkipUse, P!TellUse, P!EndOfUsage, P!DoesNotAnswer, P!Fail, P!Build
<1>4. O!Next => ctx' = ctx
  BY DEF O!Next, O!Enrich, O!RefuseToEnrich, O!Abandon, O!PatternWithoutFiles,
         O!ExpandPattern, O!LoadFile, O!LeavePattern, O!LeaveMetadata, O!LoadCodeowners,
         O!Assign, O!StopAssigning, O!EndOfConsumers
<1> QED
  BY <1>1, <1>2, <1>3, <1>4 DEF Next, Cancel

LEMMA RefusedManifest ==
    ASSUME Is("tempo"), source \in Manifests, source' = source, T!Next, pc' = "failed"
    PROVE  OnlyDiagnostics(source, discovery')
<1>1. T!RefuseManifest \/ T!Stopped
  BY DEF T!Next, T!AcceptManifest, T!Ask, T!Rejected, T!Accepted, T!EndOfManifest
<1>2. discovery' = T!WithDiagnostic(T!EmptyDiscovery, T!Whole)
  BY <1>1 DEF T!RefuseManifest, T!Stopped, T!Fail
<1>3. discovery' = WithDiagnostic(EmptyDiscovery, T!Whole)
  BY <1>2 DEF T!WithDiagnostic, T!EmptyDiscovery, WithDiagnostic, EmptyDiscovery
<1> QED
  BY <1>3, NothingDiscovered, DiagnosticIsAdded DEF OnlyDiagnostics

LEMMA TypeStep == TypeInv /\ TempoInv /\ [Next]_vars => TypeInv'
<1> SUFFICES ASSUME TypeInv, TempoInv, [Next]_vars, source' = source PROVE TypeInv'
  BY SourceIsConstant
<1>1. ctx' \in {"live", "ended"}
  BY ContextOnlyEnds DEF TypeInv, vars
<1>2. ASSUME Is("tempo"), pc' = "failed" PROVE OnlyDiagnostics(source, discovery')
  <2>1. CASE UNCHANGED vars
    BY <1>2, <2>1 DEF TypeInv, vars
  <2>2. CASE Cancel
    BY <1>2, <2>2 DEF TypeInv, Cancel
  <2>3. CASE T!Next
    BY <1>2, <2>3, RefusedManifest DEF TempoInv
  <2>4. ~ R!Next /\ ~ P!Next /\ ~ O!Next
    BY <1>2, RuntimeMoves, PersesMoves, OwnershipMoves DEF TempoInv
  <2> QED
    BY <2>1, <2>2, <2>3, <2>4 DEF Next
<1> QED
  BY <1>1, <1>2 DEF TypeInv, Is

LEMMA RuntimeTypes == RuntimeInv /\ Is("runtime_queries") => R!TypeOK
<1> SUFFICES ASSUME RuntimeInv, Is("runtime_queries") PROVE R!TypeOK
  OBVIOUS
<1>1. /\ source \in Logs /\ source \in R!Log /\ Len(source.lines) \in Nat
      /\ DOMAIN source.lines = 1 .. Len(source.lines)
  BY LogsAssumption, LogIsTyped DEF RuntimeInv
<1>2. CASE pc \in {"lines", "failed"}
  <2>1. PICK d : Scanned(source, work.records, work.events, d, at)
    BY <1>2 DEF RuntimeInv
  <2>2. \A i \in DOMAIN work.events : work.events[i].line \in 1 .. Len(source.lines)
    BY <1>1, <2>1 DEF Scanned, EventsOf, EventLines, UpTo, Recorded
  <2>3. OnlyDiagnostics(source, discovery) /\ at \in 0 .. Len(source.lines) /\ work.aggregates = << >>
    BY <1>2 DEF RuntimeInv
  <2>4. R!DiscoveryOK
    BY <2>3, RuntimeVocabulary DEF R!DiscoveryOK, OnlyDiagnostics
  <2>5. DOMAIN work.aggregates \subseteq Queries
    BY <2>3
  <2> QED
    BY <1>1, <1>2, <2>2, <2>3, <2>4, <2>5 DEF R!TypeOK, RuntimeInv
<1>3. CASE pc \in {"aggregate", "loaded"}
  <2>1. /\ EventsOf(source, work.events, Observed(source)) /\ at \in 0 .. Len(work.events)
        /\ Aggregated(source, work.events, work.aggregates, at)
    <3>1. Len(work.events) \in Nat
      BY <1>3 DEF RuntimeInv, EventsOf
    <3> QED
      BY <1>3, <3>1 DEF RuntimeInv
  <2>2. /\ work.events \in Seq(Event) /\ Len(work.events) <= Len(source.lines)
        /\ Len(work.events) \in Nat
    BY <2>1 DEF EventsOf
  <2>3. at \in 0 .. Len(source.lines) /\ at \in Nat /\ at <= Len(work.events)
    BY <1>1, <2>1, <2>2
  <2>4. \A i \in DOMAIN work.events : work.events[i].line \in 1 .. Len(source.lines)
    BY <1>1, <2>1 DEF EventsOf, Observed, Recorded
  <2>5. DOMAIN work.aggregates \subseteq Queries
    BY <2>1, <2>2, <2>3, AggregatesAreFinite
  <2>6. R!DiscoveryOK
    <3>1. CASE pc = "aggregate"
      <4>1. OnlyDiagnostics(source, discovery)
        BY <3>1 DEF RuntimeInv
      <4> QED
        BY <4>1, RuntimeVocabulary DEF R!DiscoveryOK, OnlyDiagnostics
    <3>2. CASE pc = "loaded"
      <4>1. FoundInLog(source, work.aggregates, discovery)
        BY <3>2 DEF RuntimeInv
      <4> QED
        BY <4>1, RuntimeVocabulary DEF R!DiscoveryOK, FoundInLog
    <3> QED
      BY <1>3, <3>1, <3>2
  <2> QED
    BY <1>1, <1>3, <2>3, <2>4, <2>5, <2>6 DEF R!TypeOK, RuntimeInv
<1> QED
  BY <1>2, <1>3 DEF RuntimeInv

LEMMA TempoTypes ==
    ASSUME TempoInv, TypeInv, Is("tempo")
    PROVE  T!TypeOK
<1>1. T!DiscoveryOK
  <2>1. CASE pc = "failed"
    <3>1. OnlyDiagnostics(source, discovery)
      BY <2>1 DEF TypeInv
    <3> QED
      BY <3>1, TempoVocabulary DEF T!DiscoveryOK, OnlyDiagnostics
  <2>2. CASE pc # "failed"
    <3>1. Accounted(source, discovery, work.accepted, at)
      BY <2>2 DEF TempoInv
    <3> QED
      BY <3>1, TempoVocabulary DEF Accounted, T!DiscoveryOK
  <2> QED
    BY <2>1, <2>2
<1> QED
  BY <1>1 DEF T!TypeOK, TempoInv

LEMMA PersesTypes == PersesInv /\ Is("perses_usage") => P!TypeOK
<1> SUFFICES ASSUME PersesInv, Is("perses_usage") PROVE P!TypeOK
  OBVIOUS
<1>1. PersesShape
  BY DEF PersesInv
<1>2. \A e : e \in P!Range(P!Endpoints) <=> e \in EndpointNames
  BY EndpointsAre DEF P!Range
<1>3. \A e \in EndpointNames : source.answers[e] \in Seq(P!Entry)
  BY <1>1, ServiceIsTyped DEF PersesShape
<1>4. P!DiscoveryOK
  <2>1. CASE pc = "loaded"
    <3>1. Built(source, work.states, discovery)
      BY <1>1, <2>1 DEF PersesShape
    <3> QED
      BY <3>1, PersesVocabulary DEF Built, P!DiscoveryOK
  <2>2. CASE pc # "loaded"
    <3>1. OnlyDiagnostics(source, discovery)
      BY <1>1, <2>2 DEF PersesShape
    <3> QED
      BY <3>1, PersesVocabulary DEF OnlyDiagnostics, P!DiscoveryOK
  <2> QED
    BY <2>1, <2>2
<1> QED
  BY <1>1, <1>2, <1>3, <1>4, EndpointsAre DEF P!TypeOK, PersesShape

LEMMA OwnershipTypes == OwnershipInv /\ Is("ownership") => O!TypeOK
<1> SUFFICES ASSUME OwnershipInv, Is("ownership") PROVE O!TypeOK
  OBVIOUS
<1>1. /\ source \in Repositories /\ Advisory(source, discovery) /\ RulesAreFrom(source, work.rules, work.loaded)
  BY DEF OwnershipInv
<1>2. /\ source.consumers \in Seq(O!OwnedConsumer)
      /\ source.discovery.consumers \in Seq(Consumer) /\ source.discovery.references \subseteq Reference
      /\ source.discovery.productions \subseteq Production
      /\ \A x \in source.discovery.diagnostics : x.required \in BOOLEAN
  BY <1>1, RepositoryIsTyped
<1>3. /\ O!Consumer = Consumer /\ O!Reference = Reference /\ O!Production = Production
  BY DEF O!Criticality, Criticality, O!Symbol, Symbol, O!Domains, Domains, O!Kinds, Kinds,
         O!Consumer, Consumer, O!Reference, Reference, O!Production, Production
<1>4. \A x \in discovery.diagnostics : x.required \in BOOLEAN
  <2> TAKE x \in discovery.diagnostics
  <2>1. CASE x \in source.discovery.diagnostics
    BY <1>2, <2>1
  <2>2. CASE x \notin source.discovery.diagnostics
    <3>1. x.required = FALSE
      BY <1>1, <2>2 DEF Advisory
    <3> QED
      BY <3>1
  <2> QED
    BY <2>1, <2>2
<1>5. work.rules \in Seq(O!MetadataRule)
  BY <1>1 DEF RulesAreFrom
<1>6. /\ discovery.consumers \in Seq(Consumer) /\ discovery.references \subseteq Reference
      /\ discovery.productions \subseteq Production
  BY <1>1, <1>2 DEF Advisory
<1> QED
  BY <1>2, <1>3, <1>4, <1>5, <1>6 DEF O!TypeOK, OwnershipInv

(* The variables of every call keep their types.                            *)
THEOREM TypesAreKept == Spec => []TypeOK
<1>1. Init => TypeInv
  BY DEF Init, R!Init, T!Init, P!Init, O!Init, R!Begin, T!Begin, P!Begin, O!Begin, TypeInv
<1>2. Spec => []TypeInv
  BY <1>1, TypeStep, TempoInvariant, PTL DEF Spec
<1>3. TypeInv /\ RuntimeInv /\ TempoInv /\ PersesInv /\ OwnershipInv => TypeOK
  BY RuntimeTypes, TempoTypes, PersesTypes, OwnershipTypes DEF TypeOK, TypeInv
<1> QED
  BY <1>2, <1>3, RuntimeInvariant, TempoInvariant, PersesInvariant, OwnershipInvariant, PTL

-----------------------------------------------------------------------------
(* The verdict                                                              *)

(* What the evidence d has on a consumer and a change, in the policy's      *)
(* eyes: a use of the old contract, or uncertainty.                         *)
Uses(d, id, symbol) == \E r \in d.references : r.consumer = id /\ r.symbol = symbol
Suspected(d, consumer, change) == Uses(d, consumer.id, change.from) \/ Uncertain(d, consumer, change)
IsSuspected(d, id, change) ==
    \E i \in DOMAIN d.consumers : d.consumers[i].id = id /\ Suspected(d, d.consumers[i], change)

LEMMA SymbolMatchesItself == ASSUME NEW x PROVE symbolsMatch(x, x)
  BY DEF symbolsMatch, metricFamilyMatch

(* Whoever references a symbol is impacted by it, under any policy.         *)
LEMMA UserIsImpacted ==
    ASSUME NEW d, NEW x, NEW c \in IDs(d), Uses(d, c, x), NEW transitive
    PROVE  c \in impactedConsumers(d, x, transitive)
<1>1. PICK r \in d.references : r.consumer = c /\ r.symbol = x
  BY DEF Uses
<1>2. x \in SymbolNodes(d) /\ <<x, c>> \in Edges(d)
  BY <1>1 DEF SymbolNodes, Edges
<1>3. c \in Reachable(SymbolNodes(d) \cup IDs(d), x, Edges(d))
  <2>1. ASSUME NEW S, x \in S, Closed(S, Edges(d)) PROVE c \in S
    <3>1. <<x, c>>[1] \in S => <<x, c>>[2] \in S
      BY <1>2, <2>1, Zenon DEF Closed
    <3> QED
      BY <2>1, <3>1
  <2> QED
    BY <2>1, Zenon DEF Reachable
<1>4. c \in Affected(d, x, transitive)
  BY <1>2, <1>3, Zenon DEF Affected
<1>5. x \in {n \in SymbolNodes(d) : symbolsMatch(n, x)}
  BY <1>2, SymbolMatchesItself, Zenon
<1> QED
  BY <1>4, <1>5, Zenon DEF impactedConsumers

LEMMA SuspicionIsClassified ==
    ASSUME NEW d, NEW policy, NEW change, NEW i \in DOMAIN d.consumers,
           Suspected(d, d.consumers[i], change)
    PROVE  /\ i \in DOMAIN ClassifyAll(d, policy, change)
           /\ ClassifyAll(d, policy, change)[i] \in {"LEGACY_ONLY", "DUAL", "UNCERTAIN"}
<1> DEFINE c == d.consumers[i]
           oldImpact == impactedConsumers(d, change.from, policy.includeTransitive)
           newImpact == IF change.to = NoSymbol THEN {}
                        ELSE impactedConsumers(d, change.to, policy.includeTransitive)
<1>1. /\ DOMAIN ClassifyAll(d, policy, change) = DOMAIN d.consumers
      /\ ClassifyAll(d, policy, change)[i]
           = classify(change, c.id \in oldImpact, c.id \in newImpact, Uncertain(d, c, change))
  BY DEF ClassifyAll
<1>2. c.id \in IDs(d)
  BY DEF IDs
<1>3. c.id \in oldImpact \/ Uncertain(d, c, change)
  BY <1>2, UserIsImpacted, Zenon DEF Suspected
<1> HIDE DEF c, oldImpact, newImpact
<1>4. ASSUME NEW hasOld, NEW hasNew, NEW uncertain, hasOld \/ uncertain
      PROVE  classify(change, hasOld, hasNew, uncertain) \in {"LEGACY_ONLY", "DUAL", "UNCERTAIN"}
  BY <1>4, Zenon DEF classify
<1> QED
  BY <1>1, <1>3, <1>4, Zenon

LEMMA DiagnosedIsNotReady ==
    ASSUME NEW d, NEW class, NEW policy, d.diagnostics # {}, \A x \in d.diagnostics : x.required
    PROVE  statusForConsumers(d, class, policy) # "READY"
<1>1. hasRequiredDiagnostic(d.diagnostics)
  BY DEF hasRequiredDiagnostic
<1> QED
  BY <1>1 DEF statusForConsumers

(* A reference to what a change takes away, or one that may be.             *)
Tells(r, change) == r.symbol = change.from \/ (r.requiresResolution /\ r.scope # "labels")

LEMMA AnalysisTells ==
    ASSUME NEW a, NEW change, a.patterns # {} \/ change.from \in a.symbols
    PROVE  \E r \in ReferencesIn(a) : Tells(r, change)
<1>1. ASSUME NEW s \in a.symbols
      PROVE  \E r \in ReferencesIn(a) : r.symbol = s
  <2> DEFINE r == [symbol |-> s, requiresResolution |-> FALSE, scope |-> ""]
  <2>1. r \in ReferencesIn(a) /\ r.symbol = s
    BY DEF ReferencesIn
  <2> QED
    BY <2>1
<1>2. ASSUME NEW s \in a.patterns
      PROVE  \E r \in ReferencesIn(a) : r.requiresResolution /\ r.scope # "labels"
  <2> DEFINE r == [symbol |-> s, requiresResolution |-> TRUE, scope |-> ""]
  <2>1. r \in ReferencesIn(a) /\ r.requiresResolution /\ r.scope # "labels"
    BY DEF ReferencesIn
  <2> QED
    BY <2>1
<1> QED
  BY <1>1, <1>2 DEF Tells

(* Each adapter hands over what it was told.                                *)
LEMMA LogIsSuspected ==
    ASSUME RuntimeInv, NoObservationIsLost, Is("runtime_queries"), pc = "loaded",
           NEW change, NEW q \in R!Concerned(change)
    PROVE  IsSuspected(discovery, q, change)
<1>1. q \in {source.lines[i].query : i \in R!Recent}
      /\ \/ Analyses[q].unresolved
         \/ Analyses[q].patterns # {}
         \/ change.from \in Analyses[q].symbols
  BY DEF R!Concerned
<1>2. q \in DOMAIN work.aggregates
  BY <1>1, Zenon DEF NoObservationIsLost, R!NoObservationIsLost
<1>3. FoundInLog(source, work.aggregates, discovery)
  BY DEF RuntimeInv
<1>4. PICK i \in DOMAIN discovery.consumers : discovery.consumers[i].id = q
  BY <1>2, <1>3 DEF FoundInLog, Range
<1>5. discovery.consumers[i].unresolved = Analyses[q].unresolved
  BY <1>3, <1>4 DEF FoundInLog, Range
<1>6. CASE Analyses[q].unresolved
  BY <1>4, <1>5, <1>6 DEF IsSuspected, Suspected, Uncertain
<1>7. CASE ~ Analyses[q].unresolved
  <2>1. ASSUME NEW x \in R!ReferencesIn(Analyses[q])
        PROVE  \E r \in discovery.references :
                  /\ r.consumer = q /\ r.symbol = x.symbol
                  /\ r.requiresResolution = x.requiresResolution /\ r.scope = x.scope
    <3> DEFINE r == [consumer |-> q, symbol |-> x.symbol,
                     requiresResolution |-> x.requiresResolution, scope |-> x.scope]
    <3>1. r \in R!queryReferences(q)
      BY <1>7 DEF R!queryReferences
    <3>2. r \in discovery.references
      BY <1>2, <1>3, <3>1 DEF FoundInLog
    <3> QED
      BY <3>2
  <2>2. PICK x \in ReferencesIn(Analyses[q]) : Tells(x, change)
    BY <1>1, <1>7, AnalysisTells
  <2>3. x \in R!ReferencesIn(Analyses[q])
    BY <2>2, Zenon DEF ReferencesIn, R!ReferencesIn
  <2>4. Uses(discovery, q, change.from)
          \/ \E r \in discovery.references : r.consumer = q /\ unresolvedReferenceApplies(r, change)
    BY <2>1, <2>2, <2>3 DEF Tells, Uses, unresolvedReferenceApplies
  <2> QED
    BY <1>4, <2>4, Zenon DEF IsSuspected, Suspected, Uncertain
<1> QED
  BY <1>6, <1>7

LEMMA ManifestIsSuspected ==
    ASSUME TempoInv, Is("tempo"), pc = "loaded", NEW change, NEW id \in T!Concerned(change)
    PROVE  IsSuspected(discovery, id, change)
<1> DEFINE n == Len(source.queries)
<1>1. /\ source \in Manifests /\ Accounted(source, discovery, work.accepted, n)
      /\ Understood(source, discovery, work.accepted)
  BY DEF TempoInv
<1>2. PICK i \in DOMAIN source.queries :
        /\ id = source.queries[i].id
        /\ \/ i \notin work.accepted
           \/ \E p \in T!Range(source.queries[i].parts) :
                 ~ T!IsClear(p) \/ (T!IsAttribute(p) /\ T!Means(p, change.from))
  BY Zenon DEF T!Concerned
<1> DEFINE parts == source.queries[i].parts
<1>3. i \in 1 .. n
  BY <1>1, <1>2, ManifestIsTyped
<1>4. /\ i \in DOMAIN discovery.consumers /\ discovery.consumers[i].id = id
      /\ i \notin work.accepted => discovery.consumers[i].unresolved
      /\ SymbolsOf(discovery, id, "opentelemetry")
            = UNION {Mapped(source, x) : x \in SymbolsOf(discovery, id, "tempo")}
  <2>1. /\ discovery.consumers \in Seq(Consumer) /\ Len(discovery.consumers) = n
        /\ discovery.consumers[i].id = source.queries[i].id
        /\ i \notin work.accepted => discovery.consumers[i].unresolved
        /\ SymbolsOf(discovery, source.queries[i].id, "opentelemetry")
              = UNION {Mapped(source, x) : x \in SymbolsOf(discovery, source.queries[i].id, "tempo")}
    BY <1>1, <1>3 DEF Accounted
  <2>2. DOMAIN discovery.consumers = 1 .. n
    BY <2>1
  <2> HIDE DEF n
  <2> QED
    BY <1>2, <1>3, <2>1, <2>2
<1>5. ASSUME NEW x, NEW domain, x \in SymbolsOf(discovery, id, domain) PROVE Uses(discovery, id, x)
  BY <1>5 DEF SymbolsOf, Uses
<1>6. CASE discovery.consumers[i].unresolved
  BY <1>4, <1>6 DEF IsSuspected, Suspected, Uncertain
<1>7. CASE ~ discovery.consumers[i].unresolved
  <2>1. i \in work.accepted
    BY <1>4, <1>7
  <2>2. SymbolsOf(discovery, id, "tempo") = AttributesOf(parts) /\ ~ Doubtful(parts)
    BY <1>1, <1>2, <1>7, <2>1 DEF Understood
  <2>3. T!Range(parts) = Range(parts)
    BY Zenon DEF T!Range, Range
  <2> HIDE DEF parts, n
  <2>4. PICK p \in Range(parts) : T!IsAttribute(p) /\ T!IsClear(p) /\ T!Means(p, change.from)
    BY <1>2, <2>1, <2>2, <2>3, Zenon DEF Doubtful, parts
  <2>5. AttributeOf(p) \in SymbolsOf(discovery, id, "tempo")
    BY <2>2, <2>4, Zenon DEF AttributesOf
  <2>6. change.from = AttributeOf(p) \/ change.from \in Mapped(source, AttributeOf(p))
    BY <2>4 DEF T!Means, AttributeOf, Mapped, FirstMapping, Maps
  <2>7. Uses(discovery, id, change.from)
    <3>1. CASE change.from = AttributeOf(p)
      BY <1>5, <2>5, <3>1
    <3>2. CASE change.from \in Mapped(source, AttributeOf(p))
      <4>1. change.from \in SymbolsOf(discovery, id, "opentelemetry")
        BY <1>4, <2>5, <3>2, Zenon
      <4> QED
        BY <1>5, <4>1
    <3> QED
      BY <2>6, <3>1, <3>2
  <2> QED
    BY <1>4, <2>7 DEF IsSuspected, Suspected
<1> QED
  BY <1>6, <1>7

LEMMA ServiceIsSuspected ==
    ASSUME PersesInv, Is("perses_usage"), pc = "loaded", NEW change, NEW id \in P!Concerned(change)
    PROVE  IsSuspected(discovery, id, change)
<1> DEFINE S == P!Said
           states == work.states
<1>1. StatesAre(S, states, PlacesOf(discovery)) /\ Built(source, states, discovery)
  BY SaidIsThat DEF PersesInv, PersesShape, BetweenAnswers, StatesSay
<1>2. PICK u \in S :
        /\ id = u.id
        /\ \/ u.partial
           \/ change.from = P!Metric(u.metric)
           \/ IF u.id.kind = "dashboard" THEN change.from.kind = "label" /\ change.from.parent = u.metric
              ELSE \/ u.expression = 0
                   \/ ExpressionAnalyses[u.expression].unresolved
                   \/ ExpressionAnalyses[u.expression].patterns # {}
                   \/ change.from \in ExpressionAnalyses[u.expression].symbols
  BY Zenon DEF P!Concerned
<1> HIDE DEF S
<1>3. /\ id \in DOMAIN states /\ StateIs(S, id, states[id])
      /\ u.partial \in BOOLEAN /\ id.kind \in ConsumerKinds
  BY <1>1, <1>2 DEF StatesAre, Telling
<1>4. PICK i \in DOMAIN discovery.consumers :
        /\ discovery.consumers[i].id = id
        /\ discovery.consumers[i].unresolved = (states[id].unresolved \/ P!NotUnderstood(id, states[id]))
  <2>1. PICK c \in Range(discovery.consumers) : c.id = id
    BY <1>1, <1>3 DEF Built
  <2>2. ConsumerIs(id, states[id], c)
    BY <1>1, <2>1 DEF Built
  <2>3. c.unresolved = (states[id].unresolved \/ P!NotUnderstood(id, states[id]))
    BY <2>2 DEF ConsumerIs
  <2> QED
    BY <2>1, <2>3 DEF Range
<1>5. ASSUME NEW x \in states[id].references \cup P!expressionReferences(id, states[id])
      PROVE  P!Owned(id, x) \in discovery.references
  BY <1>1, <1>3, <1>5, Zenon DEF Built
<1>6. ASSUME NEW x \in P!addUsageReference(id, u) PROVE P!Owned(id, x) \in discovery.references
  BY <1>2, <1>3, <1>5, <1>6, Zenon DEF StateIs, ReferencesBy
<1> HIDE DEF states
<1>7. SUFFICES Suspected(discovery, discovery.consumers[i], change)
  BY <1>4 DEF IsSuspected
<1>8. CASE discovery.consumers[i].unresolved
  BY <1>8 DEF Suspected, Uncertain
<1>9. CASE u.partial
  <2>1. P!MayRead(u.metric) \in P!addUsageReference(id, u)
    BY <1>9 DEF P!addUsageReference
  <2>2. LET r == P!Owned(id, P!MayRead(u.metric))
        IN  r.consumer = id /\ unresolvedReferenceApplies(r, change)
    BY DEF P!Owned, P!MayRead, unresolvedReferenceApplies
  <2> QED
    BY <1>4, <1>6, <2>1, <2>2, Zenon DEF Suspected, Uncertain
<1>10. CASE ~ u.partial /\ change.from = P!Metric(u.metric)
  <2>1. P!Reads(u.metric) \in P!addUsageReference(id, u)
    BY <1>10 DEF P!addUsageReference
  <2>2. LET r == P!Owned(id, P!Reads(u.metric))
        IN  r.consumer = id /\ r.symbol = change.from
    BY <1>10 DEF P!Owned, P!Reads
  <2> QED
    BY <1>4, <1>6, <2>1, <2>2, Zenon DEF Suspected, Uses
<1>11. CASE ~ u.partial /\ id.kind = "dashboard" /\ change.from.kind = "label" /\ change.from.parent = u.metric
  <2>1. P!MayUseLabelsOf(u.metric) \in P!addUsageReference(id, u)
    <3>1. u.id.kind = "dashboard"
      BY <1>2, <1>11
    <3> QED
      BY <1>11, <3>1 DEF P!addUsageReference
  <2>2. LET r == P!Owned(id, P!MayUseLabelsOf(u.metric))
        IN  r.consumer = id /\ unresolvedReferenceApplies(r, change)
    BY <1>11 DEF P!Owned, P!MayUseLabelsOf, P!Metric, unresolvedReferenceApplies, metricFamilyMatch
  <2> QED
    BY <1>4, <1>6, <2>1, <2>2, Zenon DEF Suspected, Uncertain
<1>12. CASE /\ ~ discovery.consumers[i].unresolved
            /\ id.kind # "dashboard"
            /\ \/ u.expression = 0
               \/ ExpressionAnalyses[u.expression].unresolved
               \/ ExpressionAnalyses[u.expression].patterns # {}
               \/ change.from \in ExpressionAnalyses[u.expression].symbols
  <2>1. id.kind \in P!Rules
    BY <1>3, <1>12 DEF ConsumerKinds
  <2>2. ~ states[id].unresolved /\ ~ P!NotUnderstood(id, states[id])
    BY <1>4, <1>12
  <2>3. states[id].expression = u.expression
    BY <1>2, <1>3, <2>1, <2>2 DEF StateIs
  <2> DEFINE a == ExpressionAnalyses[states[id].expression]
  <2>4. a.patterns # {} \/ change.from \in a.symbols
    BY <1>12, <2>1, <2>2, <2>3 DEF P!NotUnderstood
  <2>5. PICK x \in ReferencesIn(a) : Tells(x, change)
    BY <2>4, AnalysisTells
  <2>6. x \in P!expressionReferences(id, states[id])
    <3>1. x \in P!ReferencesIn(a)
      BY <2>5, Zenon DEF ReferencesIn, P!ReferencesIn
    <3> QED
      BY <2>1, <2>2, <3>1, Zenon DEF P!expressionReferences
  <2>7. LET r == P!Owned(id, x)
        IN  r.consumer = id /\ (r.symbol = change.from \/ unresolvedReferenceApplies(r, change))
    BY <2>5 DEF P!Owned, Tells, unresolvedReferenceApplies
  <2> QED
    BY <1>4, <1>5, <2>6, <2>7, Zenon DEF Suspected, Uses, Uncertain
<1> QED
  BY <1>2, <1>8, <1>9, <1>10, <1>11, <1>12

(* The source is one of those that may be configured.                       *)
Configured == Is("runtime_queries") \/ Is("tempo") \/ Is("perses_usage") \/ Is("ownership")

LEMMA SourceIsConfigured == Spec => []Configured
<1>1. Init => Configured
  BY InputsDiffer DEF Init, R!Init, T!Init, P!Init, O!Init, Configured, Is
<1>2. Configured /\ [Next]_vars => Configured'
  BY SourceIsConstant DEF Configured, Is
<1> QED
  BY <1>1, <1>2, PTL DEF Spec

LEMMA DiagnosticsAreAsRequired ==
    ASSUME RuntimeInv, TempoInv, PersesInv, OwnershipInv, Configured, pc = "loaded", source.required
    PROVE  \A x \in discovery.diagnostics : x.required
<1>1. CASE Is("runtime_queries")
  <2>1. FoundInLog(source, work.aggregates, discovery)
    BY <1>1 DEF RuntimeInv
  <2> QED
    BY <2>1 DEF FoundInLog
<1>2. CASE Is("tempo")
  <2>1. Accounted(source, discovery, work.accepted, at)
    BY <1>2 DEF TempoInv
  <2> QED
    BY <2>1 DEF Accounted
<1>3. CASE Is("perses_usage")
  <2>1. Built(source, work.states, discovery)
    BY <1>3 DEF PersesInv, PersesShape
  <2> QED
    BY <2>1 DEF Built
<1>4. ~ Is("ownership")
  <2>1. source \in Repositories => source.required = FALSE
    BY RepositoriesAssumption DEF O!IsRepository
  <2> QED
    BY <2>1 DEF OwnershipInv
<1> QED
  BY <1>1, <1>2, <1>3, <1>4 DEF Configured

(* A use of the old contract that an adapter was told of reaches the        *)
(* verdict: under every policy and for every change, its consumer is        *)
(* neither UNAFFECTED nor MIGRATED, and what was not understood of a        *)
(* required source keeps the migration from being READY.                    *)
THEOREM EvidenceReachesTheVerdict == Spec => []ConsumersReachTheVerdict
<1>1. ASSUME RuntimeInv, TempoInv, PersesInv, OwnershipInv, NoObservationIsLost, Configured
      PROVE  ConsumersReachTheVerdict
  <2> SUFFICES ASSUME pc = "loaded", NEW change \in Changes, NEW policy \in Policies
               PROVE  LET class == ClassifyAll(discovery, policy, change)
                      IN  /\ \A c \in Concerned(change) : \E i \in DOMAIN class :
                                /\ discovery.consumers[i].id = c
                                /\ class[i] \in {"LEGACY_ONLY", "DUAL", "UNCERTAIN"}
                          /\ source.required /\ discovery.diagnostics # {} =>
                                statusForConsumers(discovery, class, policy) # "READY"
    BY Zenon DEF ConsumersReachTheVerdict
  <2>1. ASSUME NEW c \in Concerned(change) PROVE IsSuspected(discovery, c, change)
    <3>1. CASE Is("runtime_queries")
      BY <1>1, <2>1, <3>1, LogIsSuspected DEF Concerned, Is
    <3>2. CASE Is("tempo")
      BY <1>1, <2>1, <3>2, ManifestIsSuspected DEF Concerned, Is
    <3>3. CASE Is("perses_usage")
      BY <1>1, <2>1, <3>3, ServiceIsSuspected DEF Concerned, Is
    <3>4. CASE Is("ownership")
      BY <2>1, <3>4 DEF Concerned, Is
    <3> QED
      BY <1>1, <3>1, <3>2, <3>3, <3>4 DEF Configured
  <2>2. ASSUME source.required PROVE \A x \in discovery.diagnostics : x.required
    BY <1>1, <2>2, DiagnosticsAreAsRequired
  <2> QED
    BY <2>1, <2>2, SuspicionIsClassified, DiagnosedIsNotReady DEF IsSuspected
<1> QED
  BY <1>1, RuntimeInvariant, TempoInvariant, PersesInvariant, OwnershipInvariant, LogsAreAccounted,
     SourceIsConfigured, PTL
==============================================================================
