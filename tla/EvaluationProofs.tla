--------------------------- MODULE EvaluationProofs ---------------------------
(***************************************************************************)
(* Proofs about the readiness evaluation, for every set of discoveries,    *)
(* migrations and policies.                                                *)
(***************************************************************************)
EXTENDS Evaluation, SequenceTheorems, FiniteSetTheorems, TLAPS

(* What has been decided about the changes treated so far, and what the     *)
(* summary says once they all are.                                          *)
Decided ==
    /\ Len(class) = Len(statuses)
    /\ Len(class) <= Len(migration)
    /\ \A k \in 1 .. Len(class) :
          /\ class[k] = ClassifyAll(discovery, policy, migration[k])
          /\ statuses[k] = statusForConsumers(discovery, class[k], policy)
    /\ phase = "done" =>
          /\ Len(class) = Len(migration)
          /\ summary.status = statusForChanges(statuses, discovery.diagnostics)

IInv == TypeOK /\ Decided

-----------------------------------------------------------------------------
LEMMA InputTypes ==
    ASSUME TypeOK
    PROVE  /\ discovery.consumers \in Seq(Consumer)
           /\ Indices = 1 .. Len(discovery.consumers)
           /\ migration \in Seq(Change)
           /\ policy \in Policy
  BY InputsAssumption DEF TypeOK, Discovery, Indices

LEMMA ClassifyType ==
    ASSUME NEW change, NEW hasOld, NEW hasNew, NEW uncertain
    PROVE  classify(change, hasOld, hasNew, uncertain) \in Classifications
  BY DEF classify, Classifications

LEMMA ClassifyAllType ==
    ASSUME NEW d, NEW p, NEW change
    PROVE  ClassifyAll(d, p, change) \in [DOMAIN d.consumers -> Classifications]
  BY ClassifyType DEF ClassifyAll

LEMMA StatusTypes ==
    /\ \A d, c, p : statusForConsumers(d, c, p) \in Statuses
    /\ \A s, ds : statusForChanges(s, ds) \in Statuses
  BY DEF statusForConsumers, statusForChanges, Statuses

LEMMA WorseType ==
    ASSUME NEW c \in Classifications \cup {Unclassified}, NEW e \in Classifications
    PROVE  worseClassification(c, e) \in Classifications \cup {Unclassified}
  BY DEF worseClassification

-----------------------------------------------------------------------------
LEMMA InitIInv == Init => IInv
<1> SUFFICES ASSUME Init PROVE IInv
  OBVIOUS
<1>1. TypeOK
  BY DEF Init, TypeOK, Indices
<1>2. migration \in Seq(Change)
  BY <1>1, InputTypes
<1>3. Decided
  BY <1>2 DEF Init, Decided
<1> QED
  BY <1>1, <1>3 DEF IInv

LEMMA CheckIInv == IInv /\ (Reject \/ Accept) => IInv'
<1> SUFFICES ASSUME IInv, Reject \/ Accept PROVE IInv'
  OBVIOUS
<1>1. /\ phase = "check" /\ phase' \in {"error", "changes"}
      /\ UNCHANGED <<discovery, migration, policy, class, statuses, global, summary>>
  BY DEF Reject, Accept, args
<1>2. TypeOK'
  BY <1>1 DEF IInv, TypeOK, Indices
<1>3. Decided'
  BY <1>1 DEF IInv, Decided
<1> QED
  BY <1>2, <1>3 DEF IInv

LEMMA EvaluateChangeIInv == IInv /\ EvaluateChange => IInv'
<1> SUFFICES ASSUME IInv, EvaluateChange PROVE IInv'
  OBVIOUS
<1> DEFINE n == Len(class) + 1
           results == ClassifyAll(discovery, policy, migration[n])
           status == statusForConsumers(discovery, results, policy)
<1>0. TypeOK /\ Decided
  BY DEF IInv
<1>1. /\ phase = "changes" /\ Len(class) < Len(migration)
      /\ class' = Append(class, results)
      /\ statuses' = Append(statuses, status)
      /\ global' = [i \in Indices |-> worseClassification(global[i], results[i])]
      /\ UNCHANGED <<discovery, migration, policy, phase, summary>>
  BY DEF EvaluateChange, args
<1>2. results \in [Indices -> Classifications] /\ status \in Statuses
  BY ClassifyAllType, StatusTypes DEF Indices
<1> HIDE DEF results, status
<1>3. /\ class' \in Seq([Indices -> Classifications])
      /\ Len(class') = n
      /\ \A k \in 1 .. Len(class) : class'[k] = class[k]
      /\ class'[n] = results
  BY <1>0, <1>1, <1>2, AppendProperties DEF TypeOK
<1>4. /\ statuses' \in Seq(Statuses)
      /\ Len(statuses') = Len(statuses) + 1
      /\ \A k \in 1 .. Len(statuses) : statuses'[k] = statuses[k]
      /\ statuses'[Len(statuses) + 1] = status
  BY <1>0, <1>1, <1>2, AppendProperties DEF TypeOK
<1>5. global' \in [Indices -> Classifications \cup {Unclassified}]
  BY <1>0, <1>1, <1>2, WorseType DEF TypeOK
<1>6. TypeOK'
  BY <1>0, <1>1, <1>3, <1>4, <1>5 DEF TypeOK, Indices
<1>7. Decided'
  <2>1. Len(class) \in Nat /\ Len(migration) \in Nat
    BY <1>0, InputTypes DEF TypeOK
  <2>2. \A k \in 1 .. n :
           /\ class'[k] = ClassifyAll(discovery, policy, migration[k])
           /\ statuses'[k] = statusForConsumers(discovery, class'[k], policy)
    <3> TAKE k \in 1 .. n
    <3>1. CASE k = n
      BY <3>1, <1>0, <1>3, <1>4 DEF Decided, results, status
    <3>2. CASE k # n
      BY <3>2, <2>1, <1>0, <1>3, <1>4 DEF Decided
    <3> QED
      BY <3>1, <3>2
  <2> QED
    BY <2>1, <2>2, <1>0, <1>1, <1>3, <1>4 DEF Decided
<1> QED
  BY <1>6, <1>7 DEF IInv

LEMMA SummarizeIInv == IInv /\ Summarize => IInv'
<1> SUFFICES ASSUME IInv, Summarize PROVE IInv'
  OBVIOUS
<1>1. /\ Len(class) = Len(migration)
      /\ phase' = "done"
      /\ summary'.status = statusForChanges(statuses, discovery.diagnostics)
      /\ UNCHANGED <<discovery, migration, policy, class, statuses, global>>
  BY DEF Summarize, args
<1>2. TypeOK'
  BY <1>1, StatusTypes DEF IInv, TypeOK, Indices
<1>3. Decided'
  BY <1>1 DEF IInv, Decided
<1> QED
  BY <1>2, <1>3 DEF IInv

LEMMA StutterIInv == IInv /\ UNCHANGED vars => IInv'
  BY DEF IInv, TypeOK, Decided, Indices, vars, args

-----------------------------------------------------------------------------
(* The decisions recorded are the ones the policy makes, at every step.     *)
THEOREM EvaluationInvariant == Spec => []IInv
<1>1. IInv /\ [Next]_vars => IInv'
  BY CheckIInv, EvaluateChangeIInv, SummarizeIInv, StutterIInv DEF Next
<1> QED
  BY InitIInv, <1>1, PTL DEF Spec

(* What the evaluation keeps has its type whatever the inputs. *)
THEOREM TypeCorrect == Spec => []TypeOK
<1>1. IInv => TypeOK
  BY DEF IInv
<1> QED
  BY EvaluationInvariant, <1>1, PTL

-----------------------------------------------------------------------------
(* What a done evaluation says of each change.                              *)
LEMMA DoneFacts ==
    ASSUME IInv, phase = "done"
    PROVE  /\ summary.status = statusForChanges(statuses, discovery.diagnostics)
           /\ DOMAIN statuses = DOMAIN migration
           /\ \A k \in DOMAIN migration :
                 /\ class[k] = ClassifyAll(discovery, policy, migration[k])
                 /\ statuses[k] = statusForConsumers(discovery, class[k], policy)
                 /\ DOMAIN class[k] = Indices
                 /\ \A i \in Indices : class[k][i] \in Classifications
<1>1. /\ migration \in Seq(Change) /\ statuses \in Seq(Statuses)
      /\ class \in Seq([Indices -> Classifications])
  BY InputTypes DEF IInv, TypeOK
<1>2. /\ Len(class) = Len(migration) /\ Len(statuses) = Len(migration)
      /\ summary.status = statusForChanges(statuses, discovery.diagnostics)
  BY DEF IInv, Decided
<1>3. \A k \in DOMAIN migration : class[k] \in [Indices -> Classifications]
  BY <1>1, <1>2
<1> QED
  BY <1>1, <1>2, <1>3 DEF IInv, Decided

LEMMA ReadyFacts ==
    ASSUME IInv, Ready
    PROVE  /\ ~ hasRequiredDiagnostic(discovery.diagnostics)
           /\ \A k \in DOMAIN migration, i \in Indices :
                 /\ ~ Blocks(discovery.consumers[i], class[k][i], policy)
                 /\ ~ CriticalUnknown(discovery.consumers[i], class[k][i], policy)
<1>1. phase = "done" /\ statusForChanges(statuses, discovery.diagnostics) = "READY"
  BY DoneFacts DEF Ready
<1>2. /\ ~ hasRequiredDiagnostic(discovery.diagnostics)
      /\ \A k \in DOMAIN statuses : statuses[k] \notin {"BLOCKED", "INCOMPLETE"}
  BY <1>1 DEF statusForChanges
<1>3. \A k \in DOMAIN migration :
         /\ DOMAIN class[k] = Indices
         /\ statusForConsumers(discovery, class[k], policy) \notin {"BLOCKED", "INCOMPLETE"}
  BY <1>1, <1>2, DoneFacts
<1>4. ASSUME NEW k \in DOMAIN migration, NEW i \in Indices
      PROVE  /\ ~ Blocks(discovery.consumers[i], class[k][i], policy)
             /\ ~ CriticalUnknown(discovery.consumers[i], class[k][i], policy)
  BY <1>3 DEF statusForConsumers
<1> QED
  BY <1>2, <1>4

(* A required diagnostic keeps every migration from READY.                  *)
THEOREM RequiredFailureSafe == Spec => []RequiredFailurePreventsReady
<1>1. IInv => RequiredFailurePreventsReady
  BY ReadyFacts DEF RequiredFailurePreventsReady, hasRequiredDiagnostic
<1> QED
  BY EvaluationInvariant, <1>1, PTL

(* The keys of impactedConsumers are the consumers with an evidence chain.   *)
LEMMA ImpactedIsDependsOn ==
    ASSUME NEW id \in IDs(discovery), NEW symbol
    PROVE  id \in impactedConsumers(discovery, symbol, policy.includeTransitive)
             <=> DependsOn(id, symbol)
<1> DEFINE starts == {n \in SymbolNodes(discovery) : symbolsMatch(n, symbol)}
           t == policy.includeTransitive
<1>1. id \in impactedConsumers(discovery, symbol, t)
        <=> \E n \in starts : id \in Affected(discovery, n, t)
  BY DEF impactedConsumers
<1>2. ASSUME NEW n
      PROVE  id \in Affected(discovery, n, t) <=>
               IF t THEN id \in Reachable(SymbolNodes(discovery) \cup IDs(discovery), n, Edges(discovery))
                    ELSE <<n, id>> \in Edges(discovery)
  BY DEF Affected
<1> QED
  BY <1>1, <1>2 DEF DependsOn

(* What a classification recorded for consumer i and change k rests on.     *)
LEMMA ClassificationFacts ==
    ASSUME IInv, phase = "done", NEW k \in DOMAIN migration, NEW i \in Indices
    PROVE  LET c == discovery.consumers[i]
               change == migration[k]
           IN  class[k][i] = classify(change, DependsOn(c.id, change.from),
                                      change.to # NoSymbol /\ DependsOn(c.id, change.to),
                                      Uncertain(discovery, c, change))
<1> DEFINE c == discovery.consumers[i]
           change == migration[k]
           pol == policy.includeTransitive
<1>1. c.id \in IDs(discovery)
  BY DEF IDs, Indices
<1>2. \A symbol : c.id \in impactedConsumers(discovery, symbol, pol) <=> DependsOn(c.id, symbol)
  BY <1>1, ImpactedIsDependsOn
<1>3. class[k] = ClassifyAll(discovery, policy, change)
  BY DoneFacts
<1>4. class[k][i] = classify(change,
                            c.id \in impactedConsumers(discovery, change.from, pol),
                            c.id \in (IF change.to = NoSymbol THEN {}
                                      ELSE impactedConsumers(discovery, change.to, pol)),
                            Uncertain(discovery, c, change))
  BY <1>3 DEF ClassifyAll, Indices
<1>5. (c.id \in (IF change.to = NoSymbol THEN {}
                 ELSE impactedConsumers(discovery, change.to, pol)))
        <=> change.to # NoSymbol /\ DependsOn(c.id, change.to)
  BY <1>2
<1> HIDE DEF c, change, pol
<1>6. class[k][i] = classify(change, DependsOn(c.id, change.from),
                            change.to # NoSymbol /\ DependsOn(c.id, change.to),
                            Uncertain(discovery, c, change))
  BY <1>2, <1>4, <1>5 DEF classify
<1> QED
  BY <1>6 DEF c, change

(* READY leaves no legacy consumer at or above the blocking threshold.      *)
THEOREM ReadyIsSafe == Spec => []ReadyLeavesNoLegacyConsumer
<1>1. IInv => ReadyLeavesNoLegacyConsumer
  <2> SUFFICES ASSUME IInv, Ready, policy.failOnCriticalLegacyConsumer,
                      NEW k \in DOMAIN migration, NEW i \in Indices,
                      criticalityRank(discovery.consumers[i].criticality)
                          >= criticalityRank(Minimum(policy)),
                      DependsOn(discovery.consumers[i].id, migration[k].from)
               PROVE  /\ migration[k].to # NoSymbol
                      /\ DependsOn(discovery.consumers[i].id, migration[k].to)
    BY DEF ReadyLeavesNoLegacyConsumer
  <2>1. class[k][i] # "LEGACY_ONLY"
    BY ReadyFacts DEF Blocks
  <2> QED
    BY <2>1, ClassificationFacts DEF classify, Ready
<1> QED
  BY EvaluationInvariant, <1>1, PTL

(* READY leaves no critical consumer uncertain, unless it uses the old      *)
(* symbol too.                                                              *)
THEOREM ReadyHasNoCriticalUnknown == Spec => []ReadyLeavesNoCriticalUnknown
<1>1. IInv => ReadyLeavesNoCriticalUnknown
  <2> SUFFICES ASSUME IInv, Ready, policy.failOnCriticalUnknown,
                      NEW k \in DOMAIN migration, NEW i \in Indices,
                      discovery.consumers[i].criticality = "critical",
                      Uncertain(discovery, discovery.consumers[i], migration[k])
               PROVE  DependsOn(discovery.consumers[i].id, migration[k].from)
    BY DEF ReadyLeavesNoCriticalUnknown
  <2>1. criticalityRank("critical") >= criticalityRank("critical")
    BY DEF criticalityRank
  <2>2. class[k][i] # "UNCERTAIN"
    BY <2>1, ReadyFacts DEF CriticalUnknown
  <2> QED
    BY <2>2, ClassificationFacts DEF classify, Ready
<1> QED
  BY EvaluationInvariant, <1>1, PTL

(* READY is safe in every sense the evaluation promises, for every graph,   *)
(* migration and policy.                                                    *)
THEOREM ReadyVerdictIsSafe == Spec => []ReadyIsJustified
<1>1. ReadyLeavesNoLegacyConsumer /\ RequiredFailurePreventsReady /\ ReadyLeavesNoCriticalUnknown
        => ReadyIsJustified
  BY DEF ReadyIsJustified
<1> QED
  BY <1>1, ReadyIsSafe, RequiredFailureSafe, ReadyHasNoCriticalUnknown, PTL

(* A migration is blocked exactly when some consumer blocks some change.    *)
THEOREM BlockedIsExact == Spec => []BlockedExactlyWhenAConsumerBlocks
<1>1. IInv => BlockedExactlyWhenAConsumerBlocks
  <2> SUFFICES ASSUME IInv, phase = "done"
               PROVE  summary.status = "BLOCKED" <=>
                        \E k \in DOMAIN migration, i \in Indices :
                            Blocks(discovery.consumers[i], class[k][i], policy)
    BY DEF BlockedExactlyWhenAConsumerBlocks
  <2>1. summary.status = "BLOCKED" <=> \E k \in DOMAIN migration : statuses[k] = "BLOCKED"
    BY DoneFacts DEF statusForChanges
  <2>2. ASSUME NEW k \in DOMAIN migration
        PROVE  statuses[k] = "BLOCKED" <=>
                 \E i \in Indices : Blocks(discovery.consumers[i], class[k][i], policy)
    BY DoneFacts DEF statusForConsumers
  <2> QED
    BY <2>1, <2>2
<1> QED
  BY EvaluationInvariant, <1>1, PTL

-----------------------------------------------------------------------------
(* The classifications consumer i has been given so far.                    *)
Seen(i) == {class[k][i] : k \in DOMAIN class}

LEMMA RanksOrdered ==
    \A c \in Classifications : ClassificationRank[c] \in 1 .. 5
  BY DEF Classifications, ClassificationRank

LEMMA EvaluateChangeKeepsWorst ==
    ASSUME IInv, GlobalIsWorst, EvaluateChange
    PROVE  GlobalIsWorst'
<1> DEFINE n == Len(class) + 1
           results == ClassifyAll(discovery, policy, migration[n])
<1>1. /\ class' = Append(class, results)
      /\ global' = [i \in Indices |-> worseClassification(global[i], results[i])]
      /\ Indices' = Indices
  BY DEF EvaluateChange, args, Indices
<1>2. results \in [Indices -> Classifications]
  BY ClassifyAllType DEF Indices
<1> HIDE DEF results
<1>3. /\ DOMAIN class' = DOMAIN class \cup {n}
      /\ \A k \in DOMAIN class : class'[k] = class[k] /\ k # n
      /\ class'[n] = results
  BY <1>1, <1>2, AppendProperties DEF IInv, TypeOK
<1>4. ASSUME NEW i \in Indices
      PROVE  /\ global'[i] \in Seen(i)'
             /\ \A c \in Seen(i)' : ClassificationRank[c] <= ClassificationRank[global'[i]]
  <2>1. Seen(i)' = Seen(i) \cup {results[i]}
    BY <1>3 DEF Seen
  <2>2. /\ results[i] \in Classifications
        /\ Seen(i) \subseteq Classifications
        /\ global[i] \in Classifications \cup {Unclassified}
    BY <1>2, <1>4 DEF IInv, TypeOK, Seen
  <2>3. global'[i] = worseClassification(global[i], results[i])
    BY <1>1, <1>4
  <2>4. CASE Seen(i) = {}
    <3>1. global'[i] = results[i]
      BY <2>3, <2>4, <1>4 DEF GlobalIsWorst, Seen, worseClassification
    <3> QED
      BY <3>1, <2>1, <2>2, <2>4, RanksOrdered
  <2>5. CASE Seen(i) # {}
    <3>1. /\ global[i] \in Seen(i)
          /\ \A c \in Seen(i) : ClassificationRank[c] <= ClassificationRank[global[i]]
      BY <2>5, <1>4 DEF GlobalIsWorst, Seen
    <3>2. global[i] # Unclassified
      BY <3>1, <2>2 DEF Classifications, Unclassified
    <3> QED
      BY <3>1, <3>2, <2>1, <2>2, <2>3, RanksOrdered DEF worseClassification
  <2> QED
    BY <2>4, <2>5
<1> QED
  BY <1>1, <1>4 DEF GlobalIsWorst, Seen

(* The summary counts every consumer by its worst classification, whatever  *)
(* the order of the changes.                                                *)
THEOREM WorstIsKept == Spec => []GlobalIsWorst
<1>1. Init => GlobalIsWorst
  BY DEF Init, GlobalIsWorst
<1>2. IInv /\ GlobalIsWorst /\ [Next]_vars => GlobalIsWorst'
  <2> SUFFICES ASSUME IInv, GlobalIsWorst, [Next]_vars PROVE GlobalIsWorst'
    OBVIOUS
  <2>1. CASE EvaluateChange
    BY <2>1, EvaluateChangeKeepsWorst
  <2>2. CASE Reject \/ Accept \/ Summarize \/ UNCHANGED vars
    BY <2>2 DEF Reject, Accept, Summarize, vars, args, GlobalIsWorst, Indices
  <2> QED
    BY <2>1, <2>2 DEF Next
<1> QED
  BY EvaluationInvariant, <1>1, <1>2, PTL DEF Spec

-----------------------------------------------------------------------------
(* The counts.  Once done, the summary holds those of the worst             *)
(* classifications.                                                         *)
Counted ==
    phase = "done" =>
        /\ summary.totalConsumers = Len(discovery.consumers)
        /\ summary.legacyOnly = Count("LEGACY_ONLY")
        /\ summary.migrated = Count("MIGRATED")
        /\ summary.dual = Count("DUAL")
        /\ summary.uncertain = Count("UNCERTAIN")
        /\ summary.unaffected = Count("UNAFFECTED") + Count(Unclassified)
        /\ summary.progress = Progress

LEMMA NextCounted == Counted /\ [Next]_vars => Counted'
<1> SUFFICES ASSUME Counted, [Next]_vars PROVE Counted'
  OBVIOUS
<1>1. ASSUME Summarize PROVE Counted'
  <2>1. UNCHANGED <<discovery, global>>
    BY <1>1 DEF Summarize, args
  <2>2. /\ Indices' = Indices
        /\ \A c : Count(c)' = Count(c)
    BY <2>1 DEF Indices, Count
  <2>3. Progress' = Progress
    BY <2>2 DEF Progress
  <2>4. summary' = [status |-> statusForChanges(statuses, discovery.diagnostics),
                    totalConsumers |-> Len(discovery.consumers),
                    legacyOnly |-> Count("LEGACY_ONLY"),
                    migrated |-> Count("MIGRATED"),
                    dual |-> Count("DUAL"),
                    uncertain |-> Count("UNCERTAIN"),
                    unaffected |-> Count("UNAFFECTED") + Count(Unclassified),
                    progress |-> Progress]
    BY <1>1 DEF Summarize
  <2> QED
    BY <2>1, <2>2, <2>3, <2>4 DEF Counted
<1>2. ASSUME Reject \/ Accept \/ EvaluateChange PROVE Counted'
  BY <1>2 DEF Reject, Accept, EvaluateChange, Counted
<1>3. ASSUME UNCHANGED vars PROVE Counted'
  <2>1. UNCHANGED <<phase, discovery, global, summary>>
    BY <1>3 DEF vars, args
  <2>2. /\ Indices' = Indices
        /\ \A c : Count(c)' = Count(c)
    BY <2>1 DEF Indices, Count
  <2>3. Progress' = Progress
    BY <2>2 DEF Progress
  <2> QED
    BY <2>1, <2>2, <2>3 DEF Counted
<1> QED
  BY <1>1, <1>2, <1>3 DEF Next

(* A percentage is 100 only when nothing is left.                           *)
LEMMA FullPercentage ==
    ASSUME NEW ready \in Nat, NEW rest \in Nat, ready + rest # 0
    PROVE  (ready * 100) \div (ready + rest) = 100 <=> rest = 0
  OBVIOUS

LEMMA DisjointUnion ==
    ASSUME NEW S, NEW T, IsFiniteSet(S), IsFiniteSet(T), S \cap T = {}
    PROVE  /\ IsFiniteSet(S \cup T)
           /\ Cardinality(S \cup T) = Cardinality(S) + Cardinality(T)
<1>1. Cardinality(S) \in Nat /\ Cardinality(T) \in Nat
  BY FS_CardinalityType
<1> QED
  BY <1>1, FS_Union, FS_EmptySet

(* The consumers whose worst classification is c.                           *)
Bucket(c) == {i \in Indices : global[i] = c}

LEMMA EveryConsumerIsCounted ==
    ASSUME IInv
    PROVE  /\ \A c : IsFiniteSet(Bucket(c)) /\ Count(c) \in Nat
           /\ Count("LEGACY_ONLY") + Count("MIGRATED") + Count("DUAL") + Count("UNCERTAIN")
                + (Count("UNAFFECTED") + Count(Unclassified)) = Len(discovery.consumers)
<1>1. /\ Indices = 1 .. Len(discovery.consumers) /\ Len(discovery.consumers) \in Nat
      /\ global \in [Indices -> Classifications \cup {Unclassified}]
  BY InputTypes DEF IInv, TypeOK
<1>2. IsFiniteSet(Indices) /\ Cardinality(Indices) = Len(discovery.consumers)
  <2> DEFINE n == Len(discovery.consumers)
  <2>1. n \in Nat /\ Indices = 1 .. n
    BY <1>1
  <2> HIDE DEF n
  <2>2. IsFiniteSet(1 .. n) /\ Cardinality(1 .. n) = IF 1 > n THEN 0 ELSE n - 1 + 1
    BY <2>1, FS_Interval
  <2>3. Cardinality(1 .. n) = n
    BY <2>1, <2>2
  <2> QED
    BY <2>1, <2>2, <2>3 DEF n
<1>3. ASSUME NEW c PROVE IsFiniteSet(Bucket(c)) /\ Count(c) = Cardinality(Bucket(c)) /\ Count(c) \in Nat
  <2>1. Bucket(c) \in SUBSET Indices
    BY DEF Bucket
  <2>2. IsFiniteSet(Bucket(c)) /\ Count(c) = Cardinality(Bucket(c))
    BY <2>1, <1>2, FS_Subset DEF Count, Bucket
  <2> QED
    BY <2>2, FS_CardinalityType
<1>4. ASSUME NEW c, NEW d, c # d PROVE Bucket(c) \cap Bucket(d) = {}
  BY <1>4 DEF Bucket
<1> DEFINE S1 == Bucket("LEGACY_ONLY") \cup Bucket("MIGRATED")
           S2 == Bucket("DUAL") \cup Bucket("UNCERTAIN")
           S3 == Bucket("UNAFFECTED") \cup Bucket(Unclassified)
<1>5. /\ IsFiniteSet(S1) /\ Cardinality(S1) = Count("LEGACY_ONLY") + Count("MIGRATED")
      /\ IsFiniteSet(S2) /\ Cardinality(S2) = Count("DUAL") + Count("UNCERTAIN")
      /\ IsFiniteSet(S3) /\ Cardinality(S3) = Count("UNAFFECTED") + Count(Unclassified)
  <2>1. /\ Bucket("LEGACY_ONLY") \cap Bucket("MIGRATED") = {}
        /\ Bucket("DUAL") \cap Bucket("UNCERTAIN") = {}
        /\ Bucket("UNAFFECTED") \cap Bucket(Unclassified) = {}
    BY <1>4 DEF Unclassified
  <2> QED
    BY <2>1, <1>3, DisjointUnion
<1>6. S1 \cap S2 = {} /\ (S1 \cup S2) \cap S3 = {}
  BY DEF Bucket, Unclassified
<1>7. S1 \cup S2 \cup S3 = Indices
  BY <1>1 DEF Bucket, Classifications
<1> HIDE DEF S1, S2, S3
<1>8. Cardinality(S1 \cup S2) = Cardinality(S1) + Cardinality(S2) /\ IsFiniteSet(S1 \cup S2)
  BY <1>5, <1>6, DisjointUnion
<1>9. Cardinality(S1 \cup S2 \cup S3) = Cardinality(S1) + Cardinality(S2) + Cardinality(S3)
  BY <1>5, <1>6, <1>8, DisjointUnion
<1>10. /\ Count("LEGACY_ONLY") \in Nat /\ Count("MIGRATED") \in Nat /\ Count("DUAL") \in Nat
       /\ Count("UNCERTAIN") \in Nat /\ Count("UNAFFECTED") \in Nat /\ Count(Unclassified) \in Nat
  BY <1>3
<1>11. (Count("LEGACY_ONLY") + Count("MIGRATED")) + (Count("DUAL") + Count("UNCERTAIN"))
         + (Count("UNAFFECTED") + Count(Unclassified)) = Len(discovery.consumers)
  BY <1>2, <1>5, <1>7, <1>9
<1>12. Count("LEGACY_ONLY") + Count("MIGRATED") + Count("DUAL") + Count("UNCERTAIN")
         + (Count("UNAFFECTED") + Count(Unclassified)) = Len(discovery.consumers)
  BY <1>10, <1>11
<1> QED
  BY <1>3, <1>12

(* What blocks is the worst that its consumer has been given.               *)
LEMMA BlockerIsLegacy ==
    ASSUME IInv, GlobalIsWorst, phase = "done", summary.status = "BLOCKED"
    PROVE  \E i \in Indices : global[i] = "LEGACY_ONLY"
<1>1. PICK k \in DOMAIN migration : statuses[k] = "BLOCKED"
  BY DoneFacts DEF statusForChanges
<1>2. PICK i \in Indices : Blocks(discovery.consumers[i], class[k][i], policy)
  BY <1>1, DoneFacts DEF statusForConsumers
<1>3. class[k][i] = "LEGACY_ONLY"
  BY <1>2 DEF Blocks
<1>4. k \in DOMAIN class
  <2>1. Len(class) = Len(migration) /\ migration \in Seq(Change)
        /\ class \in Seq([Indices -> Classifications])
    BY InputTypes DEF IInv, Decided, TypeOK
  <2> QED
    BY <2>1
<1>5. Seen(i) # {} /\ "LEGACY_ONLY" \in Seen(i)
  BY <1>3, <1>4 DEF Seen
<1>6. /\ global[i] \in Seen(i)
      /\ \A c \in Seen(i) : ClassificationRank[c] <= ClassificationRank[global[i]]
  BY <1>5 DEF GlobalIsWorst, Seen
<1>7. global[i] \in Classifications
  <2>1. \A l \in DOMAIN class : class[l] \in [Indices -> Classifications]
    BY DEF IInv, TypeOK
  <2> QED
    BY <1>6, <2>1 DEF Seen
<1>8. 5 <= ClassificationRank[global[i]]
  <2>1. ClassificationRank["LEGACY_ONLY"] = 5
    BY DEF ClassificationRank
  <2> QED
    BY <2>1, <1>5, <1>6
<1> QED
  BY <1>7, <1>8 DEF Classifications, ClassificationRank

(* The summary agrees with the decision, for every number of consumers and  *)
(* of changes: what blocks is among the legacy consumers, everybody is      *)
(* counted once, and the progress is 100 only when nothing is left.         *)
THEOREM SummaryIsConsistent == Spec => []SummaryAgreesWithStatus
<1>1. Init => Counted
  BY DEF Init, Counted
<1>2. Counted /\ [Next]_vars => Counted'
  BY NextCounted
<1>3. IInv /\ GlobalIsWorst /\ Counted => SummaryAgreesWithStatus
  <2> SUFFICES ASSUME IInv, GlobalIsWorst, Counted, phase = "done"
               PROVE  /\ summary.legacyOnly + summary.migrated + summary.dual + summary.uncertain
                           + summary.unaffected = summary.totalConsumers
                      /\ summary.status = "BLOCKED" => summary.legacyOnly > 0
                      /\ summary.progress = 100 <=> summary.legacyOnly + summary.uncertain = 0
    BY DEF SummaryAgreesWithStatus
  <2>1. /\ summary.legacyOnly + summary.migrated + summary.dual + summary.uncertain
             + summary.unaffected = summary.totalConsumers
    BY EveryConsumerIsCounted DEF Counted
  <2>2. ASSUME summary.status = "BLOCKED" PROVE summary.legacyOnly > 0
    <3>1. Bucket("LEGACY_ONLY") # {}
      BY <2>2, BlockerIsLegacy DEF Bucket
    <3>2. Cardinality(Bucket("LEGACY_ONLY")) # 0
      BY <3>1, EveryConsumerIsCounted, FS_EmptySet
    <3>3. Count("LEGACY_ONLY") = Cardinality(Bucket("LEGACY_ONLY")) /\ Count("LEGACY_ONLY") \in Nat
      BY EveryConsumerIsCounted DEF Count, Bucket
    <3> QED
      BY <3>2, <3>3 DEF Counted
  <2>3. summary.progress = 100 <=> summary.legacyOnly + summary.uncertain = 0
    <3> DEFINE ready == Count("MIGRATED") + Count("DUAL")
               rest == Count("LEGACY_ONLY") + Count("UNCERTAIN")
    <3>1. /\ Count("MIGRATED") \in Nat /\ Count("DUAL") \in Nat
          /\ Count("LEGACY_ONLY") \in Nat /\ Count("UNCERTAIN") \in Nat
      BY EveryConsumerIsCounted
    <3>2. ready \in Nat /\ rest \in Nat
          /\ ready + Count("LEGACY_ONLY") + Count("UNCERTAIN") = ready + rest
      BY <3>1
    <3>3. Progress = IF ready + rest = 0 THEN 100 ELSE (ready * 100) \div (ready + rest)
      BY <3>2 DEF Progress
    <3>4. summary.progress = Progress /\ summary.legacyOnly + summary.uncertain = rest
      BY DEF Counted
    <3> HIDE DEF ready, rest
    <3>5. CASE ready + rest = 0
      BY <3>2, <3>3, <3>4, <3>5
    <3>6. CASE ready + rest # 0
      BY <3>2, <3>3, <3>4, <3>6, FullPercentage
    <3> QED
      BY <3>5, <3>6
  <2> QED
    BY <2>1, <2>2, <2>3
<1> QED
  BY <1>1, <1>2, <1>3, EvaluationInvariant, WorstIsKept, PTL DEF Spec
=============================================================================
