------------------------------ MODULE Readiness ------------------------------
(***************************************************************************)
(* The readiness policy (internal/readiness/evaluator.go) as operators:    *)
(* what one consumer's classification for one change is, and what status   *)
(* a change and a migration have.  The graph of internal/impact is the set *)
(* of edges below; whom a symbol affects is its set of dependents, which   *)
(* ImpactPaths computes.                                                   *)
(***************************************************************************)
EXTENDS Telemetry, Dependents, FiniteSets

Classifications == {"UNAFFECTED", "MIGRATED", "DUAL", "UNCERTAIN", "LEGACY_ONLY"}
(* Evaluate's global map: a consumer no change has classified yet has the   *)
(* zero value, which ranks below every classification.                      *)
Unclassified == ""

Statuses == {"READY", "BLOCKED", "INCOMPLETE"}

Policy == [failOnCriticalLegacyConsumer : BOOLEAN, failOnCriticalUnknown : BOOLEAN,
           minimumBlockingCriticality : Criticality, includeTransitive : BOOLEAN]

-----------------------------------------------------------------------------
(* BuildGraph: a symbol leads to the consumers that reference it, resolved  *)
(* or not, and a consumer to the symbols it produces.                       *)
SymbolNodes(d) == {r.symbol : r \in d.references} \cup {p.symbol : p \in d.productions}
IDs(d) == {d.consumers[i].id : i \in DOMAIN d.consumers}
Edges(d) == {<<r.symbol, r.consumer>> : r \in d.references}
              \cup {<<p.consumer, p.symbol>> : p \in d.productions}

(* Mutant: the direct filter is applied to every policy. *)
Affected_directOnly(d, node, transitive) == {c \in IDs(d) : <<node, c>> \in Edges(d)}

(* The consumers at the end of an impact path of node; a policy without     *)
(* transitive impact keeps the paths of one edge.                           *)
Affected(d, node, transitive) ==
    IF transitive
      THEN Reachable(SymbolNodes(d) \cup IDs(d), node, Edges(d)) \cap IDs(d)
      ELSE {c \in IDs(d) : <<node, c>> \in Edges(d)}

(* The keys of impactedConsumers: every symbol node of the changed family   *)
(* is a start.                                                              *)
impactedConsumers(d, symbol, transitive) ==
    UNION {Affected(d, node, transitive) :
             node \in {n \in SymbolNodes(d) : symbolsMatch(n, symbol)}}

-----------------------------------------------------------------------------
(* Mutant: no default for the rest. *)
classify_noDefault(change, hasOld, hasNew, uncertain) ==
    IF hasOld THEN IF change.to # NoSymbol /\ hasNew THEN "DUAL" ELSE "LEGACY_ONLY"
    ELSE IF uncertain THEN "UNCERTAIN"
    ELSE IF change.to # NoSymbol /\ hasNew THEN "MIGRATED" ELSE Unclassified

(* A confirmed use of the old contract outranks uncertainty, and            *)
(* uncertainty outranks a use of the new one.                               *)
classify(change, hasOld, hasNew, uncertain) ==
    IF hasOld THEN IF change.to # NoSymbol /\ hasNew THEN "DUAL" ELSE "LEGACY_ONLY"
    ELSE IF uncertain THEN "UNCERTAIN"
    ELSE IF change.to # NoSymbol /\ hasNew THEN "MIGRATED" ELSE "UNAFFECTED"

Uncertain(d, consumer, change) ==
    \/ consumer.unresolved
    \/ \E r \in d.references :
          r.consumer = consumer.id /\ unresolvedReferenceApplies(r, change)

(* The body of Evaluate's inner loop, for all consumers of one change. *)
ClassifyAll(d, policy, change) ==
    LET oldImpact == impactedConsumers(d, change.from, policy.includeTransitive)
        newImpact == IF change.to = NoSymbol THEN {}
                     ELSE impactedConsumers(d, change.to, policy.includeTransitive)
    IN  [i \in DOMAIN d.consumers |->
            LET c == d.consumers[i]
            IN  classify(change, c.id \in oldImpact, c.id \in newImpact, Uncertain(d, c, change))]

-----------------------------------------------------------------------------
ClassificationRank ==
    [UNAFFECTED |-> 1, MIGRATED |-> 2, DUAL |-> 3, UNCERTAIN |-> 4, LEGACY_ONLY |-> 5]

(* Mutant: the latest change wins. *)
worseClassification_latest(current, candidate) == candidate

worseClassification(current, candidate) ==
    IF current = Unclassified \/ ClassificationRank[candidate] > ClassificationRank[current]
      THEN candidate ELSE current

hasRequiredDiagnostic(diagnostics) == \E x \in diagnostics : x.required

(* The threshold of a policy that names none. *)
Minimum(policy) == IF policy.minimumBlockingCriticality = ""
                     THEN "high" ELSE policy.minimumBlockingCriticality

Blocks(consumer, classification, policy) ==
    /\ classification = "LEGACY_ONLY"
    /\ policy.failOnCriticalLegacyConsumer
    /\ criticalityRank(consumer.criticality) >= criticalityRank(Minimum(policy))

CriticalUnknown(consumer, classification, policy) ==
    /\ classification = "UNCERTAIN"
    /\ policy.failOnCriticalUnknown
    /\ criticalityRank(consumer.criticality) >= criticalityRank("critical")

statusForConsumers(d, class, policy) ==
    IF \E i \in DOMAIN class : Blocks(d.consumers[i], class[i], policy) THEN "BLOCKED"
    ELSE IF hasRequiredDiagnostic(d.diagnostics) THEN "INCOMPLETE"
    ELSE IF \E i \in DOMAIN class : CriticalUnknown(d.consumers[i], class[i], policy)
      THEN "INCOMPLETE"
    ELSE "READY"

(* Mutant: the last change decides. *)
statusForChanges_last(statuses, diagnostics) ==
    statuses[Len(statuses)]

statusForChanges(statuses, diagnostics) ==
    IF \E i \in DOMAIN statuses : statuses[i] = "BLOCKED" THEN "BLOCKED"
    ELSE IF hasRequiredDiagnostic(diagnostics) THEN "INCOMPLETE"
    ELSE IF \E i \in DOMAIN statuses : statuses[i] = "INCOMPLETE" THEN "INCOMPLETE"
    ELSE "READY"
=============================================================================
