------------------------------ MODULE Evaluation ------------------------------
(***************************************************************************)
(* readiness.Evaluate: the consumers are checked, then each change of the  *)
(* migration is classified in turn while the worst classification of every *)
(* consumer accumulates, and at last the summary and the authoritative     *)
(* status are computed.                                                    *)
(***************************************************************************)
EXTENDS Readiness, SequencesExt

CONSTANTS Discoveries, Migrations, Policies  \* the inputs considered

ASSUME InputsAssumption == /\ Discoveries \subseteq Discovery
                           /\ Migrations \subseteq Seq(Change)
                           /\ Policies \subseteq Policy

VARIABLES discovery, migration, policy,  \* the arguments
          phase,    \* "check", "changes", "done" or "error"
          class,    \* class[k][i]: classification of consumer i for change k
          statuses, \* statuses[k]: status of change k
          global,   \* worst classification of each consumer so far
          summary   \* status, counts and progress, once done

args == <<discovery, migration, policy>>
vars == <<args, phase, class, statuses, global, summary>>

Indices == DOMAIN discovery.consumers

NoSummary == [status |-> "ERROR"]

-----------------------------------------------------------------------------
Init == /\ discovery \in Discoveries
        /\ migration \in Migrations
        /\ policy \in Policies
        /\ phase = "check"
        /\ class = << >>
        /\ statuses = << >>
        /\ global = [i \in Indices |-> Unclassified]
        /\ summary = NoSummary

DuplicateID == ~ IsInjective([i \in Indices |-> discovery.consumers[i].id])

(* "duplicate consumer ID": no result at all. *)
Reject == /\ phase = "check"
          /\ DuplicateID
          /\ phase' = "error"
          /\ UNCHANGED <<args, class, statuses, global, summary>>

Accept == /\ phase = "check"
          /\ ~ DuplicateID
          /\ phase' = "changes"
          /\ UNCHANGED <<args, class, statuses, global, summary>>

EvaluateChange ==
    /\ phase = "changes"
    /\ Len(class) < Len(migration)
    /\ LET results == ClassifyAll(discovery, policy, migration[Len(class) + 1])
       IN  /\ class' = Append(class, results)
           /\ statuses' = Append(statuses, statusForConsumers(discovery, results, policy))
           /\ global' = [i \in Indices |-> worseClassification(global[i], results[i])]
    /\ UNCHANGED <<args, phase, summary>>

Count(c) == Cardinality({i \in Indices : global[i] = c})

(* Mutant: progress among the consumers that are understood. *)
Progress_certainOnly ==
    LET ready == Count("MIGRATED") + Count("DUAL")
        affected == ready + Count("LEGACY_ONLY")
    IN  IF affected = 0 THEN 100 ELSE (ready * 100) \div affected

(* Integer division: 100 only when nothing is left. *)
Progress ==
    LET ready == Count("MIGRATED") + Count("DUAL")
        affected == ready + Count("LEGACY_ONLY") + Count("UNCERTAIN")
    IN  IF affected = 0 THEN 100 ELSE (ready * 100) \div affected

Summarize ==
    /\ phase = "changes"
    /\ Len(class) = Len(migration)
    /\ phase' = "done"
    /\ summary' = [status |-> statusForChanges(statuses, discovery.diagnostics),
                   totalConsumers |-> Len(discovery.consumers),
                   legacyOnly |-> Count("LEGACY_ONLY"),
                   migrated |-> Count("MIGRATED"),
                   dual |-> Count("DUAL"),
                   uncertain |-> Count("UNCERTAIN"),
                   unaffected |-> Count("UNAFFECTED") + Count(Unclassified),
                   progress |-> Progress]
    /\ UNCHANGED <<args, class, statuses, global>>

Next == Reject \/ Accept \/ EvaluateChange \/ Summarize

(* A pure function of its arguments, run to its end by one goroutine. *)
Spec == Init /\ [][Next]_vars /\ WF_vars(Next)

-----------------------------------------------------------------------------
(* Properties                                                               *)

TypeOK == /\ discovery \in Discoveries /\ migration \in Migrations /\ policy \in Policies
          /\ phase \in {"check", "changes", "done", "error"}
          /\ class \in Seq([Indices -> Classifications])
          /\ statuses \in Seq(Statuses)
          /\ global \in [Indices -> Classifications \cup {Unclassified}]
          /\ phase = "done" => summary.status \in Statuses

Ready == phase = "done" /\ summary.status = "READY"

(* An evidence chain from a series of the changed family to the consumer.   *)
DependsOn(id, symbol) ==
    \E n \in SymbolNodes(discovery) :
        /\ symbolsMatch(n, symbol)
        /\ IF policy.includeTransitive
             THEN id \in Reachable(SymbolNodes(discovery) \cup IDs(discovery), n, Edges(discovery))
             ELSE <<n, id>> \in Edges(discovery)

(* With the legacy gate on, no consumer at or above the threshold is left   *)
(* that depends on a symbol that goes away and on nothing that replaces it. *)
ReadyLeavesNoLegacyConsumer ==
    Ready /\ policy.failOnCriticalLegacyConsumer =>
        \A k \in DOMAIN migration, i \in Indices :
            LET c == discovery.consumers[i]
                change == migration[k]
            IN  criticalityRank(c.criticality) >= criticalityRank(Minimum(policy))
                  /\ DependsOn(c.id, change.from)
                    => change.to # NoSymbol /\ DependsOn(c.id, change.to)

(* One diagnostic of a required source is enough to prevent READY.          *)
RequiredFailurePreventsReady ==
    Ready => \A x \in discovery.diagnostics : ~ x.required

(* With the unknown gate on, no critical consumer is left whose use of a    *)
(* changed symbol is unresolved, unless it is known to use the old one.     *)
ReadyLeavesNoCriticalUnknown ==
    Ready /\ policy.failOnCriticalUnknown =>
        \A k \in DOMAIN migration, i \in Indices :
            LET c == discovery.consumers[i]
            IN  c.criticality = "critical" /\ Uncertain(discovery, c, migration[k])
                  => DependsOn(c.id, migration[k].from)

(* READY is safe, whichever change of the migration takes a symbol away,    *)
(* whichever way the evidence takes through recording rules, and whatever   *)
(* else was found or has failed: in all three senses above.                 *)
ReadyIsJustified == /\ ReadyLeavesNoLegacyConsumer
                    /\ RequiredFailurePreventsReady
                    /\ ReadyLeavesNoCriticalUnknown

(* A migration is blocked exactly when some consumer blocks some change:    *)
(* diagnostics never turn a definite blocker into a mere INCOMPLETE.        *)
BlockedExactlyWhenAConsumerBlocks ==
    phase = "done" =>
        (summary.status = "BLOCKED" <=>
            \E k \in DOMAIN migration, i \in Indices :
                Blocks(discovery.consumers[i], class[k][i], policy))

(* The summary agrees with the decision: what blocks shows among the legacy *)
(* consumers and keeps the progress under 100, and every consumer is        *)
(* counted once.                                                            *)
SummaryAgreesWithStatus ==
    phase = "done" =>
        /\ summary.legacyOnly + summary.migrated + summary.dual + summary.uncertain
             + summary.unaffected = summary.totalConsumers
        /\ summary.status = "BLOCKED" => summary.legacyOnly > 0
        /\ summary.progress = 100 <=> summary.legacyOnly + summary.uncertain = 0

(* Whatever the order of the changes, a consumer is summarised by its worst *)
(* classification.                                                          *)
GlobalIsWorst ==
    \A i \in Indices :
        LET seen == {class[k][i] : k \in DOMAIN class}
        IN  IF seen = {} THEN global[i] = Unclassified
            ELSE /\ global[i] \in seen
                 /\ \A c \in seen : ClassificationRank[c] <= ClassificationRank[global[i]]

(* docs/TESTING.md: the release gate proves "fail-closed behavior for       *)
(* unresolved critical queries".  With both gates on, a migration is READY  *)
(* only when no critical consumer has an unresolved use of a changed symbol.*)
UnresolvedCriticalFailsClosed ==
    Ready /\ policy.failOnCriticalUnknown /\ policy.failOnCriticalLegacyConsumer =>
        \A k \in DOMAIN migration, i \in Indices :
            LET c == discovery.consumers[i]
            IN  c.criticality = "critical" => ~ Uncertain(discovery, c, migration[k])
=============================================================================
