------------------------------ MODULE Telemetry ------------------------------
(***************************************************************************)
(* The domain vocabulary (internal/domain): symbols, changes, consumers,   *)
(* references, productions and diagnostics as records, and the comparisons *)
(* of internal/readiness/evaluator.go that decide which evidence concerns  *)
(* which change.  Names are abstract; all that is known of their spelling  *)
(* is which name is another one followed by a series suffix.               *)
(***************************************************************************)
EXTENDS Naturals, Sequences

CONSTANTS Names,       \* metric, label and attribute names
          Suffixed,    \* pairs <<n, base>>: n is base + _bucket, _sum, _count or _created
          ConsumerIDs, \* identifiers of consumers
          NoName,      \* the empty parent of a symbol that has none
          NoSymbol     \* the nil To of a removal

ASSUME SuffixedAssumption == Suffixed \subseteq Names \X Names
ASSUME NoNameAssumption == NoName \notin Names

Domains == {"prometheus", "opentelemetry", "tempo"}
Kinds == {"metric", "label", "span_attribute", "resource_attribute"}

Symbol == [domain : Domains, kind : Kinds, parent : Names \cup {NoName}, name : Names]
ASSUME NoSymbolAssumption == NoSymbol \notin Symbol

Change == [from : Symbol, to : Symbol \cup {NoSymbol}]

(* "" is a criticality no source assigned. *)
Criticality == {"low", "medium", "high", "critical", ""}

Consumer == [id : ConsumerIDs, criticality : Criticality, unresolved : BOOLEAN]
Reference == [consumer : ConsumerIDs, symbol : Symbol,
              requiresResolution : BOOLEAN, scope : {"", "labels"}]
Production == [consumer : ConsumerIDs, symbol : Symbol]
Diagnostic == [required : BOOLEAN]

Discovery == [consumers : Seq(Consumer), references : SUBSET Reference,
              productions : SUBSET Production, diagnostics : SUBSET Diagnostic]

-----------------------------------------------------------------------------
(* A series of the family of base: histogram and summary series carry a     *)
(* suffix.  It is deliberately one way: old_count belongs to old.           *)
metricFamilyMatch(reference, base) ==
    reference = base \/ <<reference, base>> \in Suffixed

symbolsMatch(reference, changed) ==
    /\ reference.domain = changed.domain
    /\ reference.kind = changed.kind
    /\ CASE reference.domain = "prometheus" /\ reference.kind = "metric" ->
                metricFamilyMatch(reference.name, changed.name)
         [] reference.domain = "prometheus" /\ reference.kind = "label" ->
                /\ reference.name = changed.name
                /\ metricFamilyMatch(reference.parent, changed.parent)
         [] OTHER ->
                reference.name = changed.name /\ reference.parent = changed.parent

(* Whether an unresolved reference may hide a use of the changed symbol. *)
unresolvedReferenceApplies(reference, change) ==
    /\ reference.requiresResolution
    /\ \/ reference.scope # "labels"
       \/ /\ change.from.kind = "label"
          /\ reference.symbol.kind = "metric"
          /\ \/ metricFamilyMatch(reference.symbol.name, change.from.parent)
             \/ /\ change.to # NoSymbol
                /\ metricFamilyMatch(reference.symbol.name, change.to.parent)

criticalityRank(c) ==
    CASE c = "critical" -> 4 [] c = "high" -> 3 [] c \in {"medium", ""} -> 2
      [] c = "low" -> 1
=============================================================================
