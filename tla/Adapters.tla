------------------------------- MODULE Adapters -------------------------------
(***************************************************************************)
(* One call of one of the adapters that talk to services or read their     *)
(* exports, or of the ownership enrichment.  A source says which adapter   *)
(* it is for, and a behaviour runs that one.                               *)
(***************************************************************************)
EXTENDS Readiness, LoaderCall

CONSTANTS Queries, NoQuery, Analyses, MaxRecords, Logs,  \* see RuntimeQueries
          Manifests,                                     \* see TempoQueries
          ExpressionAnalyses, Services,                  \* see PersesUsage
          Owners, NoPath, NoPattern, NoOwner, NoConsumer, SortedPaths, Repositories, \* see Ownership
          Changes, Policies                              \* what the discovery is judged by

R == INSTANCE RuntimeQueries
T == INSTANCE TempoQueries
P == INSTANCE PersesUsage
O == INSTANCE Ownership

ASSUME MaxRecordsAssumption == MaxRecords \in Nat
ASSUME LogsAssumption == Logs \subseteq R!Log
ASSUME ManifestsAssumption == Manifests \subseteq T!Manifest

(* The attributes spelled out in an expression are names, as others are.    *)
ASSUME AttributesAssumption ==
    \A s \in Manifests : \A i \in DOMAIN s.queries : \A p \in T!Range(s.queries[i].parts) :
        T!IsAttribute(p) /\ T!IsClear(p) => p.name \in Names

ASSUME ServicesAssumption == Services \subseteq P!Service
ASSUME RepositoriesAssumption == \A s \in Repositories : O!IsRepository(s)

(* What the analyzer finds in a query are symbols, and patterns of names    *)
(* and labels of no metric, which are symbols to look at.                   *)
ASSUME AnalysesAssumption ==
    /\ Queries \subseteq ConsumerIDs
    /\ \A q \in Queries : /\ Analyses[q].unresolved \in BOOLEAN
                          /\ Analyses[q].symbols \subseteq Symbol
                          /\ Analyses[q].patterns \subseteq Symbol

(* So is what it finds in an expression; what is used is identified by kind *)
(* and name.                                                                *)
ASSUME ExpressionAnalysesAssumption ==
    ExpressionAnalyses \in Seq([symbols : SUBSET Symbol, patterns : SUBSET Symbol, unresolved : BOOLEAN])
ASSUME UsersAssumption == [kind : P!Rules \cup {"dashboard"}, name : Names] \subseteq ConsumerIDs

(* SortedPaths is an order of the paths, of which NoPath is none.           *)
ASSUME SortedPathsAssumption ==
    /\ SortedPaths \in Seq(O!Range(SortedPaths))
    /\ \A i, j \in DOMAIN SortedPaths : SortedPaths[i] = SortedPaths[j] => i = j
    /\ NoPath \notin O!Range(SortedPaths)

(* The paths of a repository are relative to its root. *)
ASSUME PathsAreRelative ==
    \A path \in O!Range(SortedPaths) : path \in Seq(O!Segments) /\ path[1] # "/"

ASSUME ChangesAssumption == Changes \subseteq Change
ASSUME PoliciesAssumption == Policies \subseteq Policy

Init == R!Init \/ T!Init \/ P!Init \/ O!Init

Next == R!Next \/ T!Next \/ P!Next \/ O!Next \/ Cancel

Spec == Init /\ [][Next]_vars

-----------------------------------------------------------------------------
(* Properties                                                               *)

Is(adapter) == source.adapter = adapter

(* The type invariant of whichever adapter runs. *)
TypeOK == /\ ctx \in {"live", "ended"}
          /\ Is("runtime_queries") => R!TypeOK
          /\ Is("tempo") => T!TypeOK
          /\ Is("perses_usage") => P!TypeOK
          /\ Is("ownership") => O!TypeOK

(* Each record of a query log is evidence, diagnosed or outside of the      *)
(* window, and the evidence of a query is exact (see RuntimeQueries).       *)
NoObservationIsLost == Is("runtime_queries") => R!NoObservationIsLost

(* The scanner finds the attributes an accepted expression was written with,*)
(* no others, and nothing that is not one (see TempoQueries).               *)
AttributesAreFound == Is("tempo") => T!AttributesAreFound

(* A loaded manifest has all of its queries, resolved only where Tempo and  *)
(* the scanner vouch for them (see TempoQueries).                           *)
QueriesAreAccounted == Is("tempo") => T!QueriesAreAccounted

(* What the metrics-usage endpoints said is what is found, in any order     *)
(* (see PersesUsage).                                                       *)
DiscoveryIsTheEvidence == Is("perses_usage") => P!DiscoveryIsTheEvidence

(* Source patterns mean what their reference definition says (see           *)
(* Ownership).                                                              *)
PatternsFindTheirFiles == Is("ownership") => O!PatternsFindTheirFiles

(* Precedence, last match and advisory failures (see Ownership).            *)
OwnerIsTheBestEvidence == Is("ownership") => O!OwnerIsTheBestEvidence

(* The consumers that, as the input says, use what the change takes away,   *)
(* or may do so.                                                            *)
Concerned(change) == CASE Is("runtime_queries") -> R!Concerned(change)
                       [] Is("tempo") -> T!Concerned(change)
                       [] Is("perses_usage") -> P!Concerned(change)
                       [] Is("ownership") -> {}

(* Whatever an adapter is told of a use of the old contract reaches the     *)
(* verdict, whichever endpoint, format or service told it: the consumer is  *)
(* never UNAFFECTED or MIGRATED; and where something is not understood of a *)
(* required source, the migration is not READY.                             *)
ConsumersReachTheVerdict ==
    pc = "loaded" => \A change \in Changes, policy \in Policies :
        LET class == ClassifyAll(discovery, policy, change)
        IN  /\ \A c \in Concerned(change) : \E i \in DOMAIN class :
                  discovery.consumers[i].id = c /\ class[i] \in {"LEGACY_ONLY", "DUAL", "UNCERTAIN"}
            /\ source.required /\ discovery.diagnostics # {} =>
                  statusForConsumers(discovery, class, policy) # "READY"
=============================================================================
