------------------------------ MODULE LoaderCall ------------------------------
(***************************************************************************)
(* One call of an adapter by the engine (internal/analysis/engine.go): the *)
(* adapter walks over its input while the context may end, and returns a   *)
(* discovery or an error, of which the engine keeps a diagnostic.  The     *)
(* adapters that extend this module each have program counters of their    *)
(* own, so that one behaviour is a call of one adapter.                    *)
(*                                                                         *)
(* A diagnostic has, besides what Telemetry knows of it, the place in the  *)
(* input it speaks of.                                                     *)
(***************************************************************************)
EXTENDS Telemetry, FiniteSets, Functions

VARIABLES source,    \* the configured source and what it holds; .adapter names the adapter
          ctx,       \* "live" or "ended" (canceled, or its deadline has passed)
          at,        \* how many items of the current list of the input have been read
          work,      \* local variables of the adapter
          discovery, \* what has been found so far
          pc         \* step of the adapter; in the end "loaded" or "failed"

vars == <<source, ctx, at, work, discovery, pc>>

Whole == <<"source">>  \* the place of a diagnostic about the source itself

EmptyDiscovery == [consumers |-> << >>, references |-> {}, productions |-> {}, diagnostics |-> {}]

(* The elements of a set in the order a loader sorts them in, whichever     *)
(* that is.                                                                 *)
Listed(S) == CHOOSE f \in Bijection(1 .. Cardinality(S), S) : TRUE

Begin(first, found) == /\ ctx = "live"
                       /\ at = 0
                       /\ discovery = found
                       /\ pc = first

(* Mutant: the failures of a required source are optional. *)
WithDiagnostic_optional(d, place) ==
    [d EXCEPT !.diagnostics = @ \cup {[required |-> FALSE, place |-> place]}]

WithDiagnostic(d, place) ==
    [d EXCEPT !.diagnostics = @ \cup {[required |-> source.required, place |-> place]}]

Diagnosed(place) == place \in {x.place : x \in discovery.diagnostics}

(* Mutant: a pattern is a use like another. *)
ReferencesIn_confirmed(analysis) ==
    {[symbol |-> s, requiresResolution |-> FALSE, scope |-> ""] :
        s \in analysis.symbols \cup analysis.patterns}

(* pkg/promql of an expression: a reference to each symbol it names, and to *)
(* each pattern of names and label of no metric, which needs resolution.    *)
ReferencesIn(analysis) ==
    {[symbol |-> s, requiresResolution |-> FALSE, scope |-> ""] : s \in analysis.symbols}
      \cup {[symbol |-> s, requiresResolution |-> TRUE, scope |-> ""] : s \in analysis.patterns}

(* The adapter returns an error, and whatever it had found is dropped. *)
Fail == /\ pc' = "failed"
        /\ discovery' = WithDiagnostic(EmptyDiscovery, Whole)
        /\ UNCHANGED <<source, ctx, at, work>>

Cancel == /\ ctx = "live"
          /\ pc \notin {"loaded", "failed"}
          /\ ctx' = "ended"
          /\ UNCHANGED <<source, at, work, discovery, pc>>

(* The discovery of a source is made of the vocabulary of Telemetry, and    *)
(* its diagnostics are as required as the source.                           *)
DiscoveryOK == /\ discovery.consumers \in Seq(Consumer)
               /\ discovery.references \subseteq Reference
               /\ discovery.productions \subseteq Production
               /\ \A x \in discovery.diagnostics : x.required = source.required
=============================================================================
