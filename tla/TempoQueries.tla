----------------------------- MODULE TempoQueries -----------------------------
(***************************************************************************)
(* The Tempo adapter (adapters/tempo): each TraceQL expression of a query  *)
(* manifest is submitted to the parser of a remote Tempo, and when that    *)
(* accepts it, its attributes become references of the query and, through  *)
(* explicit mappings, of OpenTelemetry attributes.                         *)
(*                                                                         *)
(* The context carries a deadline that all files of the source share, so   *)
(* it may end between two queries and during any request.                  *)
(***************************************************************************)
EXTENDS LoaderCall, TraceQL

CONSTANT Manifests  \* the sources considered, with one manifest each

Scope == {"span", "resource"}
ScopeOf(prefix) == IF prefix = "span." THEN "span" ELSE "resource"

Query == [id : ConsumerIDs, criticality : Criticality, parts : Seq(Part)]
Mapping == [scope : Scope, openTelemetry : Names, tempo : Names]
Manifest == [adapter : {"tempo"}, required : BOOLEAN, criticality : Criticality,
             mappings : Seq(Mapping), readable : BOOLEAN, queries : Seq(Query)]

-----------------------------------------------------------------------------
Init == /\ source \in Manifests
        /\ work = [accepted |-> {}]  \* the queries Tempo has accepted
        /\ Begin("manifest", EmptyDiscovery)

DuplicateQuery == ~ IsInjective([i \in DOMAIN source.queries |-> source.queries[i].id])

(* The manifest cannot be read or decoded, or a query of it is not valid;   *)
(* LoadFile looks at the context first.                                     *)
RefuseManifest == /\ pc = "manifest"
                  /\ \/ ctx = "ended"
                     \/ ~ source.readable
                     \/ source.queries = << >>
                     \/ DuplicateQuery
                  /\ Fail

AcceptManifest == /\ pc = "manifest"
                  /\ ctx = "live"
                  /\ source.readable
                  /\ source.queries # << >>
                  /\ ~ DuplicateQuery
                  /\ pc' = "queries"
                  /\ UNCHANGED <<source, ctx, at, work, discovery>>

CurrentQuery == source.queries[at + 1]

(* Mutant: the loop is left without an error. *)
Stopped_silently == /\ pc = "queries"
                    /\ ctx = "ended"
                    /\ at < Len(source.queries)
                    /\ pc' = "loaded"
                    /\ UNCHANGED <<source, ctx, at, work, discovery>>

Stopped == /\ pc = "queries"
           /\ ctx = "ended"
           /\ at < Len(source.queries)
           /\ Fail

(* Validate sends the request of the next query. *)
Ask == /\ pc = "queries"
       /\ ctx = "live"
       /\ at < Len(source.queries)
       /\ pc' = "asked"
       /\ UNCHANGED <<source, ctx, at, work, discovery>>

queryConsumer(query, unresolved) ==
    [id |-> query.id, unresolved |-> unresolved,
     criticality |-> IF query.criticality # "" THEN query.criticality
                     ELSE IF source.criticality # "" THEN source.criticality ELSE "high"]

(* Tempo rejects the expression, or there is no answer in time. *)
Rejected == /\ pc = "asked"
            /\ discovery' = [WithDiagnostic(discovery, <<"query", CurrentQuery.id>>)
                               EXCEPT !.consumers = Append(@, queryConsumer(CurrentQuery, TRUE))]
            /\ at' = at + 1
            /\ pc' = "queries"
            /\ UNCHANGED <<source, ctx, work>>

KindOf(scope) == IF scope = "resource" THEN "resource_attribute" ELSE "span_attribute"
Use(query, domain, scope, name) ==
    [consumer |-> query.id, requiresResolution |-> FALSE, scope |-> "",
     symbol |-> [domain |-> domain, kind |-> KindOf(scope), parent |-> NoName, name |-> name]]

(* The Tempo attribute itself, and what the first mapping of it says. *)
appendReference(query, attribute) ==
    LET scope == ScopeOf(attribute.scope)
        hits == {k \in DOMAIN source.mappings : /\ source.mappings[k].scope = scope
                                                /\ source.mappings[k].tempo = attribute.name}
    IN  {Use(query, "tempo", scope, attribute.name)}
          \cup {Use(query, "opentelemetry", scope, source.mappings[k].openTelemetry) :
                    k \in {k \in hits : \A j \in hits : k <= j}}

(* Tempo accepts it: its parser has vouched for the syntax the scanner      *)
(* relies on.                                                               *)
Accepted ==
    /\ pc = "asked"
    /\ ctx = "live"
    /\ LET query == CurrentQuery
           analysis == Analyze(Expression(query.parts))
           unresolved == analysis.unresolved # {}
           found == IF unresolved THEN WithDiagnostic(discovery, <<"query", query.id>>) ELSE discovery
       IN  discovery' =
             [found EXCEPT !.consumers = Append(@, queryConsumer(query, unresolved)),
                           !.references = @ \cup UNION {appendReference(query, a) :
                                                          a \in analysis.references}]
    /\ work' = [work EXCEPT !.accepted = @ \cup {at + 1}]
    /\ at' = at + 1
    /\ pc' = "queries"
    /\ UNCHANGED <<source, ctx>>

EndOfManifest == /\ pc = "queries"
                 /\ at = Len(source.queries)
                 /\ pc' = "loaded"
                 /\ UNCHANGED <<source, ctx, at, work, discovery>>

Next == \/ RefuseManifest \/ AcceptManifest \/ Stopped \/ Ask \/ Rejected \/ Accepted
        \/ EndOfManifest

Spec == Init /\ [][Next \/ Cancel]_vars

-----------------------------------------------------------------------------
(* Properties                                                               *)

TypeOK == /\ at \in 0 .. Len(source.queries)
          /\ work.accepted \subseteq 1 .. at
          /\ pc \in {"manifest", "queries", "asked", "loaded", "failed"}
          /\ DiscoveryOK

ReferencesOf(query, domain) ==
    {r.symbol : r \in {r \in discovery.references : r.consumer = query.id /\ r.symbol.domain = domain}}
ConsumerOf(query) == {c \in Range(discovery.consumers) : c.id = query.id}

(* The scanner inverts the writing of an expression: of a query that Tempo  *)
(* accepted, the references are exactly the span and resource attributes it *)
(* was made of, quoted, escaped or plain, next to whatever strings that     *)
(* look like attributes; and it is unresolved exactly when it has a         *)
(* template, an unscoped attribute or one of another scope.                 *)
AttributesAreFound ==
    \A i \in work.accepted :
        LET query == source.queries[i]
            exact == {p \in Range(query.parts) : IsAttribute(p) /\ IsClear(p)}
        IN  pc # "failed" =>
              /\ ReferencesOf(query, "tempo") =
                    {[domain |-> "tempo", kind |-> KindOf(ScopeOf(p.scope)), parent |-> NoName,
                      name |-> p.name] : p \in exact}
              /\ \A c \in ConsumerOf(query) :
                    c.unresolved <=> \E p \in Range(query.parts) : ~ IsClear(p)

(* A manifest that was loaded is complete: every query is one consumer; it  *)
(* is resolved only if Tempo accepted it, and has a diagnostic otherwise;   *)
(* nothing is concluded from an expression Tempo did not accept; and an     *)
(* OpenTelemetry attribute is used exactly through the first mapping of a   *)
(* Tempo attribute of the same scope.  A deadline never makes a manifest    *)
(* shorter.                                                                 *)
QueriesAreAccounted ==
    pc = "loaded" =>
        /\ Len(discovery.consumers) = Len(source.queries)
        /\ \A i \in DOMAIN source.queries :
              LET query == source.queries[i]
                  used == ReferencesOf(query, "tempo")
                  Maps(k, s) == /\ KindOf(source.mappings[k].scope) = s.kind
                                /\ source.mappings[k].tempo = s.name
                  first(s) == {k \in DOMAIN source.mappings :
                                 Maps(k, s) /\ \A j \in 1 .. k - 1 : ~ Maps(j, s)}
              IN  /\ Cardinality(ConsumerOf(query)) = 1
                  /\ \A c \in ConsumerOf(query) :
                        c.unresolved = Diagnosed(<<"query", query.id>>)
                  /\ i \notin work.accepted => Diagnosed(<<"query", query.id>>) /\ used = {}
                  /\ ReferencesOf(query, "opentelemetry") =
                        UNION {{[domain |-> "opentelemetry", kind |-> s.kind, parent |-> NoName,
                                 name |-> source.mappings[k].openTelemetry] : k \in first(s)} : s \in used}

(* An attribute of the expression stands for itself and for what the first  *)
(* mapping of it says.                                                      *)
Means(part, symbol) ==
    LET kind == KindOf(ScopeOf(part.scope))
        Maps(k) == KindOf(source.mappings[k].scope) = kind /\ source.mappings[k].tempo = part.name
    IN  \/ symbol = [domain |-> "tempo", kind |-> kind, parent |-> NoName, name |-> part.name]
        \/ \E k \in DOMAIN source.mappings :
              /\ Maps(k) /\ \A j \in 1 .. k - 1 : ~ Maps(j)
              /\ symbol = [domain |-> "opentelemetry", kind |-> kind, parent |-> NoName,
                            name |-> source.mappings[k].openTelemetry]

(* The queries that, by the manifest and by what Tempo says of it, use what *)
(* a change takes away, or may do so.                                       *)
Concerned(change) ==
    {source.queries[i].id : i \in {i \in DOMAIN source.queries :
        \/ i \notin work.accepted
        \/ \E p \in Range(source.queries[i].parts) :
              ~ IsClear(p) \/ (IsAttribute(p) /\ Means(p, change.from))}}
=============================================================================
