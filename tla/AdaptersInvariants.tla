-------------------------- MODULE AdaptersInvariants --------------------------
(***************************************************************************)
(* The inductive invariants of the calls of the adapters, on which the     *)
(* proofs in AdaptersProofs rest.                                          *)
(***************************************************************************)
EXTENDS Adapters

DiscoveryFields == {"consumers", "references", "productions", "diagnostics"}

(* The places the diagnostics of a discovery speak of. *)
PlacesOf(d) == {x.place : x \in d.diagnostics}

-----------------------------------------------------------------------------
(* Tempo                                                                    *)

(* The first mapping of an attribute, if there is one. *)
Maps(s, k, x) == T!KindOf(s.mappings[k].scope) = x.kind /\ s.mappings[k].tempo = x.name
FirstMapping(s, x) == {k \in DOMAIN s.mappings : Maps(s, k, x) /\ \A j \in 1 .. k - 1 : ~ Maps(s, j, x)}
Mapped(s, x) == {[domain |-> "opentelemetry", kind |-> x.kind, parent |-> NoName,
                  name |-> s.mappings[k].openTelemetry] : k \in FirstMapping(s, x)}

SymbolsOf(d, id, domain) ==
    {r.symbol : r \in {r \in d.references : r.consumer = id /\ r.symbol.domain = domain}}

(* What the first n queries of a manifest have left in d. *)
Accounted(s, d, accepted, n) ==
    /\ DOMAIN d = DiscoveryFields
    /\ d.consumers \in Seq(Consumer)
    /\ Len(d.consumers) = n
    /\ d.references \subseteq Reference
    /\ d.productions = {}
    /\ accepted \subseteq 1 .. n
    /\ \A i \in 1 .. n :
          /\ d.consumers[i].id = s.queries[i].id
          /\ d.consumers[i].unresolved = (<<"query", s.queries[i].id>> \in PlacesOf(d))
          /\ i \notin accepted => d.consumers[i].unresolved
          /\ SymbolsOf(d, s.queries[i].id, "opentelemetry")
                = UNION {Mapped(s, x) : x \in SymbolsOf(d, s.queries[i].id, "tempo")}
    /\ \A x \in d.diagnostics : x.required = s.required
    /\ \A p \in PlacesOf(d) : \E i \in 1 .. n : p = <<"query", s.queries[i].id>>
    /\ \A r \in d.references : \E i \in accepted : r.consumer = s.queries[i].id

(* The symbol of a Tempo attribute, those of the parts of an expression     *)
(* that are exact attributes, and whether a part leaves a doubt.            *)
AttributeOf(a) == [domain |-> "tempo", kind |-> T!KindOf(T!ScopeOf(a.scope)), parent |-> NoName, name |-> a.name]
AttributesOf(parts) == {AttributeOf(p) : p \in {p \in Range(parts) : T!IsAttribute(p) /\ T!IsClear(p)}}
Doubtful(parts) == \E p \in Range(parts) : ~ T!IsClear(p)

(* Each accepted expression has been read as what it was written with.      *)
Understood(s, d, accepted) ==
    \A i \in accepted : /\ SymbolsOf(d, s.queries[i].id, "tempo") = AttributesOf(s.queries[i].parts)
                        /\ d.consumers[i].unresolved <=> Doubtful(s.queries[i].parts)

Distinct(s) == \A i, j \in DOMAIN s.queries : s.queries[i].id = s.queries[j].id => i = j

TempoInv ==
    Is("tempo") =>
        /\ source \in Manifests
        /\ pc \in {"manifest", "queries", "asked", "loaded", "failed"}
        /\ at \in 0 .. Len(source.queries)
        /\ DOMAIN work = {"accepted"}
        /\ work.accepted \subseteq 1 .. at
        /\ pc = "manifest" => at = 0
        /\ pc = "asked" => at < Len(source.queries)
        /\ pc = "loaded" => at = Len(source.queries)
        /\ pc \in {"queries", "asked", "loaded"} => Distinct(source)
        /\ pc # "failed" => /\ Accounted(source, discovery, work.accepted, at)
                            /\ Understood(source, discovery, work.accepted)

-----------------------------------------------------------------------------
(* Runtime queries                                                          *)

(* The records of a log, those up to a line, and those that are events.     *)
Recorded(s) == {i \in DOMAIN s.lines : s.lines[i].shape # "blank"}
UpTo(s, n) == {i \in Recorded(s) : i <= n}
Legible(s, i) == R!Decodes(s.format, s.lines[i])
EventLines(s, n) == {i \in UpTo(s, n) : Legible(s, i)}
Observed(s) == {i \in Recorded(s) : Cardinality(UpTo(s, i)) <= MaxRecords /\ Legible(s, i)}

EventOf(s, i) == R!observedEvent(s.format, s.lines[i], i)

Origins == {"origin", "prometheus_api", "prometheus_rule_group", "prometheus_engine"}
Event == [query : Queries, time : Nat, line : Nat, origins : SUBSET Origins]

(* The events are those of the lines in S, in their order.                  *)
EventsOf(s, events, S) ==
    /\ events \in Seq(Event)
    /\ Len(events) <= Len(s.lines)
    /\ \A k \in DOMAIN events : events[k].line \in S /\ events[k] = EventOf(s, events[k].line)
    /\ \A j, k \in DOMAIN events : j < k => events[j].line < events[k].line
    /\ \A i \in S : \E k \in DOMAIN events : events[k].line = i

OnlyDiagnostics(s, d) ==
    /\ DOMAIN d = DiscoveryFields
    /\ d.consumers = << >> /\ d.references = {} /\ d.productions = {}
    /\ \A x \in d.diagnostics : x.required = s.required

(* What the first n lines of a log have left behind.                        *)
Scanned(s, records, events, d, n) ==
    /\ OnlyDiagnostics(s, d)
    /\ records = Cardinality(UpTo(s, n)) /\ records <= MaxRecords
    /\ EventsOf(s, events, EventLines(s, n))
    /\ Len(events) <= n
    /\ \A i \in UpTo(s, n) : ~ Legible(s, i) => <<"line", i>> \in PlacesOf(d)

(* Every record is an event or accounted for by a diagnostic.               *)
Accountable(s, d) ==
    \A i \in Recorded(s) \ Observed(s) :
        \/ <<"line", i>> \in PlacesOf(d)
        \/ \E j \in Recorded(s) : /\ j < i /\ Cardinality(UpTo(s, j)) > MaxRecords
                                  /\ <<"line", j>> \in PlacesOf(d)

(* The events of a query among the first m that are in the window.          *)
InWindow(s, events, k) == s.window = 0 \/ events[k].time + s.window >= R!anchorOf(events)
EventsIn(s, events, m) == {k \in 1 .. m : InWindow(s, events, k)}
EventsFor(s, events, m, q) == {k \in EventsIn(s, events, m) : events[k].query = q}

(* Their aggregate.                                                         *)
Aggregate == [executionCount : Nat, firstSeen : Nat, lastSeen : Nat, latestLine : Nat, origins : SUBSET Origins]
Exact(events, K, a) ==
    /\ a \in Aggregate
    /\ a.executionCount = Cardinality(K)
    /\ \A k \in K : a.firstSeen <= events[k].time /\ events[k].time <= a.lastSeen
    /\ \E k \in K : events[k].time = a.firstSeen
    /\ \E k \in K : events[k].time = a.lastSeen /\ events[k].line = a.latestLine
    /\ \A k \in K : events[k].line < a.latestLine => events[k].time < a.lastSeen
    /\ a.origins = UNION {events[k].origins : k \in K}

Aggregated(s, events, aggregates, m) ==
    /\ DOMAIN aggregates = {events[k].query : k \in EventsIn(s, events, m)}
    /\ \A q \in DOMAIN aggregates : Exact(events, EventsFor(s, events, m, q), aggregates[q])

FoundInLog(s, aggregates, d) ==
    /\ DOMAIN d = DiscoveryFields
    /\ d.consumers \in Seq(Consumer) /\ d.references \subseteq Reference /\ d.productions = {}
    /\ \A x \in d.diagnostics : x.required = s.required
    /\ {c.id : c \in Range(d.consumers)} = DOMAIN aggregates
    /\ \A c \in Range(d.consumers) : c.unresolved = Analyses[c.id].unresolved
    /\ \A q \in DOMAIN aggregates : R!queryReferences(q) \subseteq d.references
    /\ \A q \in DOMAIN aggregates :
          Analyses[q].unresolved => <<"line", aggregates[q].latestLine>> \in PlacesOf(d)

RuntimeInv ==
    Is("runtime_queries") =>
        /\ source \in Logs
        /\ pc \in {"lines", "aggregate", "loaded", "failed"}
        /\ DOMAIN work = {"records", "events", "aggregates"}
        /\ work.records \in 0 .. MaxRecords
        /\ pc \in {"lines", "failed"} => /\ at \in 0 .. Len(source.lines)
                                         /\ work.aggregates = << >>
                                         /\ OnlyDiagnostics(source, discovery)
        /\ pc = "lines" => Scanned(source, work.records, work.events, discovery, at)
        /\ pc = "failed" => \E d : Scanned(source, work.records, work.events, d, at)
        /\ pc = "aggregate" => /\ at \in 0 .. Len(work.events)
                               /\ OnlyDiagnostics(source, discovery)
        /\ pc = "loaded" => at = Len(work.events) /\ FoundInLog(source, work.aggregates, discovery)
        /\ pc \in {"aggregate", "loaded"} =>
              /\ EventsOf(source, work.events, Observed(source))
              /\ Accountable(source, discovery)
              /\ Aggregated(source, work.events, work.aggregates, at)

-----------------------------------------------------------------------------
(* Ownership                                                                *)

(* The files of a pattern, in the order of their names, and the first       *)
(* pattern that names a file.                                               *)
FilesOf(s, k) == O!Expand(DOMAIN s.files, s.metadata[k]).files
Named(s, n) == UNION {FilesOf(s, k) : k \in 1 .. n}
FirstNames(s, k, p) == p \in FilesOf(s, k) /\ \A j \in 1 .. k - 1 : p \notin FilesOf(s, j)
Position(p) == CHOOSE i \in DOMAIN SortedPaths : SortedPaths[i] = p

(* Rule r[3] of file r[2], which pattern r[1] is the first to name.         *)
IsRule(s, r) ==
    /\ r = <<r[1], r[2], r[3]>>
    /\ r[1] \in DOMAIN s.metadata /\ FirstNames(s, r[1], r[2])
    /\ s.files[r[2]].kind = "metadata"
    /\ r[3] \in DOMAIN s.files[r[2]].rules
Precedes(a, b) ==
    \/ a[1] < b[1]
    \/ a[1] = b[1] /\ Position(a[2]) < Position(b[2])
    \/ a[1] = b[1] /\ a[2] = b[2] /\ a[3] < b[3]

(* The rules that were loaded from some files come from where g says, in    *)
(* this order, and none of those of the files is missing.                   *)
Provenance(s, rules, loaded, g) ==
    /\ Len(rules) \in Nat /\ DOMAIN rules = 1 .. Len(rules) /\ DOMAIN g = DOMAIN rules
    /\ \A x \in DOMAIN rules : /\ IsRule(s, g[x]) /\ g[x][2] \in loaded
                               /\ rules[x] = s.files[g[x][2]].rules[g[x][3]]
    /\ \A x, y \in DOMAIN rules : x < y => Precedes(g[x], g[y])
    /\ \A r : IsRule(s, r) /\ r[2] \in loaded => \E x \in DOMAIN rules : g[x] = r

RulesAreFrom(s, rules, loaded) ==
    /\ rules \in Seq(O!MetadataRule)
    /\ \E g : Provenance(s, rules, loaded, g)

(* What a discovery keeps when it is enriched.                              *)
Advisory(s, d) ==
    /\ DOMAIN d = DiscoveryFields
    /\ d.consumers = s.discovery.consumers /\ d.references = s.discovery.references
    /\ d.productions = s.discovery.productions
    /\ \A x \in d.diagnostics \ s.discovery.diagnostics : x.required = FALSE

(* The lines of the CODEOWNERS file that counts.                            *)
Candidates(s) == IF s.codeownersPath # NoPath THEN <<s.codeownersPath>> ELSE O!SearchOrder
Counts(s, p) ==
    \E i \in DOMAIN Candidates(s) :
        /\ p = Candidates(s)[i] /\ p \in DOMAIN s.files
        /\ \A j \in 1 .. i - 1 : Candidates(s)[j] \notin DOMAIN s.files
LinesAreOf(s, lines) ==
    \/ /\ s.codeowners
       /\ \E p : Counts(s, p) /\ s.files[p].kind = "codeowners" /\ lines = s.files[p].lines
    \/ /\ ~ s.codeowners \/ \A p : Counts(s, p) => s.files[p].kind # "codeowners"
       /\ lines = << >>

(* The evidence of a consumer, given the rules and the lines.               *)
Owned(lines, c) == {i \in DOMAIN lines : lines[i].valid /\ O!pathMatches(lines[i].pattern, c.path)}
Ruled(rules, c) == {i \in DOMAIN rules : O!ruleMatches(rules[i], c)}
Tagged(s, c) ==
    IF s.dashboardTags THEN O!chooseEvidence(O!existingOwnerEvidence(c), O!tagEvidence(c.tags))
    ELSE O!existingOwnerEvidence(c)
Selected(s, rules, lines, c) ==
    IF Ruled(rules, c) # {} THEN O!metadataEvidence(rules[O!lastOf(Ruled(rules, c))])
    ELSE IF Owned(lines, c) # {}
      THEN O!chooseEvidence(Tagged(s, c), O!evidenceFromCodeowners(lines[O!lastOf(Owned(lines, c))]))
    ELSE Tagged(s, c)

OwnershipInv ==
    Is("ownership") =>
        /\ source \in Repositories
        /\ pc \in {"enrich", "metadata", "files", "codeowners", "consumers", "loaded", "failed"}
        /\ DOMAIN work = {"rules", "loaded", "codeowners", "evidence"}
        /\ Advisory(source, discovery)
        /\ work.loaded \subseteq DOMAIN source.files
        /\ RulesAreFrom(source, work.rules, work.loaded)
        /\ work.codeowners \in Seq(O!CodeownersLine)
        /\ \E S : work.evidence \in Seq(S)
        /\ Len(work.evidence) \in Nat /\ DOMAIN work.evidence = 1 .. Len(work.evidence)
        /\ Len(work.evidence) <= Len(source.consumers)
        /\ pc \in {"enrich", "metadata", "files", "codeowners"} => work.codeowners = << >> /\ work.evidence = << >>
        /\ pc = "enrich" => at = 0 /\ work.loaded = {}
        /\ pc \in {"metadata", "files", "codeowners", "consumers"} => source.enabled
        /\ pc = "metadata" => at \in 0 .. Len(source.metadata) /\ work.loaded = Named(source, at)
        /\ pc = "files" =>
              /\ at \in Nat /\ at < Len(source.metadata)
              /\ Named(source, at) \subseteq work.loaded /\ work.loaded \subseteq Named(source, at + 1)
              /\ \A p \in work.loaded, u \in FilesOf(source, at + 1) \ work.loaded :
                    FirstNames(source, at + 1, p) => Position(p) < Position(u)
        /\ pc = "codeowners" /\ ctx = "live" => work.loaded = Named(source, Len(source.metadata))
        /\ pc \in {"consumers", "loaded"} /\ (ctx = "live" \/ work.evidence # << >>) /\ source.enabled =>
              /\ work.loaded = Named(source, Len(source.metadata))
              /\ LinesAreOf(source, work.codeowners)
        /\ pc = "consumers" => at = Len(work.evidence)
        /\ pc = "loaded" /\ source.enabled => Len(work.evidence) = Len(source.consumers)
        /\ \A n \in DOMAIN work.evidence :
              work.evidence[n] = Selected(source, work.rules, work.codeowners, source.consumers[n])

(* The patterns that have been read without finding a file are diagnosed.   *)
Reported(s, d, n) == \A k \in 1 .. n : FilesOf(s, k) = {} => <<"pattern", s.metadata[k]>> \in PlacesOf(d)
ReportInv ==
    Is("ownership") =>
        /\ pc \in {"metadata", "files"} => Reported(source, discovery, at)
        /\ pc = "files" => FilesOf(source, at + 1) # {}
        /\ pc \in {"codeowners", "consumers"} /\ ctx = "live" =>
              Reported(source, discovery, Len(source.metadata))

-----------------------------------------------------------------------------
(* Perses                                                                   *)

EndpointNames == {"metrics", "partial", "pending"}
ConsumerKinds == P!Rules \cup {"dashboard"}
Expressions == {0} \cup DOMAIN ExpressionAnalyses

(* What is told of a use, and the references it stands for.                 *)
Telling == [id : [kind : ConsumerKinds, name : Names], expression : Expressions,
            metric : Names, partial : BOOLEAN]
ReferencesBy(u) == P!addUsageReference(u.id, u)

(* The state st of consumer id is what the tellings S say of it.            *)
StateIs(S, id, st) ==
    /\ st.unresolved \in BOOLEAN
    /\ \E u \in S : u.id = id /\ u.expression = st.expression
    /\ id.kind \in P!Rules => \A u \in S : u.id = id => st.expression <= u.expression
    /\ st.unresolved <=> id.kind \in P!Rules /\ \E u, v \in S : u.id = id /\ v.id = id /\ u.expression # v.expression
    /\ \A r : r \in st.references <=> \E u \in S : u.id = id /\ r \in ReferencesBy(u)

StatesAre(S, states, places) ==
    /\ S \subseteq Telling
    /\ IsFiniteSet(DOMAIN states)
    /\ \A id : id \in DOMAIN states <=> \E u \in S : u.id = id
    /\ \A id \in DOMAIN states : /\ StateIs(S, id, states[id])
                                 /\ states[id].unresolved => <<"consumer", id>> \in places

(* What the first n uses of an entry say of a target, and what the whole of *)
(* it says of some.                                                         *)
NamedUses(x, n) == {i \in DOMAIN x.usage : i <= n /\ x.usage[i].name # NoName}
ToldOf(x, t, n) == {P!Told(x.usage[i], t.metric, t.partial) : i \in NamedUses(x, n)}
ToldOfAll(x, ts) == UNION {ToldOf(x, t, Len(x.usage)) : t \in ts}

(* The entries of the answers, of the one that is being read the first n,   *)
(* and what the usable ones say.                                            *)
EntriesRead(s, answered, open, n) ==
    {q \in EndpointNames \X Nat : /\ q[1] \in answered /\ q[2] \in DOMAIN s.answers[q[1]]
                                  /\ q[1] = open => q[2] <= n}
EntryAt(s, q) == s.answers[q[1]][q[2]]
SaidBy(s, answered, open, n) ==
    UNION {P!UsesOf(q[1], EntryAt(s, q)) :
             q \in {q \in EntriesRead(s, answered, open, n) : P!Usable(EntryAt(s, q))}}

(* What they do not say has a diagnostic.                                   *)
HasNameless(x, n) == \E i \in DOMAIN x.usage : i <= n /\ x.usage[i].name = NoName
Complained(s, answered, open, n, places) ==
    \A q \in EntriesRead(s, answered, open, n) :
        \/ P!Usable(EntryAt(s, q)) /\ ~ HasNameless(EntryAt(s, q), Len(EntryAt(s, q).usage))
        \/ <<"metric", EntryAt(s, q).metric>> \in places

(* The discovery that is built of states and diagnostics.                   *)
ConsumerIs(id, st, c) ==
    c = [id |-> id, criticality |-> P!CriticalityOf(id), unresolved |-> st.unresolved \/ P!NotUnderstood(id, st)]
Built(s, states, d) ==
    /\ DOMAIN d = DiscoveryFields
    /\ d.consumers \in Seq(Consumer) /\ Len(d.consumers) = Cardinality(DOMAIN states)
    /\ \A c \in Range(d.consumers) : c.id \in DOMAIN states /\ ConsumerIs(c.id, states[c.id], c)
    /\ \A id \in DOMAIN states : \E c \in Range(d.consumers) : c.id = id
    /\ d.references \subseteq Reference
    /\ \A r : r \in d.references <=>
          \E id \in DOMAIN states : \E x \in states[id].references \cup P!expressionReferences(id, states[id]) :
             r = P!Owned(id, x)
    /\ d.productions \subseteq Production
    /\ {p.consumer : p \in d.productions} = {id \in DOMAIN states : id.kind = "recording_rule"}
    /\ \A id \in DOMAIN states : P!NotUnderstood(id, states[id]) => <<"consumer", id>> \in PlacesOf(d)
    /\ \A x \in d.diagnostics : x.required = s.required

(* The invariant, by program counter.                                       *)
StatesSay(S) == StatesAre(S, work.states, PlacesOf(discovery))
SaidSoFar == SaidBy(source, work.answered, P!Endpoint, work.entry)

PersesShape ==
    /\ source \in Services
    /\ pc \in {"metrics", "entries", "targets", "usage", "loaded", "failed"}
    /\ at \in 0 .. 3
    /\ DOMAIN work = {"states", "answered", "entry", "told", "target", "use"}
    /\ work.answered \subseteq EndpointNames
    /\ DOMAIN work.states \subseteq ConsumerIDs
    /\ \A i \in 1 .. 3 : P!Endpoints[i] \in work.answered => i <= at + 1
    /\ pc # "failed" =>
          \A i \in 1 .. at : P!Endpoints[i] \in work.answered \/ <<"endpoint", P!Endpoints[i]>> \in PlacesOf(discovery)
    /\ pc # "loaded" => OnlyDiagnostics(source, discovery)
    /\ pc = "loaded" => at = 3 /\ Built(source, work.states, discovery)

BetweenAnswers ==
    pc \in {"metrics", "loaded"} =>
        /\ \A i \in 1 .. 3 : P!Endpoints[i] \in work.answered => i <= at
        /\ StatesSay(SaidBy(source, work.answered, "none", 0))
        /\ Complained(source, work.answered, "none", 0, PlacesOf(discovery))

InAnswer ==
    pc \in {"entries", "targets", "usage"} =>
        /\ at < 3 /\ P!Endpoint \in work.answered
        /\ work.entry \in 0 .. Len(source.answers[P!Endpoint])
        /\ Complained(source, work.answered, P!Endpoint, work.entry, PlacesOf(discovery))

BetweenEntries == pc = "entries" => StatesSay(SaidSoFar)

InEntry ==
    pc \in {"targets", "usage"} =>
        /\ work.entry < Len(source.answers[P!Endpoint])
        /\ P!Usable(P!CurrentEntry)
        /\ work.told \subseteq P!Targets(P!Endpoint, P!CurrentEntry)
        /\ work.told # {} /\ HasNameless(P!CurrentEntry, Len(P!CurrentEntry.usage)) =>
              <<"metric", P!CurrentEntry.metric>> \in PlacesOf(discovery)

BetweenTargets == pc = "targets" => StatesSay(SaidSoFar \cup ToldOfAll(P!CurrentEntry, work.told))

InUsage ==
    pc = "usage" =>
        /\ work.target \in P!Targets(P!Endpoint, P!CurrentEntry)
        /\ work.use \in 0 .. Len(P!CurrentEntry.usage)
        /\ StatesSay((SaidSoFar \cup ToldOfAll(P!CurrentEntry, work.told))
                       \cup ToldOf(P!CurrentEntry, work.target, work.use))
        /\ work.told = {} =>
              /\ work.target.metric = P!CurrentEntry.metric
              /\ HasNameless(P!CurrentEntry, work.use) =>
                    <<"metric", P!CurrentEntry.metric>> \in PlacesOf(discovery)

PersesInv ==
    Is("perses_usage") => /\ PersesShape /\ BetweenAnswers /\ InAnswer /\ BetweenEntries
                          /\ InEntry /\ BetweenTargets /\ InUsage

-----------------------------------------------------------------------------
(* The types                                                                *)

(* What the invariants of the adapters leave open: the context, and what is *)
(* left of a manifest that was refused.                                     *)
TypeInv == /\ ctx \in {"live", "ended"}
           /\ Is("tempo") /\ pc = "failed" => OnlyDiagnostics(source, discovery)
===============================================================================
