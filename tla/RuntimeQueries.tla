---------------------------- MODULE RuntimeQueries ----------------------------
(***************************************************************************)
(* The runtime-query adapter (adapters/runtimequeries): a log of executed  *)
(* PromQL is read line by line, restricted to a window that ends with its  *)
(* newest record, and aggregated by query.  Each query that was observed   *)
(* becomes a consumer.                                                     *)
(*                                                                         *)
(* The configuration has been validated: the format is one of the two and  *)
(* the window is not negative.  What the PromQL analyzer says of a query   *)
(* is a constant.                                                          *)
(***************************************************************************)
EXTENDS LoaderCall

CONSTANTS Queries, NoQuery,  \* the texts of queries; the empty text
          Analyses,          \* what pkg/promql finds in each query
          MaxRecords,        \* maxRuntimeQueryRecords
          Logs               \* the sources considered

NoTime == 0
Fields == {"httpRequest", "ruleGroup", "schemaVersion", "origin"}

(* Of a JSON line, what the decoders look at: an optional field is in       *)
(* "fields" when it is there and has a legal value.                         *)
Line == [shape : {"blank", "tooLong", "malformed", "object"},
         query : Queries \cup {NoQuery}, time : Nat, fields : SUBSET Fields]

Log == [adapter : {"runtime_queries"}, required : BOOLEAN,
        format : {"prometheus_query_log", "tmr_query_history"},
        window : Nat, criticality : Criticality, lines : Seq(Line)]

-----------------------------------------------------------------------------
(* decodeTMRQueryHistory is strict, decodePrometheusQueryLog is not. *)
Decodes(format, line) ==
    /\ line.shape = "object"
    /\ line.query # NoQuery
    /\ line.time # NoTime
    /\ format = "tmr_query_history" => line.fields = {"schemaVersion", "origin"}

originsOf(format, line) ==
    IF format = "tmr_query_history" THEN {"origin"}
    ELSE LET named == {o \in {"prometheus_api", "prometheus_rule_group"} :
                          /\ o = "prometheus_api" => "httpRequest" \in line.fields
                          /\ o = "prometheus_rule_group" => "ruleGroup" \in line.fields}
         IN  IF named = {} THEN {"prometheus_engine"} ELSE named

observedEvent(format, line, number) ==
    [query |-> line.query, time |-> line.time, line |-> number,
     origins |-> originsOf(format, line)]

-----------------------------------------------------------------------------
Init == /\ source \in Logs
        /\ work = [records |-> 0, events |-> << >>, aggregates |-> << >>]
        /\ Begin("lines", EmptyDiscovery)

(* The file cannot be opened or read, or is larger than 64 MiB. *)
Unreadable == /\ pc = "lines"
              /\ at = 0
              /\ Fail

(* Every round of the loop begins with a look at the context. *)
Stopped == /\ pc = "lines"
           /\ ctx = "ended"
           /\ at < Len(source.lines)
           /\ Fail

Reading == /\ pc = "lines"
           /\ ctx = "live"
           /\ at < Len(source.lines)

CurrentLine == source.lines[at + 1]

SkipBlank == /\ Reading
             /\ CurrentLine.shape = "blank"
             /\ at' = at + 1
             /\ UNCHANGED <<source, ctx, work, discovery, pc>>

Overflow == /\ Reading
            /\ CurrentLine.shape # "blank"
            /\ work.records = MaxRecords
            /\ discovery' = WithDiagnostic(discovery, <<"line", at + 1>>)
            /\ pc' = "aggregate"
            /\ at' = 0
            /\ UNCHANGED <<source, ctx, work>>

Reject == /\ Reading
          /\ CurrentLine.shape # "blank"
          /\ work.records < MaxRecords
          /\ ~ Decodes(source.format, CurrentLine)
          /\ discovery' = WithDiagnostic(discovery, <<"line", at + 1>>)
          /\ work' = [work EXCEPT !.records = @ + 1]
          /\ at' = at + 1
          /\ UNCHANGED <<source, ctx, pc>>

Accept == /\ Reading
          /\ work.records < MaxRecords
          /\ Decodes(source.format, CurrentLine)
          /\ work' = [work EXCEPT !.records = @ + 1,
                                  !.events = Append(@, observedEvent(source.format, CurrentLine, at + 1))]
          /\ at' = at + 1
          /\ UNCHANGED <<source, ctx, discovery, pc>>

EndOfFile == /\ pc = "lines"
             /\ at = Len(source.lines)
             /\ pc' = "aggregate"
             /\ at' = 0
             /\ UNCHANGED <<source, ctx, work, discovery>>

-----------------------------------------------------------------------------
anchorOf(events) == CHOOSE t \in {events[i].time : i \in DOMAIN events} :
                        \A i \in DOMAIN events : events[i].time <= t

(* Mutant: the events at the cutoff are outside of the window. *)
inWindow_open(event, anchor) == source.window = 0 \/ event.time + source.window > anchor

(* Not before anchor - window; a window of zero is all of the file. *)
inWindow(event, anchor) == source.window = 0 \/ event.time + source.window >= anchor

(* What an event changes in the aggregate of its query. *)
observe(aggregates, event) ==
    LET a == IF event.query \in DOMAIN aggregates THEN aggregates[event.query]
             ELSE [executionCount |-> 0, firstSeen |-> event.time, lastSeen |-> event.time,
                   latestLine |-> event.line, origins |-> {}]
        newer == \/ event.time > a.lastSeen
                 \/ event.time = a.lastSeen /\ event.line < a.latestLine
        b == [executionCount |-> a.executionCount + 1,
              firstSeen |-> IF event.time < a.firstSeen THEN event.time ELSE a.firstSeen,
              lastSeen |-> IF newer THEN event.time ELSE a.lastSeen,
              latestLine |-> IF newer THEN event.line ELSE a.latestLine,
              origins |-> a.origins \cup event.origins]
    IN  [q \in DOMAIN aggregates \cup {event.query} |->
            IF q = event.query THEN b ELSE aggregates[q]]

(* The loop over the events, those before the window and those in it. *)
Aggregating == pc = "aggregate" /\ at < Len(work.events)
CurrentEvent == work.events[at + 1]

SkipOld == /\ Aggregating
           /\ ~ inWindow(CurrentEvent, anchorOf(work.events))
           /\ at' = at + 1
           /\ UNCHANGED <<source, ctx, work, discovery, pc>>

Observe == /\ Aggregating
           /\ inWindow(CurrentEvent, anchorOf(work.events))
           /\ work' = [work EXCEPT !.aggregates = observe(@, CurrentEvent)]
           /\ at' = at + 1
           /\ UNCHANGED <<source, ctx, discovery, pc>>

(* appendAggregate: a query that is not understood is a consumer without    *)
(* references, and a diagnostic at its latest line.                         *)
queryConsumer(query) ==
    [id |-> query, criticality |-> IF source.criticality = "" THEN "high" ELSE source.criticality,
     unresolved |-> Analyses[query].unresolved]

queryReferences(query) ==
    {[consumer |-> query, symbol |-> r.symbol,
      requiresResolution |-> r.requiresResolution, scope |-> r.scope] :
        r \in IF Analyses[query].unresolved THEN {} ELSE ReferencesIn(Analyses[query])}

(* Sorted by query; nothing depends on the order. *)
AppendAggregates ==
    /\ pc = "aggregate"
    /\ at = Len(work.events)
    /\ LET queries == DOMAIN work.aggregates
       IN  discovery' =
             [discovery EXCEPT
                 !.consumers = [i \in DOMAIN Listed(queries) |-> queryConsumer(Listed(queries)[i])],
                 !.references = UNION {queryReferences(q) : q \in queries},
                 !.diagnostics = @ \cup {[required |-> source.required,
                                          place |-> <<"line", work.aggregates[q].latestLine>>] :
                                             q \in {q \in queries : Analyses[q].unresolved}}]
    /\ pc' = "loaded"
    /\ UNCHANGED <<source, ctx, at, work>>

Next == \/ Unreadable \/ Stopped \/ SkipBlank \/ Overflow \/ Reject \/ Accept \/ EndOfFile
        \/ SkipOld \/ Observe \/ AppendAggregates

Spec == Init /\ [][Next \/ Cancel]_vars

-----------------------------------------------------------------------------
(* Properties                                                               *)

TypeOK == /\ source \in Log
          /\ at \in 0 .. Len(source.lines)
          /\ pc \in {"lines", "aggregate", "loaded", "failed"}
          /\ work.records \in 0 .. MaxRecords
          /\ \A i \in DOMAIN work.events : work.events[i].line \in 1 .. Len(source.lines)
          /\ DOMAIN work.aggregates \subseteq Queries
          /\ DiscoveryOK

Records == {i \in DOMAIN source.lines : source.lines[i].shape # "blank"}
RecordNumber(i) == Cardinality({j \in Records : j <= i})
Observations ==
    {i \in Records : RecordNumber(i) <= MaxRecords /\ Decodes(source.format, source.lines[i])}
TimeOf(i) == source.lines[i].time
Recent == {i \in Observations :
             source.window > 0 => \A j \in Observations : TimeOf(j) <= TimeOf(i) + source.window}

(* No observation disappears in silence: in a log that was loaded, a record *)
(* is part of the evidence of its query, or is diagnosed itself, or comes   *)
(* after a diagnosed record limit, or is older than the window ending with  *)
(* the newest observation.  And the evidence of a query is exact: count,    *)
(* first and last time, origins, and the first line of the latest time.     *)
NoObservationIsLost ==
    pc = "loaded" =>
        LET of(q) == {i \in Recent : source.lines[i].query = q}
        IN  /\ \A i \in Records \ Observations :
                  \/ Diagnosed(<<"line", i>>)
                  \/ \E j \in Records : j < i /\ RecordNumber(j) > MaxRecords /\ Diagnosed(<<"line", j>>)
            /\ DOMAIN work.aggregates = {source.lines[i].query : i \in Recent}
            /\ {c.id : c \in Range(discovery.consumers)} = DOMAIN work.aggregates
            /\ \A q \in DOMAIN work.aggregates :
                  LET a == work.aggregates[q]
                  IN  /\ a.executionCount = Cardinality(of(q))
                      /\ \A i \in of(q) : TimeOf(i) \in a.firstSeen .. a.lastSeen
                      /\ \E i \in of(q) : TimeOf(i) = a.firstSeen
                      /\ a.latestLine \in of(q) /\ TimeOf(a.latestLine) = a.lastSeen
                      /\ \A i \in of(q) : i < a.latestLine => TimeOf(i) < a.lastSeen
                      /\ a.origins = UNION {originsOf(source.format, source.lines[i]) : i \in of(q)}
                      /\ Analyses[q].unresolved => Diagnosed(<<"line", a.latestLine>>)

(* The queries that, by the log, use what a change takes away, or may do    *)
(* so: one that is not understood or has a pattern may use anything.        *)
Concerned(change) ==
    {q \in {source.lines[i].query : i \in Recent} :
        \/ Analyses[q].unresolved
        \/ Analyses[q].patterns # {}
        \/ change.from \in Analyses[q].symbols}
=============================================================================
