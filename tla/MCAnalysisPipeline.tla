-------------------------- MODULE MCAnalysisPipeline --------------------------
(***************************************************************************)
(* A migration that renames a metric and a span attribute, over rule files,*)
(* query logs, a metrics-usage service and Tempo queries: each loader with *)
(* up to two sources, which may overlap, be unprepared, match nothing or   *)
(* fail to expand.                                                         *)
(***************************************************************************)
EXTENDS AnalysisPipeline

CONSTANTS old, new, attr, newattr, none, nosym, file1, file2, url1, url2,
          alert1, alert2, panel, query

MCNames == {old, new, attr, newattr}
MCConsumerIDs == {alert1, alert2, panel, query}
MCFiles == {file1, file2}
MCURLs == {url1, url2}

Metric(n) == [domain |-> "prometheus", kind |-> "metric", parent |-> none, name |-> n]
Span(n) == [domain |-> "opentelemetry", kind |-> "span_attribute", parent |-> none, name |-> n]

RenameBoth == <<[from |-> Metric(old), to |-> Metric(new)], [from |-> Span(attr), to |-> Span(newattr)]>>
MCMigrations == {RenameBoth}

Uses(c, symbols, unresolved) ==
    [consumers |-> <<[id |-> c, criticality |-> "critical", unresolved |-> unresolved]>>,
     references |-> {[consumer |-> c, symbol |-> s, requiresResolution |-> FALSE, scope |-> ""] :
                        s \in symbols},
     productions |-> {}, incomplete |-> unresolved]
Nothing == [consumers |-> << >>, references |-> {}, productions |-> {}, incomplete |-> FALSE]

Found(x) == CASE x[1] = "prometheus_rules" /\ x[2] = file1 -> Uses(alert1, {Metric(old)}, FALSE)
              [] x[1] = "prometheus_rules" /\ x[2] = file2 -> Uses(alert2, {Metric(new)}, FALSE)
              [] x[1] = "perses_usage" /\ x[2] = url1 -> Uses(panel, {Metric(new)}, FALSE)
              [] x[1] = "tempo_queries" /\ x[2] = file1 -> Uses(query, {Span(newattr)}, FALSE)
              [] OTHER -> Nothing

(* The first rule file: still on the old metric, moved, or not parsed. *)
Loads == ({"prometheus_rules", "runtime_queries", "tempo_queries"} \X MCFiles)
            \cup {<<"perses_usage", url1>>}
MCExtractions ==
    {[x \in Loads |->
        IF x = <<"prometheus_rules", file1>> THEN first ELSE Found(x)] :
      first \in {Found(<<"prometheus_rules", file1>>), Uses(alert1, {Metric(new)}, FALSE), Uses(alert1, {}, TRUE)}}

Over(files, required, url) ==
    [required |-> required, prepared |-> TRUE, url |-> url, files |-> files]
Unprepared == [required |-> TRUE, prepared |-> FALSE, url |-> url1, files |-> <<file1>>]

Configure(rules, logs, perses, tempo, mappings, ownership) ==
    [sources : {[st \in StageNames |->
                    CASE st = "prometheus_rules" -> r [] st = "runtime_queries" -> l
                      [] st = "perses_usage" -> p [] st = "tempo_queries" -> q
                      [] OTHER -> << >>] : r \in rules, l \in logs, p \in perses, q \in tempo},
     mappings : mappings,
     ownership : ownership,
     policy : {[failOnCriticalLegacyConsumer |-> TRUE, failOnCriticalUnknown |-> TRUE,
                minimumBlockingCriticality |-> "high", includeTransitive |-> TRUE]}]

None == {<< >>}

(* Up to two patterns of one loader, in every combination. *)
Pattern == {Over(<<file1>>, TRUE, url1), Over(<<file1>>, FALSE, url1),
            Over(<<file1, file2>>, TRUE, url1), Over(NoExpansion, FALSE, url1)}
RuleFilesOnly == Configure(BoundedSeq(Pattern, 2) \ None, None, None, None, {{}}, BOOLEAN)

(* Several loaders: one file in two of them, a service configured twice, a   *)
(* file validated by two Tempos, a pattern that matches nothing.            *)
AllLoaders ==
    Configure({<< >>, <<Over(<<file1>>, FALSE, url1), Over(<<file2, file1>>, TRUE, url1)>>},
              {<< >>, <<Over(<<file1>>, TRUE, url1)>>},
              {<< >>, <<Over(<< >>, FALSE, url1), Over(<< >>, TRUE, url1)>>},
              {<< >>, <<Unprepared>>, <<Over(<<file1>>, FALSE, url1), Over(<<file1>>, TRUE, url2)>>,
               <<Over(<< >>, FALSE, url1), Over(<<file1, file2>>, FALSE, url1)>>},
              {{}, {[scope |-> "span", name |-> attr], [scope |-> "span", name |-> newattr]}},
              {FALSE})

(* A valid configuration has at least one source. *)
MCConfigurations ==
    {c \in RuleFilesOnly \cup AllLoaders : \E st \in StageNames : c.sources[st] # << >>}
MCInvocations == {"analyze", "explain"}
=============================================================================
