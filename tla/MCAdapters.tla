------------------------------ MODULE MCAdapters ------------------------------
(***************************************************************************)
(* Sources for each adapter and repositories for the ownership enrichment. *)
(* What a call finds is judged by strict policies.                         *)
(***************************************************************************)
EXTENDS Adapters

CONSTANTS old, new, any, lab, newlab, attr, none, nosym,
          readsOld, readsNew, opaque, noQuery, q1, q2,
          team, guild, noOwner, noConsumer, noPath, noPattern, panel

(* Attributes as Tempo spells them are sequences of tokens. *)
PlainName == <<"a">>
DottedName == <<"a", ".", "b">>
SpacedName == <<"a", " ", "doublequote", "backslash">>
TemplateName == <<"$", "a">>

MCNames == {old, new, any, lab, newlab, attr, PlainName, DottedName, SpacedName}
MCSuffixed == {}
MCConsumerIDs == {readsOld, readsNew, opaque, q1, q2, panel}
                   \cup [kind : {"dashboard", "recording_rule", "alert_rule"}, name : MCNames]

MetricOf(n) == [domain |-> "prometheus", kind |-> "metric", parent |-> none, name |-> n]
LabelOf(m, n) == [domain |-> "prometheus", kind |-> "label", parent |-> m, name |-> n]
ResourceOf(n) == [domain |-> "tempo", kind |-> "resource_attribute", parent |-> none, name |-> n]
AttributeOf(d, n) == [domain |-> d, kind |-> "span_attribute", parent |-> none, name |-> n]

-----------------------------------------------------------------------------
(* Runtime queries: logs of four lines.  One query reads the new metric and *)
(* whatever matches a pattern of names.                                     *)
MCQueries == {readsOld, readsNew, opaque}
MCAnalyses == [q \in MCQueries |->
    CASE q = readsOld -> [symbols |-> {MetricOf(old)}, patterns |-> {}, unresolved |-> FALSE]
      [] q = readsNew -> [symbols |-> {MetricOf(new)}, patterns |-> {MetricOf(any)}, unresolved |-> FALSE]
      [] q = opaque -> [symbols |-> {MetricOf(old)}, patterns |-> {}, unresolved |-> TRUE]]

LineOf(s, q, t, f) == [shape |-> s, query |-> q, time |-> t, fields |-> f]
Executed == {LineOf("object", readsOld, t, {"httpRequest"}) : t \in {1, 2, 3}}
              \cup {LineOf("object", readsOld, 2, {"ruleGroup"}),
                    LineOf("object", opaque, 2, {}), LineOf("object", readsNew, 3, {"httpRequest"})}
Useless == {LineOf("blank", noQuery, 0, {}), LineOf("tooLong", noQuery, 0, {}),
            LineOf("object", readsOld, 0, {})}
History == {LineOf("object", q, t, {"schemaVersion", "origin"}) : q \in {readsOld, noQuery}, t \in {1, 2}}
             \cup {LineOf("object", readsOld, 2, {"origin"}), LineOf("malformed", noQuery, 0, {})}

LogOf(format, window, lines) ==
    [adapter |-> "runtime_queries", required |-> TRUE, format |-> format, window |-> window,
     criticality |-> "", lines |-> lines]
MCLogs == {LogOf("prometheus_query_log", w, l) : w \in {0, 1}, l \in [1 .. 4 -> Executed \cup Useless]}
            \cup {LogOf("tmr_query_history", 1, l) : l \in [1 .. 2 -> History]}

-----------------------------------------------------------------------------
(* Tempo: every expression of up to three parts, and manifests of two       *)
(* simple queries.                                                          *)
PartOf(k, s, n) == [kind |-> k, scope |-> s, name |-> n]
Attributes == {PartOf("attribute", "span.", PlainName), PartOf("attribute", "resource.", DottedName),
               PartOf("quotedAttribute", "span.", SpacedName)}
MCParts == Attributes \cup
    {PartOf("attribute", "event.", PlainName), PartOf("attribute", ".", PlainName),
     PartOf("attribute", "span.", TemplateName), PartOf("word", ".", TemplateName),
     PartOf("word", ".", <<"a", ".", "span.", "b">>),
     PartOf("string", ".", <<"span.", "b", "doublequote", " ", "span.", "b">>),
     PartOf("rawString", ".", <<"span.", "b", "backslash">>)}

QueryOf(id, c, parts) == [id |-> id, criticality |-> c, parts |-> parts]
MappingOf(s, t) == [scope |-> s, openTelemetry |-> t, tempo |-> PlainName]
ManifestOf(mappings, readable, queries) ==
    [adapter |-> "tempo", required |-> TRUE, criticality |-> "", mappings |-> mappings,
     readable |-> readable, queries |-> queries]

MCManifests ==
    {ManifestOf(<< >>, TRUE, <<QueryOf(q1, "", parts)>>) : parts \in [1 .. 3 -> MCParts]}
      \cup {ManifestOf(m, r, <<QueryOf(q1, "low", <<a>>), QueryOf(id, "", <<b, c>>)>>) :
              m \in {<<MappingOf("resource", old), MappingOf("span", attr), MappingOf("span", old)>>},
              r \in BOOLEAN, id \in {q1, q2}, a \in Attributes, b \in MCParts, c \in Attributes}

-----------------------------------------------------------------------------
(* Perses: a dashboard, a recording rule told with two expressions and an   *)
(* alert, under the old metric, the new one or a pattern; an expression     *)
(* groups by a label of no metric.                                          *)
MCExpressionAnalyses ==
    <<[symbols |-> {MetricOf(old), LabelOf(old, lab)}, patterns |-> {}, unresolved |-> FALSE],
      [symbols |-> {MetricOf(new)}, patterns |-> {LabelOf(none, lab)}, unresolved |-> FALSE],
      [symbols |-> {}, patterns |-> {}, unresolved |-> TRUE]>>

UseOf(k, n, e) == [kind |-> k, name |-> n, expression |-> e]
Board == UseOf("dashboard", old, 0)
MCUsages == {<< >>, <<Board>>, <<Board, UseOf("alert_rule", new, 1)>>,
             <<UseOf("recording_rule", new, 2), UseOf("dashboard", none, 0)>>,
             <<UseOf("recording_rule", new, 1), UseOf("alert_rule", old, 0)>>,
             <<UseOf("recording_rule", new, 3)>>}
EntryOf(m, null, u, ms) == [metric |-> m, null |-> null, usage |-> u, matching |-> ms]
Exact == {<< >>, <<EntryOf(none, FALSE, << >>, {}), EntryOf(old, TRUE, << >>, {})>>}
           \cup {<<EntryOf(old, FALSE, u, {}), EntryOf(new, FALSE, v, {})>> : u, v \in MCUsages}
Matching == {<< >>, <<EntryOf(lab, TRUE, << >>, {})>>}
              \cup {<<EntryOf(lab, FALSE, u, ms)>> : u \in MCUsages, ms \in SUBSET {old, none}}
Pending == {<< >>, <<EntryOf(none, FALSE, << >>, {})>>}
             \cup {<<EntryOf(old, FALSE, u, {})>> : u \in MCUsages}

MCServices ==
    {[adapter |-> "perses_usage", required |-> TRUE,
      answers |-> [metrics |-> m, partial |-> p, pending |-> q]] : m \in Exact, p \in Matching, q \in Pending}

-----------------------------------------------------------------------------
(* Ownership: the consumer may have any evidence; the second one has none   *)
(* but a metadata rule.                                                     *)
Root == <<"x">>
Deep == <<"d", "x">>
Deeper == <<"d", "d", "x">>
GitHub == <<".github", "CODEOWNERS">>
MCOwners == {team, guild}
MCSortedPaths == <<GitHub, <<"CODEOWNERS">>, Deeper, Deep, Root>>

FileOf(k, rules, lines) == [kind |-> k, rules |-> rules, lines |-> lines]
Glob(s, a, d) == [segments |-> s, anchored |-> a, directoryOnly |-> d]
RuleOf(p, c, t, o) == [path |-> p, consumer |-> c, tag |-> t, owner |-> o]
CodeOf(v, p, os) == [valid |-> v, pattern |-> p, owners |-> os]

MetadataFile == {FileOf("broken", << >>, << >>),
                 FileOf("metadata", <<RuleOf(noPattern, panel, noOwner, team)>>, << >>),
                 FileOf("metadata", <<RuleOf(noPattern, noConsumer, team, team),
                                      RuleOf(Glob(<<"d", "**">>, FALSE, FALSE), noConsumer, noOwner, guild)>>,
                        << >>)}
CodeownersFile == {FileOf("directory", << >>, << >>),
                   FileOf("codeowners", << >>,
                          <<CodeOf(TRUE, Glob(<<"x">>, FALSE, FALSE), {guild}),
                            CodeOf(TRUE, Glob(<<"d">>, TRUE, TRUE), {})>>),
                   FileOf("codeowners", << >>,
                          <<CodeOf(TRUE, Glob(<<"*">>, FALSE, FALSE), {team, guild}),
                            CodeOf(FALSE, Glob(<<"d">>, TRUE, TRUE), {}),
                            CodeOf(TRUE, Glob(<<"d", "*">>, FALSE, FALSE), {guild})>>)}
Trees == {[p \in {Root, Deep, Deeper} |-> CASE p = Root -> m [] p = Deep -> n [] p = Deeper -> n] :
            m, n \in MetadataFile}
           \cup {[p \in {GitHub, <<"CODEOWNERS">>, Deep} |->
                    CASE p = GitHub -> g [] p = <<"CODEOWNERS">> -> c [] p = Deep -> m] :
                   g, c \in CodeownersFile, m \in MetadataFile}

MetadataPatterns == {<< >>, <<<<"**", "x">>>>, <<<<"d">>, <<"*">>>>, <<<<"d", "**", "**", "x">>, <<"x">>>>}
Evidence == [consumers |-> <<[id |-> panel, criticality |-> "high", unresolved |-> FALSE],
                             [id |-> q1, criticality |-> "", unresolved |-> TRUE]>>,
             references |-> {}, productions |-> {},
             diagnostics |-> {[required |-> TRUE, place |-> Whole]}]

MCRepositories ==
    {[adapter |-> "ownership", required |-> FALSE, enabled |-> e, dashboardTags |-> TRUE,
      codeowners |-> TRUE, codeownersPath |-> c, metadata |-> m, files |-> f, discovery |-> Evidence,
      consumers |-> <<[id |-> panel, path |-> p, tags |-> t, owner |-> o],
                      [id |-> q1, path |-> noPath, tags |-> {}, owner |-> noOwner]>>] :
        e \in {TRUE}, c \in {noPath, <<"CODEOWNERS">>}, m \in MetadataPatterns, f \in Trees,
        p \in {noPath, Root, Deep}, t \in {{}, {team}, {team, guild}}, o \in {noOwner, guild}}
      \cup {[adapter |-> "ownership", required |-> FALSE, enabled |-> e, dashboardTags |-> FALSE,
             codeowners |-> FALSE, codeownersPath |-> noPath, metadata |-> << >>, files |-> << >>,
             discovery |-> Evidence,
             consumers |-> <<[id |-> panel, path |-> noPath, tags |-> {team}, owner |-> noOwner]>>] :
                e \in BOOLEAN}

-----------------------------------------------------------------------------
(* Changes, and policies that count transitive impact or do not.            *)
MCChanges == {[from |-> MetricOf(old), to |-> MetricOf(new)],
              [from |-> LabelOf(old, lab), to |-> LabelOf(old, newlab)],
              [from |-> ResourceOf(DottedName), to |-> ResourceOf(SpacedName)],
              [from |-> AttributeOf("opentelemetry", attr), to |-> nosym]}
MCPolicies == [failOnCriticalLegacyConsumer : {TRUE}, failOnCriticalUnknown : {TRUE},
               minimumBlockingCriticality : {"high"}, includeTransitive : BOOLEAN]
=============================================================================
