---------------------------- MODULE MCEvaluation ----------------------------
(***************************************************************************)
(* A recording rule, minor or not, and an alert around one metric rename.   *)
(* The rule may read either contract and may record a derived metric or    *)
(* the old name itself (a compatibility rule); the alert may read a series *)
(* of the old histogram, the new metric, the derived metric, or a pattern. *)
(***************************************************************************)
EXTENDS Evaluation

CONSTANTS old, old_count, new, rec, lab, newlab, pattern, none, nosym, rule, alert

MCNames == {old, old_count, new, rec, lab, newlab, pattern}
MCSuffixed == {<<old_count, old>>}
MCConsumerIDs == {rule, alert}

Metric(n) == [domain |-> "prometheus", kind |-> "metric", parent |-> none, name |-> n]
Label(m, n) == [domain |-> "prometheus", kind |-> "label", parent |-> m, name |-> n]

Renaming(m, n) == [from |-> Metric(m), to |-> Metric(n)]
Removal(m) == [from |-> Metric(m), to |-> nosym]
RenamingLabel(m, l, n) == [from |-> Label(m, l), to |-> Label(m, n)]

Confirmed(c, s) == [consumer |-> c, symbol |-> s, requiresResolution |-> FALSE, scope |-> ""]
Unresolved(c, s, sc) == [consumer |-> c, symbol |-> s, requiresResolution |-> TRUE, scope |-> sc]

ConsumersOf(ruleCrits, alertCrits, flags) ==
    {<<[id |-> rule, criticality |-> x, unresolved |-> FALSE],
       [id |-> alert, criticality |-> y, unresolved |-> u]>> :
          x \in ruleCrits, y \in alertCrits, u \in flags}

Twice == <<[id |-> alert, criticality |-> "critical", unresolved |-> FALSE],
           [id |-> alert, criticality |-> "critical", unresolved |-> FALSE]>>

Diagnostics == {{}, {[required |-> FALSE]}, {[required |-> TRUE], [required |-> FALSE]}}

(* BuildGraph has refused a reference or production of an unknown consumer. *)
GraphBuilds(d) == \A r \in d.references \cup d.productions : r.consumer \in IDs(d)

(* Metric changes. *)
MetricReferences ==
    {Confirmed(rule, Metric(old)), Confirmed(rule, Metric(new)),
     Confirmed(alert, Metric(old_count)), Confirmed(alert, Metric(new)),
     Confirmed(alert, Metric(rec)), Unresolved(alert, Metric(pattern), "")}
MetricDiscoveries ==
    {d \in
    [consumers : ConsumersOf({"low", "high"}, {"critical", ""}, BOOLEAN) \cup {Twice},
     references : SUBSET MetricReferences,
     productions : {{}, {[consumer |-> rule, symbol |-> Metric(rec)]},
                    {[consumer |-> rule, symbol |-> Metric(old)]}},
     diagnostics : Diagnostics] : GraphBuilds(d)}
ResolvedDiscoveries == {d \in MetricDiscoveries : \A i \in DOMAIN d.consumers : ~ d.consumers[i].unresolved}
MetricMigrations ==
    {<<Renaming(old, new)>>, <<Renaming(old, new), Removal(rec)>>}

(* Label changes, with the scoped uncertainty of remote evidence. *)
LabelReferences ==
    {Confirmed(rule, Label(old, lab)), Confirmed(rule, Label(old, newlab)),
     Confirmed(alert, Label(old_count, lab)), Confirmed(alert, Label(old, newlab)),
     Confirmed(alert, Metric(old)), Unresolved(alert, Metric(old_count), "labels"),
     Unresolved(alert, Label(none, lab), "")}
LabelDiscoveries ==
    [consumers : ConsumersOf({"medium"}, {"critical", "high"}, {FALSE}),
     references : SUBSET LabelReferences,
     productions : {{}},
     diagnostics : {{}}]
LabelMigrations ==
    {<<RenamingLabel(old, lab, newlab)>>, <<Renaming(old, new), RenamingLabel(old, lab, newlab)>>}

MCDiscoveries == MetricDiscoveries \cup LabelDiscoveries
MCMigrations == MetricMigrations \cup LabelMigrations

MCPolicies ==
    [failOnCriticalLegacyConsumer : BOOLEAN, failOnCriticalUnknown : BOOLEAN,
     minimumBlockingCriticality : {"", "medium"}, includeTransitive : BOOLEAN]
StrictPolicies ==
    {p \in MCPolicies : p.failOnCriticalUnknown /\ p.failOnCriticalLegacyConsumer}
=============================================================================
