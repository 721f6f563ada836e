--------------------------- MODULE MCMigrationInput ---------------------------
(***************************************************************************)
(* Manifests of one change in every combination of fields, and of two      *)
(* changes; diffs of one item in every form with one entry in every form,  *)
(* and diffs of two items with up to two entries.                          *)
(***************************************************************************)
EXTENDS MigrationInput

CONSTANTS a, b, m, none, nosym, first, second

MCNames == {a, b, m}
MCChangeIDs == {first, second}

Text(names, metric, label, attribute) ==
    {[metric |-> x, label |-> y, attribute |-> z, absent |-> FALSE] :
        x \in names \cap metric, y \in names \cap label, z \in names \cap attribute}
AnyText(names) == Text(names, names, names, names)
Sparse(n) == {d \in AnyText({none, n}) : Cardinality({f \in {"metric", "label", "attribute"} : d[f] # none}) <= 2}

-----------------------------------------------------------------------------
ChangeOf(id, k, d, metric, from, to) ==
    [id |-> id, kind |-> k, domain |-> d, metric |-> metric, from |-> from, to |-> to]
KindsOfChange == DOMAIN ChangeKinds \cup {"counter_rename"}

OneChange == {<<ChangeOf(id, k, d, metric, from, to)>> :
                 id \in {first}, k \in KindsOfChange, d \in Domains \cup {"datadog"},
                 metric \in {none, m}, from \in Sparse(a),
                 to \in Sparse(a) \cup Sparse(b) \cup {NoDocument}}

Renamed == [metric |-> a, label |-> none, attribute |-> none, absent |-> FALSE]
TwoChanges == {<<ChangeOf(i, k, "prometheus", none, Renamed, NoDocument),
                 ChangeOf(j, "metric_rename", "prometheus", none, Renamed, [Renamed EXCEPT !.metric = n])>> :
                 i, j \in {first, second, none}, k \in {"metric_remove", "metric_rename"}, n \in {a, b}}

ManifestOf(decodes, header, c) ==
    [via |-> "manifest", document |-> [decodes |-> decodes, header |-> header, changes |-> c]]
Manifests == {ManifestOf(TRUE, TRUE, c) : c \in OneChange \cup TwoChanges \cup {<< >>}}
               \cup {ManifestOf(d, h, c) : d, h \in BOOLEAN, c \in TwoChanges}

-----------------------------------------------------------------------------
ItemOf(t, n, o, w, note) == [type |-> t, name |-> n, oldName |-> o, newName |-> w, note |-> note]
AnyItem == {ItemOf(t, n, o, w, note) :
               t \in SourceTypes \cup {"added", "updated", "moved"}, n, o \in {none, a},
               w \in {none, b}, note \in BOOLEAN}
Rename == ItemOf("renamed", none, a, b, TRUE)
Removal == ItemOf("removed", a, none, none, FALSE)
Vague == ItemOf("uncategorized", b, none, none, TRUE)
Added == ItemOf("added", b, none, none, FALSE)

DiffOf(groups) ==
    [decodes |-> TRUE, groups |-> [k \in SourceKinds |-> IF k \in DOMAIN groups THEN groups[k] ELSE << >>]]
Single(k, item) == DiffOf([x \in {k} |-> <<item>>])

TargetOf(k, metric, from, to) == [kind |-> k, metric |-> metric, from |-> from, to |-> to]
PrometheusText(n) == {d \in Sparse(n) : d.attribute = none}
AnyTarget == {TargetOf(k, metric, from, to) :
                 k \in {"metric_rename", "metric_remove", "label_rename", "label_remove",
                        "span_attribute_remove"},
                 metric \in {none, m}, from \in PrometheusText(a),
                 to \in PrometheusText(a) \cup PrometheusText(b) \cup {NoDocument}}

EntryOf(id, selector, target, ignore) ==
    [id |-> id, weaver |-> selector, target |-> target, ignore |-> ignore]
MappingOf(entries) == [decodes |-> TRUE, entries |-> entries]
WeaverOf(diff, mapping) == [via |-> "weaver", diff |-> diff, mapping |-> mapping]

Named(n, l) == [metric |-> n, label |-> l, attribute |-> none, absent |-> FALSE]
TargetFor(s) ==
    CASE s.kind = "metric" /\ s.type = "renamed" -> TargetOf("metric_rename", none, Named(a, none), Named(b, none))
      [] s.kind = "metric" -> TargetOf("metric_remove", none, Named(a, none), NoDocument)
      [] s.type = "renamed" -> TargetOf("label_rename", m, Named(none, a), Named(none, b))
      [] OTHER -> TargetOf("label_remove", m, Named(none, a), NoDocument)

OneItem ==
    {WeaverOf(Single(k, item),
              MappingOf(<<EntryOf(first, normalizeItem("metric", Removal), TargetFor(normalizeItem("metric", Removal)), FALSE)>>)) :
        k \in {"metric", "span"}, item \in AnyItem}
      \cup {WeaverOf(Single(k, item), MappingOf(<<EntryOf(first, normalizeItem(k, item), target, ignore)>>)) :
               k \in {"metric", "attribute", "event"}, item \in {Rename, Removal, Vague},
               target \in AnyTarget, ignore \in {FALSE}}
      \cup {WeaverOf(Single("metric", item), MappingOf(<<EntryOf(first, normalizeItem("metric", item), target, ignore)>>)) :
               item \in {Rename, Removal, Vague},
               target \in {NoTarget, TargetOf("metric_remove", none, Named(a, none), NoDocument)},
               ignore \in BOOLEAN}

(* Up to two changes, in two groups or in one, and up to two entries, each  *)
(* for the first change, for the second, or for another one.                *)
TwoItems ==
    LET Diffs == {DiffOf([metric |-> <<i, j>>]) : i, j \in {Rename, Removal, Vague, Added}}
                   \cup {DiffOf([attribute |-> <<i>>, metric |-> <<j>>]) : i, j \in {Rename, Removal, Added}}
        Selectors == {normalizeItem("metric", i) : i \in {Rename, Removal, Vague}}
                       \cup {normalizeItem("attribute", i) : i \in {Rename, Removal}}
        Decisions(id) == {EntryOf(id, s, TargetFor(s), FALSE) : s \in Selectors}
                           \cup {EntryOf(id, s, NoTarget, TRUE) : s \in Selectors}
    IN  {WeaverOf(d, MappingOf(e)) :
            d \in Diffs, e \in {<<x, y>> : x \in Decisions(first), y \in Decisions(first) \cup Decisions(second)}
                                 \cup {<<x>> : x \in Decisions(first) \cup Decisions(none)} \cup {<< >>}}

Broken == {[WeaverOf(Single("metric", Removal), MappingOf(<< >>)) EXCEPT !.diff.decodes = d, !.mapping.decodes = ~ d] :
              d \in BOOLEAN}

AllInputs == UNION {Manifests, OneItem, TwoItems, Broken}
MCInputs == AllInputs
=============================================================================
