----------------------------- MODULE WeaverMapping -----------------------------
(***************************************************************************)
(* The documents of a Weaver import (adapters/weaver): the items of a      *)
(* registry diff, normalised one by one, and the mapping that says of each *)
(* change what becomes of it in Prometheus, or why it is ignored.          *)
(***************************************************************************)
EXTENDS MigrationManifest

SourceKinds == {"attribute", "attribute_group", "entity", "event", "metric", "span"}
SourceTypes == {"renamed", "removed", "obsoleted", "uncategorized"}

(* A selector, which is also a normalised change. *)
SourceSelector == [kind : SourceKinds, type : SourceTypes, from : Names, to : Names \cup {NoName}]

(* The documents as they are decoded: any text may stand for a kind or a    *)
(* type, and any name may be missing.                                       *)
NoTarget == [kind |-> "none"]
Item == [type : STRING, name : Names \cup {NoName}, oldName : Names \cup {NoName},
         newName : Names \cup {NoName}, note : BOOLEAN]
Diff == [decodes : BOOLEAN, groups : [SourceKinds -> Seq(Item)]]
PrometheusSymbol == {d \in SymbolDocument : d.attribute = NoName}
PrometheusChange == [kind : STRING, metric : Names \cup {NoName}, from : PrometheusSymbol,
                     to : PrometheusSymbol \cup {NoDocument}]
MappingEntry == [id : ChangeIDs \cup {NoName},
                 weaver : [kind : STRING, type : STRING, from : Names \cup {NoName},
                           to : Names \cup {NoName}],
                 target : PrometheusChange \cup {NoTarget}, ignore : BOOLEAN]
Mapping == [decodes : BOOLEAN, entries : Seq(MappingEntry)]

(* The groups of a diff, in the order in which they are read; a V1 diff has *)
(* no attribute groups.                                                     *)
itemsOf(diff) ==
    LET group(kind) == [i \in DOMAIN diff.groups[kind] |->
                           [kind |-> kind, item |-> diff.groups[kind][i]]]
    IN  group("attribute") \o group("attribute_group") \o group("entity")
          \o group("event") \o group("metric") \o group("span")

-----------------------------------------------------------------------------
(* Of an item, the fields its type asks for. *)
HasFields(item) ==
    CASE item.type = "added" -> item.name # NoName
      [] item.type = "renamed" -> item.oldName # NoName /\ item.newName # NoName /\ item.note
      [] item.type = "removed" -> item.name # NoName
      [] item.type \in {"obsoleted", "uncategorized"} -> item.name # NoName /\ item.note
      [] OTHER -> FALSE

normalizeItem(kind, item) ==
    LET renamed == item.type = "renamed"
    IN  [kind |-> kind, type |-> item.type,
         from |-> IF renamed THEN item.oldName ELSE item.name,
         to |-> IF renamed THEN item.newName ELSE NoName]

-----------------------------------------------------------------------------
validSelector(selector) ==
    /\ selector.kind \in SourceKinds
    /\ selector.type \in SourceTypes
    /\ selector.from # NoName
    /\ selector.type = "renamed" <=> selector.to # NoName

(* Metrics become metrics and attributes labels, renames renames. *)
validatePrometheusTarget(source, target) ==
    /\ target.kind \in {"metric_rename", "metric_remove", "label_rename", "label_remove"}
    /\ LET onMetric == expectedSymbolKind(target.kind) = "metric"
           named(symbol) == IF onMetric THEN symbol.metric # NoName /\ symbol.label = NoName
                                        ELSE symbol.label # NoName /\ symbol.metric = NoName
       IN  /\ source.kind = IF onMetric THEN "metric" ELSE "attribute"
           /\ onMetric <=> target.metric = NoName
           /\ named(target.from)
           /\ isRename(target.kind) <=> source.type = "renamed"
           /\ IF isRename(target.kind) THEN target.to # NoDocument /\ named(target.to)
                                       ELSE target.to = NoDocument

validEntry(entry) ==
    /\ entry.id # NoName
    /\ validSelector(entry.weaver)
    /\ entry.ignore <=> entry.target = NoTarget
    /\ entry.target # NoTarget =>
          entry.weaver.type # "uncategorized" /\ validatePrometheusTarget(entry.weaver, entry.target)

(* Neither an identifier nor a selector is used twice. *)
validateMapping(entries) ==
    /\ entries # << >>
    /\ \A i \in DOMAIN entries : validEntry(entries[i])
    /\ IsInjective([i \in DOMAIN entries |-> entries[i].id])
    /\ IsInjective([i \in DOMAIN entries |-> entries[i].weaver])

(* An attribute is a label of the metric the entry names. *)
canonicalChange(entry) ==
    LET target == entry.target
        symbolOf(document) == toSymbol(document, "prometheus", expectedSymbolKind(target.kind), target.metric)
    IN  [id |-> entry.id, kind |-> target.kind, domain |-> "prometheus",
         from |-> symbolOf(target.from),
         to |-> IF target.to = NoDocument THEN NoSymbol ELSE symbolOf(target.to)]
=============================================================================
