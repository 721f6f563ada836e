--------------------------- MODULE MigrationManifest ---------------------------
(***************************************************************************)
(* The migration manifest (internal/config): a decoded document becomes a  *)
(* migration, which is validated twice.  ValidateMigration looks at the    *)
(* migration, wherever it comes from; validateDocumentShape looks at the   *)
(* fields of the document that its conversion ignores.                     *)
(*                                                                         *)
(* NoName is the empty string, and a field the document does not have.     *)
(***************************************************************************)
EXTENDS Telemetry, SequencesExt

CONSTANT ChangeIDs \* identifiers of changes
ASSUME ChangeIDsAssumption == NoName \notin ChangeIDs

(* Any text may stand for a domain.  Domains are texts; that they are in    *)
(* STRING is said because the provers do not know it of a string.           *)
DomainTexts == STRING \cup Domains

(* The target a removal does not have is not even a malformed symbol. *)
ASSUME NilAssumption ==
    NoSymbol \notin [domain : DomainTexts, kind : Kinds, parent : Names \cup {NoName},
                     name : Names \cup {NoName}]

(* expectedSymbolKind and isRename, for the supported kinds of change. *)
ChangeKinds == [metric_rename |-> "metric", metric_remove |-> "metric",
                label_rename |-> "label", label_remove |-> "label",
                span_attribute_rename |-> "span_attribute",
                span_attribute_remove |-> "span_attribute",
                resource_attribute_rename |-> "resource_attribute",
                resource_attribute_remove |-> "resource_attribute"]

isSupportedChangeKind(kind) == kind \in DOMAIN ChangeKinds
isRename(kind) == kind \in {"metric_rename", "label_rename", "span_attribute_rename",
                            "resource_attribute_rename"}
expectedSymbolKind(kind) == IF isSupportedChangeKind(kind) THEN ChangeKinds[kind] ELSE "metric"

domainSupportsKind(domain, kind) ==
    IF kind \in {"metric", "label"} THEN domain = "prometheus"
                                    ELSE domain \in {"opentelemetry", "tempo"}

-----------------------------------------------------------------------------
(* The fields of a symbol in a document, or NoDocument where there is none. *)
NoDocument == [metric |-> NoName, label |-> NoName, attribute |-> NoName, absent |-> TRUE]
SymbolDocument == [metric : Names \cup {NoName}, label : Names \cup {NoName},
                   attribute : Names \cup {NoName}, absent : {FALSE}]

(* Any text may stand for a kind, too, and any name may be missing. *)
ChangeDocument == [id : ChangeIDs \cup {NoName}, kind : STRING, domain : DomainTexts,
                   metric : Names \cup {NoName}, from : SymbolDocument,
                   to : SymbolDocument \cup {NoDocument}]
Document == [decodes : BOOLEAN, header : BOOLEAN, changes : Seq(ChangeDocument)]

toSymbol(document, domain, kind, metric) ==
    [domain |-> domain, kind |-> kind,
     parent |-> IF kind = "label" THEN metric ELSE NoName,
     name |-> CASE kind = "metric" -> document.metric
                [] kind = "label" -> document.label
                [] OTHER -> document.attribute]

toChange(change) ==
    LET symbolOf(document) ==
            toSymbol(document, change.domain, expectedSymbolKind(change.kind), change.metric)
    IN  [id |-> change.id, kind |-> change.kind, domain |-> change.domain,
         from |-> symbolOf(change.from),
         to |-> IF change.to = NoDocument THEN NoSymbol ELSE symbolOf(change.to)]

toMigration(document) ==
    [header |-> document.header, changes |-> [i \in DOMAIN document.changes |-> toChange(document.changes[i])]]

-----------------------------------------------------------------------------
validSymbol(symbol, domain, kind) ==
    /\ symbol.domain = domain
    /\ symbol.kind = kind
    /\ symbol.name # NoName
    /\ kind # "label" => symbol.parent = NoName

(* Mutant: a removal that says what comes instead is accepted. *)
validChange_anyTo(change) ==
    LET kind == expectedSymbolKind(change.kind)
    IN  /\ change.id # NoName
        /\ change.domain \in Domains
        /\ isSupportedChangeKind(change.kind)
        /\ domainSupportsKind(change.domain, kind)
        /\ validSymbol(change.from, change.domain, kind)
        /\ kind = "label" => change.from.parent # NoName
        /\ isRename(change.kind) => change.to # NoSymbol
        /\ change.to # NoSymbol =>
             /\ validSymbol(change.to, change.domain, kind)
             /\ change.from.name # change.to.name

validChange(change) ==
    LET kind == expectedSymbolKind(change.kind)
    IN  /\ change.id # NoName
        /\ change.domain \in Domains
        /\ isSupportedChangeKind(change.kind)
        /\ domainSupportsKind(change.domain, kind)
        /\ validSymbol(change.from, change.domain, kind)
        /\ kind = "label" => change.from.parent # NoName
        /\ IF isRename(change.kind)
             THEN /\ change.to # NoSymbol
                  /\ validSymbol(change.to, change.domain, kind)
                  /\ change.from.name # change.to.name
                  /\ kind = "label" => change.from.parent = change.to.parent
             ELSE change.to = NoSymbol

(* The header is the version, the kind and the name of the migration. *)
ValidateMigration(migration) ==
    /\ migration.header
    /\ migration.changes # << >>
    /\ \A i \in DOMAIN migration.changes : validChange(migration.changes[i])
    /\ IsInjective([i \in DOMAIN migration.changes |-> migration.changes[i].id])

-----------------------------------------------------------------------------
(* Mutant: the parent metric of a change that has none is not looked at. *)
validShape_anyParent(change) ==
    isSupportedChangeKind(change.kind) =>
        LET field == [metric |-> "metric", label |-> "label", span_attribute |-> "attribute",
                      resource_attribute |-> "attribute"][expectedSymbolKind(change.kind)]
        IN  \A f \in {"metric", "label", "attribute"} \ {field} :
               change.from[f] = NoName /\ change.to[f] = NoName

(* Fields that belong to another kind of change are refused, each by a      *)
(* check of its own.                                                        *)
validShape(change) ==
    isSupportedChangeKind(change.kind) =>
        LET kind == expectedSymbolKind(change.kind)
            field == CASE kind = "metric" -> "metric" [] kind = "label" -> "label"
                       [] OTHER -> "attribute"
        IN  /\ kind # "label" => change.metric = NoName
            /\ \A f \in {"metric", "label", "attribute"} \ {field} :
                  change.from[f] = NoName /\ change.to[f] = NoName

(* ParseMigration accepts the document: one document of known fields, in at *)
(* most a MiB.                                                              *)
Accepts(document) ==
    /\ document.decodes
    /\ ValidateMigration(toMigration(document))
    /\ \A i \in DOMAIN document.changes : validShape(document.changes[i])
=============================================================================
