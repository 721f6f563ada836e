-------------------------- MODULE MigrationInputProofs --------------------------
(***************************************************************************)
(* Proofs about the loading of a migration, for every manifest, every diff *)
(* and every mapping.                                                      *)
(***************************************************************************)
EXTENDS MigrationInput, FiniteSetTheorems, FunctionTheorems, SequenceTheorems, TLAPS

LEMMA EmptyDomain ==
    ASSUME NEW S, NEW s \in Seq(S)
    PROVE  s = << >> <=> DOMAIN s = {}
<1>1. Len(s) \in Nat /\ DOMAIN s = 1 .. Len(s)
  BY LenProperties
<1>2. s = << >> <=> Len(s) = 0
  BY <1>1, EmptySeq
<1>3. Len(s) # 0 => Len(s) \in 1 .. Len(s)
  BY <1>1
<1>4. 1 .. 0 = {}
  OBVIOUS
<1> QED
  BY <1>1, <1>2, <1>3, <1>4

-----------------------------------------------------------------------------
(* The manifest                                                             *)

LEMMA KindFacts ==
    /\ \A k : isSupportedChangeKind(k) <=>
               k \in {"metric_rename", "metric_remove", "label_rename", "label_remove",
                      "span_attribute_rename", "span_attribute_remove",
                      "resource_attribute_rename", "resource_attribute_remove"}
    /\ \A k : isSupportedChangeKind(k) => expectedSymbolKind(k) = ChangeKinds[k]
    /\ \A k : expectedSymbolKind(k) \in Kinds
  BY DEF isSupportedChangeKind, expectedSymbolKind, ChangeKinds, Kinds

(* Which field of a document the name of a symbol is read from. *)
LEMMA SymbolFields ==
    ASSUME NEW document, NEW domain, NEW kind, NEW metric
    PROVE  LET s == toSymbol(document, domain, kind, metric)
           IN  /\ s = [domain |-> domain, kind |-> kind, parent |-> s.parent, name |-> s.name]
               /\ s.domain = domain
               /\ s.kind = kind
               /\ s.parent = IF kind = "label" THEN metric ELSE NoName
               /\ kind = "metric" => s.name = document.metric
               /\ kind = "label" => s.name = document.label
               /\ kind \notin {"metric", "label"} => s.name = document.attribute
  BY DEF toSymbol

(* A symbol that passes the checks is legal, and the other way round. *)
LEMMA ValidIsLegal ==
    ASSUME NEW document \in SymbolDocument, NEW domain, NEW kind \in Kinds,
           NEW metric \in Names \cup {NoName}
    PROVE  LET s == toSymbol(document, domain, kind, metric)
           IN  LegalSymbol(s) <=> /\ domain \in Domains
                                  /\ domainSupportsKind(domain, kind)
                                  /\ validSymbol(s, domain, kind)
                                  /\ kind = "label" => s.parent # NoName
<1> DEFINE s == toSymbol(document, domain, kind, metric)
<1>1. /\ s = [domain |-> domain, kind |-> kind, parent |-> s.parent, name |-> s.name]
      /\ s.domain = domain
      /\ s.kind = kind
      /\ s.parent = IF kind = "label" THEN metric ELSE NoName
      /\ s.name \in Names \cup {NoName}
  BY SymbolFields DEF SymbolDocument, Kinds
<1> HIDE DEF s
<1>2. s \in Symbol <=> domain \in Domains /\ s.name # NoName
  BY <1>1, NoNameAssumption DEF Symbol
<1>3. domain \in Domains => (domainSupportsKind(domain, kind)
                               <=> (kind \in {"metric", "label"} <=> domain = "prometheus"))
  BY DEF domainSupportsKind, Domains
<1> QED
  BY <1>1, <1>2, <1>3 DEF LegalSymbol, validSymbol, s

(* Does a document of a symbol of a kind have no field of another kind?     *)
Proper(document, kind) ==
    /\ kind # "metric" => document.metric = NoName
    /\ kind # "label" => document.label = NoName
    /\ kind \in {"metric", "label"} => document.attribute = NoName

LEMMA ProperIsWritten ==
    ASSUME NEW document \in SymbolDocument, NEW domain, NEW kind \in Kinds, NEW metric,
           toSymbol(document, domain, kind, metric) # NoSymbol
    PROVE  fieldsOf(toSymbol(document, domain, kind, metric)) = document <=> Proper(document, kind)
<1> DEFINE s == toSymbol(document, domain, kind, metric)
<1>1. document = [metric |-> document.metric, label |-> document.label,
                  attribute |-> document.attribute, absent |-> FALSE]
  BY DEF SymbolDocument
<1>2. /\ s.kind = kind
      /\ kind = "metric" => s.name = document.metric
      /\ kind = "label" => s.name = document.label
      /\ kind \notin {"metric", "label"} => s.name = document.attribute
  BY SymbolFields
<1>3. fieldsOf(s) = [metric |-> IF kind = "metric" THEN s.name ELSE NoName,
                     label |-> IF kind = "label" THEN s.name ELSE NoName,
                     attribute |-> IF kind \in {"metric", "label"} THEN NoName ELSE s.name,
                     absent |-> FALSE]
  BY <1>2 DEF fieldsOf
<1> HIDE DEF s
<1>4. fieldsOf(s) = document <=>
        /\ (IF kind = "metric" THEN s.name ELSE NoName) = document.metric
        /\ (IF kind = "label" THEN s.name ELSE NoName) = document.label
        /\ (IF kind \in {"metric", "label"} THEN NoName ELSE s.name) = document.attribute
  BY <1>1, <1>3
<1>5. fieldsOf(s) = document <=> Proper(document, kind)
  BY <1>2, <1>4 DEF Proper
<1> QED
  BY <1>5 DEF s

(* The shape of a change is that of its symbols. *)
LEMMA ShapeIsProper ==
    ASSUME NEW d \in ChangeDocument, isSupportedChangeKind(d.kind)
    PROVE  LET kind == expectedSymbolKind(d.kind)
           IN  validShape(d) <=> /\ kind # "label" => d.metric = NoName
                                 /\ Proper(d.from, kind)
                                 /\ Proper(d.to, kind)
<1> DEFINE kind == expectedSymbolKind(d.kind)
           field == CASE kind = "metric" -> "metric" [] kind = "label" -> "label"
                      [] OTHER -> "attribute"
           clean(x) == \A f \in {"metric", "label", "attribute"} \ {field} : x[f] = NoName
<1>1. validShape(d) <=> /\ kind # "label" => d.metric = NoName
                        /\ clean(d.from) /\ clean(d.to)
  BY DEF validShape
<1>2. \A x : clean(x) <=> Proper(x, kind)
  <2> HIDE DEF kind
  <2> QED
    BY DEF Proper
<1> QED
  BY <1>1, <1>2

LEMMA SymbolIsThere ==
    ASSUME NEW document \in SymbolDocument, NEW domain \in DomainTexts, NEW kind \in Kinds,
           NEW metric \in Names \cup {NoName}
    PROVE  toSymbol(document, domain, kind, metric) # NoSymbol
<1> DEFINE s == toSymbol(document, domain, kind, metric)
<1>1. /\ s = [domain |-> domain, kind |-> kind, parent |-> s.parent, name |-> s.name]
      /\ s.parent \in Names \cup {NoName} /\ s.name \in Names \cup {NoName}
  BY SymbolFields DEF SymbolDocument, Kinds
<1> HIDE DEF s
<1>2. s # NoSymbol
  BY <1>1, NilAssumption
<1> QED
  BY <1>2 DEF s

LEMMA NoDocumentIsAbsent == NoDocument \notin SymbolDocument
<1> SUFFICES ASSUME NoDocument \in SymbolDocument PROVE FALSE
  OBVIOUS
<1>1. NoDocument.absent \in {FALSE}
  BY ZenonT(30) DEF SymbolDocument
<1>2. NoDocument.absent = TRUE
  BY Zenon DEF NoDocument
<1> QED
  BY <1>1, <1>2

(* A change of a document passes the two validations if and only if it      *)
(* describes a legal change.                                                *)
LEMMA ChangeIsDescribed ==
    ASSUME NEW d \in ChangeDocument
    PROVE  validChange(toChange(d)) /\ validShape(d) <=> Describes(d)
<1>1. CASE ~ isSupportedChangeKind(d.kind)
  <2>1. toChange(d).kind = d.kind
    BY DEF toChange
  <2> QED
    BY <1>1, <2>1 DEF validChange, Describes
<1>2. CASE isSupportedChangeKind(d.kind)
  <2> DEFINE kind == expectedSymbolKind(d.kind)
             c == toChange(d)
             f == toSymbol(d.from, d.domain, kind, d.metric)
             t == toSymbol(d.to, d.domain, kind, d.metric)
  <2>1. /\ d.id \in ChangeIDs \cup {NoName} /\ d.domain \in DomainTexts
        /\ d.metric \in Names \cup {NoName} /\ d.from \in SymbolDocument
        /\ d.to \in SymbolDocument \cup {NoDocument}
        /\ d = [id |-> d.id, kind |-> d.kind, domain |-> d.domain, metric |-> d.metric,
                from |-> d.from, to |-> d.to]
    BY DEF ChangeDocument
  <2>2. kind \in Kinds
    BY KindFacts
  <2>3. /\ c.id = d.id /\ c.kind = d.kind /\ c.domain = d.domain /\ c.from = f
        /\ c.to = IF d.to = NoDocument THEN NoSymbol ELSE t
    BY DEF toChange
  <2>4. d.to \in SymbolDocument <=> d.to # NoDocument
    BY <2>1, NoDocumentIsAbsent
  <2>5. \A x \in SymbolDocument :
           LET s == toSymbol(x, d.domain, kind, d.metric)
           IN  /\ s = [domain |-> d.domain, kind |-> kind, parent |-> s.parent, name |-> s.name]
               /\ s.parent = IF kind = "label" THEN d.metric ELSE NoName
               /\ s.name \in Names \cup {NoName}
               /\ s.domain = d.domain /\ s.kind = kind
    BY <2>2, SymbolFields DEF SymbolDocument, Kinds
  <2>6. \A x \in SymbolDocument : toSymbol(x, d.domain, kind, d.metric) # NoSymbol
    BY <2>1, <2>2, SymbolIsThere
  <2>7. LegalSymbol(f) <=> /\ d.domain \in Domains
                           /\ domainSupportsKind(d.domain, kind)
                           /\ validSymbol(f, d.domain, kind)
                           /\ kind = "label" => f.parent # NoName
    BY <2>1, <2>2, ValidIsLegal
  <2>8. fieldsOf(f) = d.from <=> Proper(d.from, kind)
    BY <2>1, <2>2, <2>6, ProperIsWritten
  <2>9. fieldsOf(c.to) = d.to <=> Proper(d.to, kind)
    <3>1. CASE d.to = NoDocument
      <4>1. fieldsOf(c.to) = NoDocument
        BY <2>3, <3>1 DEF fieldsOf
      <4>2. Proper(NoDocument, kind)
        BY DEF Proper, NoDocument
      <4> QED
        BY <3>1, <4>1, <4>2
    <3>2. CASE d.to # NoDocument
      BY <2>2, <2>3, <2>4, <2>6, <3>2, ProperIsWritten
    <3> QED
      BY <3>1, <3>2
  <2>10. validShape(d) <=> /\ kind # "label" => d.metric = NoName
                           /\ Proper(d.from, kind)
                           /\ Proper(d.to, kind)
    BY <1>2, ShapeIsProper
  <2>11. documentOf(c) = d <=> /\ kind # "label" => d.metric = NoName
                               /\ Proper(d.from, kind)
                               /\ Proper(d.to, kind)
    <3>1. documentOf(c) = [id |-> d.id, kind |-> d.kind, domain |-> d.domain, metric |-> f.parent,
                           from |-> fieldsOf(f), to |-> fieldsOf(c.to)]
      BY <2>3 DEF documentOf
    <3>2. documentOf(c) = d <=> f.parent = d.metric /\ fieldsOf(f) = d.from /\ fieldsOf(c.to) = d.to
      BY <2>1, <3>1
    <3>3. f.parent = d.metric <=> (kind # "label" => d.metric = NoName)
      BY <2>1, <2>5
    <3> QED
      BY <2>8, <2>9, <3>2, <3>3
  <2>12. LegalChange(c) <=> /\ d.id \in ChangeIDs /\ LegalSymbol(f)
                            /\ IF isRename(d.kind)
                                 THEN \E n \in Names \ {f.name} : c.to = [f EXCEPT !.name = n]
                                 ELSE c.to = NoSymbol
    BY <1>2, <2>1, <2>3, <2>5 DEF LegalChange
  <2>13. validChange(c) <=> /\ d.id \in ChangeIDs /\ LegalSymbol(f)
                            /\ IF isRename(d.kind)
                                 THEN /\ c.to # NoSymbol
                                      /\ validSymbol(c.to, d.domain, kind)
                                      /\ f.name # c.to.name
                                      /\ kind = "label" => f.parent = c.to.parent
                                 ELSE c.to = NoSymbol
    <3>1. d.id \in ChangeIDs <=> d.id # NoName
      BY <2>1, ChangeIDsAssumption
    <3> HIDE DEF c, f, kind
    <3>2. validChange(c) <=> /\ d.id # NoName /\ d.domain \in Domains
                             /\ domainSupportsKind(d.domain, kind)
                             /\ validSymbol(f, d.domain, kind)
                             /\ kind = "label" => f.parent # NoName
                             /\ IF isRename(d.kind)
                                  THEN /\ c.to # NoSymbol
                                       /\ validSymbol(c.to, d.domain, kind)
                                       /\ f.name # c.to.name
                                       /\ kind = "label" => f.parent = c.to.parent
                                  ELSE c.to = NoSymbol
      BY <1>2, <2>3 DEF validChange, kind
    <3> QED
      BY <2>7, <3>1, <3>2
  <2>14. LegalSymbol(f) /\ isRename(d.kind) =>
           (c.to # NoSymbol /\ validSymbol(c.to, d.domain, kind) /\ f.name # c.to.name
              /\ (kind = "label" => f.parent = c.to.parent)
              <=> \E n \in Names \ {f.name} : c.to = [f EXCEPT !.name = n])
    <3> SUFFICES ASSUME LegalSymbol(f)
                 PROVE  c.to # NoSymbol /\ validSymbol(c.to, d.domain, kind) /\ f.name # c.to.name
                          /\ (kind = "label" => f.parent = c.to.parent)
                          <=> \E n \in Names \ {f.name} : c.to = [f EXCEPT !.name = n]
      OBVIOUS
    <3>1. f \in Symbol
      BY DEF LegalSymbol
    <3>2. \A n \in Names : [f EXCEPT !.name = n] \in Symbol
      BY <3>1 DEF Symbol
    <3>3. CASE d.to = NoDocument
      BY <2>3, <3>2, <3>3, NoSymbolAssumption
    <3>4. CASE d.to # NoDocument
      <4>1. c.to = t /\ c.to # NoSymbol
        BY <2>3, <2>4, <2>6, <3>4
      <4>2. /\ t = [domain |-> d.domain, kind |-> kind, parent |-> t.parent, name |-> t.name]
            /\ t.domain = d.domain /\ t.kind = kind
            /\ t.parent = IF kind = "label" THEN d.metric ELSE NoName
            /\ t.name \in Names \cup {NoName}
        BY <2>4, <2>5, <3>4
      <4>3. /\ f = [domain |-> d.domain, kind |-> kind, parent |-> f.parent, name |-> f.name]
            /\ f.parent = IF kind = "label" THEN d.metric ELSE NoName
        BY <2>1, <2>5
      <4> HIDE DEF c, t, f, kind
      <4>4. \A n : [f EXCEPT !.name = n]
                     = [domain |-> d.domain, kind |-> kind, parent |-> f.parent, name |-> n]
        BY <4>3
      <4>5. \A n : t = [f EXCEPT !.name = n] <=> t.name = n
        BY <4>2, <4>3, <4>4
      <4>6. validSymbol(t, d.domain, kind) <=> t.name # NoName
        BY <4>2 DEF validSymbol
      <4>7. f.parent = t.parent
        BY <4>2, <4>3
      <4> QED
        BY <4>1, <4>2, <4>5, <4>6, <4>7, NoNameAssumption
    <3> QED
      BY <3>3, <3>4
  <2>15. validChange(c) <=> LegalChange(c)
    BY <2>12, <2>13, <2>14
  <2>16. LegalChange(c) => d.domain \in Domains
    BY <2>7, <2>12
  <2> QED
    BY <1>2, <2>10, <2>11, <2>15, <2>16 DEF Describes
<1> QED
  BY <1>1, <1>2

(* What is asked of a document, in its own terms. *)
DocumentDescribes(document) ==
    /\ document.decodes /\ document.header
    /\ document.changes # << >>
    /\ \A i \in DOMAIN document.changes : Describes(document.changes[i])
    /\ \A i, j \in DOMAIN document.changes :
          document.changes[i].id = document.changes[j].id => i = j

LEMMA AcceptsIsDescribed ==
    ASSUME NEW document \in Document
    PROVE  /\ Accepts(document) <=> DocumentDescribes(document)
           /\ DOMAIN toMigration(document).changes = DOMAIN document.changes
           /\ \A i \in DOMAIN document.changes :
                 toMigration(document).changes[i] = toChange(document.changes[i])
<1> DEFINE said == document.changes
           m == toMigration(document)
<1>1. said \in Seq(ChangeDocument)
  BY DEF Document
<1>2. /\ m.header = document.header
      /\ m.changes = [i \in DOMAIN said |-> toChange(said[i])]
  BY DEF toMigration
<1>3. /\ DOMAIN m.changes = DOMAIN said
      /\ \A i \in DOMAIN said : m.changes[i] = toChange(said[i])
  BY <1>2
<1>4. m.changes # << >> <=> said # << >>
  <2>1. said = << >> <=> DOMAIN said = {}
    BY <1>1, EmptyDomain
  <2>2. m.changes \in Seq({toChange(x) : x \in ChangeDocument})
    BY <1>1, <1>2
  <2> HIDE DEF m
  <2>3. m.changes = << >> <=> DOMAIN m.changes = {}
    BY <2>2, EmptyDomain
  <2> QED
    BY <1>3, <2>1, <2>3
<1>5. \A i \in DOMAIN said : validChange(toChange(said[i])) /\ validShape(said[i])
                               <=> Describes(said[i])
  BY <1>1, ChangeIsDescribed
<1>6. \A i \in DOMAIN said : toChange(said[i]).id = said[i].id
  BY DEF toChange
<1>7. IsInjective([i \in DOMAIN m.changes |-> m.changes[i].id])
        <=> \A i, j \in DOMAIN said : said[i].id = said[j].id => i = j
  <2>1. [i \in DOMAIN m.changes |-> m.changes[i].id] = [i \in DOMAIN said |-> said[i].id]
    BY <1>3, <1>6
  <2> QED
    BY <2>1 DEF IsInjective
<1>8. ValidateMigration(m) <=> /\ document.header /\ said # << >>
                               /\ \A i \in DOMAIN said : validChange(toChange(said[i]))
                               /\ \A i, j \in DOMAIN said : said[i].id = said[j].id => i = j
  BY <1>2, <1>3, <1>4, <1>7 DEF ValidateMigration
<1> QED
  BY <1>3, <1>5, <1>8 DEF Accepts, DocumentDescribes

-----------------------------------------------------------------------------
(* The documents of an import                                               *)

LEMMA ItemsAreTyped ==
    ASSUME NEW diff \in Diff
    PROVE  itemsOf(diff) \in Seq([kind : SourceKinds, item : Item])
<1> DEFINE group(kind) == [i \in DOMAIN diff.groups[kind] |->
                              [kind |-> kind, item |-> diff.groups[kind][i]]]
<1>1. \A kind \in SourceKinds : group(kind) \in Seq([kind : SourceKinds, item : Item])
  <2> TAKE kind \in SourceKinds
  <2> DEFINE items == diff.groups[kind]
             R == [kind : SourceKinds, item : Item]
  <2>1. items \in Seq(Item)
    BY DEF Diff
  <2>2. \A i \in DOMAIN items : [kind |-> kind, item |-> items[i]] \in R
    BY <2>1
  <2>3. group(kind) = [i \in DOMAIN items |-> [kind |-> kind, item |-> items[i]]]
    OBVIOUS
  <2> HIDE DEF items, R, group
  <2>4. group(kind) \in Seq(R)
    BY <2>1, <2>2, <2>3
  <2> QED
    BY <2>4 DEF R
<1>2. {"attribute", "attribute_group", "entity", "event", "metric", "span"} = SourceKinds
  BY DEF SourceKinds
<1>3. itemsOf(diff) = group("attribute") \o group("attribute_group") \o group("entity")
                        \o group("event") \o group("metric") \o group("span")
  BY DEF itemsOf
<1> DEFINE R == [kind : SourceKinds, item : Item]
<1>4. /\ group("attribute") \in Seq(R) /\ group("attribute_group") \in Seq(R)
      /\ group("entity") \in Seq(R) /\ group("event") \in Seq(R)
      /\ group("metric") \in Seq(R) /\ group("span") \in Seq(R)
  BY <1>1, <1>2
<1> HIDE DEF group, R
<1>5. \A s, t \in Seq(R) : s \o t \in Seq(R)
  BY ConcatProperties
<1>6. itemsOf(diff) \in Seq(R)
  BY <1>3, <1>4, <1>5
<1> QED
  BY <1>6 DEF R

(* An item that has its fields becomes a selector, unless it is an addition. *)
LEMMA NormalizedIsSelector ==
    ASSUME NEW kind \in SourceKinds, NEW item \in Item, HasFields(item)
    PROVE  /\ item.type \in SourceTypes \cup {"added"}
           /\ item.type # "added" =>
                 /\ normalizeItem(kind, item) \in SourceSelector
                 /\ validSelector(normalizeItem(kind, item))
<1>1. /\ item.name \in Names \cup {NoName} /\ item.oldName \in Names \cup {NoName}
      /\ item.newName \in Names \cup {NoName}
  BY DEF Item
<1>2. item.type \in SourceTypes \cup {"added"}
  BY DEF HasFields, SourceTypes
<1>3. ASSUME item.type # "added"
      PROVE  /\ normalizeItem(kind, item) \in SourceSelector
             /\ validSelector(normalizeItem(kind, item))
  <2> DEFINE s == normalizeItem(kind, item)
  <2>1. CASE item.type = "renamed"
    <3>1. s = [kind |-> kind, type |-> "renamed", from |-> item.oldName, to |-> item.newName]
      BY <2>1 DEF normalizeItem
    <3>2. item.oldName # NoName /\ item.newName # NoName
      BY <2>1 DEF HasFields
    <3>3. "renamed" \in SourceTypes
      BY DEF SourceTypes
    <3> QED
      BY <1>1, <3>1, <3>2, <3>3 DEF SourceSelector, validSelector
  <2>2. CASE item.type # "renamed"
    <3>1. s = [kind |-> kind, type |-> item.type, from |-> item.name, to |-> NoName]
      BY <2>2 DEF normalizeItem
    <3>2. item.name # NoName
      BY <1>2, <1>3, <2>2 DEF HasFields, SourceTypes
    <3> QED
      BY <1>1, <1>2, <1>3, <2>2, <3>1, <3>2 DEF SourceSelector, validSelector
  <2> QED
    BY <2>1, <2>2
<1> QED
  BY <1>2, <1>3

(* What an entry maps its change to, as the change of a manifest. *)
LEMMA CanonicalIsDocument ==
    ASSUME NEW e \in MappingEntry, e.target # NoTarget
    PROVE  /\ DocumentOf(e) \in ChangeDocument
           /\ canonicalChange(e) = toChange(DocumentOf(e))
           /\ DocumentOf(e).kind = e.target.kind
           /\ DocumentOf(e).metric = e.target.metric
           /\ DocumentOf(e).from = e.target.from
           /\ DocumentOf(e).to = e.target.to
           /\ canonicalChange(e).id = e.id
           /\ e.target \in PrometheusChange
<1>1. e.target \in PrometheusChange
  BY DEF MappingEntry
<1>2. /\ e.id \in ChangeIDs \cup {NoName} /\ e.target.kind \in STRING
      /\ e.target.metric \in Names \cup {NoName} /\ e.target.from \in SymbolDocument
      /\ e.target.to \in SymbolDocument \cup {NoDocument}
  BY <1>1 DEF MappingEntry, PrometheusChange, PrometheusSymbol
<1>3. "prometheus" \in DomainTexts
  BY DEF DomainTexts, Domains
<1>4. DocumentOf(e) \in ChangeDocument
  BY <1>2, <1>3 DEF DocumentOf, ChangeDocument
<1> QED
  BY <1>1, <1>4 DEF DocumentOf, canonicalChange, toChange

(* An entry is legal if and only if the mapping and the migration may hold  *)
(* it, each by the checks of its own.                                       *)
LEMMA EntryIsLegal ==
    ASSUME NEW e \in MappingEntry, validSelector(e.weaver)
    PROVE  LegalEntry(e) <=> validEntry(e) /\ (~ e.ignore => validChange(canonicalChange(e)))
<1>1. e.id \in ChangeIDs <=> e.id # NoName
  BY ChangeIDsAssumption DEF MappingEntry
<1>2. CASE e.target = NoTarget
  BY <1>1, <1>2, Zenon DEF LegalEntry, validEntry
<1>3. CASE e.target # NoTarget /\ e.ignore
  BY <1>3, Zenon DEF LegalEntry, validEntry
<1>4. CASE e.target # NoTarget /\ ~ e.ignore
  <2> DEFINE D == DocumentOf(e)
             c == canonicalChange(e)
             target == e.target
             kind == expectedSymbolKind(target.kind)
             onMetric == kind = "metric"
             four == {"metric_rename", "metric_remove", "label_rename", "label_remove"}
             nameOf(x) == IF onMetric THEN x.metric ELSE x.label
             named(x) == IF onMetric THEN x.metric # NoName /\ x.label = NoName
                                     ELSE x.label # NoName /\ x.metric = NoName
  <2>1. /\ D \in ChangeDocument /\ c = toChange(D) /\ D.kind = target.kind
        /\ D.metric = target.metric /\ D.from = target.from /\ D.to = target.to
        /\ target \in PrometheusChange
    BY <1>4, CanonicalIsDocument
  <2>2. /\ target.metric \in Names \cup {NoName}
        /\ target.from \in PrometheusSymbol /\ target.to \in PrometheusSymbol \cup {NoDocument}
    BY <2>1 DEF PrometheusChange
  <2>3. \A x \in PrometheusSymbol : x \in SymbolDocument /\ x.attribute = NoName
    BY DEF PrometheusSymbol
  <2>4. Describes(D) <=> validChange(c) /\ validShape(D)
    BY <2>1, ChangeIsDescribed
  <2>5. kind \in Kinds /\ (isSupportedChangeKind(target.kind) /\ kind \in {"metric", "label"}
                             <=> target.kind \in four)
    <3>1. isSupportedChangeKind(target.kind) => kind = ChangeKinds[target.kind]
      BY KindFacts
    <3>2. target.kind \in four => isSupportedChangeKind(target.kind) /\ kind \in {"metric", "label"}
      BY <3>1, KindFacts DEF ChangeKinds
    <3>3. isSupportedChangeKind(target.kind) /\ target.kind \notin four
            => kind \notin {"metric", "label"}
      BY <3>1, KindFacts DEF ChangeKinds
    <3> QED
      BY <3>2, <3>3, KindFacts
  <2>6. /\ c.kind = target.kind /\ c.domain = "prometheus"
        /\ c.from = toSymbol(target.from, "prometheus", kind, target.metric)
        /\ c.to = IF target.to = NoDocument THEN NoSymbol
                  ELSE toSymbol(target.to, "prometheus", kind, target.metric)
    BY DEF canonicalChange
  <2>7. "prometheus" \in DomainTexts
    BY DEF DomainTexts, Domains
  <2>8. target.to # NoDocument => target.to \in PrometheusSymbol /\ c.to # NoSymbol
    BY <2>2, <2>3, <2>5, <2>6, <2>7, SymbolIsThere
  <2> HIDE DEF c, D, target
  <2>9. c.from.kind = kind /\ (kind = "label" => c.from.parent = target.metric)
    <3> HIDE DEF kind
    <3> QED
      BY <2>6, SymbolFields
  <2>10. ASSUME kind \in {"metric", "label"}
         PROVE  /\ c.from.name = nameOf(target.from)
                /\ target.to # NoDocument => c.to.name = nameOf(target.to)
                /\ \A x \in PrometheusSymbol : named(x) <=> nameOf(x) # NoName /\ Proper(x, kind)
    <3>1. c.from.name = nameOf(target.from)
      BY <2>6, <2>10, SymbolFields
    <3>2. target.to # NoDocument => c.to.name = nameOf(target.to)
      BY <2>6, <2>10, SymbolFields
    <3>3. \A x \in PrometheusSymbol : named(x) <=> nameOf(x) # NoName /\ Proper(x, kind)
      BY <2>3, <2>10 DEF Proper
    <3> QED
      BY <3>1, <3>2, <3>3
  <2>11. ASSUME target.kind \in four
         PROVE  validShape(D) <=> /\ kind # "label" => target.metric = NoName
                                  /\ Proper(target.from, kind)
                                  /\ Proper(target.to, kind)
    BY <2>1, <2>5, <2>11, ShapeIsProper
  <2>12. Proper(NoDocument, kind)
    BY DEF Proper, NoDocument
  <2>13. LegalEntry(e) => validEntry(e) /\ validChange(c)
    <3> SUFFICES ASSUME LegalEntry(e) PROVE validEntry(e) /\ validChange(c)
      OBVIOUS
    <3>1. /\ e.id \in ChangeIDs /\ validChange(c) /\ validShape(D)
          /\ <<e.weaver.kind, c.from.kind>> \in {<<"metric", "metric">>, <<"attribute", "label">>}
          /\ e.weaver.type # "uncategorized"
          /\ isRename(target.kind) <=> e.weaver.type = "renamed"
      BY <1>4, <2>1, <2>4, Zenon DEF LegalEntry, D, target
    <3>2. /\ \/ kind = "metric" /\ e.weaver.kind = "metric"
             \/ kind = "label" /\ e.weaver.kind = "attribute"
          /\ target.kind \in four
      <4>1. isSupportedChangeKind(target.kind)
        BY <2>6, <3>1 DEF validChange
      <4> QED
        BY <2>5, <2>9, <3>1, <4>1
    <3>3. /\ onMetric => target.metric = NoName
          /\ Proper(target.from, kind) /\ Proper(target.to, kind)
      BY <2>11, <3>1, <3>2
    <3>4. /\ c.from.name # NoName
          /\ kind = "label" => c.from.parent # NoName
          /\ IF isRename(target.kind) THEN c.to # NoSymbol /\ c.to.name # NoName
                                      ELSE c.to = NoSymbol
      BY <2>6, <3>1 DEF validChange, validSymbol
    <3>5. /\ onMetric <=> target.metric = NoName
          /\ named(target.from)
      BY <2>2, <2>9, <2>10, <3>2, <3>3, <3>4
    <3>6. IF isRename(target.kind) THEN target.to # NoDocument /\ named(target.to)
                                   ELSE target.to = NoDocument
      <4>1. CASE target.to = NoDocument
        BY <2>6, <3>4, <4>1
      <4>2. CASE target.to # NoDocument
        BY <2>8, <2>10, <3>2, <3>3, <3>4, <4>2
      <4> QED
        BY <4>1, <4>2
    <3>7. validatePrometheusTarget(e.weaver, target)
      BY <3>1, <3>2, <3>5, <3>6 DEF validatePrometheusTarget
    <3>8. validEntry(e)
      BY <1>1, <1>4, <3>1, <3>7, Zenon DEF validEntry, target
    <3> QED
      BY <3>1, <3>8
  <2>14. validEntry(e) /\ validChange(c) => LegalEntry(e)
    <3> SUFFICES ASSUME validEntry(e), validChange(c) PROVE LegalEntry(e)
      OBVIOUS
    <3>1. /\ e.id # NoName /\ e.weaver.type # "uncategorized"
          /\ validatePrometheusTarget(e.weaver, target)
      BY <1>4, Zenon DEF validEntry, target
    <3>2. /\ target.kind \in four
          /\ e.weaver.kind = IF onMetric THEN "metric" ELSE "attribute"
          /\ onMetric <=> target.metric = NoName
          /\ named(target.from)
          /\ isRename(target.kind) <=> e.weaver.type = "renamed"
          /\ IF isRename(target.kind) THEN target.to # NoDocument /\ named(target.to)
                                      ELSE target.to = NoDocument
      BY <3>1 DEF validatePrometheusTarget
    <3>3. kind \in {"metric", "label"}
      BY <2>5, <3>2
    <3>4. Proper(target.from, kind) /\ Proper(target.to, kind)
      <4>1. CASE target.to = NoDocument
        BY <2>2, <2>10, <2>12, <3>2, <3>3, <4>1
      <4>2. CASE target.to # NoDocument
        BY <2>2, <2>8, <2>10, <3>2, <3>3, <4>2
      <4> QED
        BY <4>1, <4>2
    <3>5. Describes(D)
      BY <2>4, <2>11, <3>2, <3>3, <3>4
    <3>6. <<e.weaver.kind, c.from.kind>> \in {<<"metric", "metric">>, <<"attribute", "label">>}
      BY <2>9, <3>2, <3>3
    <3> QED
      BY <1>1, <1>4, <2>1, <3>1, <3>2, <3>5, <3>6, Zenon DEF LegalEntry, D, target
  <2> QED
    BY <1>4, <2>13, <2>14 DEF c
<1> QED
  BY <1>2, <1>3, <1>4

-----------------------------------------------------------------------------
(* The invariant                                                            *)

Canonical == {canonicalChange(e) : e \in {e \in Entries : e.target # NoTarget}}

Decision == [source : SourceSelector, decision : {"ignored", "requiresMapping"}]
              \cup [source : SourceSelector, decision : {"mapped"}, change : Canonical]

(* A manifest is loaded in two steps, an import in many. *)
Typed ==
    /\ input \in Inputs
    /\ ctx \in {"live", "canceled"}
    /\ pc \in Final \cup {"start", "parsed", "items", "mapping", "convert", "collect"}
    /\ changes \in Seq(SourceSelector)
    /\ Manifest => pc \in {"start", "parsed", "loaded", "failed"} /\ imported = << >>
    /\ ~ Manifest =>
          /\ pc # "parsed"
          /\ at \in 0 .. Len(Items)
          /\ imported \in Seq(Decision)
          /\ collected \in 0 .. Len(imported)
          /\ migration \in Seq(Canonical)

OfManifest ==
    Manifest =>
        /\ pc \in {"parsed", "loaded"} => Accepts(input.document)
        /\ pc = "loaded" => migration = toMigration(input.document).changes
        /\ pc = "failed" /\ ctx = "live" => ~ Accepts(input.document)

(* The changes are those of the items read so far, in their order: g[k] is  *)
(* the item of the k-th change.                                             *)
Reads(g) ==
    /\ IsInjective(g)
    /\ \A k \in DOMAIN changes : g[k] \in Wanted /\ changes[k] = WantedChange(g[k])
    /\ \A i \in Wanted : i <= at => \E k \in DOMAIN changes : g[k] = i

Read ==
    ~ Manifest =>
        /\ pc \notin {"start", "failed"} => input.diff.decodes
        /\ \A i \in 1 .. at : HasFields(Items[i].item)
        /\ \E g \in [DOMAIN changes -> 1 .. at] : Reads(g)
        /\ pc \in {"mapping", "convert", "collect", "loaded"} => at = Len(Items)
        /\ pc \in {"convert", "collect", "loaded"} => ValidMapping

(* A decision is the one these entries, those of its change, stand for. *)
IsDecision(d, change, entries) ==
    /\ d.source = change
    /\ d.decision = "requiresMapping" => entries = {}
    /\ d.decision = "ignored" => \E e \in entries : e.ignore
    /\ d.decision = "mapped" => \E e \in entries : ~ e.ignore /\ d.change = canonicalChange(e)

Decided ==
    ~ Manifest =>
        /\ pc \in {"start", "items", "mapping"} => imported = << >>
        /\ Len(imported) <= Len(changes)
        /\ \A i \in DOMAIN imported : IsDecision(imported[i], changes[i], EntriesFor(changes[i]))
        /\ \A i, j \in DOMAIN imported : changes[i] = changes[j] => i = j
        /\ pc \in {"collect", "loaded"} => Len(imported) = Len(changes) /\ ~ Unmatched

(* The migration consists of the mapped ones of the decisions gone through: *)
(* h[k] is the decision of its k-th change.                                 *)
Collects(h) ==
    /\ IsInjective(h)
    /\ \A k \in DOMAIN migration : /\ imported[h[k]].decision = "mapped"
                                   /\ migration[k] = imported[h[k]].change
    /\ \A i \in 1 .. collected : imported[i].decision = "mapped"
                                   => \E k \in DOMAIN migration : h[k] = i

Collected ==
    ~ Manifest =>
        /\ pc \in {"start", "items", "mapping", "convert"} => collected = 0
        /\ \E h \in [DOMAIN migration -> 1 .. collected] : Collects(h)
        /\ pc = "loaded" => collected = Len(imported) /\ ~ Missing /\ ValidImport

Outcome ==
    ~ Manifest =>
        /\ pc = "failed" /\ ctx = "live" => ~ Resolvable
        /\ pc = "incomplete" =>
              \E i \in Wanted : \/ Items[i].item.type = "updated"
                               \/ EntriesFor(WantedChange(i)) = {}

IInv == Typed /\ OfManifest /\ Read /\ Decided /\ Collected /\ Outcome

LEMMA InputIsTyped ==
    ASSUME input \in Inputs
    PROVE  /\ Manifest => input.document \in Document
           /\ ~ Manifest => input.diff \in Diff /\ input.mapping \in Mapping
<1>1. input \in [via : {"manifest"}, document : Document]
                  \cup [via : {"weaver"}, diff : Diff, mapping : Mapping]
  BY InputsAssumption
<1>2. CASE input \in [via : {"manifest"}, document : Document]
  BY <1>2 DEF Manifest
<1>3. CASE input \in [via : {"weaver"}, diff : Diff, mapping : Mapping]
  BY <1>3 DEF Manifest
<1> QED
  BY <1>1, <1>2, <1>3

(* What is known of the documents of an import, valid or not. *)
LEMMA DocumentsAreTyped ==
    ASSUME input \in Inputs, ~ Manifest
    PROVE  /\ Items \in Seq([kind : SourceKinds, item : Item])
           /\ Len(Items) \in Nat /\ DOMAIN Items = 1 .. Len(Items)
           /\ \A i \in DOMAIN Items : Items[i].kind \in SourceKinds /\ Items[i].item \in Item
           /\ input.mapping.entries \in Seq(MappingEntry)
           /\ Entries = {input.mapping.entries[i] : i \in DOMAIN input.mapping.entries}
           /\ Entries \subseteq MappingEntry
<1>1. input.diff \in Diff /\ input.mapping \in Mapping
  BY InputIsTyped
<1>2. Items \in Seq([kind : SourceKinds, item : Item])
  BY <1>1, ItemsAreTyped DEF Items
<1>3. Len(Items) \in Nat /\ DOMAIN Items = 1 .. Len(Items)
  BY <1>2, LenProperties
<1>4. \A i \in DOMAIN Items : Items[i].kind \in SourceKinds /\ Items[i].item \in Item
  <2> TAKE i \in DOMAIN Items
  <2>1. Items[i] \in [kind : SourceKinds, item : Item]
    BY <1>2, <1>3, LenProperties
  <2> QED
    BY <2>1
<1>5. input.mapping.entries \in Seq(MappingEntry)
  BY <1>1 DEF Mapping
<1>6. Entries = {input.mapping.entries[i] : i \in DOMAIN input.mapping.entries}
  BY DEF Entries, ToSet
<1>7. Entries \subseteq MappingEntry
  BY <1>5, <1>6
<1> QED
  BY <1>2, <1>3, <1>4, <1>5, <1>6, <1>7

LEMMA StepKeepsInput == [Next]_vars => input' = input
  BY DEF Next, vars, Goto, Cancel, RefuseManifest, ParseManifest, DropManifest, AcceptManifest,
         RefuseDiff, DecodeDiff, SkipAddition, KeepChange, RefuseUpdate, RefuseItem, EndOfDiff,
         RefuseMapping, AcceptMapping, RefuseDuplicate, Import, RequireMapping, Ignore, Map,
         RefuseEntries, Convert, Collect, RefuseImport, MappingRequired, AcceptImport

(* What is a matter of the input alone does not change. *)
LEMMA InputIsConstant ==
    ASSUME input' = input
    PROVE  /\ Manifest' <=> Manifest
           /\ Items' = Items
           /\ Wanted' = Wanted
           /\ \A i : WantedChange(i)' = WantedChange(i)
           /\ Entries' = Entries
           /\ \A s : EntriesFor(s)' = EntriesFor(s)
           /\ Canonical' = Canonical
           /\ Decision' = Decision
           /\ ValidMapping' <=> ValidMapping
           /\ Resolvable' <=> Resolvable
  BY DEF Manifest, Items, Wanted, WantedChange, Entries, EntriesFor, Canonical, Decision,
         ValidMapping, Resolvable

(* The mapping holds at most one entry for a change. *)
LEMMA MappingIsValid ==
    ASSUME input \in Inputs, ~ Manifest, ValidMapping
    PROVE  /\ \A e \in Entries : validEntry(e)
           /\ \A d, e \in Entries : d.weaver = e.weaver => d = e
           /\ \A d, e \in Entries : d.id = e.id => d = e
<1> DEFINE said == input.mapping.entries
<1>1. /\ \A i \in DOMAIN said : validEntry(said[i])
      /\ IsInjective([i \in DOMAIN said |-> said[i].id])
      /\ IsInjective([i \in DOMAIN said |-> said[i].weaver])
  BY DEF ValidMapping, validateMapping
<1>2. /\ \A i, j \in DOMAIN said : said[i].id = said[j].id => i = j
      /\ \A i, j \in DOMAIN said : said[i].weaver = said[j].weaver => i = j
  BY <1>1 DEF IsInjective
<1>3. Entries = {said[i] : i \in DOMAIN said}
  BY DocumentsAreTyped
<1> HIDE DEF said
<1> QED
  BY <1>1, <1>2, <1>3

LEMMA InitInvariant == Init => IInv
<1> SUFFICES ASSUME Init PROVE IInv
  OBVIOUS
<1>1. /\ input \in Inputs /\ ctx = "live" /\ pc = "start" /\ at = 0 /\ changes = << >>
      /\ imported = << >> /\ collected = 0 /\ migration = << >>
  BY DEF Init
<1>2. /\ Len(<< >>) = 0 /\ DOMAIN << >> = {} /\ 1 .. 0 = {}
      /\ \A S : << >> \in Seq(S)
  BY EmptySeq
<1>3. << >> \in [{} -> {}]
  OBVIOUS
<1>4. Typed
  <2>1. ~ Manifest => 0 \in 0 .. Len(Items)
    BY <1>1, DocumentsAreTyped
  <2> QED
    BY <1>1, <1>2, <2>1 DEF Typed, Final
<1>5. OfManifest
  BY <1>1 DEF OfManifest
<1>6. Read
  <2>1. ~ Manifest => Reads(<< >>)
    <3> SUFFICES ASSUME ~ Manifest PROVE Reads(<< >>)
      OBVIOUS
    <3>1. IsInjective(<< >>)
      BY <1>2 DEF IsInjective
    <3>2. \A k \in DOMAIN changes : << >>[k] \in Wanted /\ changes[k] = WantedChange(<< >>[k])
      BY <1>1, <1>2
    <3>3. \A i \in Wanted : ~ (i <= at)
      BY <1>1, DocumentsAreTyped DEF Wanted
    <3> QED
      BY <3>1, <3>2, <3>3 DEF Reads
  <2>2. << >> \in [DOMAIN changes -> 1 .. at]
    BY <1>1, <1>2, <1>3
  <2>3. \A i \in 1 .. at : HasFields(Items[i].item)
    BY <1>1, <1>2
  <2> QED
    BY <1>1, <2>1, <2>2, <2>3 DEF Read
<1>7. Decided
  <2>1. Len(imported) <= Len(changes)
    BY <1>1, <1>2
  <2> QED
    BY <1>1, <1>2, <2>1 DEF Decided
<1>8. Collected
  <2>1. Collects(<< >>)
    BY <1>1, <1>2 DEF Collects, IsInjective
  <2>2. << >> \in [DOMAIN migration -> 1 .. collected]
    BY <1>1, <1>2, <1>3
  <2> QED
    BY <1>1, <2>1, <2>2 DEF Collected
<1>9. Outcome
  BY <1>1 DEF Outcome
<1> QED
  BY <1>4, <1>5, <1>6, <1>7, <1>8, <1>9 DEF IInv

(* The steps that only say where the load is, or that nobody waits for it.  *)
Quiet == \/ RefuseManifest \/ ParseManifest \/ DropManifest
         \/ RefuseDiff \/ DecodeDiff \/ RefuseUpdate \/ RefuseItem \/ EndOfDiff
         \/ RefuseMapping \/ AcceptMapping \/ RefuseDuplicate \/ RefuseEntries \/ Convert
         \/ RefuseImport \/ MappingRequired \/ AcceptImport
         \/ Cancel \/ UNCHANGED vars

LEMMA NextSteps ==
    [Next]_vars => \/ Quiet \/ AcceptManifest \/ SkipAddition \/ KeepChange
                   \/ RequireMapping \/ Ignore \/ Map \/ Collect
  BY Zenon DEF Next, Quiet

LEMMA QuietStep ==
    Quiet => UNCHANGED <<input, at, changes, imported, collected, migration>>
  BY DEF Quiet, vars, Goto, Cancel, RefuseManifest, ParseManifest, DropManifest,
         RefuseDiff, DecodeDiff, RefuseUpdate, RefuseItem, EndOfDiff,
         RefuseMapping, AcceptMapping, RefuseDuplicate,
         RefuseEntries, Convert, RefuseImport, MappingRequired, AcceptImport

(* The item a step reads, if it has its fields. *)
LEMMA NextItemIsTyped ==
    ASSUME IInv, ~ Manifest, MoreItems
    PROVE  /\ at + 1 \in DOMAIN Items /\ at + 1 \in Nat /\ at \in Nat
           /\ NextItem = Items[at + 1].item
           /\ NextChange = WantedChange(at + 1)
           /\ HasFields(NextItem) /\ NextItem.type # "added" => NextChange \in SourceSelector
<1>1. input \in Inputs /\ at \in 0 .. Len(Items)
  BY DEF IInv, Typed
<1>2. /\ Len(Items) \in Nat /\ DOMAIN Items = 1 .. Len(Items)
      /\ \A i \in DOMAIN Items : Items[i].kind \in SourceKinds /\ Items[i].item \in Item
  BY <1>1, DocumentsAreTyped
<1>3. at < Len(Items)
  BY DEF MoreItems, Items
<1>4. at + 1 \in DOMAIN Items /\ at + 1 \in Nat /\ at \in Nat
  BY <1>1, <1>2, <1>3
<1>5. NextItem = Items[at + 1].item /\ NextChange = WantedChange(at + 1)
  BY DEF NextItem, NextChange, Items, WantedChange
<1>6. NextChange = normalizeItem(Items[at + 1].kind, NextItem)
  BY DEF NextChange, Items
<1>7. HasFields(NextItem) /\ NextItem.type # "added" => NextChange \in SourceSelector
  BY <1>2, <1>4, <1>5, <1>6, NormalizedIsSelector
<1> QED
  BY <1>4, <1>5, <1>7

(* What a step decides of, and from which entries. *)
LEMMA NextSourceIsTyped ==
    ASSUME IInv, MoreChanges
    PROVE  /\ ~ Manifest /\ ValidMapping
           /\ Len(imported) \in Nat /\ DOMAIN imported = 1 .. Len(imported)
           /\ Len(imported) + 1 \in DOMAIN changes
           /\ DOMAIN changes = 1 .. Len(changes) /\ Len(changes) \in Nat
           /\ Source \in SourceSelector
           /\ \A e \in EntriesFor(Source) : ~ e.ignore => canonicalChange(e) \in Canonical
<1>1. ~ Manifest
  BY DEF IInv, Typed, MoreChanges
<1>2. /\ input \in Inputs /\ changes \in Seq(SourceSelector) /\ imported \in Seq(Decision)
      /\ ValidMapping
  BY <1>1 DEF IInv, Typed, Read, MoreChanges
<1>3. /\ Len(imported) \in Nat /\ DOMAIN imported = 1 .. Len(imported)
      /\ DOMAIN changes = 1 .. Len(changes) /\ Len(changes) \in Nat
  BY <1>2, LenProperties
<1>4. Len(imported) + 1 \in DOMAIN changes
  BY <1>3 DEF MoreChanges
<1>5. Source \in SourceSelector
  BY <1>2, <1>4 DEF Source
<1>6. ASSUME NEW e \in EntriesFor(Source), ~ e.ignore
      PROVE  canonicalChange(e) \in Canonical
  <2>1. e \in Entries
    BY DEF EntriesFor
  <2>2. validEntry(e)
    BY <1>1, <1>2, <2>1, MappingIsValid
  <2>3. e.target # NoTarget
    BY <1>6, <2>2, Zenon DEF validEntry
  <2> QED
    BY <2>1, <2>3 DEF Canonical
<1> QED
  BY <1>1, <1>2, <1>3, <1>4, <1>5, <1>6

LEMMA NextDecisionIsTyped ==
    ASSUME IInv, MoreDecisions
    PROVE  /\ ~ Manifest
           /\ collected \in Nat /\ Len(imported) \in Nat /\ DOMAIN imported = 1 .. Len(imported)
           /\ collected + 1 \in DOMAIN imported
           /\ imported[collected + 1] \in Decision
           /\ imported[collected + 1].decision = "mapped"
                => imported[collected + 1].change \in Canonical
<1>1. ~ Manifest
  BY DEF IInv, Typed, MoreDecisions
<1>2. imported \in Seq(Decision) /\ collected \in 0 .. Len(imported)
  BY <1>1 DEF IInv, Typed
<1>3. /\ Len(imported) \in Nat /\ DOMAIN imported = 1 .. Len(imported)
      /\ collected \in Nat /\ collected + 1 \in DOMAIN imported
  BY <1>2, LenProperties DEF MoreDecisions
<1>4. imported[collected + 1] \in Decision
  BY <1>2, <1>3
<1>5. \A d \in Decision : d.decision = "mapped" => d.change \in Canonical
  BY DEF Decision
<1> QED
  BY <1>1, <1>3, <1>4, <1>5

LEMMA TypedStep == IInv /\ [Next]_vars => Typed'
<1> SUFFICES ASSUME IInv, [Next]_vars PROVE Typed'
  OBVIOUS
<1>1. /\ input' = input /\ (Manifest' <=> Manifest) /\ Items' = Items
      /\ Canonical' = Canonical /\ Decision' = Decision
  BY StepKeepsInput, InputIsConstant
<1>2. Typed
  BY DEF IInv
<1>3. CASE Quiet
  <2>1. UNCHANGED <<input, at, changes, imported, collected, migration>>
    BY <1>3, QuietStep
  <2>2. ctx' \in {"live", "canceled"}
    BY <1>2, <1>3 DEF Typed, Quiet, vars, Goto, Cancel, RefuseManifest, ParseManifest, DropManifest,
                      RefuseDiff, DecodeDiff, RefuseUpdate, RefuseItem, EndOfDiff,
                      RefuseMapping, AcceptMapping, RefuseDuplicate,
                      RefuseEntries, Convert, RefuseImport, MappingRequired, AcceptImport
  <2>3. /\ pc' \in Final \cup {"start", "parsed", "items", "mapping", "convert", "collect"}
        /\ Manifest => pc' \in {"start", "parsed", "loaded", "failed"}
        /\ ~ Manifest => pc' # "parsed"
    BY <1>2, <1>3 DEF Typed, Final, Quiet, vars, Goto, Cancel, RefuseManifest, ParseManifest,
                      DropManifest, RefuseDiff, DecodeDiff, RefuseUpdate, RefuseItem, EndOfDiff,
                      RefuseMapping, AcceptMapping, RefuseDuplicate, MoreItems, MoreChanges,
                      RefuseEntries, Convert, RefuseImport, MappingRequired, AcceptImport,
                      EndOfChanges, EndOfDecisions
  <2> QED
    BY <1>1, <1>2, <2>1, <2>2, <2>3 DEF Typed
<1>4. CASE AcceptManifest
  <2>1. Manifest
    BY <1>2, <1>4 DEF AcceptManifest, Typed
  <2> QED
    BY <1>1, <1>2, <1>4, <2>1 DEF AcceptManifest, Typed, Final
<1>5. CASE SkipAddition
  <2>1. ~ Manifest
    BY <1>2, <1>5 DEF SkipAddition, MoreItems, Typed
  <2>2. at' \in 0 .. Len(Items)
    BY <1>2, <1>5, <2>1, NextItemIsTyped, DocumentsAreTyped DEF SkipAddition, Typed
  <2> QED
    BY <1>1, <1>2, <1>5, <2>1, <2>2 DEF SkipAddition, Typed
<1>6. CASE KeepChange
  <2>1. ~ Manifest
    BY <1>2, <1>6 DEF KeepChange, MoreItems, Typed
  <2>2. at' \in 0 .. Len(Items)
    BY <1>2, <1>6, <2>1, NextItemIsTyped, DocumentsAreTyped DEF KeepChange, Typed
  <2>3. NextChange \in SourceSelector
    <3>1. NextItem.type # "added"
      BY <1>6 DEF KeepChange, SourceTypes
    <3> QED
      BY <1>6, <2>1, <3>1, NextItemIsTyped DEF KeepChange
  <2>4. changes' \in Seq(SourceSelector)
    BY <1>2, <1>6, <2>3, AppendProperties DEF KeepChange, Typed
  <2> QED
    BY <1>1, <1>2, <1>6, <2>1, <2>2, <2>4 DEF KeepChange, Typed
<1>7. ASSUME NEW d \in Decision, Import(d)
      PROVE  Typed'
  <2>1. ~ Manifest
    BY <1>2, <1>7 DEF Import, MoreChanges, Typed
  <2>2. imported' = Append(imported, d) /\ imported \in Seq(Decision)
    BY <1>2, <1>7, <2>1 DEF Import, Typed
  <2>3. imported' \in Seq(Decision) /\ Len(imported') = Len(imported) + 1
    BY <2>2, AppendProperties
  <2>4. collected' \in 0 .. Len(imported')
    BY <1>2, <1>7, <2>1, <2>2, <2>3, LenProperties DEF Import, Typed
  <2> QED
    BY <1>1, <1>2, <1>7, <2>1, <2>3, <2>4 DEF Import, Typed
<1>8. CASE RequireMapping
  <2>1. [source |-> Source, decision |-> "requiresMapping"] \in Decision
    BY <1>8, NextSourceIsTyped DEF RequireMapping, Decision
  <2> QED
    BY <1>7, <1>8, <2>1 DEF RequireMapping
<1>9. CASE Ignore
  <2>1. [source |-> Source, decision |-> "ignored"] \in Decision
    BY <1>9, NextSourceIsTyped DEF Ignore, Decision
  <2> QED
    BY <1>7, <1>9, <2>1 DEF Ignore
<1>10. CASE Map
  <2>1. PICK e \in EntriesFor(Source) :
           /\ ~ e.ignore
           /\ Import([source |-> Source, decision |-> "mapped", change |-> canonicalChange(e)])
    BY <1>10, Zenon DEF Map
  <2>2. Source \in SourceSelector /\ canonicalChange(e) \in Canonical
    BY <1>10, <2>1, NextSourceIsTyped DEF Map
  <2>3. [source |-> Source, decision |-> "mapped", change |-> canonicalChange(e)] \in Decision
    BY <2>2 DEF Decision
  <2> QED
    BY <1>7, <2>1, <2>3
<1>11. CASE Collect
  <2>1. MoreDecisions /\ collected' = collected + 1
    BY <1>11 DEF Collect
  <2>2. ~ Manifest /\ collected' \in 0 .. Len(imported)
    BY <2>1, NextDecisionIsTyped
  <2>3. migration' \in Seq(Canonical)
    <3>1. migration \in Seq(Canonical)
      BY <1>2, <2>2 DEF Typed
    <3>2. migration' = IF imported[collected + 1].decision = "mapped"
                         THEN Append(migration, imported[collected + 1].change) ELSE migration
      BY <1>11 DEF Collect
    <3> QED
      BY <2>1, <3>1, <3>2, NextDecisionIsTyped, AppendProperties
  <2> QED
    BY <1>1, <1>2, <1>11, <2>2, <2>3 DEF Collect, Typed
<1> QED
  BY <1>3, <1>4, <1>5, <1>6, <1>8, <1>9, <1>10, <1>11, NextSteps

LEMMA OfManifestStep == IInv /\ [Next]_vars => OfManifest'
<1> SUFFICES ASSUME IInv, [Next]_vars, Manifest PROVE OfManifest'
  BY StepKeepsInput, InputIsConstant DEF OfManifest
<1>1. input' = input /\ Manifest'
  BY StepKeepsInput, InputIsConstant
<1>2. Typed /\ OfManifest
  BY DEF IInv
<1>3. Accepts(input.document)' <=> Accepts(input.document)
  BY <1>1
<1>4. CASE AcceptManifest
  BY <1>1, <1>2, <1>3, <1>4 DEF AcceptManifest, OfManifest
<1>5. CASE ~ AcceptManifest
  <2>1. pc' # pc => RefuseManifest \/ ParseManifest \/ DropManifest
    BY <1>2, <1>5 DEF Next, Typed, vars, Goto, Cancel, RefuseDiff, DecodeDiff, SkipAddition,
                      KeepChange, RefuseUpdate, RefuseItem, EndOfDiff, RefuseMapping, AcceptMapping,
                      RefuseDuplicate, Import, RequireMapping, Ignore, Map, RefuseEntries, Convert,
                      Collect, RefuseImport, MappingRequired, AcceptImport, MoreItems, MoreChanges,
                      EndOfChanges, MoreDecisions, EndOfDecisions, Final
  <2>2. (pc' = pc) => (ctx' = ctx \/ ctx' = "canceled")
    BY <1>5 DEF Next, vars, Goto, Cancel, RefuseManifest, ParseManifest, DropManifest,
                      RefuseDiff, DecodeDiff, SkipAddition,
                      KeepChange, RefuseUpdate, RefuseItem, EndOfDiff, RefuseMapping, AcceptMapping,
                      RefuseDuplicate, Import, RequireMapping, Ignore, Map, RefuseEntries, Convert,
                      Collect, RefuseImport, MappingRequired, AcceptImport
  <2>3. pc = "loaded" => migration' = migration
    BY <1>5 DEF Next, vars, Goto, Cancel, RefuseManifest, ParseManifest, DropManifest,
                      RefuseDiff, DecodeDiff, SkipAddition,
                      KeepChange, RefuseUpdate, RefuseItem, EndOfDiff, RefuseMapping, AcceptMapping,
                      RefuseDuplicate, Import, RequireMapping, Ignore, Map, RefuseEntries, Convert,
                      Collect, RefuseImport, MappingRequired, AcceptImport, MoreDecisions
  <2>4. RefuseManifest => pc' = "failed" /\ (ctx' = "live" => ~ Accepts(input.document))
    BY <1>2 DEF RefuseManifest, Goto, Typed
  <2>5. ParseManifest => pc' = "parsed" /\ Accepts(input.document)
    BY DEF ParseManifest, Goto
  <2>6. DropManifest => pc' = "failed" /\ ctx' = "canceled"
    BY DEF DropManifest, Goto
  <2> QED
    BY <1>1, <1>2, <1>3, <2>1, <2>2, <2>3, <2>4, <2>5, <2>6 DEF OfManifest
<1> QED
  BY <1>4, <1>5

(* The loading of an import takes its steps in this order. *)
LEMMA StepsInOrder ==
    ASSUME IInv, [Next]_vars, ~ Manifest
    PROVE  /\ pc = "start" /\ pc' # "start" => pc' = "failed" \/ DecodeDiff
           /\ pc' = "start" => pc = "start"
           /\ pc' = "items" => pc = "items" \/ DecodeDiff
           /\ pc' = "mapping" => pc = "mapping" \/ EndOfDiff
           /\ pc' = "convert" => pc = "convert" \/ AcceptMapping
           /\ pc' = "collect" => pc = "collect" \/ Convert
           /\ pc' = "loaded" => pc = "loaded" \/ AcceptImport
           /\ pc' = "incomplete" => pc = "incomplete" \/ RefuseUpdate \/ MappingRequired
           /\ pc' = "failed" =>
                 \/ pc = "failed" \/ RefuseDiff \/ RefuseItem \/ RefuseMapping
                 \/ RefuseDuplicate \/ RefuseEntries \/ RefuseImport
           /\ pc = "failed" => pc' = "failed"
           /\ ctx' = "live" => ctx = "live"
<1>1. pc # "parsed" /\ ctx \in {"live", "canceled"}
  BY DEF IInv, Typed
<1>2. ~ RefuseManifest /\ ~ ParseManifest /\ ~ DropManifest /\ ~ AcceptManifest
  BY <1>1 DEF RefuseManifest, ParseManifest, DropManifest, AcceptManifest
<1>3. CASE Quiet
  BY <1>1, <1>2, <1>3 DEF Quiet, vars, Goto, Cancel, RefuseDiff, DecodeDiff, RefuseUpdate,
         RefuseItem, EndOfDiff, RefuseMapping, AcceptMapping, RefuseDuplicate, RefuseEntries,
         Convert, RefuseImport, MappingRequired, AcceptImport, MoreItems, MoreChanges,
         EndOfChanges, EndOfDecisions
<1>4. CASE SkipAddition \/ KeepChange \/ RequireMapping \/ Ignore \/ Map \/ Collect
  BY <1>4 DEF SkipAddition, KeepChange, RequireMapping, Ignore, Map, Import, Collect
<1> QED
  BY <1>2, <1>3, <1>4, NextSteps

LEMMA ReadStep == IInv /\ [Next]_vars => Read'
<1> SUFFICES ASSUME IInv, [Next]_vars, ~ Manifest PROVE Read'
  BY StepKeepsInput, InputIsConstant DEF Read
<1>1. /\ input' = input /\ ~ Manifest' /\ Items' = Items /\ Wanted' = Wanted
      /\ \A i : WantedChange(i)' = WantedChange(i)
      /\ ValidMapping' <=> ValidMapping
  BY StepKeepsInput, InputIsConstant
<1>2. Typed /\ Read
  BY DEF IInv
<1>3. /\ at \in 0 .. Len(Items) /\ Len(Items) \in Nat /\ DOMAIN Items = 1 .. Len(Items)
      /\ changes \in Seq(SourceSelector)
  BY <1>2, DocumentsAreTyped DEF Typed
<1>4. Len(changes) \in Nat /\ DOMAIN changes = 1 .. Len(changes)
  BY <1>3, LenProperties
<1>5. pc' \notin {"start", "failed"} => input.diff.decodes
  BY <1>2, StepsInOrder DEF Read, DecodeDiff
<1>6. (\A i \in 1 .. at' : HasFields(Items[i].item))
      /\ (\E g \in [DOMAIN changes' -> 1 .. at'] : Reads(g)')
  <2>1. CASE UNCHANGED <<at, changes>>
    <3>1. \A g : Reads(g)' <=> Reads(g)
      BY <1>1, <2>1 DEF Reads
    <3> QED
      BY <1>2, <2>1, <3>1 DEF Read
  <2>2. CASE SkipAddition
    <3>1. /\ MoreItems /\ NextItem.type = "added" /\ HasFields(NextItem)
          /\ at' = at + 1 /\ changes' = changes
      BY <2>2 DEF SkipAddition
    <3>2. /\ at + 1 \in DOMAIN Items /\ at \in Nat /\ NextItem = Items[at + 1].item
      BY <3>1, NextItemIsTyped
    <3>3. PICK g \in [DOMAIN changes -> 1 .. at] : Reads(g)
      BY <1>2 DEF Read
    <3>4. g \in [DOMAIN changes' -> 1 .. at']
      BY <3>1, <3>2
    <3>5. \A i \in Wanted : i <= at + 1 => i <= at
      BY <1>3, <3>1, <3>2 DEF Wanted
    <3>6. Reads(g)'
      BY <1>1, <3>1, <3>3, <3>5 DEF Reads
    <3>7. \A i \in 1 .. at' : HasFields(Items[i].item)
      BY <1>2, <3>1, <3>2 DEF Read
    <3> QED
      BY <3>4, <3>6, <3>7
  <2>3. CASE KeepChange
    <3>1. /\ MoreItems /\ NextItem.type \in SourceTypes /\ HasFields(NextItem)
          /\ at' = at + 1 /\ changes' = Append(changes, NextChange)
      BY <2>3 DEF KeepChange
    <3>2. /\ at + 1 \in DOMAIN Items /\ at \in Nat /\ NextItem = Items[at + 1].item
          /\ NextChange = WantedChange(at + 1) /\ NextItem.type # "added"
          /\ NextChange \in SourceSelector
      BY <3>1, NextItemIsTyped DEF SourceTypes
    <3>3. PICK g \in [DOMAIN changes -> 1 .. at] : Reads(g)
      BY <1>2 DEF Read
    <3> DEFINE n == Len(changes)
    <3> PICK f : f = [k \in 1 .. n + 1 |-> IF k = n + 1 THEN at + 1 ELSE g[k]]
      OBVIOUS
    <3>4. /\ DOMAIN changes' = 1 .. n + 1
          /\ changes'[n + 1] = NextChange
          /\ \A k \in 1 .. n : changes'[k] = changes[k]
      BY <1>3, <1>4, <3>1, <3>2, AppendProperties
    <3>5. \A k \in 1 .. n : k \in 1 .. n + 1 /\ f[k] = g[k] /\ g[k] \in 1 .. at
      BY <1>4, <3>3
    <3>6. n + 1 \in 1 .. n + 1 /\ f[n + 1] = at + 1
      BY <1>4
    <3>7. \A k \in 1 .. n + 1 : k = n + 1 \/ k \in 1 .. n
      BY <1>4
    <3>8. f \in [DOMAIN changes' -> 1 .. at']
      <4>1. \A k \in 1 .. n + 1 : f[k] \in 1 .. at + 1
        BY <3>2, <3>5, <3>6, <3>7
      <4> QED
        BY <3>1, <3>4, <4>1
    <3>9. DOMAIN f = 1 .. n + 1
      OBVIOUS
    <3>10. Reads(g) /\ DOMAIN g = 1 .. n
      BY <1>4, <3>3
    <3>11. IsInjective(f)
      <4>1. \A k, l \in 1 .. n : g[k] = g[l] => k = l
        BY <3>10 DEF Reads, IsInjective
      <4>2. ~ (at + 1 \in 1 .. at)
        BY <3>2
      <4>3. \A k, l \in 1 .. n + 1 : f[k] = f[l] => k = l
        BY <3>5, <3>6, <3>7, <4>1, <4>2
      <4> QED
        BY <3>9, <4>3 DEF IsInjective
    <3>12. at + 1 \in Wanted
      BY <3>2 DEF Wanted
    <3>13. \A k \in 1 .. n + 1 : f[k] \in Wanted /\ changes'[k] = WantedChange(f[k])
      <4>1. \A k \in 1 .. n : g[k] \in Wanted /\ changes[k] = WantedChange(g[k])
        BY <1>4, <3>10 DEF Reads
      <4> QED
        BY <3>2, <3>4, <3>5, <3>6, <3>7, <3>12, <4>1
    <3>14. \A i \in Wanted : i <= at + 1 => \E k \in 1 .. n + 1 : f[k] = i
      <4> TAKE i \in Wanted
      <4>1. CASE i = at + 1
        BY <3>6, <4>1
      <4>2. CASE i # at + 1
        <5>1. i \in Nat
          BY <1>3 DEF Wanted
        <5>2. i <= at + 1 => i <= at
          BY <3>2, <4>2, <5>1
        <5>3. i <= at => \E k \in 1 .. n : g[k] = i
          BY <1>4, <3>10 DEF Reads
        <5> QED
          BY <3>5, <5>2, <5>3
      <4> QED
        BY <4>1, <4>2
    <3>15. Reads(f)'
      BY <1>1, <3>1, <3>4, <3>11, <3>13, <3>14 DEF Reads
    <3>16. \A i \in 1 .. at' : HasFields(Items[i].item)
      BY <1>2, <3>1, <3>2 DEF Read
    <3> QED
      BY <3>8, <3>15, <3>16
  <2>4. RequireMapping \/ Ignore \/ Map \/ Collect => UNCHANGED <<at, changes>>
    BY DEF RequireMapping, Ignore, Map, Import, Collect
  <2>5. ~ AcceptManifest
    BY DEF AcceptManifest, IInv, Typed
  <2> QED
    BY <2>1, <2>2, <2>3, <2>4, <2>5, NextSteps, QuietStep
<1>7. pc' \in {"mapping", "convert", "collect", "loaded"} => at' = Len(Items)
  <2>1. EndOfDiff => at' = at /\ ~ (at < Len(Items))
    BY DEF EndOfDiff, Goto, MoreItems, Items
  <2>2. EndOfDiff => at' = Len(Items)
    <3>1. at \in Nat /\ at <= Len(Items)
      BY <1>3
    <3>2. \A n, k \in Nat : k <= n /\ ~ (k < n) => k = n
      OBVIOUS
    <3> QED
      BY <1>3, <2>1, <3>1, <3>2
  <2>3. pc \in {"mapping", "convert", "collect", "loaded"} => at' = at
    BY QuietStep, NextSteps DEF AcceptManifest, SkipAddition, KeepChange, MoreItems,
                               RequireMapping, Ignore, Map, Import, Collect
  <2>4. pc' \in {"mapping", "convert", "collect", "loaded"}
          => EndOfDiff \/ pc \in {"mapping", "convert", "collect", "loaded"}
    BY StepsInOrder DEF AcceptMapping, Convert, EndOfChanges, AcceptImport, EndOfDecisions
  <2> QED
    BY <1>2, <2>2, <2>3, <2>4 DEF Read
<1>8. pc' \in {"convert", "collect", "loaded"} => ValidMapping
  BY <1>2, StepsInOrder DEF Read, AcceptMapping, Convert, EndOfChanges, AcceptImport, EndOfDecisions
<1> QED
  BY <1>1, <1>5, <1>6, <1>7, <1>8 DEF Read

(* A decision that is the mapping's keeps the others what they are. *)
LEMMA ImportStep ==
    ASSUME IInv, NEW d, Import(d), input' = input, IsDecision(d, Source, EntriesFor(Source))
    PROVE  Decided'
<1>1. MoreChanges /\ ~ Duplicate /\ imported' = Append(imported, d) /\ changes' = changes /\ pc' = pc
  BY DEF Import
<1>2. /\ ~ Manifest /\ Len(imported) \in Nat /\ DOMAIN imported = 1 .. Len(imported)
      /\ Len(imported) + 1 \in DOMAIN changes
      /\ DOMAIN changes = 1 .. Len(changes) /\ Len(changes) \in Nat
  BY <1>1, NextSourceIsTyped
<1>3. Source = changes[Len(imported) + 1]
  BY DEF Source
<1>4. imported \in Seq(Decision) /\ Decided
  BY <1>2 DEF IInv, Typed
<1> PICK n : n = Len(imported)
  OBVIOUS
<1>5. /\ Len(imported') = n + 1 /\ DOMAIN imported' = 1 .. n + 1
      /\ imported'[n + 1] = d
      /\ \A i \in 1 .. n : imported'[i] = imported[i]
  <2> DEFINE S == Decision \cup {d}
  <2>1. imported \in Seq(S)
    BY <1>4
  <2>2. d \in S
    OBVIOUS
  <2> HIDE DEF S
  <2> QED
    BY <1>1, <1>2, <2>1, <2>2, AppendProperties, LenProperties
<1>6. \A i \in 1 .. n + 1 : i = n + 1 \/ i \in 1 .. n
  BY <1>2
<1>7. \A s : EntriesFor(s)' = EntriesFor(s)
  BY InputIsConstant
<1>8. \A i \in 1 .. n + 1 : IsDecision(imported'[i], changes[i], EntriesFor(changes[i]))
  <2>1. \A i \in 1 .. n : IsDecision(imported[i], changes[i], EntriesFor(changes[i]))
    BY <1>2, <1>4 DEF Decided
  <2> QED
    BY <1>3, <1>5, <1>6, <2>1
<1>9. \A i, j \in 1 .. n + 1 : changes[i] = changes[j] => i = j
  <2>1. \A i \in 1 .. n : changes[i] # Source
    BY <1>1, <1>2, <1>4 DEF Duplicate, Decided, IsDecision
  <2>2. \A i, j \in 1 .. n : changes[i] = changes[j] => i = j
    BY <1>2, <1>4 DEF Decided
  <2> QED
    BY <1>3, <1>6, <2>1, <2>2
<1>10. n + 1 <= Len(changes)
  BY <1>2
<1>11. pc' = "convert"
  BY <1>1 DEF MoreChanges
<1> QED
  BY <1>1, <1>5, <1>7, <1>8, <1>9, <1>10, <1>11 DEF Decided

LEMMA DecidedStep == IInv /\ [Next]_vars => Decided'
<1> SUFFICES ASSUME IInv, [Next]_vars, ~ Manifest PROVE Decided'
  BY StepKeepsInput, InputIsConstant DEF Decided
<1>1. /\ input' = input /\ ~ Manifest' /\ Entries' = Entries
      /\ \A s : EntriesFor(s)' = EntriesFor(s)
  BY StepKeepsInput, InputIsConstant
<1>2. Typed /\ Decided
  BY DEF IInv
<1>3. /\ changes \in Seq(SourceSelector) /\ imported \in Seq(Decision)
      /\ Len(changes) \in Nat /\ Len(imported) \in Nat
  BY <1>2, LenProperties DEF Typed
<1>4. CASE UNCHANGED <<changes, imported>>
  <2>1. \A i \in DOMAIN imported : IsDecision(imported[i], changes[i], EntriesFor(changes[i]))
    BY <1>2 DEF Decided
  <2>2. pc' \in {"start", "items", "mapping"} => imported = << >>
    BY <1>2, StepsInOrder DEF Decided, DecodeDiff, EndOfDiff
  <2>3. Convert => Len(imported) = Len(changes) /\ ~ Unmatched
    <3>1. Convert => ~ (Len(imported) < Len(changes)) /\ ~ Unmatched
      BY DEF Convert, EndOfChanges, MoreChanges
    <3>2. Len(imported) <= Len(changes)
      BY <1>2 DEF Decided
    <3>3. \A n, k \in Nat : k <= n /\ ~ (k < n) => k = n
      OBVIOUS
    <3> QED
      BY <1>3, <3>1, <3>2, <3>3
  <2>4. pc' \in {"collect", "loaded"} => Len(imported) = Len(changes) /\ ~ Unmatched
    BY <1>2, <2>3, StepsInOrder DEF Decided, AcceptImport, EndOfDecisions
  <2>5. Unmatched' <=> Unmatched
    BY <1>1, <1>4 DEF Unmatched
  <2> QED
    BY <1>1, <1>2, <1>4, <2>1, <2>2, <2>4, <2>5 DEF Decided
<1>5. CASE KeepChange
  <2>1. imported = << >> /\ imported' = << >> /\ pc' = "items"
    BY <1>2, <1>5 DEF KeepChange, MoreItems, Decided
  <2>2. Len(<< >>) = 0 /\ DOMAIN << >> = {}
    BY EmptySeq
  <2>3. Len(changes') \in Nat
    BY TypedStep, LenProperties DEF Typed
  <2> QED
    BY <2>1, <2>2, <2>3 DEF Decided
<1>6. CASE RequireMapping
  <2>1. IsDecision([source |-> Source, decision |-> "requiresMapping"], Source, EntriesFor(Source))
    BY <1>6 DEF RequireMapping, IsDecision
  <2> QED
    BY <1>1, <1>6, <2>1, ImportStep DEF RequireMapping
<1>7. CASE Ignore
  <2>1. \E e \in EntriesFor(Source) : e.ignore
    BY <1>7, Zenon DEF Ignore
  <2>2. IsDecision([source |-> Source, decision |-> "ignored"], Source, EntriesFor(Source))
    BY <2>1 DEF IsDecision
  <2> QED
    BY <1>1, <1>7, <2>2, ImportStep DEF Ignore
<1>8. CASE Map
  <2>1. PICK e \in EntriesFor(Source) :
           /\ ~ e.ignore
           /\ Import([source |-> Source, decision |-> "mapped", change |-> canonicalChange(e)])
    BY <1>8, Zenon DEF Map
  <2>2. IsDecision([source |-> Source, decision |-> "mapped", change |-> canonicalChange(e)],
                   Source, EntriesFor(Source))
    BY <2>1 DEF IsDecision
  <2> QED
    BY <1>1, <2>1, <2>2, ImportStep
<1>9. SkipAddition \/ Collect => UNCHANGED <<changes, imported>>
  BY DEF SkipAddition, Collect
<1>10. ~ AcceptManifest
  BY <1>2 DEF AcceptManifest, Typed
<1> QED
  BY <1>4, <1>5, <1>6, <1>7, <1>8, <1>9, <1>10, NextSteps, QuietStep

LEMMA CollectedStep == IInv /\ [Next]_vars => Collected'
<1> SUFFICES ASSUME IInv, [Next]_vars, ~ Manifest PROVE Collected'
  BY StepKeepsInput, InputIsConstant DEF Collected
<1>1. input' = input /\ ~ Manifest'
  BY StepKeepsInput, InputIsConstant
<1>2. Typed /\ Decided /\ Collected
  BY DEF IInv
<1>3. /\ imported \in Seq(Decision) /\ collected \in 0 .. Len(imported)
      /\ migration \in Seq(Canonical)
  BY <1>2 DEF Typed
<1>4. /\ Len(imported) \in Nat /\ Len(migration) \in Nat /\ collected \in Nat
      /\ DOMAIN migration = 1 .. Len(migration) /\ DOMAIN imported = 1 .. Len(imported)
      /\ collected <= Len(imported)
  BY <1>3, LenProperties
<1>5. PICK h \in [DOMAIN migration -> 1 .. collected] : Collects(h)
  BY <1>2 DEF Collected
<1>6. CASE UNCHANGED <<imported, collected, migration>>
  <2>1. Collects(h)'
    BY <1>5, <1>6 DEF Collects
  <2>2. pc' \in {"start", "items", "mapping", "convert"} => collected = 0
    BY <1>2, StepsInOrder DEF Collected, DecodeDiff, EndOfDiff, AcceptMapping
  <2>3. AcceptImport => collected = Len(imported) /\ ~ Missing /\ ValidImport
    <3>1. AcceptImport => ~ (collected < Len(imported)) /\ ~ Missing /\ ValidImport
      BY DEF AcceptImport, EndOfDecisions, MoreDecisions
    <3>2. \A n, k \in Nat : k <= n /\ ~ (k < n) => k = n
      OBVIOUS
    <3> QED
      BY <1>4, <3>1, <3>2
  <2>4. (Missing' <=> Missing) /\ (ValidImport' <=> ValidImport)
    BY <1>6 DEF Missing, ValidImport
  <2>5. pc' = "loaded" => collected = Len(imported) /\ ~ Missing /\ ValidImport
    BY <1>2, <2>3, StepsInOrder DEF Collected
  <2> QED
    BY <1>1, <1>5, <1>6, <2>1, <2>2, <2>4, <2>5 DEF Collected
<1>7. CASE imported' # imported /\ UNCHANGED <<pc, collected, migration>> /\ pc = "convert"
  <2>1. collected = 0
    BY <1>2, <1>7 DEF Collected
  <2>2. 1 .. 0 = {}
    OBVIOUS
  <2>3. DOMAIN migration = {}
    BY <1>5, <2>1, <2>2
  <2>4. Collects(h)'
    BY <1>5, <1>7, <2>1, <2>2, <2>3 DEF Collects
  <2> QED
    BY <1>5, <1>7, <2>1, <2>4 DEF Collected
<1>8. CASE Collect
  <2> DEFINE next == imported[collected + 1]
             n == Len(migration)
  <2>1. /\ MoreDecisions /\ collected' = collected + 1 /\ imported' = imported /\ pc' = pc
        /\ migration' = IF next.decision = "mapped" THEN Append(migration, next.change)
                                                    ELSE migration
    BY <1>8 DEF Collect
  <2>2. pc' = "collect"
    BY <2>1 DEF MoreDecisions
  <2>3. collected + 1 \in DOMAIN imported /\ (next.decision = "mapped" => next.change \in Canonical)
    BY <2>1, NextDecisionIsTyped
  <2>4. /\ IsInjective(h)
        /\ \A k \in 1 .. n : /\ h[k] \in 1 .. collected
                             /\ imported[h[k]].decision = "mapped"
                             /\ migration[k] = imported[h[k]].change
        /\ \A i \in 1 .. collected : imported[i].decision = "mapped"
                                       => \E k \in 1 .. n : h[k] = i
        /\ DOMAIN h = 1 .. n
    BY <1>4, <1>5 DEF Collects
  <2>5. \A i \in 1 .. collected + 1 : i = collected + 1 \/ i \in 1 .. collected
    BY <1>4
  <2>6. \E f \in [DOMAIN migration' -> 1 .. collected'] : Collects(f)'
    <3>1. CASE next.decision # "mapped"
      <4>1. migration' = migration
        BY <2>1, <3>1
      <4>2. h \in [DOMAIN migration' -> 1 .. collected']
        <5>1. 1 .. collected \subseteq 1 .. collected + 1
          BY <1>4
        <5> QED
          BY <1>5, <2>1, <4>1, <5>1
      <4>3. Collects(h)'
        BY <1>4, <2>1, <2>4, <2>5, <3>1, <4>1 DEF Collects
      <4> QED
        BY <4>2, <4>3
    <3>2. CASE next.decision = "mapped"
      <4> PICK f : f = [k \in 1 .. n + 1 |-> IF k = n + 1 THEN collected + 1 ELSE h[k]]
        OBVIOUS
      <4>1. migration' = Append(migration, next.change)
        BY <2>1, <3>2
      <4>2. /\ DOMAIN migration' = 1 .. n + 1
            /\ migration'[n + 1] = next.change
            /\ \A k \in 1 .. n : migration'[k] = migration[k]
        BY <1>3, <1>4, <2>3, <3>2, <4>1, AppendProperties
      <4>3. /\ \A k \in 1 .. n : k \in 1 .. n + 1 /\ f[k] = h[k]
            /\ n + 1 \in 1 .. n + 1 /\ f[n + 1] = collected + 1
            /\ \A k \in 1 .. n + 1 : k = n + 1 \/ k \in 1 .. n
            /\ DOMAIN f = 1 .. n + 1
        BY <1>4
      <4>4. f \in [DOMAIN migration' -> 1 .. collected']
        <5>1. \A k \in 1 .. n + 1 : f[k] \in 1 .. collected + 1
          BY <1>4, <2>4, <4>3
        <5> QED
          BY <2>1, <4>2, <5>1
      <4>5. IsInjective(f)
        <5>1. \A k, l \in 1 .. n : h[k] = h[l] => k = l
          BY <2>4 DEF IsInjective
        <5>2. ~ (collected + 1 \in 1 .. collected)
          BY <1>4
        <5>3. \A k, l \in 1 .. n + 1 : f[k] = f[l] => k = l
          BY <2>4, <4>3, <5>1, <5>2
        <5> QED
          BY <4>3, <5>3 DEF IsInjective
      <4>6. \A k \in 1 .. n + 1 : /\ imported[f[k]].decision = "mapped"
                                  /\ migration'[k] = imported[f[k]].change
        BY <2>4, <3>2, <4>2, <4>3
      <4>7. \A i \in 1 .. collected + 1 : imported[i].decision = "mapped"
                                            => \E k \in 1 .. n + 1 : f[k] = i
        BY <2>4, <2>5, <4>3
      <4>8. Collects(f)'
        BY <2>1, <4>2, <4>5, <4>6, <4>7 DEF Collects
      <4> QED
        BY <4>4, <4>8
    <3> QED
      BY <3>1, <3>2
  <2> QED
    BY <2>2, <2>6 DEF Collected
<1>9. RequireMapping \/ Ignore \/ Map =>
         UNCHANGED <<pc, collected, migration>> /\ pc = "convert"
  BY DEF RequireMapping, Ignore, Map, Import, MoreChanges
<1>10. SkipAddition \/ KeepChange => UNCHANGED <<imported, collected, migration>>
  BY DEF SkipAddition, KeepChange
<1>11. ~ AcceptManifest
  BY <1>2 DEF AcceptManifest, Typed
<1> QED
  BY <1>6, <1>7, <1>8, <1>9, <1>10, <1>11, NextSteps, QuietStep

-----------------------------------------------------------------------------
(* What the invariant says of an import                                     *)

(* As many entries as there are things, and an entry for each of them: then *)
(* no two of the entries are for the same.                                  *)
LEMMA NoEntryTwice ==
    ASSUME NEW n \in Nat, NEW S, IsFiniteSet(S), NEW v, DOMAIN v = 1 .. n,
           NEW c, DOMAIN c = S, IsInjective(c),
           {v[k] : k \in 1 .. n} = {c[i] : i \in S}
    PROVE  n = Cardinality(S) <=> IsInjective(v)
<1> DEFINE T == {c[i] : i \in S}
<1>1. ExistsBijection(S, T)
  <2> DEFINE f == [i \in S |-> c[i]]
  <2>1. f \in [S -> T] /\ DOMAIN f = S
    OBVIOUS
  <2>2. \A i, j \in S : f[i] = f[j] => i = j
    BY DEF IsInjective
  <2>3. \A t \in T : \E i \in S : f[i] = t
    OBVIOUS
  <2> HIDE DEF f, T
  <2>4. f \in Bijection(S, T)
    BY <2>1, <2>2, <2>3 DEF Bijection, Injection, Surjection, IsInjective
  <2> QED
    BY <2>4 DEF ExistsBijection
<1>2. IsFiniteSet(T) /\ Cardinality(T) = Cardinality(S)
  BY <1>1, FS_Bijection
<1>3. IsFiniteSet(1 .. n) /\ Cardinality(1 .. n) = n
  BY FS_Interval
<1> DEFINE w == [k \in 1 .. n |-> v[k]]
<1>4. w \in [1 .. n -> T] /\ DOMAIN w = 1 .. n
  OBVIOUS
<1>5. \A t \in T : \E k \in 1 .. n : w[k] = t
  OBVIOUS
<1>6. IsInjective(v) <=> \A k, l \in 1 .. n : w[k] = w[l] => k = l
  BY DEF IsInjective
<1> HIDE DEF w, T
<1>7. w \in Surjection(1 .. n, T)
  BY <1>4, <1>5 DEF Surjection
<1>8. Cardinality(T) = Cardinality(1 .. n) <=> w \in Injection(1 .. n, T)
  BY <1>3, <1>7, FS_Surjection
<1>9. w \in Injection(1 .. n, T) <=> \A k, l \in 1 .. n : w[k] = w[l] => k = l
  BY <1>4 DEF Injection, IsInjective
<1> QED
  BY <1>2, <1>3, <1>6, <1>8, <1>9

LEMMA WantedIsFinite ==
    ASSUME input \in Inputs, ~ Manifest
    PROVE  IsFiniteSet(Wanted)
<1>1. Wanted \subseteq 1 .. Len(Items) /\ Len(Items) \in Nat
  BY DocumentsAreTyped DEF Wanted
<1>2. IsFiniteSet(1 .. Len(Items))
  BY <1>1, FS_Interval
<1> QED
  BY <1>1, <1>2, FS_Subset

LEMMA WantedIsSelector ==
    ASSUME input \in Inputs, ~ Manifest, NEW i \in Wanted, HasFields(Items[i].item)
    PROVE  WantedChange(i) \in SourceSelector /\ validSelector(WantedChange(i))
<1>1. /\ Items[i].kind \in SourceKinds /\ Items[i].item \in Item
      /\ Items[i].item.type # "added"
  BY DocumentsAreTyped DEF Wanted
<1> QED
  BY <1>1, NormalizedIsSelector DEF WantedChange

(* What can be resolved has a valid mapping, and every change of it is one  *)
(* that a migration may hold.                                               *)
LEMMA ResolvableIsValid ==
    ASSUME input \in Inputs, ~ Manifest, Resolvable
    PROVE  /\ ValidMapping
           /\ \A e \in Entries : ~ e.ignore => validChange(canonicalChange(e))
<1> DEFINE said == input.mapping.entries
<1>1. /\ input.mapping.decodes
      /\ \A i \in DOMAIN Items : HasFields(Items[i].item)
      /\ \A i, j \in Wanted : WantedChange(i) = WantedChange(j) => i = j
      /\ {WantedChange(i) : i \in Wanted} = {e.weaver : e \in Entries}
      /\ Len(said) = Cardinality(Wanted)
      /\ \A i \in DOMAIN said : LegalEntry(said[i])
      /\ \A i, j \in DOMAIN said : said[i].id = said[j].id => i = j
      /\ \E e \in Entries : ~ e.ignore
  BY Zenon DEF Resolvable
<1>2. /\ said \in Seq(MappingEntry)
      /\ Entries = {said[i] : i \in DOMAIN said} /\ Entries \subseteq MappingEntry
  BY DocumentsAreTyped
<1>3. Len(said) \in Nat /\ DOMAIN said = 1 .. Len(said)
  BY <1>2, LenProperties
<1>4. \A e \in Entries : validSelector(e.weaver)
  <2> TAKE e \in Entries
  <2>1. PICK i \in Wanted : WantedChange(i) = e.weaver
    BY <1>1
  <2>2. HasFields(Items[i].item)
    BY <1>1 DEF Wanted
  <2> QED
    BY <2>1, <2>2, WantedIsSelector
<1>5. \A e \in Entries : validEntry(e) /\ (~ e.ignore => validChange(canonicalChange(e)))
  <2> TAKE e \in Entries
  <2>1. LegalEntry(e)
    BY <1>1, <1>2
  <2>2. e \in MappingEntry /\ validSelector(e.weaver)
    BY <1>2, <1>4
  <2> QED
    BY <2>1, <2>2, EntryIsLegal
<1>6. said # << >>
  BY <1>1, <1>2, EmptyDomain
<1>7. IsInjective([i \in DOMAIN said |-> said[i].id])
  BY <1>1 DEF IsInjective
<1>8. IsInjective([i \in DOMAIN said |-> said[i].weaver])
  <2> DEFINE v == [k \in DOMAIN said |-> said[k].weaver]
             c == [i \in Wanted |-> WantedChange(i)]
  <2>1. IsInjective(c)
    BY <1>1 DEF IsInjective
  <2>2. {v[k] : k \in 1 .. Len(said)} = {c[i] : i \in Wanted}
    <3>1. {v[k] : k \in 1 .. Len(said)} = {e.weaver : e \in Entries}
      BY <1>2, <1>3
    <3>2. {c[i] : i \in Wanted} = {WantedChange(i) : i \in Wanted}
      OBVIOUS
    <3> QED
      BY <1>1, <3>1, <3>2
  <2>3. DOMAIN v = 1 .. Len(said) /\ DOMAIN c = Wanted
    BY <1>3
  <2>4. IsFiniteSet(Wanted)
    BY WantedIsFinite
  <2> HIDE DEF v, c
  <2>5. IsInjective(v)
    BY <1>1, <1>3, <2>1, <2>2, <2>3, <2>4, NoEntryTwice
  <2> QED
    BY <2>5 DEF v
<1>9. \A i \in DOMAIN said : validEntry(said[i])
  BY <1>2, <1>5
<1> QED
  BY <1>1, <1>5, <1>6, <1>7, <1>8, <1>9 DEF ValidMapping, validateMapping

(* When the diff has been read, its changes are those that are wanted, each *)
(* as often as the diff has it.                                             *)
LEMMA AllIsRead ==
    ASSUME IInv, ~ Manifest, pc \in {"mapping", "convert", "collect", "loaded"}
    PROVE  /\ \A i \in DOMAIN Items : HasFields(Items[i].item)
           /\ ToSet(changes) = {WantedChange(i) : i \in Wanted}
           /\ \A k, l \in DOMAIN changes : k # l /\ changes[k] = changes[l] =>
                 \E i, j \in Wanted : i # j /\ WantedChange(i) = WantedChange(j)
           /\ (\A k, l \in DOMAIN changes : changes[k] = changes[l] => k = l) =>
                 \A i, j \in Wanted : WantedChange(i) = WantedChange(j) => i = j
<1>1. input \in Inputs /\ Read
  BY DEF IInv, Typed
<1>2. at = Len(Items) /\ \A i \in 1 .. at : HasFields(Items[i].item)
  BY <1>1 DEF Read
<1>3. Len(Items) \in Nat /\ DOMAIN Items = 1 .. Len(Items)
  BY <1>1, DocumentsAreTyped
<1>4. PICK g \in [DOMAIN changes -> 1 .. at] : Reads(g)
  BY <1>1 DEF Read
<1>5. \A i \in Wanted : i <= at
  BY <1>2, <1>3 DEF Wanted
<1>6. /\ \A k \in DOMAIN changes : g[k] \in Wanted /\ changes[k] = WantedChange(g[k])
      /\ \A i \in Wanted : \E k \in DOMAIN changes : g[k] = i
      /\ \A k, l \in DOMAIN changes : g[k] = g[l] => k = l
  BY <1>4, <1>5 DEF Reads, IsInjective
<1>7. ToSet(changes) = {changes[k] : k \in DOMAIN changes}
  BY DEF ToSet
<1>8. ToSet(changes) = {WantedChange(i) : i \in Wanted}
  BY <1>6, <1>7
<1>9. \A k, l \in DOMAIN changes : k # l /\ changes[k] = changes[l] =>
         \E i, j \in Wanted : i # j /\ WantedChange(i) = WantedChange(j)
  BY <1>6
<1>10. (\A k, l \in DOMAIN changes : changes[k] = changes[l] => k = l) =>
          \A i, j \in Wanted : WantedChange(i) = WantedChange(j) => i = j
  BY <1>6
<1> QED
  BY <1>2, <1>3, <1>8, <1>9, <1>10

(* When all decisions have been gone through, the migration is what the     *)
(* entries say that do not ignore their change, each of them once.          *)
LEMMA AllIsCollected ==
    ASSUME IInv, ~ Manifest, pc \in {"collect", "loaded"}, collected = Len(imported)
    PROVE  /\ migration \in Seq(Canonical)
           /\ \A k \in DOMAIN migration :
                 \E e \in Entries : ~ e.ignore /\ migration[k] = canonicalChange(e)
           /\ \A e \in Entries :
                 ~ e.ignore => \E k \in DOMAIN migration : migration[k] = canonicalChange(e)
           /\ \A k, l \in DOMAIN migration : migration[k].id = migration[l].id => k = l
<1>1. Typed /\ Read /\ Decided /\ Collected
  BY DEF IInv
<1>2. /\ input \in Inputs /\ imported \in Seq(Decision) /\ changes \in Seq(SourceSelector)
      /\ migration \in Seq(Canonical)
  BY <1>1 DEF Typed
<1>3. /\ DOMAIN imported = 1 .. Len(imported) /\ DOMAIN changes = 1 .. Len(changes)
      /\ Len(imported) = Len(changes) /\ ~ Unmatched
  BY <1>1, <1>2, LenProperties DEF Decided
<1>4. /\ \A i \in DOMAIN imported : IsDecision(imported[i], changes[i], EntriesFor(changes[i]))
      /\ \A i, j \in DOMAIN imported : changes[i] = changes[j] => i = j
  BY <1>1 DEF Decided
<1>5. ValidMapping
  BY <1>1 DEF Read
<1>6. /\ Entries \subseteq MappingEntry
      /\ \A e \in Entries : validEntry(e)
      /\ \A d, e \in Entries : d.weaver = e.weaver => d = e
      /\ \A d, e \in Entries : d.id = e.id => d = e
  BY <1>2, <1>5, MappingIsValid, DocumentsAreTyped
<1>7. \A e \in Entries : ~ e.ignore => e.target # NoTarget
  BY <1>6, Zenon DEF validEntry
<1>8. PICK h \in [DOMAIN migration -> 1 .. collected] : Collects(h)
  BY <1>1 DEF Collected
<1>9. /\ \A k \in DOMAIN migration : /\ h[k] \in DOMAIN imported
                                     /\ imported[h[k]].decision = "mapped"
                                     /\ migration[k] = imported[h[k]].change
      /\ \A i \in DOMAIN imported : imported[i].decision = "mapped"
                                      => \E k \in DOMAIN migration : h[k] = i
      /\ \A k, l \in DOMAIN migration : h[k] = h[l] => k = l
  BY <1>3, <1>8 DEF Collects, IsInjective
<1>10. \A k \in DOMAIN migration :
          \E e \in Entries : /\ ~ e.ignore /\ migration[k] = canonicalChange(e)
                             /\ e.weaver = changes[h[k]]
  BY <1>4, <1>9 DEF IsDecision, EntriesFor
<1>11. ASSUME NEW e \in Entries, ~ e.ignore
       PROVE  \E k \in DOMAIN migration : migration[k] = canonicalChange(e)
  <2>1. PICK i \in DOMAIN changes : changes[i] = e.weaver
    BY <1>3 DEF Unmatched, ToSet
  <2>2. i \in DOMAIN imported
    BY <1>3
  <2>3. e \in EntriesFor(changes[i]) /\ \A d \in EntriesFor(changes[i]) : d = e
    BY <1>6, <2>1 DEF EntriesFor
  <2>4. imported[i] \in Decision
    BY <1>2, <2>2
  <2>5. imported[i].decision \in {"ignored", "requiresMapping", "mapped"}
    BY <2>4 DEF Decision
  <2>6. IsDecision(imported[i], changes[i], EntriesFor(changes[i]))
    BY <1>4, <2>2
  <2>7. imported[i].decision # "requiresMapping"
    BY <2>3, <2>6 DEF IsDecision
  <2>8. imported[i].decision # "ignored"
    <3>1. \A d \in EntriesFor(changes[i]) : ~ d.ignore
      BY <1>11, <2>3, Zenon
    <3> QED
      BY <2>6, <3>1 DEF IsDecision
  <2>9. imported[i].decision = "mapped" /\ imported[i].change = canonicalChange(e)
    BY <2>3, <2>5, <2>6, <2>7, <2>8 DEF IsDecision
  <2> QED
    BY <1>9, <2>2, <2>9
<1>12. \A e \in Entries : ~ e.ignore => canonicalChange(e).id = e.id
  BY <1>6, <1>7, CanonicalIsDocument
<1>13. \A k, l \in DOMAIN migration : migration[k].id = migration[l].id => k = l
  <2> SUFFICES ASSUME NEW k \in DOMAIN migration, NEW l \in DOMAIN migration,
                      migration[k].id = migration[l].id
               PROVE  k = l
    OBVIOUS
  <2>1. PICK d \in Entries : ~ d.ignore /\ migration[k] = canonicalChange(d)
                                        /\ d.weaver = changes[h[k]]
    BY <1>10
  <2>2. PICK e \in Entries : ~ e.ignore /\ migration[l] = canonicalChange(e)
                                        /\ e.weaver = changes[h[l]]
    BY <1>10
  <2>3. d = e
    BY <1>6, <1>12, <2>1, <2>2
  <2> QED
    BY <1>4, <1>9, <2>1, <2>2, <2>3
<1> QED
  BY <1>2, <1>10, <1>11, <1>13

(* Then the migration is valid if each of its changes is, and there is one. *)
LEMMA ValidImportMeans ==
    ASSUME IInv, ~ Manifest, pc \in {"collect", "loaded"}, collected = Len(imported)
    PROVE  ValidImport <=> /\ \E e \in Entries : ~ e.ignore
                           /\ \A e \in Entries : ~ e.ignore => validChange(canonicalChange(e))
<1>1. /\ migration \in Seq(Canonical)
      /\ \A k \in DOMAIN migration :
            \E e \in Entries : ~ e.ignore /\ migration[k] = canonicalChange(e)
      /\ \A e \in Entries :
            ~ e.ignore => \E k \in DOMAIN migration : migration[k] = canonicalChange(e)
      /\ \A k, l \in DOMAIN migration : migration[k].id = migration[l].id => k = l
  BY AllIsCollected
<1>2. migration # << >> <=> DOMAIN migration # {}
  BY <1>1, EmptyDomain
<1>3. IsInjective([k \in DOMAIN migration |-> migration[k].id])
  BY <1>1 DEF IsInjective
<1>4. ValidImport <=> /\ migration # << >>
                      /\ \A k \in DOMAIN migration : validChange(migration[k])
  BY <1>3 DEF ValidImport, ValidateMigration
<1>5. migration # << >> <=> \E e \in Entries : ~ e.ignore
  BY <1>1, <1>2
<1>6. (\A k \in DOMAIN migration : validChange(migration[k]))
        <=> \A e \in Entries : ~ e.ignore => validChange(canonicalChange(e))
  BY <1>1
<1> QED
  BY <1>4, <1>5, <1>6

LEMMA OutcomeStep == IInv /\ [Next]_vars => Outcome'
<1> SUFFICES ASSUME IInv, [Next]_vars, ~ Manifest PROVE Outcome'
  BY StepKeepsInput, InputIsConstant DEF Outcome
<1>1. /\ input' = input /\ ~ Manifest' /\ Items' = Items /\ Wanted' = Wanted
      /\ \A i : WantedChange(i)' = WantedChange(i)
      /\ \A s : EntriesFor(s)' = EntriesFor(s)
      /\ Resolvable' <=> Resolvable
  BY StepKeepsInput, InputIsConstant
<1>2. Typed /\ Read /\ Decided /\ Outcome /\ input \in Inputs
  BY DEF IInv, Typed
<1>3. /\ DOMAIN imported = 1 .. Len(imported) /\ DOMAIN changes = 1 .. Len(changes)
      /\ Len(imported) \in Nat /\ Len(changes) \in Nat
  BY <1>2, LenProperties DEF Typed
<1>4. RefuseDiff /\ ctx = "live" => ~ Resolvable
  BY Zenon DEF RefuseDiff, Resolvable
<1>5. RefuseItem => ~ Resolvable
  <2> SUFFICES ASSUME RefuseItem PROVE ~ Resolvable
    OBVIOUS
  <2>1. at + 1 \in DOMAIN Items /\ ~ HasFields(Items[at + 1].item)
    BY NextItemIsTyped DEF RefuseItem
  <2> QED
    BY <2>1, Zenon DEF Resolvable
<1>6. RefuseMapping /\ ctx = "live" => ~ Resolvable
  BY <1>2, ResolvableIsValid DEF RefuseMapping
<1>7. RefuseDuplicate => ~ Resolvable
  <2> SUFFICES ASSUME RefuseDuplicate PROVE ~ Resolvable
    OBVIOUS
  <2>1. MoreChanges /\ Duplicate /\ pc = "convert"
    BY DEF RefuseDuplicate, MoreChanges
  <2>2. PICK k \in DOMAIN imported : imported[k].source = Source
    BY <2>1 DEF Duplicate
  <2>3. changes[k] = Source /\ Source = changes[Len(imported) + 1]
    BY <1>2, <2>2 DEF Decided, IsDecision, Source
  <2>4. /\ k \in DOMAIN changes /\ Len(imported) + 1 \in DOMAIN changes
        /\ k # Len(imported) + 1
    <3>1. Len(imported) < Len(changes)
      BY <2>1 DEF MoreChanges
    <3> QED
      BY <1>3, <3>1
  <2>5. \E i, j \in Wanted : i # j /\ WantedChange(i) = WantedChange(j)
    BY <2>1, <2>3, <2>4, AllIsRead
  <2>6. Resolvable => \A i, j \in Wanted : WantedChange(i) = WantedChange(j) => i = j
    BY Zenon DEF Resolvable
  <2> QED
    BY <2>5, <2>6
<1>8. RefuseEntries => ~ Resolvable
  <2>1. RefuseEntries => pc = "convert" /\ Unmatched
    BY DEF RefuseEntries, EndOfChanges
  <2>2. Resolvable => {WantedChange(i) : i \in Wanted} = {e.weaver : e \in Entries}
    BY Zenon DEF Resolvable
  <2> QED
    BY <2>1, <2>2, AllIsRead DEF Unmatched
<1>9. EndOfDecisions => pc = "collect" /\ collected = Len(imported)
  <2>1. collected \in Nat /\ collected <= Len(imported)
    BY <1>2, <1>3 DEF Typed
  <2>2. EndOfDecisions => pc = "collect" /\ ~ (collected < Len(imported))
    BY DEF EndOfDecisions, MoreDecisions
  <2>3. \A n, k \in Nat : k <= n /\ ~ (k < n) => k = n
    OBVIOUS
  <2> QED
    BY <1>3, <2>1, <2>2, <2>3
<1>10. RefuseImport => ~ Resolvable
  <2>1. RefuseImport => EndOfDecisions /\ ~ ValidImport
    BY DEF RefuseImport
  <2>2. Resolvable => \E e \in Entries : ~ e.ignore
    BY Zenon DEF Resolvable
  <2> QED
    BY <1>2, <1>9, <2>1, <2>2, ResolvableIsValid, ValidImportMeans
<1>11. pc' = "failed" /\ ctx' = "live" => ~ Resolvable
  BY <1>2, <1>4, <1>5, <1>6, <1>7, <1>8, <1>10, StepsInOrder DEF Outcome
<1>12. RefuseUpdate => \E i \in Wanted : Items[i].item.type = "updated"
  <2> SUFFICES ASSUME RefuseUpdate PROVE \E i \in Wanted : Items[i].item.type = "updated"
    OBVIOUS
  <2>1. at + 1 \in DOMAIN Items /\ Items[at + 1].item.type = "updated"
    BY NextItemIsTyped DEF RefuseUpdate
  <2>2. at + 1 \in Wanted
    BY <2>1 DEF Wanted
  <2> QED
    BY <2>1, <2>2
<1>13. MappingRequired => \E i \in Wanted : EntriesFor(WantedChange(i)) = {}
  <2> SUFFICES ASSUME MappingRequired
               PROVE  \E i \in Wanted : EntriesFor(WantedChange(i)) = {}
    OBVIOUS
  <2>1. pc = "collect" /\ Missing
    BY <1>9 DEF MappingRequired
  <2>2. PICK k \in DOMAIN imported : imported[k].decision = "requiresMapping"
    BY <2>1 DEF Missing
  <2>3. EntriesFor(changes[k]) = {} /\ k \in DOMAIN changes
    <3>1. EntriesFor(changes[k]) = {}
      BY <1>2, <2>2 DEF Decided, IsDecision
    <3>2. Len(imported) = Len(changes)
      BY <1>2, <2>1 DEF Decided
    <3> QED
      BY <1>3, <3>1, <3>2
  <2>4. changes[k] \in {WantedChange(i) : i \in Wanted}
    BY <2>1, <2>3, AllIsRead DEF ToSet
  <2> QED
    BY <2>3, <2>4
<1>14. pc' = "incomplete" => \E i \in Wanted : \/ Items[i].item.type = "updated"
                                               \/ EntriesFor(WantedChange(i)) = {}
  BY <1>2, <1>12, <1>13, StepsInOrder DEF Outcome
<1> QED
  BY <1>1, <1>11, <1>14 DEF Outcome

-----------------------------------------------------------------------------
(* What is proved of the load                                               *)

(* The invariant holds throughout. *)
THEOREM LoadInvariant == Spec => []IInv
<1>1. Init => IInv
  BY InitInvariant
<1>2. IInv /\ [Next]_vars => IInv'
  BY TypedStep, OfManifestStep, ReadStep, DecidedStep, CollectedStep, OutcomeStep DEF IInv
<1> QED
  BY <1>1, <1>2, PTL DEF Spec

(* An entry of an import that has been loaded is legal, and the migration   *)
(* consists of what such entries say.                                       *)
LEMMA LoadedImport ==
    ASSUME IInv, ~ Manifest, pc = "loaded"
    PROVE  /\ \A e \in Entries : LegalEntry(e)
           /\ \A e \in Entries : ~ e.ignore =>
                 /\ LegalChange(canonicalChange(e))
                 /\ documentOf(canonicalChange(e)) = DocumentOf(e)
           /\ \E e \in Entries : ~ e.ignore
           /\ \A k \in DOMAIN migration :
                 \E e \in Entries : ~ e.ignore /\ migration[k] = canonicalChange(e)
           /\ \A e \in Entries :
                 ~ e.ignore => \E k \in DOMAIN migration : migration[k] = canonicalChange(e)
           /\ migration # << >>
           /\ \A k, l \in DOMAIN migration : migration[k].id = migration[l].id => k = l
<1>1. /\ input \in Inputs /\ Read /\ Decided
      /\ collected = Len(imported) /\ ValidImport
  BY DEF IInv, Typed, Collected
<1>2. ValidMapping /\ ~ Unmatched
  BY <1>1 DEF Read, Decided
<1>3. Entries \subseteq MappingEntry /\ \A e \in Entries : validEntry(e)
  BY <1>1, <1>2, MappingIsValid, DocumentsAreTyped
<1>4. \A e \in Entries : validSelector(e.weaver)
  BY <1>3, Zenon DEF validEntry
<1>5. /\ \E e \in Entries : ~ e.ignore
      /\ \A e \in Entries : ~ e.ignore => validChange(canonicalChange(e))
  BY <1>1, ValidImportMeans
<1>6. \A e \in Entries : LegalEntry(e)
  BY <1>3, <1>4, <1>5, EntryIsLegal
<1>7. ASSUME NEW e \in Entries, ~ e.ignore
      PROVE  /\ LegalChange(canonicalChange(e))
             /\ documentOf(canonicalChange(e)) = DocumentOf(e)
  <2>1. e.target # NoTarget /\ Describes(DocumentOf(e))
    BY <1>6, <1>7, Zenon DEF LegalEntry
  <2>2. canonicalChange(e) = toChange(DocumentOf(e))
    BY <1>3, <2>1, CanonicalIsDocument
  <2>3. LegalChange(toChange(DocumentOf(e))) /\ documentOf(toChange(DocumentOf(e))) = DocumentOf(e)
    BY <2>1, Zenon DEF Describes
  <2> QED
    BY <2>2, <2>3
<1>8. /\ migration \in Seq(Canonical)
      /\ \A k \in DOMAIN migration :
            \E e \in Entries : ~ e.ignore /\ migration[k] = canonicalChange(e)
      /\ \A e \in Entries :
            ~ e.ignore => \E k \in DOMAIN migration : migration[k] = canonicalChange(e)
      /\ \A k, l \in DOMAIN migration : migration[k].id = migration[l].id => k = l
  BY <1>1, AllIsCollected
<1>9. migration # << >>
  BY <1>5, <1>8, EmptyDomain
<1> QED
  BY <1>5, <1>6, <1>7, <1>8, <1>9

(* A manifest that has been loaded is what it describes. *)
LEMMA LoadedManifest ==
    ASSUME IInv, Manifest, pc = "loaded"
    PROVE  LET said == input.document.changes
           IN  /\ DOMAIN migration = DOMAIN said /\ migration # << >>
               /\ \A i \in DOMAIN said : /\ LegalChange(migration[i])
                                         /\ documentOf(migration[i]) = said[i]
                                         /\ migration[i].id = said[i].id
               /\ \A i, j \in DOMAIN said : said[i].id = said[j].id => i = j
<1> DEFINE said == input.document.changes
<1>1. input.document \in Document
  BY InputIsTyped DEF IInv, Typed
<1>2. Accepts(input.document) /\ migration = toMigration(input.document).changes
  BY DEF IInv, OfManifest
<1>3. /\ DocumentDescribes(input.document)
      /\ DOMAIN migration = DOMAIN said
      /\ \A i \in DOMAIN said : migration[i] = toChange(said[i])
  BY <1>1, <1>2, AcceptsIsDescribed
<1>4. /\ said # << >>
      /\ \A i \in DOMAIN said : Describes(said[i])
      /\ \A i, j \in DOMAIN said : said[i].id = said[j].id => i = j
  BY <1>3 DEF DocumentDescribes
<1>5. \A i \in DOMAIN said : /\ LegalChange(toChange(said[i]))
                             /\ documentOf(toChange(said[i])) = said[i]
  BY <1>4, Zenon DEF Describes
<1>6. \A i \in DOMAIN said : toChange(said[i]).id = said[i].id
  BY DEF toChange
<1>7. migration # << >>
  BY <1>2, Zenon DEF Accepts, ValidateMigration
<1> QED
  BY <1>3, <1>4, <1>5, <1>6, <1>7

(* Whatever is loaded is a legal migration, and the bookkeeping of the      *)
(* import stays within what there is to read, to decide and to collect.     *)
THEOREM TypeCorrect == Spec => []TypeOK
<1>1. IInv => TypeOK
  <2> SUFFICES ASSUME IInv PROVE TypeOK
    OBVIOUS
  <2>1. Typed /\ Decided /\ Collected
    BY DEF IInv
  <2>2. /\ changes \in Seq(SourceSelector) /\ Len(changes) \in Nat /\ input \in Inputs
    BY <2>1, LenProperties DEF Typed
  <2>3. /\ Len(imported) <= Len(changes)
        /\ \A i \in DOMAIN imported : imported[i].source = changes[i]
    <3>1. CASE Manifest
      <4>1. imported = << >> /\ Len(<< >>) = 0 /\ DOMAIN << >> = {}
        BY <2>1, <3>1, EmptySeq DEF Typed
      <4> QED
        BY <2>2, <4>1
    <3>2. CASE ~ Manifest
      BY <2>1, <3>2 DEF Decided, IsDecision
    <3> QED
      BY <3>1, <3>2
  <2>4. ASSUME ~ Manifest
        PROVE  Len(migration) <= collected /\ collected <= Len(imported)
    <3>1. /\ migration \in Seq(Canonical) /\ imported \in Seq(Decision)
          /\ collected \in 0 .. Len(imported)
      BY <2>1, <2>4 DEF Typed
    <3>2. /\ Len(migration) \in Nat /\ DOMAIN migration = 1 .. Len(migration)
          /\ Len(imported) \in Nat /\ collected \in Nat /\ collected <= Len(imported)
      BY <3>1, LenProperties
    <3>3. PICK h \in [DOMAIN migration -> 1 .. collected] : Collects(h)
      BY <2>1, <2>4 DEF Collected
    <3>4. h \in Injection(1 .. Len(migration), 1 .. collected)
      BY <3>2, <3>3 DEF Collects, Injection, IsInjective
    <3>5. /\ IsFiniteSet(1 .. collected) /\ Cardinality(1 .. collected) = collected
          /\ Cardinality(1 .. Len(migration)) = Len(migration)
      <4>1. \A n \in Nat : IsFiniteSet(1 .. n) /\ Cardinality(1 .. n) = n
        BY FS_Interval
      <4> QED
        BY <3>2, <4>1
    <3>6. Len(migration) <= collected
      BY <3>4, <3>5, FS_Injection
    <3> QED
      BY <3>2, <3>6
  <2>5. pc = "loaded" => LegalMigration
    <3> SUFFICES ASSUME pc = "loaded" PROVE LegalMigration
      OBVIOUS
    <3>1. /\ migration # << >>
          /\ \A k \in DOMAIN migration : LegalChange(migration[k])
          /\ \A k, l \in DOMAIN migration : migration[k].id = migration[l].id => k = l
      <4>1. CASE Manifest
        BY <4>1, LoadedManifest
      <4>2. CASE ~ Manifest
        BY <4>2, LoadedImport
      <4> QED
        BY <4>1, <4>2
    <3> QED
      BY <3>1 DEF LegalMigration, IsInjective
  <2>6. ~ Manifest => at \in 0 .. Len(itemsOf(input.diff))
    BY <2>1 DEF Typed, Items
  <2> QED
    BY <2>1, <2>2, <2>3, <2>4, <2>5, <2>6 DEF TypeOK, Typed
<1> QED
  BY <1>1, LoadInvariant, PTL

(* A manifest is loaded if and only if it describes a migration, and then   *)
(* it is that migration, field by field.                                    *)
THEOREM ManifestsAreDescriptions == Spec => []ManifestMeansWhatItSays
<1>1. IInv => ManifestMeansWhatItSays
  <2> SUFFICES ASSUME IInv, Manifest, pc = "loaded" \/ (pc = "failed" /\ ctx = "live")
               PROVE  ManifestMeansWhatItSays
    BY DEF ManifestMeansWhatItSays
  <2> DEFINE said == input.document.changes
  <2>1. input.document \in Document
    BY InputIsTyped DEF IInv, Typed
  <2>2. pc = "loaded" <=> Accepts(input.document)
    BY DEF IInv, OfManifest
  <2>3. pc = "loaded" <=>
              /\ input.document.decodes /\ input.document.header
              /\ said # << >>
              /\ \A i \in DOMAIN said : Describes(said[i])
              /\ \A i, j \in DOMAIN said : said[i].id = said[j].id => i = j
    BY <2>1, <2>2, AcceptsIsDescribed, Zenon DEF DocumentDescribes
  <2>4. pc = "loaded" =>
              DOMAIN migration = DOMAIN said
                /\ \A i \in DOMAIN said : documentOf(migration[i]) = said[i]
    BY LoadedManifest
  <2> QED
    BY <2>3, <2>4, Zenon DEF ManifestMeansWhatItSays
<1> QED
  BY <1>1, LoadInvariant, PTL

(* A diff is imported if and only if the mapping decides each of its        *)
(* changes once, and the migration is what the decisions say.               *)
THEOREM ImportsAreResolved == Spec => []EveryChangeIsResolved
<1>1. IInv => EveryChangeIsResolved
  <2> SUFFICES ASSUME IInv, ~ Manifest, pc \in Final PROVE EveryChangeIsResolved
    BY DEF EveryChangeIsResolved
  <2>1. Typed /\ Read /\ Decided /\ Collected /\ Outcome /\ input \in Inputs
    BY DEF IInv, Typed
  <2>2. pc = "loaded" => Resolvable
    <3> SUFFICES ASSUME pc = "loaded" PROVE Resolvable
      OBVIOUS
    <3> DEFINE said == input.mapping.entries
    <3>1. /\ ValidMapping /\ ~ Unmatched /\ input.diff.decodes /\ input.mapping.decodes
          /\ Len(imported) = Len(changes) /\ ~ Missing
      BY <2>1 DEF Read, Decided, Collected, ValidMapping
    <3>2. /\ said \in Seq(MappingEntry) /\ Entries = {said[i] : i \in DOMAIN said}
          /\ Len(said) \in Nat /\ DOMAIN said = 1 .. Len(said)
      BY <2>1, DocumentsAreTyped, LenProperties
    <3>3. /\ DOMAIN imported = 1 .. Len(imported) /\ DOMAIN changes = 1 .. Len(changes)
      BY <2>1, LenProperties DEF Typed
    <3>4. \A k, l \in DOMAIN changes : changes[k] = changes[l] => k = l
      BY <2>1, <3>1, <3>3 DEF Decided
    <3>5. /\ \A i \in DOMAIN Items : HasFields(Items[i].item)
          /\ ToSet(changes) = {WantedChange(i) : i \in Wanted}
          /\ \A i, j \in Wanted : WantedChange(i) = WantedChange(j) => i = j
      BY <3>4, AllIsRead
    <3>6. /\ \A i, j \in DOMAIN said : said[i].id = said[j].id => i = j
          /\ IsInjective([k \in DOMAIN said |-> said[k].weaver])
      BY <3>1 DEF ValidMapping, validateMapping, IsInjective
    <3>7. {WantedChange(i) : i \in Wanted} = {e.weaver : e \in Entries}
      <4>1. \A k \in DOMAIN changes : \E e \in Entries : e.weaver = changes[k]
        <5> TAKE k \in DOMAIN changes
        <5>1. k \in DOMAIN imported
          BY <3>1, <3>3
        <5>2. IsDecision(imported[k], changes[k], EntriesFor(changes[k]))
          BY <2>1, <5>1 DEF Decided
        <5>3. imported[k].decision # "requiresMapping"
          BY <3>1, <5>1 DEF Missing
        <5>4. imported[k] \in Decision
          BY <2>1, <5>1 DEF Typed
        <5>5. imported[k].decision \in {"ignored", "mapped"}
          BY <5>3, <5>4 DEF Decision
        <5>6. EntriesFor(changes[k]) # {}
          BY <5>2, <5>5 DEF IsDecision
        <5> QED
          BY <5>6 DEF EntriesFor
      <4>2. \A e \in Entries : e.weaver \in ToSet(changes)
        BY <3>1 DEF Unmatched
      <4>3. \A w : w \in ToSet(changes) <=> w \in {e.weaver : e \in Entries}
        BY <4>1, <4>2 DEF ToSet
      <4> QED
        BY <3>5, <4>3
    <3>8. Len(said) = Cardinality(Wanted)
      <4> DEFINE v == [k \in DOMAIN said |-> said[k].weaver]
                 c == [i \in Wanted |-> WantedChange(i)]
      <4>1. IsInjective(c)
        BY <3>5 DEF IsInjective
      <4>2. {v[k] : k \in 1 .. Len(said)} = {c[i] : i \in Wanted}
        <5>1. {v[k] : k \in 1 .. Len(said)} = {e.weaver : e \in Entries}
          BY <3>2
        <5>2. {c[i] : i \in Wanted} = {WantedChange(i) : i \in Wanted}
          OBVIOUS
        <5> QED
          BY <3>7, <5>1, <5>2
      <4>3. DOMAIN v = 1 .. Len(said) /\ DOMAIN c = Wanted
        BY <3>2
      <4>4. IsFiniteSet(Wanted)
        BY <2>1, WantedIsFinite
      <4>5. IsInjective(v)
        BY <3>6
      <4> HIDE DEF v, c
      <4> QED
        BY <3>2, <4>1, <4>2, <4>3, <4>4, <4>5, NoEntryTwice
    <3>9. /\ \A i \in DOMAIN said : LegalEntry(said[i])
          /\ \E e \in Entries : ~ e.ignore
      BY <3>2, LoadedImport
    <3> QED
      BY <3>1, <3>5, <3>6, <3>7, <3>8, <3>9, Zenon DEF Resolvable
  <2>3. pc = "failed" /\ ctx = "live" => ~ Resolvable
    BY <2>1 DEF Outcome
  <2>4. pc = "incomplete" =>
              \E i \in Wanted : \/ Items[i].item.type = "updated"
                               \/ EntriesFor(WantedChange(i)) = {}
    BY <2>1 DEF Outcome
  <2>5. pc = "incomplete" => ~ Resolvable
    <3> SUFFICES ASSUME pc = "incomplete", Resolvable PROVE FALSE
      OBVIOUS
    <3>1. PICK i \in Wanted : \/ Items[i].item.type = "updated"
                              \/ EntriesFor(WantedChange(i)) = {}
      BY <2>4
    <3>2. /\ \A j \in DOMAIN Items : HasFields(Items[j].item)
          /\ {WantedChange(j) : j \in Wanted} = {e.weaver : e \in Entries}
      BY Zenon DEF Resolvable
    <3>3. Items[i].item.type # "updated"
      BY <3>2 DEF Wanted, HasFields
    <3>4. EntriesFor(WantedChange(i)) # {}
      BY <3>2 DEF EntriesFor
    <3> QED
      BY <3>1, <3>3, <3>4
  <2>6. pc = "loaded" =>
              {documentOf(migration[k]) : k \in DOMAIN migration}
                = {DocumentOf(e) : e \in {e \in Entries : ~ e.ignore}}
    <3> SUFFICES ASSUME pc = "loaded"
                 PROVE  {documentOf(migration[k]) : k \in DOMAIN migration}
                          = {DocumentOf(e) : e \in {e \in Entries : ~ e.ignore}}
      OBVIOUS
    <3>1. /\ \A e \in Entries : ~ e.ignore => documentOf(canonicalChange(e)) = DocumentOf(e)
          /\ \A k \in DOMAIN migration :
                \E e \in Entries : ~ e.ignore /\ migration[k] = canonicalChange(e)
          /\ \A e \in Entries :
                ~ e.ignore => \E k \in DOMAIN migration : migration[k] = canonicalChange(e)
      BY LoadedImport
    <3>2. \A d : d \in {documentOf(migration[k]) : k \in DOMAIN migration}
                   <=> \E e \in Entries : ~ e.ignore /\ d = DocumentOf(e)
      BY <3>1
    <3>3. \A d : d \in {DocumentOf(e) : e \in {e \in Entries : ~ e.ignore}}
                   <=> \E e \in Entries : ~ e.ignore /\ d = DocumentOf(e)
      OBVIOUS
    <3> QED
      BY <3>2, <3>3
  <2>7. pc = "loaded" \/ ctx = "live" => (pc = "loaded" <=> Resolvable)
    BY <2>2, <2>3, <2>5 DEF Final
  <2> QED
    BY <2>4, <2>6, <2>7, Zenon DEF EveryChangeIsResolved
<1> QED
  BY <1>1, LoadInvariant, PTL
=============================================================================
