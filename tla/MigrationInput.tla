---------------------------- MODULE MigrationInput ----------------------------
(***************************************************************************)
(* Where a command gets its migration from (loadSelectedMigration): either *)
(* a manifest, or a Weaver diff with a mapping.  A Weaver import that      *)
(* lacks a decision is incomplete, which the process says with exit code   *)
(* 3; every other failure is exit code 1.                                  *)
(***************************************************************************)
EXTENDS WeaverMapping

CONSTANT Inputs \* the inputs considered: manifests, and diffs with mappings

ASSUME InputsAssumption ==
    Inputs \subseteq [via : {"manifest"}, document : Document]
                       \cup [via : {"weaver"}, diff : Diff, mapping : Mapping]

VARIABLES input,     \* .via is "manifest" or "weaver"
          ctx,       \* "live" or "canceled"
          pc,        \* step of the load; in the end "loaded", "failed" or "incomplete"
          at,        \* how many items of the diff have been read
          changes,   \* the actionable changes of the diff
          imported,  \* what was decided of the first of them
          collected, \* how many decisions have been gone through
          migration  \* the changes of the migration so far

vars == <<input, ctx, pc, at, changes, imported, collected, migration>>

Final == {"loaded", "failed", "incomplete"}

Init == /\ input \in Inputs
        /\ ctx = "live"
        /\ pc = "start"
        /\ at = 0
        /\ changes = << >>
        /\ imported = << >>
        /\ collected = 0
        /\ migration = << >>

Goto(step) == pc' = step /\ UNCHANGED <<input, ctx, at, changes, imported, collected, migration>>

Cancel == /\ ctx = "live"
          /\ pc \notin Final
          /\ ctx' = "canceled"
          /\ UNCHANGED <<input, pc, at, changes, imported, collected, migration>>

-----------------------------------------------------------------------------
(* The manifest; the context is looked at before and after it is read. *)
Manifest == input.via = "manifest"

RefuseManifest == /\ Manifest
                  /\ pc = "start"
                  /\ ctx = "canceled" \/ ~ Accepts(input.document)
                  /\ Goto("failed")

ParseManifest == /\ Manifest
                 /\ pc = "start"
                 /\ ctx = "live"
                 /\ Accepts(input.document)
                 /\ Goto("parsed")

DropManifest == /\ pc = "parsed"
                /\ ctx = "canceled"
                /\ Goto("failed")

AcceptManifest == /\ pc = "parsed"
                  /\ ctx = "live"
                  /\ pc' = "loaded"
                  /\ migration' = toMigration(input.document).changes
                  /\ UNCHANGED <<input, ctx, at, changes, imported, collected>>

-----------------------------------------------------------------------------
(* The diff: decoded as a whole, then normalised item by item. *)
RefuseDiff == /\ ~ Manifest
              /\ pc = "start"
              /\ ctx = "canceled" \/ ~ input.diff.decodes
              /\ Goto("failed")

DecodeDiff == /\ ~ Manifest
              /\ pc = "start"
              /\ ctx = "live"
              /\ input.diff.decodes
              /\ Goto("items")

MoreItems == pc = "items" /\ at < Len(itemsOf(input.diff))
NextItem == itemsOf(input.diff)[at + 1].item
NextChange == normalizeItem(itemsOf(input.diff)[at + 1].kind, NextItem)

(* An addition leaves no legacy consumer behind. *)
SkipAddition == /\ MoreItems
                /\ NextItem.type = "added"
                /\ HasFields(NextItem)
                /\ at' = at + 1
                /\ UNCHANGED <<input, ctx, pc, changes, imported, collected, migration>>

KeepChange == /\ MoreItems
              /\ NextItem.type \in SourceTypes
              /\ HasFields(NextItem)
              /\ at' = at + 1
              /\ changes' = Append(changes, NextChange)
              /\ UNCHANGED <<input, ctx, pc, imported, collected, migration>>

(* What an update changes is not in the diff. *)
RefuseUpdate == /\ MoreItems
                /\ NextItem.type = "updated"
                /\ Goto("incomplete")

(* A field is missing, or the type is not known. *)
RefuseItem == /\ MoreItems
              /\ NextItem.type # "updated"
              /\ ~ HasFields(NextItem)
              /\ Goto("failed")

EndOfDiff == /\ pc = "items"
             /\ ~ MoreItems
             /\ Goto("mapping")

-----------------------------------------------------------------------------
(* The mapping; the context is looked at again when it has been read. *)
ValidMapping == input.mapping.decodes /\ validateMapping(input.mapping.entries)
Entries == ToSet(input.mapping.entries)

RefuseMapping == /\ pc = "mapping"
                 /\ ctx = "canceled" \/ ~ ValidMapping
                 /\ Goto("failed")

AcceptMapping == /\ pc = "mapping"
                 /\ ctx = "live"
                 /\ ValidMapping
                 /\ Goto("convert")

MoreChanges == pc = "convert" /\ Len(imported) < Len(changes)
Source == changes[Len(imported) + 1]
Duplicate == \E i \in DOMAIN imported : imported[i].source = Source
EntriesFor(selector) == {e \in Entries : e.weaver = selector}

RefuseDuplicate == /\ MoreChanges
                   /\ Duplicate
                   /\ Goto("failed")

Import(decision) ==
    /\ MoreChanges
    /\ ~ Duplicate
    /\ imported' = Append(imported, decision)
    /\ UNCHANGED <<input, ctx, pc, at, changes, collected, migration>>

(* Mutant: what the mapping does not name is ignored. *)
RequireMapping_lenient == /\ MoreChanges
                          /\ EntriesFor(Source) = {}
                          /\ Import([source |-> Source, decision |-> "ignored"])

RequireMapping == /\ MoreChanges
                  /\ EntriesFor(Source) = {}
                  /\ Import([source |-> Source, decision |-> "requiresMapping"])

Ignore == /\ MoreChanges
          /\ \E e \in EntriesFor(Source) : e.ignore
          /\ Import([source |-> Source, decision |-> "ignored"])

Map == /\ MoreChanges
       /\ \E e \in EntriesFor(Source) :
             /\ ~ e.ignore
             /\ Import([source |-> Source, decision |-> "mapped", change |-> canonicalChange(e)])

-----------------------------------------------------------------------------
EndOfChanges == pc = "convert" /\ ~ MoreChanges
Unmatched == \E e \in Entries : e.weaver \notin ToSet(changes)

(* An entry that matches nothing is an error before anything else. *)
RefuseEntries == /\ EndOfChanges
                 /\ Unmatched
                 /\ Goto("failed")

Convert == /\ EndOfChanges
           /\ ~ Unmatched
           /\ Goto("collect")

MoreDecisions == pc = "collect" /\ collected < Len(imported)

Collect == /\ MoreDecisions
           /\ collected' = collected + 1
           /\ LET next == imported[collected + 1]
              IN  migration' = IF next.decision = "mapped"
                                 THEN Append(migration, next.change) ELSE migration
           /\ UNCHANGED <<input, ctx, pc, at, changes, imported>>

EndOfDecisions == pc = "collect" /\ ~ MoreDecisions
Missing == \E i \in DOMAIN imported : imported[i].decision = "requiresMapping"
ValidImport == ValidateMigration([header |-> TRUE, changes |-> migration])

MappingRequired == /\ EndOfDecisions
                   /\ Missing
                   /\ Goto("incomplete")

(* In the end, a migration without changes is an error. *)
RefuseImport == /\ EndOfDecisions
                /\ ~ Missing /\ ~ ValidImport
                /\ Goto("failed")

AcceptImport == /\ EndOfDecisions
                /\ ~ Missing
                /\ ValidImport
                /\ Goto("loaded")

Next == \/ RefuseManifest \/ ParseManifest \/ DropManifest \/ AcceptManifest
        \/ RefuseDiff \/ DecodeDiff \/ SkipAddition \/ KeepChange \/ RefuseUpdate \/ RefuseItem
        \/ EndOfDiff \/ RefuseMapping \/ AcceptMapping
        \/ RefuseDuplicate \/ RequireMapping \/ Ignore \/ Map
        \/ RefuseEntries \/ Convert \/ Collect
        \/ RefuseImport \/ MappingRequired \/ AcceptImport
        \/ Cancel

Spec == Init /\ [][Next]_vars

-----------------------------------------------------------------------------
(* Properties                                                               *)

(* What a migration may contain: symbols of one domain, the parent where    *)
(* there has to be one, and a target that is another name of the same kind. *)
LegalSymbol(s) == /\ s \in Symbol
                  /\ s.kind \in {"metric", "label"} <=> s.domain = "prometheus"
                  /\ s.kind = "label" <=> s.parent # NoName
LegalChange(c) ==
    /\ c.id \in ChangeIDs
    /\ LegalSymbol(c.from)
    /\ c.domain = c.from.domain
    /\ isSupportedChangeKind(c.kind) /\ expectedSymbolKind(c.kind) = c.from.kind
    /\ IF isRename(c.kind)
         THEN \E n \in Names \ {c.from.name} : c.to = [c.from EXCEPT !.name = n]
         ELSE c.to = NoSymbol
LegalMigration == /\ migration # << >>
                  /\ \A i \in DOMAIN migration : LegalChange(migration[i])
                  /\ IsInjective([i \in DOMAIN migration |-> migration[i].id])

TypeOK == /\ input \in Inputs
          /\ ctx \in {"live", "canceled"}
          /\ pc \in Final \cup {"start", "parsed", "items", "mapping", "convert", "collect"}
          /\ ~ Manifest => at \in 0 .. Len(itemsOf(input.diff))
          /\ changes \in Seq(SourceSelector)
          /\ Len(imported) <= Len(changes)
          /\ \A i \in DOMAIN imported : imported[i].source = changes[i]
          /\ ~ Manifest => Len(migration) <= collected /\ collected <= Len(imported)
          /\ pc = "loaded" => LegalMigration

(* How a change is written in a manifest: all of its fields, and no others. *)
fieldsOf(s) ==
    IF s = NoSymbol THEN NoDocument
    ELSE [metric |-> IF s.kind = "metric" THEN s.name ELSE NoName,
          label |-> IF s.kind = "label" THEN s.name ELSE NoName,
          attribute |-> IF s.kind \in {"metric", "label"} THEN NoName ELSE s.name,
          absent |-> FALSE]
documentOf(c) == [id |-> c.id, kind |-> c.kind, domain |-> c.domain, metric |-> c.from.parent,
                  from |-> fieldsOf(c.from), to |-> fieldsOf(c.to)]

(* A document that describes a legal change. *)
Describes(d) ==
    /\ isSupportedChangeKind(d.kind)
    /\ d.domain \in Domains
    /\ LET c == toChange(d) IN LegalChange(c) /\ documentOf(c) = d

(* A manifest is loaded if and only if it is the description of a migration,*)
(* and then means that migration: no field it has is passed over, whichever *)
(* of the two validations is in charge of it.                               *)
ManifestMeansWhatItSays ==
    Manifest /\ (pc = "loaded" \/ (pc = "failed" /\ ctx = "live")) =>
        LET said == input.document.changes
        IN  /\ pc = "loaded" =>
                  DOMAIN migration = DOMAIN said
                    /\ \A i \in DOMAIN said : documentOf(migration[i]) = said[i]
            /\ pc = "loaded" <=>
                  /\ input.document.decodes /\ input.document.header
                  /\ said # << >>
                  /\ \A i \in DOMAIN said : Describes(said[i])
                  /\ \A i, j \in DOMAIN said : said[i].id = said[j].id => i = j

(* The decisions an import needs: one for each change but additions. *)
Items == itemsOf(input.diff)
Wanted == {i \in DOMAIN Items : Items[i].item.type # "added"}
WantedChange(i) == normalizeItem(Items[i].kind, Items[i].item)

DocumentOf(e) == [id |-> e.id, kind |-> e.target.kind, domain |-> "prometheus",
                  metric |-> e.target.metric, from |-> e.target.from, to |-> e.target.to]

(* An ignored change, or a change of the same signal and the same action. *)
LegalEntry(e) ==
    /\ e.id \in ChangeIDs
    /\ e.ignore <=> e.target = NoTarget
    /\ ~ e.ignore =>
          /\ Describes(DocumentOf(e))
          /\ <<e.weaver.kind, toChange(DocumentOf(e)).from.kind>>
               \in {<<"metric", "metric">>, <<"attribute", "label">>}
          /\ e.weaver.type # "uncategorized"
          /\ isRename(e.target.kind) <=> e.weaver.type = "renamed"

(* Each change has one decision and each decision is about one change. *)
Resolvable ==
    LET said == input.mapping.entries
    IN  /\ input.diff.decodes /\ input.mapping.decodes
        /\ \A i \in DOMAIN Items : HasFields(Items[i].item)
        /\ \A i, j \in Wanted : WantedChange(i) = WantedChange(j) => i = j
        /\ {WantedChange(i) : i \in Wanted} = {e.weaver : e \in Entries}
        /\ Len(said) = Cardinality(Wanted)
        /\ \A i \in DOMAIN said : LegalEntry(said[i])
        /\ \A i, j \in DOMAIN said : said[i].id = said[j].id => i = j
        /\ \E e \in Entries : ~ e.ignore

(* Nothing Weaver reports is dropped in silence, and nothing is invented: a *)
(* diff is imported if and only if the mapping has one decision for each of *)
(* its changes and no others, and the migration is, field by field, what    *)
(* the decisions say that do not ignore their change.  What is called       *)
(* incomplete, and not an error, lacks a decision or holds an update.       *)
EveryChangeIsResolved ==
    ~ Manifest /\ pc \in Final =>
        /\ pc = "loaded" \/ ctx = "live" => (pc = "loaded" <=> Resolvable)
        /\ pc = "loaded" =>
              {documentOf(migration[i]) : i \in DOMAIN migration}
                = {DocumentOf(e) : e \in {e \in Entries : ~ e.ignore}}
        /\ pc = "incomplete" =>
              \E i \in Wanted : \/ Items[i].item.type = "updated"
                               \/ EntriesFor(WantedChange(i)) = {}
=============================================================================
