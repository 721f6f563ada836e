------------------------------ MODULE Remediation ------------------------------
(***************************************************************************)
(* tmr remediate (internal/remediation): the confirmed direct legacy uses  *)
(* of a migration become targets, an untrusted provider proposes one new   *)
(* expression per target, and each proposal is validated by patching the   *)
(* source file in memory, parsing it again and evaluating the discovery in *)
(* which it takes the place of the file's first one.  The files belong to  *)
(* other people, who may edit them at any moment.                          *)
(*                                                                         *)
(* An expression is what the PromQL analyzer (external) tells of it.  A    *)
(* file is the sequence of its scalars: the expressions of its rules or    *)
(* panels, each a consumer, and other text that may look like one.  A YAML *)
(* alias repeats a scalar written before it.                               *)
(***************************************************************************)
EXTENDS Readiness

CONSTANTS Files,         \* the files of the configured sources
          Patchable,     \* those that are Prometheus YAML or Grafana JSON
          RequiredFiles, \* those of required sources
          SecondReader,  \* does another adapter read (and refuse) the file?
          ChangeIDs,     \* identifiers of changes, as written and as sent
          Redaction,     \* the texts explanation.Redact changes (one that looks like
                         \* a credential: "token:rate5m"), and into what
          Expressions, NoConsumer, Unreadable,
          Contents,      \* what each file may hold
          Migrations, Policies, Responses \* the inputs considered

(* What PromQL can name: metrics, and labels of a metric.                   *)
PromQLSymbol == {s \in Symbol : s.domain = "prometheus" /\ s.kind \in {"metric", "label"}}
Expression == [parses : BOOLEAN, template : BOOLEAN, secret : BOOLEAN,
               uses : SUBSET PromQLSymbol, patterns : SUBSET PromQLSymbol]
Entry == [consumer : ConsumerIDs \cup {NoConsumer}, value : Expressions,
          criticality : Criticality, records : Symbol \cup {NoSymbol}, alias : BOOLEAN]
IdentifiedChange == [id : ChangeIDs, from : Symbol, to : Symbol \cup {NoSymbol}]
(* A target ID is a digest of the two identifiers: here it is the pair.     *)
Candidate == [change : ChangeIDs, consumer : ConsumerIDs, before : Expressions, after : Expressions]

ASSUME ExpressionsAssumption == Expressions \subseteq Expression
ASSUME FilesAssumption == /\ Patchable \subseteq Files
                          /\ RequiredFiles \subseteq Files
                          /\ SecondReader \in [Files -> {"none", "optional", "required"}]
                          /\ NoConsumer \notin ConsumerIDs
                          /\ Unreadable \notin Seq(Entry)
                          /\ \A f \in Files : Contents[f] \subseteq Seq(Entry) \cup {Unreadable}

(* The consumers a content names.  An identifier holds the file and the     *)
(* place of its rule or panel (ruleID); a discovery in which two consumers  *)
(* share one all the same is refused by Evaluate.                           *)
Named(contents) == IF contents = Unreadable THEN {}
                   ELSE {contents[i].consumer : i \in DOMAIN contents} \ {NoConsumer}
ASSUME IdentifiersAssumption ==
    /\ \A f, g \in Files : \A x \in Contents[f], y \in Contents[g] :
          f # g => Named(x) \cap Named(y) = {}
    /\ \A f \in Files : \A x \in Contents[f] \ {Unreadable} : \A i, j \in DOMAIN x :
          x[i].consumer = x[j].consumer /\ x[i].consumer # NoConsumer => i = j

(* An alias has the value of a scalar before it.                            *)
ASSUME AliasesAssumption ==
    \A f \in Files : \A x \in Contents[f] \ {Unreadable} : \A i \in DOMAIN x :
        x[i].alias => \E j \in 1 .. i - 1 : ~ x[j].alias /\ x[j].value = x[i].value

(* Nothing is named after a redaction ("token:[REDACTED]"), except perhaps  *)
(* a change.                                                                *)
ASSUME RedactionAssumption ==
    \A x \in Names \cup {NoName} : x \in DOMAIN Redaction => Redaction[x] \notin Names \cup {NoName}
ASSUME RemediationInputsAssumption == /\ Migrations \subseteq Seq(IdentifiedChange)
                                      /\ \A m \in Migrations : \A j, k \in DOMAIN m :
                                            m[j].id = m[k].id => j = k
                                      /\ Policies \subseteq Policy
                                      /\ Responses \subseteq Seq(Candidate)

VARIABLES disk,      \* the files now
          migration, policy,
          phase,     \* "analyze", "propose", "validate", "done" or "failed"
          analyzed,  \* the files as analysis.Run read them
          discovery, \* what it found
          targets,   \* request.Targets
          response,  \* what the provider proposes
          validated  \* the validated candidates so far

vars == <<disk, migration, policy, phase, analyzed, discovery, targets, response, validated>>

-----------------------------------------------------------------------------
(* The adapters                                                             *)

Resolved(e) == e.parses /\ ~ e.template

(* The references of an expression; a name pattern is one that needs        *)
(* resolution.                                                              *)
ReferencesOf(id, e) ==
    {[consumer |-> id, symbol |-> s, requiresResolution |-> s \in e.patterns, scope |-> ""] :
        s \in e.uses \cup e.patterns}

(* Parse: an expression that cannot be resolved leaves a consumer without   *)
(* references and a diagnostic.                                             *)
Parse(f, contents, required) ==
    LET rows == {contents[i] : i \in {j \in DOMAIN contents : contents[j].consumer # NoConsumer}}
        resolved == {x \in rows : Resolved(x.value)}
    IN  [consumers |-> {[id |-> x.consumer, criticality |-> x.criticality,
                         unresolved |-> ~ Resolved(x.value),
                         file |-> f, expression |-> x.value] : x \in rows},
         references |-> UNION {ReferencesOf(x.consumer, x.value) : x \in resolved},
         productions |-> {[consumer |-> x.consumer, symbol |-> x.records] :
                             x \in {y \in rows : y.records # NoSymbol}},
         diagnostics |-> {[file |-> f, required |-> required] : x \in rows \ resolved}]

Load(f, contents) ==
    LET found == IF contents = Unreadable
                   THEN [consumers |-> {}, references |-> {}, productions |-> {},
                         diagnostics |-> {[file |-> f, required |-> f \in RequiredFiles]}]
                   ELSE Parse(f, contents, f \in RequiredFiles)
    IN  IF SecondReader[f] = "none" THEN found
        ELSE [found EXCEPT !.diagnostics =
                @ \cup {[file |-> f, required |-> SecondReader[f] = "required"]}]

Analyze(tree) ==
    [consumers |-> UNION {Load(f, tree[f]).consumers : f \in Files},
     references |-> UNION {Load(f, tree[f]).references : f \in Files},
     productions |-> UNION {Load(f, tree[f]).productions : f \in Files},
     diagnostics |-> UNION {Load(f, tree[f]).diagnostics : f \in Files}]

-----------------------------------------------------------------------------
(* readiness.Evaluate, as the operators the validation needs of its result. *)

(* They take the consumers of a discovery by index; the order decides       *)
(* nothing here, so each consumer is its own.                               *)
Indexed(d) == [d EXCEPT !.consumers = [c \in @ |-> c]]

(* Mutant: the summary counts, but its status is never assigned. *)
Status_unassigned(d) == ""

Status(d) ==
    statusForChanges([k \in DOMAIN migration |->
                        statusForConsumers(Indexed(d), ClassifyAll(Indexed(d), policy, migration[k]),
                                           policy)],
                     d.diagnostics)

(* A consumer's classification for the change at a position, and for the    *)
(* one of an identifier.                                                    *)
Classification(d, k, id) ==
    ClassifyAll(Indexed(d), policy, migration[k])[CHOOSE c \in d.consumers : c.id = id]
Position(changeID) == CHOOSE k \in DOMAIN migration : migration[k].id = changeID
classificationFor(d, changeID, id) == Classification(d, Position(changeID), id)

-----------------------------------------------------------------------------
Init == /\ disk \in [Files -> UNION {Contents[f] : f \in Files}]
        /\ \A f \in Files : disk[f] \in Contents[f]
        /\ migration \in Migrations
        /\ policy \in Policies
        /\ phase = "analyze"
        /\ analyzed = disk
        /\ discovery = Analyze(disk)
        /\ targets = {}
        /\ response = << >>
        /\ validated = << >>

args == <<migration, policy, analyzed, discovery>>

(* A symbol of the same contract, as remediation's own symbolsMatch has it. *)
SameContract(reference, changed) ==
    /\ reference.domain = changed.domain
    /\ reference.kind = changed.kind
    /\ IF reference.kind = "metric" THEN metricFamilyMatch(reference.name, changed.name)
       ELSE reference.name = changed.name /\ metricFamilyMatch(reference.parent, changed.parent)

hasDirectReference(references, symbol) ==
    \E r \in references : SameContract(r.symbol, symbol) /\ ~ r.requiresResolution

ReferencesByConsumer(d, id) == {r \in d.references : r.consumer = id}

Redact(text) == IF text \in DOMAIN Redaction THEN Redaction[text] ELSE text
redactSymbol(s) == [s EXCEPT !.name = Redact(@), !.parent = Redact(@)]

(* Does redaction change the expression?                                    *)
SecretLike(e) == e.secret \/ \E s \in e.uses \cup e.patterns : redactSymbol(s) # s

Target(k, c) == [change |-> Redact(migration[k].id), consumer |-> c.id,
                 file |-> c.file, before |-> c.expression,
                 from |-> redactSymbol(migration[k].from), to |-> redactSymbol(migration[k].to)]

IsTarget(k, c) ==
    /\ migration[k].to # NoSymbol
    /\ Classification(discovery, k, c.id) = "LEGACY_ONLY"
    /\ hasDirectReference(ReferencesByConsumer(discovery, c.id), migration[k].from)
    /\ c.file \in Patchable
    /\ ~ SecretLike(c.expression)
    /\ Redact(c.id) = c.id /\ Redact(c.file) = c.file

Targets == {Target(x[1], x[2]) :
              x \in {y \in (DOMAIN migration) \X discovery.consumers : IsTarget(y[1], y[2])}}

(* One target of each identifier: changes whose identifiers redaction makes *)
(* the same collide, and sort.Slice does not say which of them comes first. *)
OneOfEach(all) ==
    {kept \in SUBSET all :
        \A t \in all : \E u \in kept : {w \in kept : w.change = t.change /\ w.consumer = t.consumer} = {u}}

(* Without a target nothing is asked. *)
BuildRequest ==
    /\ phase = "analyze"
    /\ targets' \in OneOfEach(Targets)
    /\ phase' = IF Targets = {} THEN "done" ELSE "propose"
    /\ UNCHANGED <<disk, args, response, validated>>

TargetOf(c) == CHOOSE t \in targets : t.change = c.change /\ t.consumer = c.consumer

validateResponse(r) ==
    /\ Len(r) \in 1 .. Cardinality(targets)
    /\ \A i \in DOMAIN r : /\ \E t \in targets : t.change = r[i].change /\ t.consumer = r[i].consumer
                           /\ r[i].before = TargetOf(r[i]).before
                           /\ r[i].after # r[i].before
    /\ \A i, j \in DOMAIN r : r[i].change = r[j].change /\ r[i].consumer = r[j].consumer => i = j

(* The provider fails, or answers anything; one bad proposal spoils all.    *)
Propose ==
    /\ phase = "propose"
    /\ \/ phase' = "failed" /\ UNCHANGED response
       \/ \E r \in Responses :
             /\ response' = r
             /\ phase' = IF validateResponse(r) THEN "validate" ELSE "failed"
    /\ UNCHANGED <<disk, args, targets, validated>>

(* Somebody saves a file. *)
Edit(f) == /\ phase \in {"propose", "validate"}
           /\ \E contents \in Contents[f] : disk' = [disk EXCEPT ![f] = contents]
           /\ UNCHANGED <<args, phase, targets, response, validated>>

-----------------------------------------------------------------------------
(* validateCandidate                                                        *)

(* Mutant: the identifier alone names the change. *)
Provenance_idOnly(t) ==
    /\ \E k \in DOMAIN migration : migration[k].id = t.change /\ migration[k].to # NoSymbol
    /\ \E c \in discovery.consumers :
          c.id = t.consumer /\ c.file = t.file /\ c.expression = t.before /\ c.file \in Patchable
    /\ hasDirectReference(ReferencesByConsumer(discovery, t.consumer), t.from)

Provenance(t) ==
    /\ \E k \in DOMAIN migration : /\ migration[k].id = t.change
                                  /\ migration[k].to # NoSymbol
                                  /\ t.from = migration[k].from
                                  /\ t.to = migration[k].to
    /\ \E c \in discovery.consumers :
          c.id = t.consumer /\ c.file = t.file /\ c.expression = t.before /\ c.file \in Patchable
    /\ hasDirectReference(ReferencesByConsumer(discovery, t.consumer), t.from)

(* Mutant: any use of something else will do. *)
MovesToDestination_anywhere(references, change) == ~ hasDirectReference(references, change.from)

MovesToDestination(references, change) ==
    /\ ~ hasDirectReference(references, change.from)
    /\ hasDirectReference(references, change.to)

(* The scalars that are written out; an alias is not looked at. *)
Matches(contents, e) == {i \in DOMAIN contents : ~ contents[i].alias /\ contents[i].value = e}

(* Mutant: every occurrence is replaced. *)
Unambiguous_atLeastOne(contents, e) == Matches(contents, e) # {}

Unambiguous(contents, e) == Cardinality(Matches(contents, e)) = 1

(* What the scalars say once the match is replaced; its aliases follow it.  *)
Patched(contents, before, after) ==
    [i \in DOMAIN contents |->
        IF contents[i].value = before THEN [contents[i] EXCEPT !.value = after] ELSE contents[i]]

(* Mutant: the references of the replaced consumers stay. *)
replaceSourceDiscovery_keepsReferences(d, candidate, f) ==
    [consumers |-> {c \in d.consumers : c.file # f} \cup candidate.consumers,
     references |-> d.references \cup candidate.references,
     productions |-> {p \in d.productions :
                        \A c \in d.consumers : c.id = p.consumer => c.file # f}
                        \cup candidate.productions,
     diagnostics |-> {x \in d.diagnostics : x.file # f} \cup candidate.diagnostics]

replaceSourceDiscovery(d, candidate, f) ==
    LET replaced == {c.id : c \in {x \in d.consumers : x.file = f}}
    IN  [consumers |-> {c \in d.consumers : c.file # f} \cup candidate.consumers,
         references |-> {r \in d.references : r.consumer \notin replaced} \cup candidate.references,
         productions |-> {p \in d.productions : p.consumer \notin replaced}
                            \cup candidate.productions,
         diagnostics |-> {x \in d.diagnostics : x.file # f} \cup candidate.diagnostics]

(* Why a proposal is refused, in the order of the checks; what the artifact *)
(* says of the consumer is what counts, not what the provider says.         *)
Accepted(c, contents) ==
    LET t == TargetOf(c)
        candidate == Parse(t.file, Patched(contents, c.before, c.after), TRUE)
        simulated == replaceSourceDiscovery(discovery, candidate, t.file)
    IN  /\ Provenance(t)
        /\ ~ SecretLike(c.after)
        /\ Resolved(c.after)
        /\ MovesToDestination(ReferencesOf(c.consumer, c.after), t)
        /\ contents # Unreadable
        /\ Unambiguous(contents, c.before)
        /\ candidate.diagnostics = {}
        /\ \E x \in candidate.consumers : x.id = c.consumer /\ x.expression = c.after
        /\ MovesToDestination(ReferencesByConsumer(candidate, c.consumer), t)
        /\ classificationFor(simulated, t.change, c.consumer) \notin {"LEGACY_ONLY", "UNCERTAIN"}

(* Each candidate alone, against the first discovery and the file as it is  *)
(* now; the first refusal, or the end of the context, fails the command.    *)
ValidateCandidate ==
    /\ phase = "validate"
    /\ Len(validated) < Len(response)
    /\ LET c == response[Len(validated) + 1]
           f == TargetOf(c).file
           simulated == replaceSourceDiscovery(discovery,
                            Parse(f, Patched(disk[f], c.before, c.after), TRUE), f)
       IN  \/ phase' = "failed" /\ UNCHANGED validated
           \/ /\ Accepted(c, disk[f])
              /\ validated' = Append(validated,
                    [candidate |-> c, read |-> disk[f],
                     status |-> Status(simulated),
                     class |-> classificationFor(simulated, c.change, c.consumer)])
              /\ UNCHANGED phase
    /\ UNCHANGED <<disk, args, targets, response>>

Report == /\ phase = "validate"
          /\ Len(validated) = Len(response)
          /\ phase' = "done"
          /\ UNCHANGED <<disk, args, targets, response, validated>>

Next == \/ BuildRequest \/ Propose \/ ValidateCandidate \/ Report
        \/ \E f \in Files : Edit(f)

Spec == Init /\ [][Next]_vars

-----------------------------------------------------------------------------
(* Properties                                                               *)

TypeOK == /\ phase \in {"analyze", "propose", "validate", "done", "failed"}
          /\ \A f \in Files : disk[f] \in Contents[f]
          /\ \A t \in targets : \E k \in DOMAIN migration : t.change = Redact(migration[k].id)
          /\ \A i \in DOMAIN validated : /\ validated[i].candidate = response[i]
                                         /\ validated[i].status \in Statuses
                                         /\ validated[i].class \in Classifications

FileOf(v) == TargetOf(v.candidate).file
PatchedFile(v) == Patched(v.read, v.candidate.before, v.candidate.after)

(* "Simulated status if this candidate alone were applied": it is what an   *)
(* analysis of the patched file among the others, as they were analysed,    *)
(* would find, and so is the consumer's classification.  But it does not    *)
(* hear of another adapter that reads the same file and refuses it: the     *)
(* file's diagnostics are replaced as a whole, by those of one adapter.     *)
Unheard(d, f) == [d EXCEPT !.diagnostics = {x \in @ : x.file # f}]
SimulationIsReanalysis ==
    \A i \in DOMAIN validated :
        LET v == validated[i]
            again == Unheard(Analyze([analyzed EXCEPT ![FileOf(v)] = PatchedFile(v)]), FileOf(v))
        IN  /\ v.status = Status(again)
            /\ v.class = classificationFor(again, v.candidate.change, v.candidate.consumer)

(* The one scalar that is replaced is the expression of the target, or the  *)
(* one the target's alias repeats, and not another one or a text that looks *)
(* like it, in a file nobody has touched.                                   *)
PatchHitsItsTarget ==
    \A i \in DOMAIN validated :
        LET v == validated[i]
            own == {k \in DOMAIN v.read : v.read[k].consumer = v.candidate.consumer}
        IN  v.read = analyzed[FileOf(v)] =>
                \A k \in DOMAIN v.read :
                    PatchedFile(v)[k] # v.read[k] /\ ~ v.read[k].alias =>
                        k \in own \/ \E j \in own : /\ v.read[j].alias
                                                   /\ v.read[j].value = v.read[k].value

(* docs/REMEDIATION.md, "Provider protocol": a target includes "the         *)
(* canonical migration source/destination symbols", so that it is one the   *)
(* validation knows again: no proposal is refused for the target TMR itself *)
(* has chosen.                                                              *)
TargetsHaveProvenance == \A t \in targets : Provenance(t)

(* A validated candidate answers the change it is reported for, even when   *)
(* redaction gives a change the identifier of another one: its consumer is  *)
(* one that the analysis found to depend on that change's old contract      *)
(* only, and its expression moves from that contract to the new one.        *)
ValidatedAnswersItsChange ==
    \A i \in DOMAIN validated :
        LET c == validated[i].candidate
        IN  \E k \in DOMAIN migration :
               /\ migration[k].id = c.change
               /\ Classification(discovery, k, c.consumer) = "LEGACY_ONLY"
               /\ hasDirectReference(ReferencesOf(c.consumer, c.before), migration[k].from)
               /\ MovesToDestination(ReferencesOf(c.consumer, c.after), migration[k])

(* A validated candidate takes its consumer to the new contract: if not     *)
(* alone, because another path still leads to the old one, then besides it. *)
ValidatedMigrates ==
    \A i \in DOMAIN validated : validated[i].class \in {"MIGRATED", "DUAL"}
=============================================================================
