--------------------------- MODULE RemediationProofs ---------------------------
(***************************************************************************)
(* Proofs about the candidate remediation, for every set of files, every   *)
(* content they may hold or be given meanwhile, every migration and        *)
(* policy, and every answer a provider may give.                           *)
(***************************************************************************)
EXTENDS Remediation, FiniteSetTheorems, SequenceTheorems, TLAPS

(* What the command has read, and which files it may meet. *)
Inputs ==
    /\ migration \in Migrations
    /\ policy \in Policies
    /\ phase \in {"analyze", "propose", "validate", "done", "failed"}
    /\ \A f \in Files : disk[f] \in Contents[f]
    /\ DOMAIN disk = Files
    /\ analyzed \in [Files -> UNION {Contents[f] : f \in Files}]
    /\ \A f \in Files : analyzed[f] \in Contents[f]
    /\ discovery = Analyze(analyzed)

(* What a validated candidate was validated against. *)
Simulation(v) ==
    replaceSourceDiscovery(discovery, Parse(FileOf(v), PatchedFile(v), TRUE), FileOf(v))

(* A validated candidate answers a target and has passed every check, on a  *)
(* content its file has had, with the verdict of its simulation.            *)
Sound(v) ==
    /\ v.candidate \in Candidate
    /\ TargetOf(v.candidate) \in targets
    /\ TargetOf(v.candidate).change = v.candidate.change
    /\ TargetOf(v.candidate).consumer = v.candidate.consumer
    /\ TargetOf(v.candidate).before = v.candidate.before
    /\ v.read \in Contents[FileOf(v)]
    /\ Accepted(v.candidate, v.read)
    /\ v.status = Status(Simulation(v))
    /\ v.class = classificationFor(Simulation(v), v.candidate.change, v.candidate.consumer)

Verdicts == {validated[i] : i \in DOMAIN validated}
Verdict == [candidate : Candidate, read : UNION {Contents[f] : f \in Files},
            status : Statuses, class : Classifications]

(* The protocol: nothing is validated before an answer has been accepted,   *)
(* and the candidates of the answer are taken in their order.               *)
Protocol ==
    /\ targets \subseteq Targets
    /\ response \in Seq(Candidate)
    /\ phase \in {"analyze", "propose"} => validated = << >>
    /\ phase = "validate" => validateResponse(response)
    /\ validated \in Seq(Verdict)
    /\ Len(validated) <= Len(response)
    /\ \A i \in DOMAIN validated : validated[i].candidate = response[i]

RemediationInv == Inputs /\ Protocol /\ \A v \in Verdicts : Sound(v)

-----------------------------------------------------------------------------
(* The adapters                                                             *)

LEMMA ReferencesAreOf ==
    ASSUME NEW id, NEW e, NEW r \in ReferencesOf(id, e)
    PROVE  r.consumer = id
<1>1. PICK s \in e.uses \cup e.patterns :
        r = [consumer |-> id, symbol |-> s, requiresResolution |-> s \in e.patterns, scope |-> ""]
  BY Zenon DEF ReferencesOf
<1> QED
  BY <1>1

(* The consumers of a parsed file are its rules or panels: they carry the   *)
(* file, and all other evidence of the file names one of them.              *)
LEMMA ParseFacts ==
    ASSUME NEW f, NEW contents, NEW required
    PROVE  LET p == Parse(f, contents, required)
           IN  /\ \A c \in p.consumers :
                     /\ c.file = f
                     /\ \E i \in DOMAIN contents : /\ contents[i].consumer = c.id
                                                   /\ contents[i].consumer # NoConsumer
                                                   /\ contents[i].value = c.expression
               /\ \A r \in p.references : \E c \in p.consumers : c.id = r.consumer
               /\ \A r \in p.productions : \E c \in p.consumers : c.id = r.consumer
               /\ \A x \in p.diagnostics : x.file = f
<1> DEFINE rows == {contents[i] : i \in {j \in DOMAIN contents : contents[j].consumer # NoConsumer}}
           p == Parse(f, contents, required)
           Of(x) == [id |-> x.consumer, criticality |-> x.criticality,
                     unresolved |-> ~ Resolved(x.value), file |-> f, expression |-> x.value]
<1>1. /\ p.consumers = {Of(x) : x \in rows}
      /\ p.references = UNION {ReferencesOf(x.consumer, x.value) :
                                 x \in {y \in rows : Resolved(y.value)}}
      /\ p.productions = {[consumer |-> x.consumer, symbol |-> x.records] :
                            x \in {y \in rows : y.records # NoSymbol}}
      /\ p.diagnostics = {[file |-> f, required |-> required] :
                            x \in rows \ {y \in rows : Resolved(y.value)}}
  BY DEF Parse
<1>2. \A x \in rows : \E i \in DOMAIN contents : x = contents[i] /\ x.consumer # NoConsumer
  OBVIOUS
<1>3. \A x \in rows : Of(x) \in p.consumers /\ Of(x).id = x.consumer
  BY <1>1
<1> HIDE DEF rows, p
<1>4. ASSUME NEW c \in p.consumers
      PROVE  /\ c.file = f
             /\ \E i \in DOMAIN contents : /\ contents[i].consumer = c.id
                                           /\ contents[i].consumer # NoConsumer
                                           /\ contents[i].value = c.expression
  <2>1. PICK x \in rows : c = Of(x)
    BY <1>1, <1>4
  <2> QED
    BY <2>1, <1>2
<1>5. ASSUME NEW r \in p.references PROVE \E c \in p.consumers : c.id = r.consumer
  <2>1. PICK x \in rows : r \in ReferencesOf(x.consumer, x.value)
    BY <1>1, <1>5
  <2>2. r.consumer = x.consumer
    BY <2>1, ReferencesAreOf
  <2> QED
    BY <2>2, <1>3
<1>6. ASSUME NEW r \in p.productions PROVE \E c \in p.consumers : c.id = r.consumer
  <2>1. PICK x \in rows : r = [consumer |-> x.consumer, symbol |-> x.records]
    BY <1>1, <1>6
  <2> QED
    BY <2>1, <1>3
<1>7. \A x \in p.diagnostics : x.file = f
  BY <1>1
<1> QED
  BY <1>4, <1>5, <1>6, <1>7 DEF p

(* Every reference of a parsed file is one of an expression that names its  *)
(* consumer.                                                                *)
LEMMA ParsedReference ==
    ASSUME NEW f, NEW contents, NEW required,
           NEW r \in Parse(f, contents, required).references
    PROVE  \E i \in DOMAIN contents :
              /\ contents[i].consumer # NoConsumer
              /\ contents[i].consumer = r.consumer
              /\ r \in ReferencesOf(contents[i].consumer, contents[i].value)
<1> DEFINE rows == {contents[i] : i \in {j \in DOMAIN contents : contents[j].consumer # NoConsumer}}
<1>1. Parse(f, contents, required).references
        = UNION {ReferencesOf(x.consumer, x.value) : x \in {y \in rows : Resolved(y.value)}}
  BY DEF Parse
<1>2. \A x \in rows : \E i \in DOMAIN contents : x = contents[i] /\ x.consumer # NoConsumer
  OBVIOUS
<1> HIDE DEF rows
<1>3. PICK x \in rows : r \in ReferencesOf(x.consumer, x.value)
  BY <1>1
<1>4. r.consumer = x.consumer
  BY <1>3, ReferencesAreOf
<1> QED
  BY <1>2, <1>3, <1>4

(* A file that parses without a diagnostic parses the same whether it is    *)
(* required or not.                                                         *)
LEMMA ParseIsTheSame ==
    ASSUME NEW f, NEW contents, NEW required, Parse(f, contents, TRUE).diagnostics = {}
    PROVE  Parse(f, contents, required) = Parse(f, contents, TRUE)
<1> DEFINE rows == {contents[i] : i \in {j \in DOMAIN contents : contents[j].consumer # NoConsumer}}
           bad == rows \ {y \in rows : Resolved(y.value)}
<1>1. \A r : Parse(f, contents, r).diagnostics = {[file |-> f, required |-> r] : x \in bad}
  BY DEF Parse
<1>2. bad = {}
  <2> SUFFICES ASSUME NEW x \in bad PROVE FALSE
    OBVIOUS
  <2>1. [file |-> f, required |-> TRUE] \in {[file |-> f, required |-> TRUE] : y \in bad}
    <3> HIDE DEF bad
    <3> QED
      OBVIOUS
  <2>2. Parse(f, contents, TRUE).diagnostics = {[file |-> f, required |-> TRUE] : y \in bad}
    BY <1>1
  <2> HIDE DEF bad
  <2> QED
    BY <2>1, <2>2
<1>3. {[file |-> f, required |-> required] : x \in bad} = {[file |-> f, required |-> TRUE] : x \in bad}
  <2> HIDE DEF bad
  <2> QED
    BY <1>2
<1> QED
  BY <1>3 DEF Parse

LEMMA LoadFacts ==
    ASSUME NEW f \in Files, NEW contents
    PROVE  LET p == Load(f, contents)
           IN  /\ \A c \in p.consumers :
                     /\ c.file = f
                     /\ c.id \in Named(contents)
                     /\ \E i \in DOMAIN contents : /\ contents[i].consumer = c.id
                                                   /\ contents[i].value = c.expression
               /\ \A r \in p.references : \E c \in p.consumers : c.id = r.consumer
               /\ \A r \in p.productions : \E c \in p.consumers : c.id = r.consumer
               /\ \A x \in p.diagnostics : x.file = f
<1> DEFINE p == Load(f, contents)
           parsed == Parse(f, contents, f \in RequiredFiles)
<1>1. CASE contents = Unreadable
  <2>1. /\ p.consumers = {} /\ p.references = {} /\ p.productions = {}
        /\ \A x \in p.diagnostics : x.file = f
    BY <1>1 DEF Load
  <2> QED
    BY <2>1
<1>2. CASE contents # Unreadable
  <2>0. parsed = [consumers |-> parsed.consumers, references |-> parsed.references,
                  productions |-> parsed.productions, diagnostics |-> parsed.diagnostics]
    BY DEF Parse
  <2>1. /\ p.consumers = parsed.consumers
        /\ p.references = parsed.references
        /\ p.productions = parsed.productions
        /\ p.diagnostics \subseteq parsed.diagnostics
             \cup {[file |-> f, required |-> SecondReader[f] = "required"]}
    <3> HIDE DEF parsed
    <3> QED
      BY <1>2, <2>0 DEF Load, parsed
  <2>2. /\ \A c \in parsed.consumers :
              /\ c.file = f
              /\ \E i \in DOMAIN contents : /\ contents[i].consumer = c.id
                                            /\ contents[i].consumer # NoConsumer
                                            /\ contents[i].value = c.expression
        /\ \A r \in parsed.references : \E c \in parsed.consumers : c.id = r.consumer
        /\ \A r \in parsed.productions : \E c \in parsed.consumers : c.id = r.consumer
        /\ \A x \in parsed.diagnostics : x.file = f
    BY ParseFacts
  <2> HIDE DEF parsed, p
  <2>3. \A c \in parsed.consumers : c.id \in Named(contents)
    BY <1>2, <2>2 DEF Named
  <2>4. \A x \in p.diagnostics : x.file = f
    BY <2>1, <2>2
  <2> QED
    BY <2>1, <2>2, <2>3, <2>4 DEF p
<1> QED
  BY <1>1, <1>2

(* A file that can be read is what its own adapter makes of it, but for     *)
(* what another adapter says of it.                                         *)
LEMMA LoadOfReadable ==
    ASSUME NEW f, NEW contents, contents # Unreadable
    PROVE  LET p == Load(f, contents)
               own == Parse(f, contents, f \in RequiredFiles)
           IN  /\ p.consumers = own.consumers
               /\ p.references = own.references
               /\ p.productions = own.productions
<1> DEFINE own == Parse(f, contents, f \in RequiredFiles)
<1>1. own = [consumers |-> own.consumers, references |-> own.references,
             productions |-> own.productions, diagnostics |-> own.diagnostics]
  BY DEF Parse
<1> HIDE DEF own
<1> QED
  BY <1>1 DEF Load, own

(* A patched file is a file again. *)
LEMMA PatchedIsAFile ==
    ASSUME NEW contents \in Seq(Entry), NEW before, NEW after \in Expressions
    PROVE  /\ Patched(contents, before, after) \in Seq(Entry)
           /\ Patched(contents, before, after) # Unreadable
<1> DEFINE patched == Patched(contents, before, after)
<1>1. \A i \in DOMAIN contents :
        [contents[i] EXCEPT !.value = after] \in Entry
  <2> TAKE i \in DOMAIN contents
  <2>1. contents[i] \in Entry
    OBVIOUS
  <2> QED
    BY <2>1 DEF Entry
<1>2. patched \in [1 .. Len(contents) -> Entry]
  BY <1>1 DEF Patched
<1>3. patched \in Seq(Entry)
  <2> HIDE DEF patched
  <2> QED
    BY <1>2
<1> QED
  BY <1>3, FilesAssumption

-----------------------------------------------------------------------------
(* The verdict of a simulation is one of the policy's.                      *)
LEMMA StatusType == \A d : Status(d) \in Statuses
  BY DEF Status, statusForChanges, Statuses

LEMMA ClassificationIsClassify ==
    ASSUME NEW d, NEW k, NEW id, \E c \in d.consumers : c.id = id
    PROVE  LET change == migration[k]
               old == impactedConsumers(Indexed(d), change.from, policy.includeTransitive)
               new == IF change.to = NoSymbol THEN {}
                      ELSE impactedConsumers(Indexed(d), change.to, policy.includeTransitive)
           IN  \E c \in d.consumers :
                  /\ c.id = id
                  /\ Classification(d, k, id)
                       = classify(change, id \in old, id \in new, Uncertain(Indexed(d), c, change))
<1> DEFINE change == migration[k]
           old == impactedConsumers(Indexed(d), change.from, policy.includeTransitive)
           new == IF change.to = NoSymbol THEN {}
                  ELSE impactedConsumers(Indexed(d), change.to, policy.includeTransitive)
           c == CHOOSE x \in d.consumers : x.id = id
           all == ClassifyAll(Indexed(d), policy, change)
<1>1. c \in d.consumers /\ c.id = id
  BY Zenon
<1>2. Indexed(d).consumers = [x \in d.consumers |-> x]
  BY DEF Indexed
<1>3. all = [i \in DOMAIN Indexed(d).consumers |->
               classify(change, Indexed(d).consumers[i].id \in old,
                        Indexed(d).consumers[i].id \in new,
                        Uncertain(Indexed(d), Indexed(d).consumers[i], change))]
  BY DEF ClassifyAll
<1> HIDE DEF c, old, new
<1>4. all[c] = classify(change, c.id \in old, c.id \in new, Uncertain(Indexed(d), c, change))
  <2> HIDE DEF change
  <2> QED
    BY <1>1, <1>2, <1>3
<1>5. Classification(d, k, id) = all[c]
  BY DEF Classification, c
<1> QED
  BY <1>1, <1>4, <1>5 DEF old, new

LEMMA ClassifyType ==
    ASSUME NEW change, NEW hasOld, NEW hasNew, NEW uncertain
    PROVE  classify(change, hasOld, hasNew, uncertain) \in Classifications
  BY DEF classify, Classifications

LEMMA ClassificationType ==
    ASSUME NEW d, NEW k, NEW id, \E c \in d.consumers : c.id = id
    PROVE  Classification(d, k, id) \in Classifications
  BY ClassificationIsClassify, ClassifyType

-----------------------------------------------------------------------------
(* Between two steps                                                        *)

LEMMA TargetsStay == UNCHANGED <<migration, policy, discovery>> => Targets' = Targets
  BY DEF Targets, IsTarget, Target, Classification, hasDirectReference

LEMMA SoundStays ==
    ASSUME UNCHANGED <<migration, policy, discovery, targets>>
    PROVE  \A v : Sound(v) => Sound(v)'
<1> TAKE v
<1>1. TargetOf(v.candidate)' = TargetOf(v.candidate)
  BY DEF TargetOf
<1>2. FileOf(v)' = FileOf(v)
  BY <1>1 DEF FileOf
<1>3. Simulation(v)' = Simulation(v)
  BY <1>2 DEF Simulation, PatchedFile
<1>4. Status(Simulation(v))' = Status(Simulation(v))
  BY <1>3 DEF Status
<1>5. classificationFor(Simulation(v), v.candidate.change, v.candidate.consumer)'
        = classificationFor(Simulation(v), v.candidate.change, v.candidate.consumer)
  BY <1>3 DEF classificationFor, Classification, Position
<1>6. Accepted(v.candidate, v.read)' <=> Accepted(v.candidate, v.read)
  BY <1>1 DEF Accepted, Provenance, classificationFor, Classification, Position
<1> QED
  BY <1>1, <1>2, <1>4, <1>5, <1>6 DEF Sound

(* What a target is, and which change it was made for.                      *)
LEMMA TargetFacts ==
    ASSUME NEW t \in Targets
    PROVE  /\ t.file \in Patchable
           /\ \E c \in discovery.consumers :
                 c.id = t.consumer /\ c.file = t.file /\ c.expression = t.before
           /\ \E k \in DOMAIN migration :
                 /\ t.change = Redact(migration[k].id)
                 /\ t.from = redactSymbol(migration[k].from)
                 /\ t.to = redactSymbol(migration[k].to)
                 /\ migration[k].to # NoSymbol
                 /\ Classification(discovery, k, t.consumer) = "LEGACY_ONLY"
                 /\ hasDirectReference(ReferencesByConsumer(discovery, t.consumer),
                                       migration[k].from)
<1>1. PICK x \in (DOMAIN migration) \X discovery.consumers :
        IsTarget(x[1], x[2]) /\ t = Target(x[1], x[2])
  BY Zenon DEF Targets
<1>2. x[1] \in DOMAIN migration /\ x[2] \in discovery.consumers
  OBVIOUS
<1> QED
  BY <1>1, <1>2 DEF IsTarget, Target

LEMMA InputTypes ==
    ASSUME Inputs
    PROVE  /\ migration \in Seq(IdentifiedChange)
           /\ \A j, k \in DOMAIN migration : migration[j].id = migration[k].id => j = k
           /\ \A f \in Files : disk[f] \in Seq(Entry) \cup {Unreadable}
  BY FilesAssumption, RemediationInputsAssumption DEF Inputs

LEMMA AnswerFacts ==
    ASSUME response \in Seq(Candidate), validateResponse(response), NEW i \in DOMAIN response
    PROVE  /\ response[i] \in Candidate
           /\ TargetOf(response[i]) \in targets
           /\ TargetOf(response[i]).change = response[i].change
           /\ TargetOf(response[i]).consumer = response[i].consumer
           /\ TargetOf(response[i]).before = response[i].before
<1>1. \E t \in targets : t.change = response[i].change /\ t.consumer = response[i].consumer
  BY DEF validateResponse
<1>2. /\ TargetOf(response[i]) \in targets
      /\ TargetOf(response[i]).change = response[i].change
      /\ TargetOf(response[i]).consumer = response[i].consumer
  BY <1>1, Zenon DEF TargetOf
<1> QED
  BY <1>2 DEF validateResponse

-----------------------------------------------------------------------------
LEMMA InitInv == Init => RemediationInv
<1> SUFFICES ASSUME Init PROVE RemediationInv
  OBVIOUS
<1>1. Inputs
  BY DEF Init, Inputs
<1>2. /\ targets = {} /\ response = << >> /\ validated = << >> /\ phase = "analyze"
  BY DEF Init
<1>3. Protocol
  BY <1>2 DEF Protocol
<1>4. Verdicts = {}
  BY <1>2 DEF Verdicts
<1> QED
  BY <1>1, <1>3, <1>4 DEF RemediationInv

LEMMA BuildRequestInv == RemediationInv /\ BuildRequest => RemediationInv'
<1> SUFFICES ASSUME RemediationInv, BuildRequest PROVE RemediationInv'
  OBVIOUS
<1>1. /\ phase = "analyze"
      /\ targets' \subseteq Targets
      /\ phase' \in {"done", "propose"}
      /\ UNCHANGED <<disk, migration, policy, analyzed, discovery, response, validated>>
  BY DEF BuildRequest, OneOfEach, args
<1>2. Inputs'
  BY <1>1 DEF RemediationInv, Inputs
<1>3. Targets' = Targets
  BY <1>1, TargetsStay
<1>4. Protocol'
  BY <1>1, <1>3 DEF RemediationInv, Protocol
<1>5. Verdicts' = {}
  BY <1>1 DEF RemediationInv, Protocol, Verdicts
<1> QED
  BY <1>2, <1>4, <1>5 DEF RemediationInv

LEMMA ProposeInv == RemediationInv /\ Propose => RemediationInv'
<1> SUFFICES ASSUME RemediationInv, Propose PROVE RemediationInv'
  OBVIOUS
<1>1. /\ phase = "propose"
      /\ UNCHANGED <<disk, migration, policy, analyzed, discovery, targets, validated>>
  BY DEF Propose, args
<1>2. /\ phase' \in {"validate", "failed"}
      /\ response' \in Seq(Candidate)
      /\ phase' = "validate" => validateResponse(response')
  <2>1. CASE phase' = "failed" /\ UNCHANGED response
    BY <2>1 DEF RemediationInv, Protocol
  <2>2. CASE \E r \in Responses :
               /\ response' = r
               /\ phase' = IF validateResponse(r) THEN "validate" ELSE "failed"
    BY <2>2, RemediationInputsAssumption
  <2> QED
    BY <2>1, <2>2 DEF Propose
<1>3. Inputs'
  BY <1>1, <1>2 DEF RemediationInv, Inputs
<1>4. Targets' = Targets
  BY <1>1, TargetsStay
<1>5. phase' = "validate" => validateResponse(response)'
  BY <1>1, <1>2 DEF validateResponse, TargetOf
<1>6. validated = << >>
  BY <1>1 DEF RemediationInv, Protocol
<1>7. Len(validated') <= Len(response')
  BY <1>1, <1>2, <1>6
<1>8. Protocol'
  BY <1>1, <1>2, <1>4, <1>5, <1>6, <1>7 DEF RemediationInv, Protocol
<1>9. Verdicts' = {}
  BY <1>1, <1>6 DEF Verdicts
<1> QED
  BY <1>3, <1>8, <1>9 DEF RemediationInv

LEMMA EditInv == RemediationInv /\ (\E f \in Files : Edit(f)) => RemediationInv'
<1> SUFFICES ASSUME RemediationInv, NEW f \in Files, Edit(f) PROVE RemediationInv'
  OBVIOUS
<1>1. /\ \E contents \in Contents[f] : disk' = [disk EXCEPT ![f] = contents]
      /\ UNCHANGED <<migration, policy, phase, analyzed, discovery, targets, response, validated>>
  BY DEF Edit, args
<1>2. Inputs'
  BY <1>1 DEF RemediationInv, Inputs
<1>3. Targets' = Targets
  BY <1>1, TargetsStay
<1>4. validateResponse(response)' <=> validateResponse(response)
  BY <1>1 DEF validateResponse, TargetOf
<1>5. Protocol'
  BY <1>1, <1>3, <1>4 DEF RemediationInv, Protocol
<1>6. \A v \in Verdicts : Sound(v)'
  BY <1>1, SoundStays DEF RemediationInv
<1> QED
  BY <1>1, <1>2, <1>5, <1>6 DEF RemediationInv, Verdicts

(* A step that records nothing new. *)
LEMMA QuietInv ==
    ASSUME RemediationInv, phase' \in {phase, "failed", "done"},
           UNCHANGED <<disk, migration, policy, analyzed, discovery, targets, response, validated>>
    PROVE  RemediationInv'
<1>1. Inputs'
  BY DEF RemediationInv, Inputs
<1>2. Targets' = Targets
  BY TargetsStay
<1>3. validateResponse(response)' <=> validateResponse(response)
  BY DEF validateResponse, TargetOf
<1>4. Protocol'
  BY <1>2, <1>3 DEF RemediationInv, Protocol
<1>5. \A v \in Verdicts : Sound(v)'
  BY SoundStays DEF RemediationInv
<1> QED
  BY <1>1, <1>4, <1>5 DEF RemediationInv, Verdicts

LEMMA ValidateCandidateInv == RemediationInv /\ ValidateCandidate => RemediationInv'
<1> SUFFICES ASSUME RemediationInv, ValidateCandidate PROVE RemediationInv'
  OBVIOUS
<1> DEFINE n == Len(validated) + 1
           c == response[n]
           f == TargetOf(c).file
           patched == Patched(disk[f], c.before, c.after)
           simulated == replaceSourceDiscovery(discovery, Parse(f, patched, TRUE), f)
           v == [candidate |-> c, read |-> disk[f], status |-> Status(simulated),
                 class |-> classificationFor(simulated, c.change, c.consumer)]
<1>0. Inputs /\ Protocol /\ \A w \in Verdicts : Sound(w)
  BY DEF RemediationInv
<1>1. /\ phase = "validate" /\ Len(validated) < Len(response)
      /\ UNCHANGED <<disk, migration, policy, analyzed, discovery, targets, response>>
      /\ \/ phase' = "failed" /\ UNCHANGED validated
         \/ /\ Accepted(c, disk[f])
            /\ validated' = Append(validated, v)
            /\ UNCHANGED phase
  BY DEF ValidateCandidate, args
<1>2. CASE phase' = "failed" /\ UNCHANGED validated
  BY <1>1, <1>2, QuietInv
<1>3. ASSUME Accepted(c, disk[f]), validated' = Append(validated, v), UNCHANGED phase
      PROVE  RemediationInv'
  <2>1. n \in DOMAIN response
    BY <1>0, <1>1 DEF Protocol
  <2>2. /\ c \in Candidate
        /\ TargetOf(c) \in targets
        /\ TargetOf(c).change = c.change
        /\ TargetOf(c).consumer = c.consumer
        /\ TargetOf(c).before = c.before
    BY <1>0, <1>1, <2>1, AnswerFacts DEF Protocol
  <2>3. f \in Files /\ disk[f] \in Contents[f]
    BY <1>0, <2>2, TargetFacts, FilesAssumption DEF Protocol, Inputs
  <2>4. \E x \in simulated.consumers : x.id = c.consumer
    <3>1. \E x \in Parse(f, patched, TRUE).consumers : x.id = c.consumer
      BY <1>3 DEF Accepted
    <3> QED
      BY <3>1 DEF replaceSourceDiscovery
  <2>5. Status(simulated) \in Statuses
    BY StatusType
  <2>6. classificationFor(simulated, c.change, c.consumer) \in Classifications
    BY <2>4, ClassificationType DEF classificationFor
  <2>7. /\ v \in Verdict
        /\ v.candidate = c /\ v.read = disk[f]
        /\ v.status = Status(simulated)
        /\ v.class = classificationFor(simulated, c.change, c.consumer)
    BY <2>2, <2>3, <2>5, <2>6 DEF Verdict
  <2>8. Sound(v)
    <3>1. FileOf(v) = f /\ PatchedFile(v) = patched
      BY <2>7 DEF FileOf, PatchedFile
    <3>2. Simulation(v) = simulated
      BY <3>1 DEF Simulation
    <3> HIDE DEF v, simulated, patched, f, c
    <3> QED
      BY <1>3, <2>2, <2>3, <2>7, <3>1, <3>2 DEF Sound, f
  <2> HIDE DEF v, f, c
  <2>9. /\ validated' \in Seq(Verdict) /\ Len(validated') = n
        /\ \A i \in DOMAIN validated : validated'[i] = validated[i]
        /\ validated'[n] = v
    BY <1>0, <1>3, <2>7, AppendProperties DEF Protocol
  <2>10. DOMAIN validated' = 1 .. n /\ DOMAIN validated = 1 .. Len(validated)
    BY <1>0, <2>9 DEF Protocol
  <2>11. Verdicts' \subseteq Verdicts \cup {v}
    <3> SUFFICES ASSUME NEW i \in 1 .. n PROVE validated'[i] \in Verdicts \cup {v}
      BY <2>10 DEF Verdicts
    <3> QED
      BY <2>9, <2>10 DEF Verdicts
  <2>12. \A w \in Verdicts' : Sound(w)'
    BY <1>0, <1>1, <2>8, <2>11, SoundStays
  <2>13. Inputs'
    BY <1>0, <1>1, <1>3 DEF Inputs
  <2>14. Targets' = Targets
    BY <1>1, TargetsStay
  <2>15. validateResponse(response)'
    BY <1>0, <1>1 DEF Protocol, validateResponse, TargetOf
  <2>16. \A i \in 1 .. n : validated'[i].candidate = response[i]
    <3> TAKE i \in 1 .. n
    <3>1. CASE i = n
      BY <3>1, <2>7, <2>9 DEF c
    <3>2. CASE i # n
      BY <3>2, <1>0, <2>9, <2>10 DEF Protocol
    <3> QED
      BY <3>1, <3>2
  <2>17. n <= Len(response)
    BY <1>0, <1>1 DEF Protocol
  <2>18. Protocol'
    BY <1>0, <1>1, <1>3, <2>9, <2>10, <2>14, <2>15, <2>16, <2>17 DEF Protocol
  <2> QED
    BY <2>12, <2>13, <2>18 DEF RemediationInv
<1> QED
  BY <1>1, <1>2, <1>3

LEMMA ReportInv == RemediationInv /\ Report => RemediationInv'
  BY QuietInv DEF Report, args

LEMMA StutterInv == RemediationInv /\ UNCHANGED vars => RemediationInv'
  BY QuietInv DEF vars

-----------------------------------------------------------------------------
(* However the files change and whatever the provider answers, each         *)
(* validated candidate has passed every check against the first discovery.  *)
THEOREM RemediationInvariant == Spec => []RemediationInv
<1>1. RemediationInv /\ [Next]_vars => RemediationInv'
  BY BuildRequestInv, ProposeInv, EditInv, ValidateCandidateInv, ReportInv, StutterInv DEF Next
<1> QED
  BY InitInv, <1>1, PTL DEF Spec

(* Every variable of a remediation keeps its type, for every configuration. *)
THEOREM TypeCorrect == Spec => []TypeOK
<1>1. ASSUME RemediationInv PROVE TypeOK
  <2>1. Inputs /\ Protocol
    BY <1>1 DEF RemediationInv
  <2>2. \A t \in targets : \E k \in DOMAIN migration : t.change = Redact(migration[k].id)
    BY <2>1, TargetFacts DEF Protocol
  <2>3. ASSUME NEW i \in DOMAIN validated
        PROVE  /\ validated[i].candidate = response[i]
               /\ validated[i].status \in Statuses
               /\ validated[i].class \in Classifications
    <3>1. validated[i] \in Verdict
      BY <2>1 DEF Protocol
    <3> QED
      BY <2>1, <3>1 DEF Protocol, Verdict
  <2> QED
    BY <2>1, <2>2, <2>3 DEF TypeOK, Inputs
<1> QED
  BY RemediationInvariant, <1>1, PTL

-----------------------------------------------------------------------------
(* Evidence of a discovery belongs to the file that names its consumer.     *)
LEMMA DiscoveryFacts ==
    ASSUME NEW tree, NEW f \in Files,
           \A g \in Files : tree[g] \in Contents[g]
    PROVE  LET d == Analyze(tree)
               own == Load(f, tree[f])
               replaced == {c.id : c \in {x \in d.consumers : x.file = f}}
           IN  /\ \A c \in d.consumers : c.file = f => c \in own.consumers
               /\ \A g \in Files \ {f} : \A c \in Load(g, tree[g]).consumers :
                     c.file # f /\ c.id \notin replaced
               /\ \A c \in own.consumers : c.id \in replaced
<1> DEFINE d == Analyze(tree)
           own == Load(f, tree[f])
           found == {x \in d.consumers : x.file = f}
           replaced == {c.id : c \in found}
<1>1. \A c : c \in d.consumers <=> \E g \in Files : c \in Load(g, tree[g]).consumers
  BY DEF Analyze
<1>2. \A g \in Files : \A c \in Load(g, tree[g]).consumers : c.file = g /\ c.id \in Named(tree[g])
  BY LoadFacts
<1> HIDE DEF d
<1>3. \A c \in d.consumers : c.file = f => c \in own.consumers
  BY <1>1, <1>2
<1>4. \A id \in replaced : id \in Named(tree[f])
  BY <1>2, <1>3
<1>5. ASSUME NEW g \in Files \ {f}, NEW c \in Load(g, tree[g]).consumers
      PROVE  c.file # f /\ c.id \notin replaced
  <2>1. Named(tree[g]) \cap Named(tree[f]) = {}
    BY IdentifiersAssumption
  <2> HIDE DEF replaced
  <2> QED
    BY <1>2, <1>4, <2>1
<1>6. \A c \in own.consumers : c \in found
  BY <1>1, <1>2
<1>7. \A c \in own.consumers : c.id \in replaced
  BY <1>6
<1> QED
  BY <1>3, <1>5, <1>7 DEF d

(* The references of a discovery that name a consumer are those of its      *)
(* expression.                                                              *)
LEMMA OwnReferences ==
    ASSUME NEW tree, \A g \in Files : tree[g] \in Contents[g],
           NEW c \in Analyze(tree).consumers, NEW r \in Analyze(tree).references,
           r.consumer = c.id
    PROVE  r \in ReferencesOf(c.id, c.expression)
<1>1. PICK f \in Files : c \in Load(f, tree[f]).consumers
  BY DEF Analyze
<1>2. PICK g \in Files : r \in Load(g, tree[g]).references
  BY DEF Analyze
<1>3. tree[g] # Unreadable
  <2> SUFFICES ASSUME tree[g] = Unreadable PROVE FALSE
    OBVIOUS
  <2>1. Load(g, tree[g]).references = {}
    BY DEF Load
  <2> QED
    BY <1>2, <2>1
<1>4. r \in Parse(g, tree[g], g \in RequiredFiles).references
  <2> DEFINE p == Parse(g, tree[g], g \in RequiredFiles)
  <2>1. p = [consumers |-> p.consumers, references |-> p.references,
             productions |-> p.productions, diagnostics |-> p.diagnostics]
    BY DEF Parse
  <2> HIDE DEF p
  <2>2. Load(g, tree[g]).references = p.references
    BY <1>3, <2>1 DEF Load, p
  <2> QED
    BY <1>2, <2>2 DEF p
<1>5. PICK j \in DOMAIN tree[g] :
        /\ tree[g][j].consumer # NoConsumer
        /\ tree[g][j].consumer = r.consumer
        /\ r \in ReferencesOf(tree[g][j].consumer, tree[g][j].value)
  BY <1>4, ParsedReference
<1>6. /\ c.id \in Named(tree[f])
      /\ \E i \in DOMAIN tree[f] : tree[f][i].consumer = c.id /\ tree[f][i].value = c.expression
  BY <1>1, LoadFacts
<1>7. f = g
  <2>1. c.id \in Named(tree[g])
    BY <1>3, <1>5 DEF Named
  <2> QED
    BY <1>6, <2>1, IdentifiersAssumption
<1>8. PICK i \in DOMAIN tree[g] : tree[g][i].consumer = c.id /\ tree[g][i].value = c.expression
  BY <1>6, <1>7
<1>9. i = j
  BY <1>3, <1>5, <1>8, IdentifiersAssumption
<1> QED
  BY <1>5, <1>8, <1>9

(* The facts of a validated candidate.                                      *)
LEMMA SoundFacts ==
    ASSUME RemediationInv, NEW v \in Verdicts
    PROVE  /\ Sound(v)
           /\ TargetOf(v.candidate) \in Targets
           /\ FileOf(v) \in Patchable
           /\ FileOf(v) \in Files
           /\ v.read \in Seq(Entry)
           /\ PatchedFile(v) \in Seq(Entry) /\ PatchedFile(v) # Unreadable
<1>1. Sound(v) /\ TargetOf(v.candidate) \in Targets
  BY DEF RemediationInv, Protocol, Sound
<1>2. FileOf(v) \in Patchable /\ FileOf(v) \in Files
  BY <1>1, TargetFacts, FilesAssumption DEF FileOf
<1>3. v.read \in Seq(Entry)
  BY <1>1, <1>2, FilesAssumption DEF Sound, Accepted
<1>4. v.candidate.after \in Expressions
  BY <1>1 DEF Sound, Candidate
<1> QED
  BY <1>1, <1>2, <1>3, <1>4, PatchedIsAFile DEF PatchedFile

(* The one scalar that is replaced is the expression of the target, or the  *)
(* one the target's alias repeats, and not another one or a text that looks *)
(* like it, in a file nobody has touched.                                   *)
THEOREM PatchesHitTheirTargets == Spec => []PatchHitsItsTarget
<1>1. ASSUME RemediationInv, NEW v \in Verdicts, v.read = analyzed[FileOf(v)],
             NEW k \in DOMAIN v.read, PatchedFile(v)[k] # v.read[k], ~ v.read[k].alias
      PROVE  \E j \in DOMAIN v.read :
                /\ v.read[j].consumer = v.candidate.consumer
                /\ k = j \/ (v.read[j].alias /\ v.read[j].value = v.read[k].value)
  <2> DEFINE f == FileOf(v)
             before == v.candidate.before
  <2>1. /\ Sound(v) /\ f \in Files /\ v.read \in Seq(Entry)
        /\ TargetOf(v.candidate) \in Targets
    BY <1>1, SoundFacts
  <2>2. Unambiguous(v.read, before)
    BY <2>1 DEF Sound, Accepted
  <2>3. v.read[k].value = before
    BY <1>1 DEF PatchedFile, Patched
  <2>4. PICK c \in discovery.consumers :
          c.id = v.candidate.consumer /\ c.file = f /\ c.expression = before
    BY <2>1, TargetFacts DEF Sound, FileOf
  <2>5. c \in Load(f, v.read).consumers
    <3>1. discovery = Analyze(analyzed) /\ \A g \in Files : analyzed[g] \in Contents[g]
      BY <1>1 DEF RemediationInv, Inputs
    <3> QED
      BY <3>1, <2>1, <2>4, <1>1, DiscoveryFacts
  <2>6. PICK i \in DOMAIN v.read : v.read[i].consumer = c.id /\ v.read[i].value = c.expression
    BY <2>1, <2>5, LoadFacts
  <2>7. \A x, y \in Matches(v.read, before) : x = y
    <3>1. IsFiniteSet(Matches(v.read, before))
      BY <2>1, FS_Interval, FS_Subset DEF Matches
    <3>2. \E x : Matches(v.read, before) = {x}
      BY <2>2, <3>1, FS_Singleton DEF Unambiguous
    <3> QED
      BY <3>2
  <2>8. k \in Matches(v.read, before)
    BY <1>1, <2>3 DEF Matches
  <2>9. CASE v.read[i].alias
    BY <2>3, <2>4, <2>6, <2>9
  <2>10. CASE ~ v.read[i].alias
    <3>1. i \in Matches(v.read, before)
      BY <2>4, <2>6, <2>10 DEF Matches
    <3> QED
      BY <2>4, <2>6, <2>7, <2>8, <3>1
  <2> QED
    BY <2>9, <2>10
<1>2. RemediationInv => PatchHitsItsTarget
  <2> SUFFICES ASSUME RemediationInv, NEW v \in Verdicts, v.read = analyzed[FileOf(v)],
                      NEW k \in DOMAIN v.read, PatchedFile(v)[k] # v.read[k], ~ v.read[k].alias
               PROVE  LET own == {j \in DOMAIN v.read : v.read[j].consumer = v.candidate.consumer}
                      IN  k \in own \/ \E j \in own : /\ v.read[j].alias
                                                     /\ v.read[j].value = v.read[k].value
    BY DEF PatchHitsItsTarget, Verdicts
  <2> QED
    BY <1>1
<1> QED
  BY RemediationInvariant, <1>2, PTL

-----------------------------------------------------------------------------
(* Identifiers and redaction                                                *)

(* Redaction makes no symbol of a migration out of another one.             *)
LEMMA RedactedName ==
    ASSUME NEW n \in Names \cup {NoName}, Redact(n) \in Names \cup {NoName}
    PROVE  Redact(n) = n
  BY RedactionAssumption DEF Redact

LEMMA RedactedSymbol ==
    ASSUME NEW s \in Symbol, redactSymbol(s) \in Symbol
    PROVE  redactSymbol(s) = s
<1>1. /\ s = [domain |-> s.domain, kind |-> s.kind, parent |-> s.parent, name |-> s.name]
      /\ s.parent \in Names \cup {NoName} /\ s.name \in Names
  BY DEF Symbol
<1>2. redactSymbol(s) = [domain |-> s.domain, kind |-> s.kind, parent |-> Redact(s.parent),
                         name |-> Redact(s.name)]
  <2> DEFINE named == [s EXCEPT !.name = Redact(s.name)]
  <2>1. redactSymbol(s) = [named EXCEPT !.parent = Redact(s.parent)]
    BY DEF redactSymbol
  <2>2. named = [domain |-> s.domain, kind |-> s.kind, parent |-> s.parent,
                 name |-> Redact(s.name)]
    BY <1>1
  <2> HIDE DEF named
  <2> QED
    BY <2>1, <2>2
<1>3. Redact(s.parent) \in Names \cup {NoName} /\ Redact(s.name) \in Names
  <2> DEFINE u == [domain |-> s.domain, kind |-> s.kind, parent |-> Redact(s.parent),
                   name |-> Redact(s.name)]
  <2>1. u \in Symbol
    BY <1>2
  <2> QED
    BY <2>1 DEF Symbol
<1>4. Redact(s.parent) = s.parent /\ Redact(s.name) = s.name
  BY <1>1, <1>3, RedactedName
<1> QED
  BY <1>1, <1>2, <1>4

(* Do changes j and k move the same symbols, and does redaction leave those *)
(* of change k alone?                                                       *)
SameMove(j, k) == migration[j].from = migration[k].from /\ migration[j].to = migration[k].to
SentAsIs(k) == /\ redactSymbol(migration[k].from) = migration[k].from
               /\ redactSymbol(migration[k].to) = migration[k].to

(* Changes of the same symbols classify alike. *)
LEMMA SameClassification ==
    ASSUME NEW d, NEW id, NEW j \in DOMAIN migration, NEW k \in DOMAIN migration, SameMove(j, k)
    PROVE  Classification(d, j, id) = Classification(d, k, id)
<1> DEFINE a == migration[j]
           b == migration[k]
<1>1. a.from = b.from /\ a.to = b.to
  BY DEF SameMove
<1> HIDE DEF a, b
<1>2. \A r : unresolvedReferenceApplies(r, a) <=> unresolvedReferenceApplies(r, b)
  BY <1>1, Zenon DEF unresolvedReferenceApplies
<1>3. \A c : Uncertain(Indexed(d), c, a) <=> Uncertain(Indexed(d), c, b)
  BY <1>2, Zenon DEF Uncertain
<1>4. \A c, hasOld, hasNew :
        classify(a, hasOld, hasNew, Uncertain(Indexed(d), c, a))
          = classify(b, hasOld, hasNew, Uncertain(Indexed(d), c, b))
  BY <1>1, <1>3, Zenon DEF classify
<1>5. ClassifyAll(Indexed(d), policy, a) = ClassifyAll(Indexed(d), policy, b)
  BY <1>1, <1>4, Zenon DEF ClassifyAll
<1> QED
  BY <1>5 DEF Classification, a, b

(* The change an accepted target is taken for has the symbols of the one it *)
(* was made for.                                                            *)
LEMMA ProvenanceFacts ==
    ASSUME Inputs, NEW t, NEW k \in DOMAIN migration, NEW j \in DOMAIN migration,
           migration[k].to # NoSymbol, migration[j].to # NoSymbol,
           t.from = redactSymbol(migration[k].from), t.to = redactSymbol(migration[k].to),
           t.from = migration[j].from, t.to = migration[j].to
    PROVE  SentAsIs(k) /\ SameMove(j, k)
<1>1. migration[k] \in IdentifiedChange /\ migration[j] \in IdentifiedChange
  BY InputTypes
<1>2. /\ migration[k].from \in Symbol /\ migration[k].to \in Symbol
      /\ migration[j].from \in Symbol /\ migration[j].to \in Symbol
  BY <1>1 DEF IdentifiedChange
<1>3. /\ redactSymbol(migration[k].from) = migration[k].from
      /\ redactSymbol(migration[k].to) = migration[k].to
  BY <1>2, RedactedSymbol
<1> QED
  BY <1>3 DEF SentAsIs, SameMove

(* Nothing but redaction stands between a target and its validation: a      *)
(* target made for change k is accepted exactly when redaction leaves both  *)
(* symbols of the change alone and the identifier it is sent under is that  *)
(* of a change which moves the same symbols, as its own is when it is not   *)
(* redacted.                                                                *)
THEOREM ProvenanceIsExact ==
    Spec => [](\A t \in targets : \A k \in DOMAIN migration : \A c \in discovery.consumers :
                 IsTarget(k, c) /\ t = Target(k, c) =>
                    (Provenance(t) <=>
                        /\ SentAsIs(k)
                        /\ \E j \in DOMAIN migration :
                              migration[j].id = Redact(migration[k].id) /\ SameMove(j, k)))
<1>1. ASSUME RemediationInv, NEW t \in targets, NEW k \in DOMAIN migration,
             NEW c \in discovery.consumers, IsTarget(k, c), t = Target(k, c)
      PROVE  Provenance(t) <=>
                /\ SentAsIs(k)
                /\ \E j \in DOMAIN migration :
                      migration[j].id = Redact(migration[k].id) /\ SameMove(j, k)
  <2>1. /\ t.change = Redact(migration[k].id)
        /\ t.from = redactSymbol(migration[k].from)
        /\ t.to = redactSymbol(migration[k].to)
        /\ t.consumer = c.id /\ t.file = c.file /\ t.before = c.expression
        /\ migration[k].to # NoSymbol
        /\ c.file \in Patchable
        /\ hasDirectReference(ReferencesByConsumer(discovery, c.id), migration[k].from)
    BY <1>1 DEF IsTarget, Target
  <2>2. ASSUME Provenance(t)
        PROVE  /\ SentAsIs(k)
               /\ \E j \in DOMAIN migration :
                     migration[j].id = Redact(migration[k].id) /\ SameMove(j, k)
    <3>1. PICK j \in DOMAIN migration : /\ migration[j].id = t.change
                                        /\ migration[j].to # NoSymbol
                                        /\ t.from = migration[j].from
                                        /\ t.to = migration[j].to
      BY <2>2 DEF Provenance
    <3>2. SentAsIs(k) /\ SameMove(j, k)
      BY <1>1, <2>1, <3>1, ProvenanceFacts DEF RemediationInv
    <3> QED
      BY <2>1, <3>1, <3>2
  <2>3. ASSUME SentAsIs(k), NEW j \in DOMAIN migration,
               migration[j].id = Redact(migration[k].id), SameMove(j, k)
        PROVE  Provenance(t)
    BY <2>1, <2>3 DEF Provenance, SentAsIs, SameMove
  <2> QED
    BY <2>2, <2>3
<1>2. RemediationInv =>
        \A t \in targets : \A k \in DOMAIN migration : \A c \in discovery.consumers :
            IsTarget(k, c) /\ t = Target(k, c) =>
               (Provenance(t) <=>
                   /\ SentAsIs(k)
                   /\ \E j \in DOMAIN migration :
                         migration[j].id = Redact(migration[k].id) /\ SameMove(j, k))
  BY <1>1
<1> QED
  BY RemediationInvariant, <1>2, PTL

(* The change a validated candidate is reported for: its symbols are those  *)
(* of the target, and the consumer depends on its old contract only.        *)
LEMMA AnsweredChange ==
    ASSUME RemediationInv, NEW v \in Verdicts
    PROVE  LET t == TargetOf(v.candidate)
           IN  \E k \in DOMAIN migration :
                  /\ migration[k].id = v.candidate.change
                  /\ Position(v.candidate.change) = k
                  /\ migration[k].to # NoSymbol
                  /\ t.from = migration[k].from /\ t.to = migration[k].to
                  /\ Classification(discovery, k, v.candidate.consumer) = "LEGACY_ONLY"
<1> DEFINE t == TargetOf(v.candidate)
<1>1. Sound(v) /\ t \in Targets
  BY SoundFacts
<1>2. t.change = v.candidate.change /\ t.consumer = v.candidate.consumer /\ Provenance(t)
  BY <1>1 DEF Sound, Accepted
<1>3. PICK k \in DOMAIN migration : /\ migration[k].id = t.change
                                    /\ migration[k].to # NoSymbol
                                    /\ t.from = migration[k].from
                                    /\ t.to = migration[k].to
  BY <1>2 DEF Provenance
<1>4. PICK made \in DOMAIN migration :
        /\ t.from = redactSymbol(migration[made].from)
        /\ t.to = redactSymbol(migration[made].to)
        /\ migration[made].to # NoSymbol
        /\ Classification(discovery, made, t.consumer) = "LEGACY_ONLY"
  BY <1>1, TargetFacts
<1>5. SentAsIs(made) /\ SameMove(k, made)
  BY <1>3, <1>4, ProvenanceFacts DEF RemediationInv
<1>6. Classification(discovery, k, t.consumer) = Classification(discovery, made, t.consumer)
  BY <1>5, SameClassification DEF SameMove
<1>7. Position(t.change) = k
  <2>1. \A j \in DOMAIN migration : migration[j].id = migration[k].id => j = k
    BY InputTypes DEF RemediationInv
  <2> QED
    BY <1>3, <2>1 DEF Position
<1> QED
  BY <1>2, <1>3, <1>4, <1>6, <1>7

(* A validated candidate answers the change it is reported for, however     *)
(* redaction makes the identifiers of changes collide.                      *)
THEOREM CandidatesAnswerTheirChanges == Spec => []ValidatedAnswersItsChange
<1>1. ASSUME RemediationInv, NEW v \in Verdicts
      PROVE  LET c == v.candidate
             IN  \E k \in DOMAIN migration :
                    /\ migration[k].id = c.change
                    /\ Classification(discovery, k, c.consumer) = "LEGACY_ONLY"
                    /\ hasDirectReference(ReferencesOf(c.consumer, c.before), migration[k].from)
                    /\ MovesToDestination(ReferencesOf(c.consumer, c.after), migration[k])
  <2> DEFINE c == v.candidate
             t == TargetOf(c)
  <2>1. Sound(v) /\ t \in Targets
    BY <1>1, SoundFacts
  <2>2. PICK k \in DOMAIN migration :
          /\ migration[k].id = c.change
          /\ t.from = migration[k].from /\ t.to = migration[k].to
          /\ Classification(discovery, k, c.consumer) = "LEGACY_ONLY"
    BY <1>1, AnsweredChange
  <2>3. /\ MovesToDestination(ReferencesOf(c.consumer, c.after), t)
        /\ hasDirectReference(ReferencesByConsumer(discovery, t.consumer), t.from)
        /\ t.consumer = c.consumer /\ t.before = c.before
    BY <2>1 DEF Sound, Accepted, Provenance
  <2>4. MovesToDestination(ReferencesOf(c.consumer, c.after), migration[k])
    BY <2>2, <2>3 DEF MovesToDestination
  <2>5. hasDirectReference(ReferencesOf(c.consumer, c.before), migration[k].from)
    <3>1. PICK r \in ReferencesByConsumer(discovery, c.consumer) :
            SameContract(r.symbol, t.from) /\ ~ r.requiresResolution
      BY <2>3 DEF hasDirectReference
    <3>2. r \in ReferencesOf(c.consumer, c.before)
      <4>1. discovery = Analyze(analyzed) /\ \A f \in Files : analyzed[f] \in Contents[f]
        BY <1>1 DEF RemediationInv, Inputs
      <4>2. PICK x \in discovery.consumers : x.id = c.consumer /\ x.expression = c.before
        BY <2>1, <2>3, TargetFacts
      <4>3. r \in discovery.references /\ r.consumer = x.id
        BY <3>1, <4>2 DEF ReferencesByConsumer
      <4> QED
        BY <4>1, <4>2, <4>3, OwnReferences
    <3> QED
      BY <2>2, <3>1, <3>2 DEF hasDirectReference
  <2> QED
    BY <2>2, <2>4, <2>5
<1>2. RemediationInv => ValidatedAnswersItsChange
  BY <1>1 DEF ValidatedAnswersItsChange, Verdicts
<1> QED
  BY RemediationInvariant, <1>2, PTL

-----------------------------------------------------------------------------
(* Simulated is analysed                                                    *)

(* Cutting the evidence of a file out of a discovery and putting in what    *)
(* its adapter finds in the patched file is analysing the files again, but  *)
(* for what another adapter says of the file.                               *)
LEMMA ReplacingIsAnalyzing ==
    ASSUME NEW tree \in [Files -> UNION {Contents[g] : g \in Files}],
           \A g \in Files : tree[g] \in Contents[g],
           NEW f \in Files, NEW patched, patched # Unreadable,
           Parse(f, patched, TRUE).diagnostics = {}
    PROVE  replaceSourceDiscovery(Analyze(tree), Parse(f, patched, TRUE), f)
             = Unheard(Analyze([tree EXCEPT ![f] = patched]), f)
<1> DEFINE d == Analyze(tree)
           new == Parse(f, patched, TRUE)
           after == [tree EXCEPT ![f] = patched]
           again == Unheard(Analyze(after), f)
           found == {x \in d.consumers : x.file = f}
           replaced == {c.id : c \in found}
           simulated == replaceSourceDiscovery(d, new, f)
           L(g) == Load(g, tree[g])
<1>1. /\ Load(f, after[f]).consumers = new.consumers
      /\ Load(f, after[f]).references = new.references
      /\ Load(f, after[f]).productions = new.productions
      /\ new.diagnostics = {}
      /\ \A x \in Load(f, after[f]).diagnostics : x.file = f
  <2>1. Load(f, after[f]) = Load(f, patched)
    OBVIOUS
  <2>2. Parse(f, patched, f \in RequiredFiles) = new
    BY ParseIsTheSame
  <2> HIDE DEF new, after
  <2>3. /\ Load(f, patched).consumers = new.consumers
        /\ Load(f, patched).references = new.references
        /\ Load(f, patched).productions = new.productions
    BY <2>2, LoadOfReadable
  <2>4. \A x \in Load(f, patched).diagnostics : x.file = f
    BY LoadFacts
  <2> QED
    BY <2>1, <2>3, <2>4 DEF new
<1>2. \A g \in Files \ {f} : Load(g, after[g]) = L(g)
  OBVIOUS
<1>3. /\ \A c \in d.consumers : c.file = f => c \in L(f).consumers
      /\ \A g \in Files \ {f} : \A c \in L(g).consumers : c.file # f /\ c.id \notin replaced
      /\ \A c \in L(f).consumers : c.id \in replaced
  <2>1. LET all == Analyze(tree)
            own == Load(f, tree[f])
            gone == {c.id : c \in {x \in all.consumers : x.file = f}}
        IN  /\ \A c \in all.consumers : c.file = f => c \in own.consumers
            /\ \A g \in Files \ {f} : \A c \in Load(g, tree[g]).consumers :
                  c.file # f /\ c.id \notin gone
            /\ \A c \in own.consumers : c.id \in gone
    BY DiscoveryFacts
  <2> QED
    BY <2>1, Zenon
<1>4. \A g \in Files :
         /\ \A c \in L(g).consumers : c.file = g
         /\ \A r \in L(g).references : \E c \in L(g).consumers : c.id = r.consumer
         /\ \A r \in L(g).productions : \E c \in L(g).consumers : c.id = r.consumer
         /\ \A x \in L(g).diagnostics : x.file = g
  BY LoadFacts
<1>5. /\ d.consumers = UNION {L(g).consumers : g \in Files}
      /\ d.references = UNION {L(g).references : g \in Files}
      /\ d.productions = UNION {L(g).productions : g \in Files}
      /\ d.diagnostics = UNION {L(g).diagnostics : g \in Files}
  BY DEF Analyze
<1>6. simulated =
        [consumers |-> {c \in d.consumers : c.file # f} \cup new.consumers,
         references |-> {r \in d.references : r.consumer \notin replaced} \cup new.references,
         productions |-> {r \in d.productions : r.consumer \notin replaced} \cup new.productions,
         diagnostics |-> {x \in d.diagnostics : x.file # f} \cup new.diagnostics]
  BY DEF replaceSourceDiscovery
<1>7. again = [consumers |-> UNION {Load(g, after[g]).consumers : g \in Files},
               references |-> UNION {Load(g, after[g]).references : g \in Files},
               productions |-> UNION {Load(g, after[g]).productions : g \in Files},
               diagnostics |-> {x \in UNION {Load(g, after[g]).diagnostics : g \in Files} :
                                  x.file # f}]
  <2> DEFINE all == Analyze(after)
  <2>1. all = [consumers |-> UNION {Load(g, after[g]).consumers : g \in Files},
               references |-> UNION {Load(g, after[g]).references : g \in Files},
               productions |-> UNION {Load(g, after[g]).productions : g \in Files},
               diagnostics |-> UNION {Load(g, after[g]).diagnostics : g \in Files}]
    BY DEF Analyze
  <2>2. again = [all EXCEPT !.diagnostics = {x \in @ : x.file # f}]
    BY DEF Unheard
  <2> HIDE DEF all, again, after
  <2> QED
    BY <2>1, <2>2
<1> HIDE DEF d, new, after, replaced, found, simulated, again, L
<1>8. {c \in d.consumers : c.file # f} \cup new.consumers
        = UNION {Load(g, after[g]).consumers : g \in Files}
  <2>1. \A c : c \in d.consumers /\ c.file # f <=> \E g \in Files \ {f} : c \in L(g).consumers
    BY <1>4, <1>5
  <2>2. \A c : c \in UNION {Load(g, after[g]).consumers : g \in Files}
               <=> c \in new.consumers \/ \E g \in Files \ {f} : c \in L(g).consumers
    BY <1>1, <1>2
  <2> QED
    BY <2>1, <2>2
<1>9. {r \in d.references : r.consumer \notin replaced} \cup new.references
        = UNION {Load(g, after[g]).references : g \in Files}
  <2>1. \A r : r \in d.references /\ r.consumer \notin replaced
               <=> \E g \in Files \ {f} : r \in L(g).references
    BY <1>3, <1>4, <1>5
  <2>2. \A r : r \in UNION {Load(g, after[g]).references : g \in Files}
               <=> r \in new.references \/ \E g \in Files \ {f} : r \in L(g).references
    BY <1>1, <1>2
  <2> QED
    BY <2>1, <2>2
<1>10. {r \in d.productions : r.consumer \notin replaced} \cup new.productions
        = UNION {Load(g, after[g]).productions : g \in Files}
  <2>1. \A r : r \in d.productions /\ r.consumer \notin replaced
               <=> \E g \in Files \ {f} : r \in L(g).productions
    BY <1>3, <1>4, <1>5
  <2>2. \A r : r \in UNION {Load(g, after[g]).productions : g \in Files}
               <=> r \in new.productions \/ \E g \in Files \ {f} : r \in L(g).productions
    BY <1>1, <1>2
  <2> QED
    BY <2>1, <2>2
<1>11. {x \in d.diagnostics : x.file # f} \cup new.diagnostics
        = {x \in UNION {Load(g, after[g]).diagnostics : g \in Files} : x.file # f}
  <2>1. \A x : x \in d.diagnostics /\ x.file # f
               <=> \E g \in Files \ {f} : x \in L(g).diagnostics
    BY <1>4, <1>5
  <2>2. \A x : x \in UNION {Load(g, after[g]).diagnostics : g \in Files} /\ x.file # f
               <=> \E g \in Files \ {f} : x \in L(g).diagnostics
    BY <1>1, <1>2, <1>4
  <2> QED
    BY <1>1, <2>1, <2>2
<1>12. simulated = again
  BY <1>6, <1>7, <1>8, <1>9, <1>10, <1>11
<1> QED
  BY <1>12 DEF simulated, d, new, again, after

(* "Simulated status if this candidate alone were applied": the status and  *)
(* the classification of a validated candidate are those an analysis of the *)
(* patched file among the others would find, but for what another adapter   *)
(* that reads the same file says of it (replaceSourceDiscovery).            *)
THEOREM SimulationsAreReanalyses == Spec => []SimulationIsReanalysis
<1>1. ASSUME RemediationInv, NEW v \in Verdicts
      PROVE  LET again == Unheard(Analyze([analyzed EXCEPT ![FileOf(v)] = PatchedFile(v)]),
                                  FileOf(v))
             IN  /\ v.status = Status(again)
                 /\ v.class = classificationFor(again, v.candidate.change, v.candidate.consumer)
  <2> DEFINE f == FileOf(v)
             again == Unheard(Analyze([analyzed EXCEPT ![f] = PatchedFile(v)]), f)
  <2>1. /\ Sound(v) /\ f \in Patchable /\ f \in Files
        /\ PatchedFile(v) # Unreadable
    BY <1>1, SoundFacts
  <2>2. Parse(f, PatchedFile(v), TRUE).diagnostics = {}
    BY <2>1 DEF Sound, Accepted, FileOf, PatchedFile
  <2>3. /\ discovery = Analyze(analyzed)
        /\ analyzed \in [Files -> UNION {Contents[g] : g \in Files}]
        /\ \A g \in Files : analyzed[g] \in Contents[g]
    BY <1>1 DEF RemediationInv, Inputs
  <2>4. Simulation(v) = again
    <3> HIDE DEF f
    <3>2. replaceSourceDiscovery(Analyze(analyzed), Parse(f, PatchedFile(v), TRUE), f)
            = Unheard(Analyze([analyzed EXCEPT ![f] = PatchedFile(v)]), f)
      BY <2>1, <2>2, <2>3, ReplacingIsAnalyzing
    <3> QED
      BY <2>3, <3>2 DEF Simulation, f
  <2> QED
    BY <2>1, <2>4 DEF Sound
<1>2. RemediationInv => SimulationIsReanalysis
  BY <1>1 DEF SimulationIsReanalysis, Verdicts
<1> QED
  BY RemediationInvariant, <1>2, PTL

-----------------------------------------------------------------------------
(* Validated is migrated                                                    *)

(* A parsed file names symbols of PromQL only.                              *)
LEMMA ParsedSymbols ==
    ASSUME NEW f, NEW contents \in Seq(Entry), NEW required,
           NEW r \in Parse(f, contents, required).references
    PROVE  r.symbol \in PromQLSymbol
<1> DEFINE rows == {contents[i] : i \in {j \in DOMAIN contents : contents[j].consumer # NoConsumer}}
<1>1. Parse(f, contents, required).references
        = UNION {ReferencesOf(x.consumer, x.value) : x \in {y \in rows : Resolved(y.value)}}
  BY DEF Parse
<1>2. \A x \in rows : x \in Entry
  OBVIOUS
<1> HIDE DEF rows
<1>3. PICK x \in rows : r \in ReferencesOf(x.consumer, x.value)
  BY <1>1
<1>4. PICK s \in x.value.uses \cup x.value.patterns :
        r = [consumer |-> x.consumer, symbol |-> s, requiresResolution |-> s \in x.value.patterns,
             scope |-> ""]
  BY <1>3, Zenon DEF ReferencesOf
<1>5. x.value \in Expression
  BY <1>2, ExpressionsAssumption DEF Entry
<1>6. s \in PromQLSymbol
  BY <1>4, <1>5 DEF Expression
<1>7. r.symbol = s
  BY <1>4
<1> QED
  BY <1>6, <1>7

(* Among the symbols of PromQL, remediation's own comparison is the one the *)
(* readiness policy makes.                                                  *)
LEMMA SameContractMatches ==
    ASSUME NEW s \in PromQLSymbol, NEW changed, SameContract(s, changed)
    PROVE  symbolsMatch(s, changed)
<1>1. s.domain = "prometheus" /\ s.kind \in {"metric", "label"}
  BY DEF PromQLSymbol
<1>2. CASE s.kind = "metric"
  BY <1>1, <1>2 DEF SameContract, symbolsMatch
<1>3. CASE s.kind = "label"
  BY <1>1, <1>3 DEF SameContract, symbolsMatch
<1> QED
  BY <1>1, <1>2, <1>3

(* What a consumer names itself affects it, with or without transitive      *)
(* impact.                                                                  *)
LEMMA DirectUseAffects ==
    ASSUME NEW d, NEW r \in d.references, NEW symbol, NEW transitive,
           symbolsMatch(r.symbol, symbol), \E c \in d.consumers : c.id = r.consumer
    PROVE  r.consumer \in impactedConsumers(Indexed(d), symbol, transitive)
<1> DEFINE e == Indexed(d)
           id == r.consumer
           nodes == SymbolNodes(e) \cup IDs(e)
  \* the edge of the reference
<1>1. /\ e.references = d.references
      /\ e.consumers = [c \in d.consumers |-> c]
  BY DEF Indexed
<1>2. id \in IDs(e)
  BY <1>1 DEF IDs
<1>3. <<r.symbol, id>> \in Edges(e) /\ r.symbol \in SymbolNodes(e)
  BY <1>1 DEF Edges, SymbolNodes
<1> HIDE DEF e
<1>4. id \in Reachable(nodes, r.symbol, Edges(e))
  <2>1. \A S \in SUBSET nodes : r.symbol \in S /\ Closed(S, Edges(e)) => id \in S
    <3> TAKE S \in SUBSET nodes
    <3> HAVE r.symbol \in S /\ Closed(S, Edges(e))
    <3>1. <<r.symbol, id>>[1] \in S => <<r.symbol, id>>[2] \in S
      BY <1>3 DEF Closed
    <3> QED
      BY <3>1
  <2> QED
    BY <1>2, <2>1 DEF Reachable
<1>5. id \in Affected(e, r.symbol, transitive)
  BY <1>2, <1>3, <1>4 DEF Affected
<1> QED
  BY <1>3, <1>5 DEF impactedConsumers, e

(* A validated candidate takes its consumer to the new contract: if not     *)
(* alone, because another path still leads to the old one, then besides it. *)
THEOREM ValidatedCandidatesMigrate == Spec => []ValidatedMigrates
<1>1. ASSUME RemediationInv, NEW v \in Verdicts
      PROVE  v.class \in {"MIGRATED", "DUAL"}
  <2> DEFINE c == v.candidate
             f == FileOf(v)
             parsed == Parse(f, PatchedFile(v), TRUE)
             d == Simulation(v)
             t == TargetOf(c)
             k == Position(c.change)
             change == migration[k]
  <2>1. /\ Sound(v)
        /\ TargetOf(c) \in Targets
        /\ PatchedFile(v) \in Seq(Entry)
    BY <1>1, SoundFacts
  <2>2. change.to # NoSymbol /\ t.to = change.to
    BY <1>1, AnsweredChange
  <2>3. /\ \E x \in parsed.consumers : x.id = c.consumer
        /\ MovesToDestination(ReferencesByConsumer(parsed, c.consumer), t)
        /\ classificationFor(d, c.change, c.consumer) \notin {"LEGACY_ONLY", "UNCERTAIN"}
    BY <2>1 DEF Sound, Accepted, FileOf, PatchedFile, Simulation
  <2>4. PICK r \in parsed.references :
          r.consumer = c.consumer /\ SameContract(r.symbol, change.to)
    BY <2>2, <2>3 DEF MovesToDestination, hasDirectReference, ReferencesByConsumer
  <2>5. r.symbol \in PromQLSymbol
    BY <2>1, ParsedSymbols
  <2>6. r \in d.references /\ \E x \in d.consumers : x.id = r.consumer
    BY <2>3, <2>4 DEF Simulation, replaceSourceDiscovery
  <2>7. c.consumer \in impactedConsumers(Indexed(d), change.to, policy.includeTransitive)
    BY <2>4, <2>5, <2>6, SameContractMatches, DirectUseAffects
  <2> HIDE DEF d, change
  <2>8. LET old == impactedConsumers(Indexed(d), change.from, policy.includeTransitive)
            new == IF change.to = NoSymbol THEN {}
                   ELSE impactedConsumers(Indexed(d), change.to, policy.includeTransitive)
        IN  \E x \in d.consumers :
               /\ x.id = c.consumer
               /\ classificationFor(d, c.change, c.consumer)
                    = classify(change, c.consumer \in old, c.consumer \in new,
                               Uncertain(Indexed(d), x, change))
    BY <2>4, <2>6, ClassificationIsClassify DEF change, classificationFor
  <2> QED
    BY <2>1, <2>2, <2>3, <2>7, <2>8 DEF Sound, classify, d, change
<1>2. RemediationInv => ValidatedMigrates
  BY <1>1 DEF ValidatedMigrates, Verdicts
<1> QED
  BY RemediationInvariant, <1>2, PTL
================================================================================
