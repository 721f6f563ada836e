------------------------ MODULE AnalysisPipelineProofs ------------------------
(***************************************************************************)
(* Proofs about a run of tmr over its sources, for any configuration of    *)
(* any number of sources, any contents of them and any moment at which the *)
(* context ends.                                                           *)
(***************************************************************************)
EXTENDS AnalysisPipeline, SequenceTheorems, TLAPS

KeyOf(st, i, f) == Key(st, i, Sources(st)[i], f)
InputsOf(st, i) == ToSet(Inputs(st, Sources(st)[i]))

(* The arguments and the loops: what is still to be loaded are inputs of    *)
(* the current source, and a failure is one of a source or of a file.       *)
Typed ==
    /\ command \in Commands /\ configuration \in Configurations
    /\ migration \in Migrations /\ extraction \in Extractions
    /\ TypeOK
    /\ phase = "report" => status \in Statuses
    /\ \A x \in failed : /\ x[1] \in StageNames /\ x[2] \in DOMAIN Sources(x[1])
                         /\ x = <<x[1], x[2], x[3]>>
    /\ todo # << >> => /\ phase = "discover"
                       /\ source \in DOMAIN Sources(Running)
                       /\ Usable(Running, source)
                       /\ ToSet(todo) \subseteq InputsOf(Running, source)

-----------------------------------------------------------------------------
(* The stages, the sources and their inputs.                                *)
LEMMA StagesAreNames ==
    /\ DOMAIN Stages = 1 .. 7 /\ Len(Stages) = 7
    /\ \A k \in DOMAIN Stages : Stages[k] \in StageNames
    /\ \A st \in StageNames : \E k \in DOMAIN Stages : Stages[k] = st
    /\ \A k, l \in DOMAIN Stages : Stages[k] = Stages[l] => k = l
  BY DEF Stages, StageNames, ToSet

LEMMA SourcesAreTyped ==
    ASSUME configuration \in Configurations, NEW st \in StageNames
    PROVE  /\ Sources(st) \in Seq(Source)
           /\ Len(Sources(st)) \in Nat
           /\ DOMAIN Sources(st) = 1 .. Len(Sources(st))
           /\ \A i \in DOMAIN Sources(st) : Sources(st)[i] \in Source /\ Sources(st)[i].required \in BOOLEAN
<1>1. configuration.sources \in [StageNames -> Seq(Source)]
  BY ConfigurationsAssumption DEF Configuration
<1>2. Sources(st) \in Seq(Source)
  BY <1>1 DEF Sources
<1>3. \A s \in Source : s.required \in BOOLEAN
  BY DEF Source
<1> QED
  BY <1>2, <1>3

LEMMA InputsAreTyped ==
    ASSUME configuration \in Configurations, extraction \in Extractions,
           NEW st \in StageNames, NEW i \in DOMAIN Sources(st), Usable(st, i)
    PROVE  /\ Inputs(st, Sources(st)[i]) \in Seq(Files \cup URLs)
           /\ \A f \in InputsOf(st, i) :
                 /\ f \in Files \cup URLs /\ f # NoFile
                 /\ <<st, f>> \in DOMAIN extraction
                 /\ extraction[<<st, f>>] \in Findings
<1> DEFINE s == Sources(st)[i]
<1>1. s \in Source /\ ~ Unusable(st, s)
  BY SourcesAreTyped DEF Usable
<1>2. Inputs(st, s) # NoExpansion
  BY <1>1 DEF Unusable
<1>3. s.url \in URLs /\ s.files \in Seq(Files) \cup {NoExpansion}
  BY <1>1 DEF Source
<1> HIDE DEF s
<1>4. ASSUME st = "perses_usage" PROVE Inputs(st, s) \in Seq(Files \cup URLs)
  <2>1. Inputs(st, s) = <<s.url>> /\ s.url \in Files \cup URLs
    BY <1>3, <1>4 DEF Inputs
  <2>2. <<s.url>> \in Seq(Files \cup URLs)
    BY <2>1
  <2> QED
    BY <2>1, <2>2
<1>5. ASSUME st # "perses_usage" PROVE Inputs(st, s) \in Seq(Files \cup URLs)
  <2>1. Inputs(st, s) = s.files /\ s.files \in Seq(Files)
    BY <1>2, <1>3, <1>5 DEF Inputs
  <2>2. Seq(Files) \subseteq Seq(Files \cup URLs)
    BY SeqMonotonic
  <2> QED
    BY <2>1, <2>2
<1>6. Inputs(st, s) \in Seq(Files \cup URLs)
  BY <1>4, <1>5
<1>7. \A f \in ToSet(Inputs(st, s)) : f \in Files \cup URLs
  BY <1>6 DEF ToSet
<1>8. s \in ToSet(configuration.sources[st])
  BY DEF s, ToSet, Sources
<1>9. \A f \in ToSet(Inputs(st, s)) : <<st, f>> \in DOMAIN extraction /\ extraction[<<st, f>>] \in Findings
  BY <1>1, <1>8, ExtractionsAssumption DEF s
<1> QED
  BY <1>6, <1>7, <1>9, NoFileAssumption DEF InputsOf, s

(* A key names its loader and its input; two keys of one input differ only  *)
(* for a service or a Tempo.                                                *)
LEMMA KeysNameTheirInput ==
    ASSUME NEW st, NEW i, NEW f, NEW st2, NEW j, NEW g, KeyOf(st, i, f) = KeyOf(st2, j, g)
    PROVE  st = st2 /\ f = g
  BY DEF KeyOf, Key

LEMMA KeysDiffer ==
    ASSUME NEW st, NEW i, NEW j, NEW f, KeyOf(st, i, f) # KeyOf(st, j, f)
    PROVE  /\ st \in {"perses_usage", "tempo_queries"}
           /\ i # j
           /\ st = "tempo_queries" => Sources(st)[i].url # Sources(st)[j].url
  BY DEF KeyOf, Key

(* The head of a sequence is one of its items, and so is the rest.          *)
LEMMA HeadAndTail ==
    ASSUME NEW S, NEW s \in Seq(S), s # << >>
    PROVE  /\ Head(s) \in S /\ Head(s) \in ToSet(s)
           /\ Tail(s) \in Seq(S)
           /\ ToSet(s) = {Head(s)} \cup ToSet(Tail(s))
<1>1. /\ DOMAIN s = 1 .. Len(s) /\ Len(s) \in Nat /\ Len(s) > 0 /\ Head(s) = s[1]
      /\ Tail(s) \in Seq(S) /\ Len(Tail(s)) = Len(s) - 1 /\ DOMAIN Tail(s) = 1 .. Len(s) - 1
      /\ \A i \in 1 .. Len(s) - 1 : Tail(s)[i] = s[i+1]
  BY HeadTailProperties, EmptySeq
<1>2. ToSet(s) \subseteq {Head(s)} \cup ToSet(Tail(s))
  <2> SUFFICES ASSUME NEW i \in 1 .. Len(s), i # 1 PROVE s[i] \in ToSet(Tail(s))
    BY <1>1 DEF ToSet
  <2>1. i - 1 \in 1 .. Len(s) - 1 /\ Tail(s)[i-1] = s[(i-1)+1] /\ (i-1)+1 = i
    BY <1>1
  <2> QED
    BY <2>1, <1>1 DEF ToSet
<1>3. {Head(s)} \cup ToSet(Tail(s)) \subseteq ToSet(s)
  BY <1>1 DEF ToSet
<1> QED
  BY <1>1, <1>2, <1>3

(* A diagnostic is added to a discovery, and nothing else of it changes.    *)
LEMMA DiagnosticAdded ==
    ASSUME NEW d \in Discovery, NEW required \in BOOLEAN
    PROVE  /\ Diagnosed(d, required) \in Discovery
           /\ Diagnosed(d, required).consumers = d.consumers
           /\ Diagnosed(d, required).references = d.references
           /\ Diagnosed(d, required).productions = d.productions
           /\ Diagnosed(d, required).diagnostics = d.diagnostics \cup {[required |-> required]}
  BY DEF Diagnosed, Discovery, Diagnostic

LEMMA FindingAppended ==
    ASSUME NEW d \in Discovery, NEW found \in Findings, NEW required \in BOOLEAN
    PROVE  Appended(d, found, required) \in Discovery
<1>1. d.consumers \o found.consumers \in Seq(Consumer)
  BY DEF Discovery, Findings
<1>2. /\ d.references \cup found.references \in SUBSET Reference
      /\ d.productions \cup found.productions \in SUBSET Production
      /\ d.diagnostics \cup (IF found.incomplete THEN {[required |-> required]} ELSE {}) \in SUBSET Diagnostic
  BY DEF Discovery, Findings, Diagnostic
<1> QED
  BY <1>1, <1>2 DEF Appended, Discovery

(* What depends on the arguments only stays as it is.                       *)
LEMMA SameArguments ==
    ASSUME UNCHANGED args
    PROVE  /\ \A st : Sources(st)' = Sources(st)
           /\ \A st, i : Usable(st, i)' <=> Usable(st, i)
           /\ \A st, i : InputsOf(st, i)' = InputsOf(st, i)
           /\ \A st, i, f : KeyOf(st, i, f)' = KeyOf(st, i, f)
           /\ Unmapped' = Unmapped /\ TempoSources' = TempoSources
           /\ UNCHANGED <<command, configuration, migration, extraction>>
<1>1. UNCHANGED <<command, configuration, migration, extraction>>
  BY DEF args
<1> QED
  BY <1>1 DEF Sources, Usable, InputsOf, KeyOf, Unmapped, TempoSources

-----------------------------------------------------------------------------
(* The types.                                                               *)
LEMMA InitTyped == Init => Typed
<1> SUFFICES ASSUME Init PROVE Typed
  OBVIOUS
<1>1. command \in Commands /\ configuration \in Configurations
      /\ migration \in Migrations /\ extraction \in Extractions
  BY InvocationsAssumption DEF Init
<1>2. stage \in DOMAIN Stages /\ Running \in StageNames
  <2>1. stage = 1
    BY DEF Init
  <2>2. DOMAIN Stages = 1 .. 7 /\ \A k \in DOMAIN Stages : Stages[k] \in StageNames
    BY StagesAreNames
  <2>3. stage \in DOMAIN Stages
    BY <2>1, <2>2
  <2> QED
    BY <2>2, <2>3 DEF Running
<1>3. source \in 0 .. Len(Sources(Running))
  <2>1. Len(Sources(Running)) \in Nat
    BY <1>1, <1>2, SourcesAreTyped
  <2>2. source = 0
    BY DEF Init
  <2> QED
    BY <2>1, <2>2
<1>4. discovery \in Discovery
  <2>1. << >> \in Seq(Consumer) /\ {} \in SUBSET Reference
        /\ {} \in SUBSET Production /\ {} \in SUBSET Diagnostic
    OBVIOUS
  <2>2. EmptyDiscovery \in Discovery
    BY <2>1 DEF EmptyDiscovery, Discovery
  <2> QED
    BY <2>2 DEF Init
<1>5. todo = << >> /\ todo \in Seq(Files \cup URLs) /\ failed = {}
  <2>1. << >> \in Seq(Files \cup URLs)
    OBVIOUS
  <2>2. todo = << >> /\ failed = {}
    BY DEF Init
  <2> QED
    BY <2>1, <2>2
<1>6. /\ phase = "inputs" /\ ctx = "live" /\ status = "" /\ exit = -1
  BY DEF Init
<1>7. TypeOK
  BY <1>2, <1>3, <1>4, <1>5, <1>6 DEF TypeOK
<1>8. \A x \in failed : /\ x[1] \in StageNames /\ x[2] \in DOMAIN Sources(x[1])
                        /\ x = <<x[1], x[2], x[3]>>
  BY <1>5
<1>9. phase # "report"
  BY <1>6
<1> QED
  BY <1>1, <1>5, <1>7, <1>8, <1>9, Zenon DEF Typed

(* A step of anything but the loaders.                                      *)
LEMMA OtherStepTyped ==
    ASSUME Typed, UNCHANGED <<args, stage, source, todo, failed>>,
           phase' \in {"inputs", "discover", "enrich", "build", "evaluate", "report", "exited"},
           ctx' \in {"live", "canceled"}, discovery' \in Discovery,
           status' \in Statuses \cup {""}, exit' \in {-1, 0, 1, 2, 3},
           phase' = phase \/ phase # "discover",
           phase' = "report" => status' \in Statuses
    PROVE  Typed'
<1>1. /\ \A st : Sources(st)' = Sources(st)
      /\ \A st, i : Usable(st, i)' <=> Usable(st, i)
      /\ \A st, i : InputsOf(st, i)' = InputsOf(st, i)
      /\ UNCHANGED <<command, configuration, migration, extraction>>
  BY SameArguments
<1>2. Running' = Running
  BY DEF Running
<1>3. TypeOK'
  BY <1>1, <1>2 DEF Typed, TypeOK
<1>4. \A x \in failed' : /\ x[1] \in StageNames /\ x[2] \in DOMAIN Sources(x[1])'
                         /\ x = <<x[1], x[2], x[3]>>
  BY <1>1 DEF Typed
<1>5. todo' # << >> => /\ phase' = "discover"
                       /\ source' \in DOMAIN Sources(Running)'
                       /\ Usable(Running, source)'
                       /\ ToSet(todo') \subseteq InputsOf(Running, source)'
  BY <1>1, <1>2 DEF Typed
<1> QED
  BY <1>1, <1>3, <1>4, <1>5 DEF Typed

LEMMA StatusTyped ==
    ASSUME NEW statuses, NEW diagnostics
    PROVE  statusForChanges(statuses, diagnostics) \in Statuses
  BY DEF statusForChanges, Statuses

LEMMA EvaluateTyped == Typed /\ Evaluate => Typed'
<1> SUFFICES ASSUME Typed, Evaluate PROVE Typed'
  OBVIOUS
<1>1. /\ phase = "evaluate"
      /\ discovery' = [discovery EXCEPT !.diagnostics = @ \cup traceMappingDiagnostics]
      /\ UNCHANGED <<args, ctx, stage, source, todo, loaded, failed>>
  BY DEF Evaluate
<1>2. discovery' \in Discovery
  <2>1. traceMappingDiagnostics \in SUBSET Diagnostic
    BY DEF traceMappingDiagnostics, Diagnostic
  <2>2. discovery \in Discovery
    BY DEF Typed, TypeOK
  <2> QED
    BY <1>1, <2>1, <2>2 DEF Discovery
<1>3. /\ phase' \in {"report", "exited"}
      /\ phase' = "report" => status' \in Statuses
      /\ status' \in Statuses \cup {status}
      /\ exit' \in {exit, 1}
  BY StatusTyped DEF Evaluate, Exit
<1> QED
  BY <1>1, <1>2, <1>3, OtherStepTyped DEF Typed, TypeOK

LEMMA OutsideLoadersTyped ==
    ASSUME Typed, Cancel \/ LoadInputs \/ Enrich \/ Build \/ Report \/ UNCHANGED vars
    PROVE  Typed'
<1>1. /\ phase \in {"inputs", "discover", "enrich", "build", "evaluate", "report", "exited"}
      /\ ctx \in {"live", "canceled"} /\ discovery \in Discovery
      /\ status \in Statuses \cup {""} /\ exit \in {-1, 0, 1, 2, 3}
      /\ phase = "report" => status \in Statuses
  BY DEF Typed, TypeOK
<1>2. CASE Cancel
  BY <1>1, <1>2, OtherStepTyped DEF Cancel
<1>3. CASE LoadInputs
  BY <1>1, <1>3, OtherStepTyped DEF LoadInputs, Exit
<1>4. CASE Enrich
  <2>1. discovery' \in Discovery
    BY <1>1, <1>4, DiagnosticAdded DEF Enrich
  <2> QED
    BY <1>1, <1>4, <2>1, OtherStepTyped DEF Enrich, Exit
<1>5. CASE Build
  BY <1>1, <1>5, OtherStepTyped DEF Build, Exit
<1>6. CASE Report
  BY <1>1, <1>6, OtherStepTyped DEF Report, Exit, readinessExitCode, Statuses
<1>7. CASE UNCHANGED vars
  BY <1>1, <1>7, OtherStepTyped DEF vars
<1> QED
  BY <1>2, <1>3, <1>4, <1>5, <1>6, <1>7

(* The running loader, and the input whose turn it is.                      *)
LEMMA RunningIsTyped ==
    ASSUME Typed
    PROVE  /\ Running \in StageNames
           /\ Len(Sources(Running)) \in Nat
           /\ DOMAIN Sources(Running) = 1 .. Len(Sources(Running))
           /\ source \in 0 .. Len(Sources(Running))
           /\ \A i \in DOMAIN Sources(Running) : Sources(Running)[i].required \in BOOLEAN
<1>1. stage \in DOMAIN Stages /\ configuration \in Configurations
      /\ source \in 0 .. Len(Sources(Running))
  BY DEF Typed, TypeOK
<1>2. Running \in StageNames
  BY <1>1, StagesAreNames DEF Running
<1> QED
  BY <1>1, <1>2, SourcesAreTyped

LEMMA CurrentInput ==
    ASSUME Typed, todo # << >>
    PROVE  /\ phase = "discover"
           /\ source \in DOMAIN Sources(Running) /\ Usable(Running, source)
           /\ Head(todo) \in InputsOf(Running, source)
           /\ Head(todo) \in Files \cup URLs /\ Head(todo) # NoFile
           /\ Tail(todo) \in Seq(Files \cup URLs)
           /\ ToSet(Tail(todo)) \subseteq InputsOf(Running, source)
           /\ ToSet(todo) = {Head(todo)} \cup ToSet(Tail(todo))
           /\ <<Running, Head(todo)>> \in DOMAIN extraction
           /\ extraction[<<Running, Head(todo)>>] \in Findings
           /\ CurrentKey = KeyOf(Running, source, Head(todo))
<1>1. /\ phase = "discover"
      /\ source \in DOMAIN Sources(Running) /\ Usable(Running, source)
      /\ ToSet(todo) \subseteq InputsOf(Running, source)
  BY DEF Typed
<1>2. todo \in Seq(Files \cup URLs)
  BY DEF Typed, TypeOK
<1>3. /\ Head(todo) \in ToSet(todo) /\ Tail(todo) \in Seq(Files \cup URLs)
      /\ ToSet(todo) = {Head(todo)} \cup ToSet(Tail(todo))
  BY <1>2, HeadAndTail
<1>4. configuration \in Configurations /\ extraction \in Extractions /\ Running \in StageNames
  BY RunningIsTyped DEF Typed
<1>5. Head(todo) \in InputsOf(Running, source) /\ ToSet(Tail(todo)) \subseteq InputsOf(Running, source)
  BY <1>1, <1>3
<1>6. /\ Head(todo) \in Files \cup URLs /\ Head(todo) # NoFile
      /\ <<Running, Head(todo)>> \in DOMAIN extraction
      /\ extraction[<<Running, Head(todo)>>] \in Findings
  BY <1>1, <1>4, <1>5, InputsAreTyped
<1>7. CurrentKey = KeyOf(Running, source, Head(todo))
  BY DEF CurrentKey, KeyOf, Current
<1> QED
  BY <1>1, <1>3, <1>5, <1>6, <1>7

(* What a step of the loaders leaves alone.                                 *)
LoaderFrame == UNCHANGED <<args, ctx, status, exit>> /\ phase = "discover"

LEMMA LoaderStepTyped ==
    ASSUME Typed, LoaderFrame, phase' \in {"discover", "enrich"},
           stage' \in DOMAIN Stages, source' \in 0 .. Len(Sources(Running)'),
           todo' \in Seq(Files \cup URLs), discovery' \in Discovery,
           \A x \in failed' : /\ x[1] \in StageNames /\ x[2] \in DOMAIN Sources(x[1])
                              /\ x = <<x[1], x[2], x[3]>>,
           todo' # << >> => /\ phase' = "discover"
                            /\ source' \in DOMAIN Sources(Running)'
                            /\ Usable(Running, source)'
                            /\ ToSet(todo') \subseteq InputsOf(Running, source)'
    PROVE  Typed'
<1>1. /\ \A st : Sources(st)' = Sources(st)
      /\ UNCHANGED <<command, configuration, migration, extraction>>
  BY SameArguments DEF LoaderFrame
<1>2. TypeOK'
  <2>1. ctx' \in {"live", "canceled"} /\ status' \in Statuses \cup {""} /\ exit' \in {-1, 0, 1, 2, 3}
    BY DEF Typed, TypeOK, LoaderFrame
  <2> QED
    BY <2>1 DEF TypeOK
<1>3. \A x \in failed' : /\ x[1] \in StageNames /\ x[2] \in DOMAIN Sources(x[1])'
                         /\ x = <<x[1], x[2], x[3]>>
  BY <1>1
<1> QED
  BY <1>1, <1>2, <1>3 DEF Typed

LEMMA LeaveLoaderTyped == Typed /\ LeaveLoader => Typed'
<1> SUFFICES ASSUME Typed, LeaveLoader PROVE Typed'
  OBVIOUS
<1>1. LoaderFrame /\ todo = << >> /\ UNCHANGED <<todo, failed, discovery>>
  BY DEF LeaveLoader, InDiscovery, LoaderFrame
<1>2. /\ \A st : Sources(st)' = Sources(st)
      /\ UNCHANGED <<command, configuration, migration, extraction>>
  BY <1>1, SameArguments DEF LoaderFrame
<1>3. /\ phase' \in {"discover", "enrich"} /\ stage' \in DOMAIN Stages
      /\ source' \in 0 .. Len(Sources(Running)')
  <2>1. stage \in 1 .. 7 /\ DOMAIN Stages = 1 .. 7 /\ Len(Stages) = 7
    BY StagesAreNames DEF Typed, TypeOK
  <2>2. CASE stage = Len(Stages)
    <3>1. phase' = "enrich" /\ UNCHANGED <<stage, source>>
      BY <2>2 DEF LeaveLoader, NextLoader
    <3>2. Running' = Running /\ Sources(Running)' = Sources(Running)
      BY <1>2, <3>1 DEF Running
    <3> QED
      BY <3>1, <3>2, <2>1, RunningIsTyped
  <2>3. CASE stage # Len(Stages)
    <3>1. phase' = phase /\ stage' = stage + 1 /\ source' = 0
      BY <2>3 DEF LeaveLoader, NextLoader
    <3>2. stage' \in DOMAIN Stages
      BY <2>1, <2>3, <3>1
    <3>3. Running' \in StageNames
      BY <3>2, StagesAreNames DEF Running
    <3>4. Sources(Running)' = Sources(Running')
      BY <1>2 DEF Sources
    <3>5. Len(Sources(Running')) \in Nat
      BY <3>3, SourcesAreTyped DEF Typed
    <3> QED
      BY <1>1, <3>1, <3>2, <3>4, <3>5 DEF LoaderFrame
  <2> QED
    BY <2>2, <2>3
<1> QED
  BY <1>1, <1>3, LoaderStepTyped DEF Typed, TypeOK

LEMMA NextSourceTyped == Typed /\ NextSource => Typed'
<1> SUFFICES ASSUME Typed, NextSource PROVE Typed'
  OBVIOUS
<1>1. /\ LoaderFrame /\ todo = << >> /\ UNCHANGED <<phase, stage, loaded>>
      /\ source < Len(Sources(Running)) /\ source' = source + 1
  BY DEF NextSource, InDiscovery, LoaderFrame
<1>2. /\ \A st : Sources(st)' = Sources(st)
      /\ \A st, i : Usable(st, i)' <=> Usable(st, i)
      /\ \A st, i : InputsOf(st, i)' = InputsOf(st, i)
  BY <1>1, SameArguments DEF LoaderFrame
<1>3. Running' = Running /\ Sources(Running)' = Sources(Running)
  BY <1>1, <1>2 DEF Running
<1>4. source' \in DOMAIN Sources(Running) /\ source' \in 0 .. Len(Sources(Running))
  BY <1>1, RunningIsTyped
<1> DEFINE s == Sources(Running)[source']
<1>5. s = Sources(Running)[source + 1]
  BY <1>1
<1> HIDE DEF s
<1>6. CASE Unusable(Running, s)
  <2>1. /\ failed' = failed \cup {<<Running, source', NoFile>>}
        /\ discovery' = Diagnosed(discovery, Sources(Running)[source'].required)
        /\ todo' = << >>
    BY <1>1, <1>5, <1>6 DEF NextSource, Fail
  <2>2. discovery' \in Discovery
    BY <2>1, <1>4, RunningIsTyped, DiagnosticAdded DEF Typed, TypeOK
  <2>3. \A x \in failed' : /\ x[1] \in StageNames /\ x[2] \in DOMAIN Sources(x[1])
                           /\ x = <<x[1], x[2], x[3]>>
    BY <2>1, <1>4, RunningIsTyped DEF Typed
  <2>4. << >> \in Seq(Files \cup URLs)
    OBVIOUS
  <2> QED
    BY <2>1, <2>2, <2>3, <2>4, <1>1, <1>3, <1>4, LoaderStepTyped DEF Typed, TypeOK, LoaderFrame
<1>7. CASE ~ Unusable(Running, s)
  <2>1. todo' = Inputs(Running, s) /\ UNCHANGED <<failed, discovery>>
    BY <1>1, <1>5, <1>7 DEF NextSource
  <2>2. Usable(Running, source')
    BY <1>7 DEF Usable, s
  <2>3. Inputs(Running, s) \in Seq(Files \cup URLs)
    BY <2>2, <1>4, RunningIsTyped, InputsAreTyped DEF Typed, s
  <2>4. Usable(Running, source)' /\ ToSet(todo') \subseteq InputsOf(Running, source)'
    <3>1. Usable(Running, source)' <=> Usable(Running, source')
      BY <1>2, <1>3 DEF Usable
    <3>2. InputsOf(Running, source)' = InputsOf(Running, source')
      BY <1>2, <1>3 DEF InputsOf
    <3> QED
      BY <2>1, <2>2, <3>1, <3>2 DEF InputsOf, s
  <2> QED
    BY <2>1, <2>3, <2>4, <1>1, <1>3, <1>4, LoaderStepTyped DEF Typed, TypeOK, LoaderFrame
<1> QED
  BY <1>6, <1>7

(* A step that takes the head of todo.                                      *)
TakesHead == /\ LoaderFrame /\ todo # << >> /\ todo' = Tail(todo)
             /\ UNCHANGED <<phase, stage, source>>

LEMMA TakesHeadTyped ==
    ASSUME Typed, TakesHead, discovery' \in Discovery,
           failed' \subseteq failed \cup {<<Running, source, Head(todo)>>}
    PROVE  Typed'
<1>1. LoaderFrame /\ UNCHANGED <<phase, stage, source>> /\ todo' = Tail(todo)
  BY DEF TakesHead
<1>2. /\ \A st : Sources(st)' = Sources(st)
      /\ \A st, i : Usable(st, i)' <=> Usable(st, i)
      /\ \A st, i : InputsOf(st, i)' = InputsOf(st, i)
  BY <1>1, SameArguments DEF LoaderFrame
<1>3. Running' = Running /\ Sources(Running)' = Sources(Running)
  BY <1>1, <1>2 DEF Running
<1>4. /\ source \in DOMAIN Sources(Running) /\ Usable(Running, source)
      /\ Tail(todo) \in Seq(Files \cup URLs)
      /\ ToSet(Tail(todo)) \subseteq InputsOf(Running, source)
  BY CurrentInput DEF TakesHead
<1>5. \A x \in failed' : /\ x[1] \in StageNames /\ x[2] \in DOMAIN Sources(x[1])
                         /\ x = <<x[1], x[2], x[3]>>
  BY <1>4, RunningIsTyped DEF Typed
<1>6. source' \in DOMAIN Sources(Running)' /\ Usable(Running, source)'
      /\ ToSet(todo') \subseteq InputsOf(Running, source)'
  BY <1>1, <1>2, <1>3, <1>4
<1>7. source' \in 0 .. Len(Sources(Running)') /\ stage' \in DOMAIN Stages
      /\ phase' = "discover" /\ todo' \in Seq(Files \cup URLs)
  BY <1>1, <1>3, <1>4, RunningIsTyped DEF Typed, TypeOK, LoaderFrame
<1> QED
  BY <1>1, <1>5, <1>6, <1>7, LoaderStepTyped

LEMMA LoadTyped ==
    ASSUME Typed, SkipLoaded \/ LoadFails \/ LoadSucceeds
    PROVE  Typed' /\ TakesHead
<1>1. discovery \in Discovery
  BY DEF Typed, TypeOK
<1>2. CASE SkipLoaded
  <2>1. TakesHead /\ UNCHANGED <<discovery, failed>>
    BY <1>2 DEF SkipLoaded, TakesHead, LoaderFrame
  <2> QED
    BY <1>1, <2>1, TakesHeadTyped
<1>3. CASE LoadFails
  <2>1. TakesHead /\ failed' = failed \cup {<<Running, source, Head(todo)>>}
        /\ discovery' = Diagnosed(discovery, Sources(Running)[source].required)
    BY <1>3 DEF LoadFails, Fail, TakesHead, LoaderFrame
  <2>2. discovery' \in Discovery
    BY <2>1, <1>1, CurrentInput, RunningIsTyped, DiagnosticAdded DEF TakesHead
  <2> QED
    BY <2>1, <2>2, TakesHeadTyped
<1>4. CASE LoadSucceeds
  <2>1. TakesHead /\ failed' = failed
        /\ discovery' = Appended(discovery, extraction[<<Running, Head(todo)>>],
                                 Sources(Running)[source].required)
    BY <1>4 DEF LoadSucceeds, Current, TakesHead, LoaderFrame
  <2>2. discovery' \in Discovery
    BY <2>1, <1>1, CurrentInput, RunningIsTyped, FindingAppended DEF TakesHead
  <2> QED
    BY <2>1, <2>2, TakesHeadTyped
<1> QED
  BY <1>2, <1>3, <1>4

LEMMA NextTyped == Typed /\ [Next]_vars => Typed'
<1> SUFFICES ASSUME Typed, [Next]_vars PROVE Typed'
  OBVIOUS
<1>1. ASSUME LeaveLoader PROVE Typed'
  BY <1>1, LeaveLoaderTyped
<1>2. ASSUME NextSource PROVE Typed'
  BY <1>2, NextSourceTyped
<1>3. ASSUME SkipLoaded \/ LoadFails \/ LoadSucceeds PROVE Typed'
  BY <1>3, LoadTyped
<1>4. ASSUME Evaluate PROVE Typed'
  BY <1>4, EvaluateTyped
<1>5. ASSUME Cancel \/ LoadInputs \/ Enrich \/ Build \/ Report \/ UNCHANGED vars PROVE Typed'
  BY <1>5, OutsideLoadersTyped
<1> QED
  BY <1>1, <1>2, <1>3, <1>4, <1>5 DEF Next, Step

(* The loops of the loaders stay within the sources and inputs they were    *)
(* configured with, and everything they, the evaluation and the shell are   *)
(* given is of its type.                                                    *)
THEOREM TypeCorrect == Spec => []TypeOK
<1>1. Init => Typed
  BY InitTyped
<1>2. Typed /\ [Next]_vars => Typed'
  BY NextTyped
<1>3. Typed => TypeOK
  BY DEF Typed
<1> QED
  BY <1>1, <1>2, <1>3, PTL DEF Spec

-----------------------------------------------------------------------------
(* The outcome.  There is a status only once there is a result, and an exit *)
(* code only at the end.                                                    *)
Outcome == /\ phase # "exited" <=> exit = -1
           /\ status # "" => phase \in {"report", "exited"}
           /\ phase = "report" => status \in Statuses
           /\ ExitCodeIsTheVerdict

LEMMA CodesAreNotNegative == \A code \in {0, 1, 2, 3} : code # -1
  OBVIOUS

LEMMA InitOutcome == Init => Outcome
  BY DEF Init, Outcome, ExitCodeIsTheVerdict

(* A part of the run fails.                                                 *)
LEMMA FailureOutcome ==
    ASSUME Outcome, Exit(1), status' = status, command' = command
    PROVE  Outcome'
<1>1. exit' = 1 /\ exit' # -1 /\ phase' = "exited"
  BY CodesAreNotNegative DEF Exit
<1>2. ExitCodeIsTheVerdict'
  BY <1>1 DEF ExitCodeIsTheVerdict
<1> QED
  BY <1>1, <1>2 DEF Outcome

(* The run goes on, without a result so far.                                *)
LEMMA ContinuedOutcome ==
    ASSUME Outcome, phase \notin {"report", "exited"}, phase' \notin {"report", "exited"},
           UNCHANGED <<status, exit>>
    PROVE  Outcome'
<1>1. exit = -1 /\ status = ""
  BY DEF Outcome
<1> QED
  BY <1>1 DEF Outcome, ExitCodeIsTheVerdict

LEMMA NextOutcome == Outcome /\ [Next]_vars => Outcome'
<1> SUFFICES ASSUME Outcome, [Next]_vars PROVE Outcome'
  OBVIOUS
<1>1. ASSUME LeaveLoader \/ NextSource \/ SkipLoaded \/ LoadFails \/ LoadSucceeds PROVE Outcome'
  <2>1. phase = "discover" /\ phase' \in {"discover", "enrich"} /\ UNCHANGED <<status, exit>>
    BY <1>1 DEF LeaveLoader, NextLoader, InDiscovery, NextSource, SkipLoaded, LoadFails, LoadSucceeds
  <2> QED
    BY <2>1, ContinuedOutcome
<1>2. ASSUME LoadInputs PROVE Outcome'
  <2>1. phase = "inputs" /\ UNCHANGED <<status, command>> /\ exit = -1 /\ status = ""
    BY <1>2 DEF LoadInputs, args, Outcome
  <2>2. CASE phase' = "discover" /\ UNCHANGED exit
    BY <2>1, <2>2, ContinuedOutcome
  <2>3. CASE Exit(1)
    BY <2>1, <2>3, FailureOutcome
  <2>4. CASE Exit(3)
    <3>1. exit' = 3 /\ exit' # -1 /\ phase' = "exited" /\ status' = ""
      BY <2>1, <2>4, CodesAreNotNegative DEF Exit
    <3>2. exit' # 0 /\ exit' # 2
      <4>1. 3 # 0 /\ 3 # 2
        OBVIOUS
      <4> QED
        BY <3>1, <4>1
    <3>3. status' \notin {"BLOCKED", "INCOMPLETE"}
      BY <3>1, Zenon
    <3>4. ExitCodeIsTheVerdict'
      BY <3>1, <3>2, <3>3 DEF ExitCodeIsTheVerdict
    <3> QED
      BY <3>1, <3>4 DEF Outcome
  <2> QED
    BY <1>2, <2>2, <2>3, <2>4 DEF LoadInputs
<1>3. ASSUME Enrich PROVE Outcome'
  <2>1. phase = "enrich" /\ UNCHANGED <<status, command>>
    BY <1>3 DEF Enrich, args
  <2>2. CASE Exit(1)
    BY <2>1, <2>2, FailureOutcome
  <2>3. CASE phase' = "build" /\ UNCHANGED exit
    BY <2>1, <2>3, ContinuedOutcome
  <2> QED
    BY <1>3, <2>2, <2>3 DEF Enrich
<1>4. ASSUME Build PROVE Outcome'
  <2>1. phase = "build" /\ UNCHANGED <<status, command>> /\ status = ""
    BY <1>4 DEF Build, args, Outcome
  <2>2. CASE Exit(1)
    BY <2>1, <2>2, FailureOutcome
  <2>3. CASE Exit(0) /\ command \in {"graph", "explain"}
    <3>1. /\ exit' = 0 /\ exit' # -1 /\ phase' = "exited"
          /\ status' = "" /\ command' \in {"graph", "explain"}
      BY <2>1, <2>3, CodesAreNotNegative DEF Exit
    <3>2. ExitCodeIsTheVerdict'
      BY <3>1 DEF ExitCodeIsTheVerdict
    <3> QED
      BY <3>1, <3>2 DEF Outcome
  <2>4. CASE phase' = "evaluate" /\ UNCHANGED exit
    BY <2>1, <2>4, ContinuedOutcome
  <2> QED
    BY <1>4, <2>2, <2>3, <2>4 DEF Build
<1>5. ASSUME Evaluate PROVE Outcome'
  <2>1. phase = "evaluate" /\ UNCHANGED command /\ exit = -1
    BY <1>5 DEF Evaluate, args, Outcome
  <2>2. CASE UniqueIDs(discovery)
    <3>1. phase' = "report" /\ status' \in Statuses /\ UNCHANGED exit
      BY <1>5, <2>2, StatusTyped DEF Evaluate
    <3> QED
      BY <2>1, <3>1 DEF Outcome, ExitCodeIsTheVerdict
  <2>3. CASE ~ UniqueIDs(discovery)
    BY <1>5, <2>1, <2>3, FailureOutcome DEF Evaluate
  <2> QED
    BY <2>2, <2>3
<1>6. ASSUME Report PROVE Outcome'
  <2>1. status \in Statuses /\ UNCHANGED <<status, command>>
    BY <1>6 DEF Report, args, Outcome
  <2>2. CASE Exit(1)
    BY <2>1, <2>2, FailureOutcome
  <2>3. CASE Exit(readinessExitCode(status))
    <3>1. phase' = "exited" /\ exit' = readinessExitCode(status)
      BY <2>3 DEF Exit
    <3>2. \/ status' = "READY" /\ exit' = 0
          \/ status' = "BLOCKED" /\ exit' = 2
          \/ status' = "INCOMPLETE" /\ exit' = 3
      BY <2>1, <3>1 DEF readinessExitCode, Statuses
    <3>3. exit' # -1
      BY <3>2, CodesAreNotNegative
    <3>4. ExitCodeIsTheVerdict'
      <4>1. CASE status' = "READY" /\ exit' = 0
        BY <4>1 DEF ExitCodeIsTheVerdict
      <4>2. CASE status' = "BLOCKED" /\ exit' = 2
        BY <4>2 DEF ExitCodeIsTheVerdict
      <4>3. CASE status' = "INCOMPLETE" /\ exit' = 3
        BY <4>3 DEF ExitCodeIsTheVerdict
      <4> QED
        BY <3>2, <4>1, <4>2, <4>3
    <3> QED
      BY <3>1, <3>3, <3>4 DEF Outcome
  <2> QED
    BY <1>6, <2>2, <2>3 DEF Report
<1>7. ASSUME Cancel \/ UNCHANGED vars PROVE Outcome'
  <2>1. UNCHANGED <<command, phase, status, exit>>
    BY <1>7 DEF Cancel, vars, args
  <2>2. ExitCodeIsTheVerdict' = ExitCodeIsTheVerdict
    BY <2>1 DEF ExitCodeIsTheVerdict
  <2> QED
    BY <2>1, <2>2 DEF Outcome
<1> QED
  BY <1>1, <1>2, <1>3, <1>4, <1>5, <1>6, <1>7 DEF Next, Step

(* A script can trust the exit code: 0 and 2 are the verdict of a complete  *)
(* evaluation, and nothing that happens after it changes the verdict.       *)
THEOREM ExitCodes == Spec => []ExitCodeIsTheVerdict
<1>1. Init => Outcome
  BY InitOutcome
<1>2. Outcome /\ [Next]_vars => Outcome'
  BY NextOutcome
<1>3. Outcome => ExitCodeIsTheVerdict
  BY DEF Outcome
<1> QED
  BY <1>1, <1>2, <1>3, PTL DEF Spec

-----------------------------------------------------------------------------
(* The evidence: the inputs that were loaded and did not fail.              *)
IsGood(st, i, f) ==
    /\ Usable(st, i) /\ f \in InputsOf(st, i) /\ KeyOf(st, i, f) \in loaded
    /\ \A j \in DOMAIN Sources(st) : KeyOf(st, j, f) = KeyOf(st, i, f) => <<st, j, f>> \notin failed

Good == {x \in StageNames \X (Files \cup URLs) : \E i \in DOMAIN Sources(x[1]) : IsGood(x[1], i, x[2])}

(* An input fails only when its key is recorded, and is then not tried      *)
(* again: what was found is what is good.                                   *)
Evidence ==
    /\ \A x \in failed : x[3] # NoFile => KeyOf(x[1], x[2], x[3]) \in loaded
    /\ discovery.references = UNION {extraction[x].references : x \in Good}
    /\ discovery.productions = UNION {extraction[x].productions : x \in Good}
    /\ ToSet(discovery.consumers) = UNION {ToSet(extraction[x].consumers) : x \in Good}

LEMMA InitEvidence == Init => Evidence
<1> SUFFICES ASSUME Init PROVE Evidence
  OBVIOUS
<1>1. loaded = {} /\ failed = {} /\ discovery = EmptyDiscovery
  BY DEF Init
<1>2. Good = {}
  BY <1>1 DEF Good, IsGood
<1>3. /\ discovery.references = {} /\ discovery.productions = {}
      /\ discovery.consumers = << >>
  BY <1>1 DEF EmptyDiscovery
<1>4. ToSet(discovery.consumers) = {}
  BY <1>3 DEF ToSet
<1> QED
  BY <1>1, <1>2, <1>3, <1>4 DEF Evidence

(* As long as no input is loaded or fails, only diagnostics are added.      *)
LEMMA SameEvidence ==
    ASSUME Evidence, UNCHANGED <<args, loaded>>,
           \A x \in failed' \ failed : x[3] = NoFile,
           failed \subseteq failed',
           discovery'.references = discovery.references,
           discovery'.productions = discovery.productions,
           discovery'.consumers = discovery.consumers
    PROVE  Evidence'
<1>1. /\ \A st : Sources(st)' = Sources(st)
      /\ \A st, i : Usable(st, i)' <=> Usable(st, i)
      /\ \A st, i : InputsOf(st, i)' = InputsOf(st, i)
      /\ \A st, i, f : KeyOf(st, i, f)' = KeyOf(st, i, f)
      /\ UNCHANGED <<command, configuration, migration, extraction>>
  BY SameArguments
<1>2. \A st, j : \A f \in Files \cup URLs : <<st, j, f>> \in failed' <=> <<st, j, f>> \in failed
  BY NoFileAssumption
<1>3. \A st, i : \A f \in Files \cup URLs : IsGood(st, i, f)' <=> IsGood(st, i, f)
  BY <1>1, <1>2 DEF IsGood
<1>4. Good' = Good
  BY <1>1, <1>3 DEF Good
<1>5. \A x \in failed' : x[3] # NoFile => KeyOf(x[1], x[2], x[3])' \in loaded'
  BY <1>1 DEF Evidence
<1>6. ToSet(discovery.consumers)' = ToSet(discovery.consumers)
  BY DEF ToSet
<1> QED
  BY <1>1, <1>4, <1>5, <1>6 DEF Evidence

LEMMA LoadFailsEvidence == Typed /\ Evidence /\ LoadFails => Evidence'
<1> SUFFICES ASSUME Typed, Evidence, LoadFails PROVE Evidence'
  OBVIOUS
<1> DEFINE h == Head(todo)
           K == KeyOf(Running, source, h)
<1>1. TakesHead
  BY LoadTyped
<1>2. /\ loaded' = loaded \cup {CurrentKey} /\ CurrentKey \notin loaded /\ source' = source
      /\ failed' = failed \cup {<<Running, source', h>>}
      /\ discovery' = Diagnosed(discovery, Sources(Running)[source'].required)
      /\ todo # << >> /\ UNCHANGED args
  BY DEF LoadFails, Fail
<1>3. CurrentKey = K /\ source \in DOMAIN Sources(Running) /\ h \in Files \cup URLs
  BY <1>2, CurrentInput
<1> HIDE DEF h, K
<1>4. loaded' = loaded \cup {K} /\ K \notin loaded /\ failed' = failed \cup {<<Running, source, h>>}
  BY <1>2, <1>3
<1>5. /\ \A st : Sources(st)' = Sources(st)
      /\ \A st, i : Usable(st, i)' <=> Usable(st, i)
      /\ \A st, i : InputsOf(st, i)' = InputsOf(st, i)
      /\ \A st, i, f : KeyOf(st, i, f)' = KeyOf(st, i, f)
      /\ UNCHANGED <<command, configuration, migration, extraction>>
  BY <1>2, SameArguments
<1>6. ASSUME NEW st, NEW i, NEW f
      PROVE  IsGood(st, i, f)' <=> IsGood(st, i, f)
  <2>1. CASE KeyOf(st, i, f) = K
    <3>1. st = Running /\ f = h
      BY <2>1, KeysNameTheirInput DEF K
    <3>2. ~ IsGood(st, i, f)
      BY <2>1, <1>4 DEF IsGood
    <3>3. KeyOf(st, source, f) = KeyOf(st, i, f) /\ <<st, source, f>> \in failed'
      BY <3>1, <2>1, <1>4 DEF K
    <3>4. ~ IsGood(st, i, f)'
      BY <3>1, <3>3, <1>3, <1>5 DEF IsGood
    <3> QED
      BY <3>2, <3>4
  <2>2. CASE KeyOf(st, i, f) # K
    <3>1. KeyOf(st, i, f) \in loaded' <=> KeyOf(st, i, f) \in loaded
      BY <2>2, <1>4
    <3>2. ASSUME NEW j, KeyOf(st, j, f) = KeyOf(st, i, f)
          PROVE  <<st, j, f>> \in failed' <=> <<st, j, f>> \in failed
      BY <3>2, <2>2, <1>4 DEF K
    <3> QED
      BY <3>1, <3>2, <1>5 DEF IsGood
  <2> QED
    BY <2>1, <2>2
<1>7. Good' = Good
  BY <1>5, <1>6 DEF Good
<1>8. \A x \in failed' : x[3] # NoFile => KeyOf(x[1], x[2], x[3])' \in loaded'
  BY <1>4, <1>5 DEF Evidence, K
<1>9. /\ discovery'.references = discovery.references
      /\ discovery'.productions = discovery.productions
      /\ discovery'.consumers = discovery.consumers
  BY <1>2, <1>3, DiagnosticAdded, RunningIsTyped DEF Typed, TypeOK
<1>10. ToSet(discovery.consumers)' = ToSet(discovery.consumers)
  BY <1>9 DEF ToSet
<1> QED
  BY <1>5, <1>7, <1>8, <1>9, <1>10 DEF Evidence

LEMMA Concatenation ==
    ASSUME NEW S, NEW s \in Seq(S), NEW t \in Seq(S)
    PROVE  /\ DOMAIN (s \o t) = 1 .. Len(s) + Len(t)
           /\ DOMAIN s = 1 .. Len(s) /\ DOMAIN t = 1 .. Len(t)
           /\ Len(s) \in Nat /\ Len(t) \in Nat
           /\ \A i \in DOMAIN s : (s \o t)[i] = s[i]
           /\ \A i \in DOMAIN (s \o t) : i \notin DOMAIN s =>
                 i - Len(s) \in DOMAIN t /\ (s \o t)[i] = t[i - Len(s)]
           /\ ToSet(s \o t) = ToSet(s) \cup ToSet(t)
<1>1. /\ s \o t \in Seq(S) /\ Len(s \o t) = Len(s) + Len(t)
      /\ \A i \in 1 .. Len(s) + Len(t) : (s \o t)[i] = IF i <= Len(s) THEN s[i] ELSE t[i - Len(s)]
  BY ConcatProperties
<1>2. /\ DOMAIN (s \o t) = 1 .. Len(s) + Len(t) /\ DOMAIN s = 1 .. Len(s) /\ DOMAIN t = 1 .. Len(t)
      /\ Len(s) \in Nat /\ Len(t) \in Nat
  BY <1>1
<1>3. \A i \in DOMAIN s : i \in DOMAIN (s \o t) /\ (s \o t)[i] = s[i]
  BY <1>1, <1>2
<1>4. \A i \in DOMAIN (s \o t) : i \notin DOMAIN s =>
                 i - Len(s) \in DOMAIN t /\ (s \o t)[i] = t[i - Len(s)]
  BY <1>1, <1>2
<1>5. ASSUME NEW i \in DOMAIN t
      PROVE  i + Len(s) \in DOMAIN (s \o t) /\ (s \o t)[i + Len(s)] = t[i]
  <2>1. i + Len(s) \in 1 .. Len(s) + Len(t) /\ ~ (i + Len(s) <= Len(s)) /\ i + Len(s) - Len(s) = i
    BY <1>2
  <2> QED
    BY <2>1, <1>1, <1>2
<1>6. ToSet(s \o t) = ToSet(s) \cup ToSet(t)
  <2>1. ASSUME NEW i \in DOMAIN (s \o t) PROVE (s \o t)[i] \in ToSet(s) \cup ToSet(t)
    BY <1>3, <1>4 DEF ToSet
  <2>2. ASSUME NEW i \in DOMAIN s PROVE s[i] \in ToSet(s \o t)
    BY <1>3 DEF ToSet
  <2>3. ASSUME NEW i \in DOMAIN t PROVE t[i] \in ToSet(s \o t)
    BY <1>5 DEF ToSet
  <2>4. /\ ToSet(s \o t) = {(s \o t)[i] : i \in DOMAIN (s \o t)}
        /\ ToSet(s) = {s[i] : i \in DOMAIN s} /\ ToSet(t) = {t[i] : i \in DOMAIN t}
    BY DEF ToSet
  <2> QED
    BY <2>1, <2>2, <2>3, <2>4
<1> QED
  BY <1>2, <1>3, <1>4, <1>6

LEMMA LoadSucceedsGood ==
    ASSUME Typed, Evidence, LoadSucceeds
    PROVE  Good' = Good \cup {<<Running, Head(todo)>>}
<1> DEFINE h == Head(todo)
           K == KeyOf(Running, source, h)
<1>1. /\ loaded' = loaded \cup {CurrentKey} /\ CurrentKey \notin loaded /\ failed' = failed
      /\ todo # << >> /\ UNCHANGED args
  BY DEF LoadSucceeds
<1>2. /\ CurrentKey = K /\ source \in DOMAIN Sources(Running) /\ Usable(Running, source)
      /\ h \in InputsOf(Running, source) /\ h \in Files \cup URLs /\ h # NoFile
      /\ Running \in StageNames
  BY <1>1, CurrentInput, RunningIsTyped
<1> HIDE DEF h, K
<1>3. loaded' = loaded \cup {K} /\ K \notin loaded
  BY <1>1, <1>2
<1>4. /\ \A st : Sources(st)' = Sources(st)
      /\ \A st, i : Usable(st, i)' <=> Usable(st, i)
      /\ \A st, i : InputsOf(st, i)' = InputsOf(st, i)
      /\ \A st, i, f : KeyOf(st, i, f)' = KeyOf(st, i, f)
  BY <1>1, SameArguments
<1>5. ASSUME NEW st, NEW i, NEW f
      PROVE  /\ IsGood(st, i, f) => IsGood(st, i, f)'
             /\ IsGood(st, i, f)' => IsGood(st, i, f) \/ (st = Running /\ f = h)
  <2>1. CASE KeyOf(st, i, f) = K
    <3>1. st = Running /\ f = h
      BY <2>1, KeysNameTheirInput DEF K
    <3>2. ~ IsGood(st, i, f)
      BY <2>1, <1>3 DEF IsGood
    <3> QED
      BY <3>1, <3>2
  <2>2. CASE KeyOf(st, i, f) # K
    BY <2>2, <1>1, <1>3, <1>4 DEF IsGood
  <2> QED
    BY <2>1, <2>2
<1>6. ASSUME NEW st, NEW i, NEW f, st = Running, i = source, f = h
      PROVE  IsGood(st, i, f)'
  <2>1. ASSUME NEW j, KeyOf(st, j, f) = K PROVE <<st, j, f>> \notin failed
    <3> SUFFICES ASSUME <<st, j, f>> \in failed PROVE FALSE
      OBVIOUS
    <3>1. KeyOf(st, j, f) \in loaded
      BY <1>2, <1>6 DEF Evidence
    <3> QED
      BY <3>1, <2>1, <1>3
  <2>2. Usable(st, i) /\ f \in InputsOf(st, i) /\ KeyOf(st, i, f) = K
    BY <1>2, <1>6 DEF K
  <2> QED
    BY <2>1, <2>2, <1>1, <1>3, <1>4 DEF IsGood
<1>7. /\ Running \in StageNames /\ h \in Files \cup URLs
      /\ source \in DOMAIN Sources(Running)
  BY <1>2
<1> QED
  BY <1>4, <1>5, <1>6, <1>7 DEF Good, h

LEMMA UnionWithOneMore ==
    ASSUME NEW A, NEW B, NEW c, A = B \cup {c}
    PROVE  UNION A = (UNION B) \cup c
<1>1. ASSUME NEW r PROVE r \in UNION A <=> r \in (UNION B) \cup c
  <2>1. r \in UNION A <=> \E a \in A : r \in a
    OBVIOUS
  <2>2. r \in UNION B <=> \E b \in B : r \in b
    OBVIOUS
  <2> QED
    BY <2>1, <2>2
<1> QED
  BY <1>1, Zenon

LEMMA LoadSucceedsEvidence == Typed /\ Evidence /\ LoadSucceeds => Evidence'
<1> SUFFICES ASSUME Typed, Evidence, LoadSucceeds PROVE Evidence'
  OBVIOUS
<1> DEFINE x0 == <<Running, Head(todo)>>
           found == extraction[x0]
<1>1. /\ loaded' = loaded \cup {CurrentKey} /\ failed' = failed
      /\ discovery' = Appended(discovery, found, Current.required)
      /\ todo # << >> /\ UNCHANGED args
  BY DEF LoadSucceeds
<1>2. found \in Findings
  BY <1>1, CurrentInput
<1>3. Good' = Good \cup {x0}
  BY LoadSucceedsGood
<1>4. /\ discovery'.references = discovery.references \cup found.references
      /\ discovery'.productions = discovery.productions \cup found.productions
      /\ discovery'.consumers = discovery.consumers \o found.consumers
  BY <1>1 DEF Appended
<1>5. ToSet(discovery.consumers)' = ToSet(discovery.consumers) \cup ToSet(found.consumers)
  <2>1. discovery.consumers \in Seq(Consumer) /\ found.consumers \in Seq(Consumer)
    BY <1>2 DEF Typed, TypeOK, Discovery, Findings
  <2>2. ToSet(discovery.consumers \o found.consumers)
          = ToSet(discovery.consumers) \cup ToSet(found.consumers)
    BY <2>1, Concatenation
  <2>3. ToSet(discovery.consumers)' = ToSet(discovery.consumers \o found.consumers)
    BY <1>4 DEF ToSet
  <2> QED
    BY <2>2, <2>3
<1>6. /\ \A st, i, f : KeyOf(st, i, f)' = KeyOf(st, i, f)
      /\ UNCHANGED extraction
  BY <1>1, SameArguments
<1>7. \A x \in failed' : x[3] # NoFile => KeyOf(x[1], x[2], x[3])' \in loaded'
  BY <1>1, <1>6 DEF Evidence
<1> HIDE DEF x0
<1>8. UNION {extraction[x].references : x \in Good \cup {x0}}
        = (UNION {extraction[x].references : x \in Good}) \cup extraction[x0].references
  <2>1. {extraction[x].references : x \in Good \cup {x0}}
          = {extraction[x].references : x \in Good} \cup {extraction[x0].references}
    OBVIOUS
  <2> QED
    BY <2>1, UnionWithOneMore
<1>9. UNION {extraction[x].productions : x \in Good \cup {x0}}
        = (UNION {extraction[x].productions : x \in Good}) \cup extraction[x0].productions
  <2>1. {extraction[x].productions : x \in Good \cup {x0}}
          = {extraction[x].productions : x \in Good} \cup {extraction[x0].productions}
    OBVIOUS
  <2> QED
    BY <2>1, UnionWithOneMore
<1>10. UNION {ToSet(extraction[x].consumers) : x \in Good \cup {x0}}
        = (UNION {ToSet(extraction[x].consumers) : x \in Good}) \cup ToSet(extraction[x0].consumers)
  <2>1. {ToSet(extraction[x].consumers) : x \in Good \cup {x0}}
          = {ToSet(extraction[x].consumers) : x \in Good} \cup {ToSet(extraction[x0].consumers)}
    OBVIOUS
  <2> QED
    BY <2>1, UnionWithOneMore
<1>11. /\ discovery'.references = UNION {extraction'[x].references : x \in Good'}
       /\ discovery'.productions = UNION {extraction'[x].productions : x \in Good'}
       /\ ToSet(discovery.consumers)' = UNION {ToSet(extraction[x].consumers) : x \in Good'}
  BY <1>3, <1>4, <1>5, <1>6, <1>8, <1>9, <1>10 DEF Evidence
<1>12. UNION {ToSet(extraction[x].consumers)' : x \in Good'} = UNION {ToSet(extraction[x].consumers) : x \in Good'}
  BY <1>6 DEF ToSet
<1> QED
  BY <1>7, <1>11, <1>12 DEF Evidence

LEMMA NextEvidence == Typed /\ Evidence /\ [Next]_vars => Evidence'
<1> SUFFICES ASSUME Typed, Evidence, [Next]_vars PROVE Evidence'
  OBVIOUS
<1>1. ASSUME NextSource PROVE Evidence'
  <2>1. UNCHANGED <<args, loaded>>
    BY <1>1 DEF NextSource
  <2>2. source' \in DOMAIN Sources(Running)
    BY <1>1, RunningIsTyped DEF NextSource
  <2>3. \/ UNCHANGED <<failed, discovery>>
        \/ /\ failed' = failed \cup {<<Running, source', NoFile>>}
           /\ discovery' = Diagnosed(discovery, Sources(Running)[source'].required)
    BY <1>1 DEF NextSource, Fail
  <2>4. \A x \in failed' \ failed : x[3] = NoFile
    BY <2>3
  <2>5. /\ failed \subseteq failed'
        /\ discovery'.references = discovery.references
        /\ discovery'.productions = discovery.productions
        /\ discovery'.consumers = discovery.consumers
    <3>1. Sources(Running)[source'].required \in BOOLEAN /\ discovery \in Discovery
      BY <2>2, RunningIsTyped DEF Typed, TypeOK
    <3> QED
      BY <2>3, <3>1, DiagnosticAdded
  <2> QED
    BY <2>1, <2>4, <2>5, SameEvidence
<1>2. ASSUME LoadFails PROVE Evidence'
  BY <1>2, LoadFailsEvidence
<1>3. ASSUME LoadSucceeds PROVE Evidence'
  BY <1>3, LoadSucceedsEvidence
<1>4. ASSUME Enrich PROVE Evidence'
  <2>1. UNCHANGED <<args, loaded, failed>>
        /\ (discovery' = discovery \/ discovery' = Diagnosed(discovery, FALSE))
    BY <1>4 DEF Enrich
  <2>2. /\ discovery'.references = discovery.references
        /\ discovery'.productions = discovery.productions
        /\ discovery'.consumers = discovery.consumers
    BY <2>1, DiagnosticAdded DEF Typed, TypeOK
  <2> QED
    BY <2>1, <2>2, SameEvidence
<1>5. ASSUME Evaluate PROVE Evidence'
  <2>1. UNCHANGED <<args, loaded, failed>>
        /\ discovery' = [discovery EXCEPT !.diagnostics = @ \cup traceMappingDiagnostics]
    BY <1>5 DEF Evaluate
  <2>2. discovery' = [consumers |-> discovery.consumers, references |-> discovery.references,
                      productions |-> discovery.productions,
                      diagnostics |-> discovery.diagnostics \cup traceMappingDiagnostics]
    <3>1. discovery \in Discovery
      BY DEF Typed, TypeOK
    <3> QED
      BY <2>1, <3>1 DEF Discovery
  <2>3. /\ discovery'.references = discovery.references
        /\ discovery'.productions = discovery.productions
        /\ discovery'.consumers = discovery.consumers
    BY <2>2
  <2> QED
    BY <2>1, <2>3, SameEvidence
<1>6. ASSUME Cancel \/ LoadInputs \/ LeaveLoader \/ SkipLoaded \/ Build \/ Report \/ UNCHANGED vars
      PROVE  Evidence'
  <2>1. UNCHANGED <<args, loaded, failed, discovery>>
    BY <1>6 DEF Cancel, LoadInputs, LeaveLoader, SkipLoaded, Build, Report, vars
  <2> QED
    BY <2>1, SameEvidence
<1> QED
  BY <1>1, <1>2, <1>3, <1>4, <1>5, <1>6 DEF Next, Step

-----------------------------------------------------------------------------
(* The progress: a loader is behind the run, or a source of the running one.*)
Behind(k, i) == k < stage \/ (k = stage /\ i <= source) \/ phase \notin {"inputs", "discover"}

Done(k, i) ==
    LET st == Stages[k]
    IN  IF Usable(st, i)
          THEN \A f \in InputsOf(st, i) :
                  \/ KeyOf(st, i, f) \in loaded
                  \/ k = stage /\ i = source /\ f \in ToSet(todo)
          ELSE <<st, i, NoFile>> \in failed

AllDone == \A k \in DOMAIN Stages : \A i \in DOMAIN Sources(Stages[k]) : Behind(k, i) => Done(k, i)

(* A canceled context may leave a gap, and what follows is then no verdict. *)
Progress == (ctx = "live" /\ phase # "exited") \/ Discovered => AllDone

LEMMA InitProgress == Init => Progress
<1> SUFFICES ASSUME Init, NEW k \in DOMAIN Stages, NEW i \in DOMAIN Sources(Stages[k])
             PROVE  ~ Behind(k, i)
  BY DEF Progress, AllDone
<1>1. phase = "inputs" /\ stage = 1 /\ source = 0
  BY DEF Init
<1>2. k \in 1 .. 7
  BY StagesAreNames
<1>3. configuration \in Configurations /\ Stages[k] \in StageNames
  BY StagesAreNames DEF Init
<1>4. i \in 1 .. Len(Sources(Stages[k])) /\ Len(Sources(Stages[k])) \in Nat
  BY <1>3, SourcesAreTyped
<1> QED
  BY <1>1, <1>2, <1>4 DEF Behind

(* What a step that loads nothing and goes nowhere leaves done.             *)
LEMMA SameProgress ==
    ASSUME AllDone, UNCHANGED <<args, stage, source, todo, loaded, failed>>,
           phase' \in {"inputs", "discover"} \/ phase \notin {"inputs", "discover"}
    PROVE  AllDone'
<1>1. /\ \A st : Sources(st)' = Sources(st)
      /\ \A st, i : Usable(st, i)' <=> Usable(st, i)
      /\ \A st, i : InputsOf(st, i)' = InputsOf(st, i)
      /\ \A st, i, f : KeyOf(st, i, f)' = KeyOf(st, i, f)
  BY SameArguments
<1>2. \A k, i : Behind(k, i)' => Behind(k, i)
  BY DEF Behind
<1>3. \A k, i : Done(k, i)' <=> Done(k, i)
  BY <1>1 DEF Done
<1> QED
  BY <1>1, <1>2, <1>3 DEF AllDone

(* Only with the context alive does the run go on, or come to a verdict.    *)
LEMMA LeaveLoaderProgress ==
    ASSUME Typed, AllDone, ctx = "live", LeaveLoader
    PROVE  AllDone'
<1>1. /\ phase = "discover" /\ todo = << >> /\ source = Len(Sources(Running))
      /\ UNCHANGED <<args, loaded, failed>>
  BY DEF LeaveLoader, InDiscovery
<1>2. /\ \A st : Sources(st)' = Sources(st)
      /\ \A st, i : Usable(st, i)' <=> Usable(st, i)
      /\ \A st, i : InputsOf(st, i)' = InputsOf(st, i)
      /\ \A st, i, f : KeyOf(st, i, f)' = KeyOf(st, i, f)
  BY <1>1, SameArguments
<1>3. stage \in 1 .. 7 /\ DOMAIN Stages = 1 .. 7 /\ Len(Stages) = 7
  BY StagesAreNames DEF Typed, TypeOK
<1> SUFFICES ASSUME NEW k \in DOMAIN Stages, NEW i \in DOMAIN Sources(Stages[k]), Behind(k, i)'
             PROVE  Done(k, i)'
  BY <1>2 DEF AllDone
<1>4. i \in 1 .. Len(Sources(Stages[k])) /\ Len(Sources(Stages[k])) \in Nat
  BY StagesAreNames, SourcesAreTyped DEF Typed
<1>5. k \in 1 .. 7
  BY <1>3
<1>6. k <= stage
  <2>1. CASE stage = Len(Stages)
    BY <2>1, <1>3, <1>5
  <2>2. CASE stage # Len(Stages)
    <3>1. stage' = stage + 1 /\ source' = 0 /\ phase' = phase
      BY <2>2 DEF LeaveLoader, NextLoader
    <3>2. k < stage + 1 \/ (k = stage + 1 /\ i <= 0)
      BY <3>1, <1>1 DEF Behind
    <3> QED
      BY <3>2, <1>3, <1>4, <1>5
  <2> QED
    BY <2>1, <2>2
<1>7. Behind(k, i)
  <2>1. CASE k < stage
    BY <2>1 DEF Behind
  <2>2. CASE k = stage
    BY <2>2, <1>1, <1>4 DEF Behind, Running
  <2> QED
    BY <2>1, <2>2, <1>3, <1>5, <1>6
<1>8. Done(k, i) /\ ToSet(todo) = {}
  BY <1>1, <1>7 DEF AllDone, ToSet
<1> QED
  BY <1>1, <1>2, <1>8 DEF Done

LEMMA NextSourceProgress ==
    ASSUME Typed, AllDone, NextSource
    PROVE  AllDone'
<1>1. /\ phase = "discover" /\ todo = << >> /\ source' = source + 1
      /\ UNCHANGED <<args, phase, stage, loaded>>
  BY DEF NextSource, InDiscovery
<1>2. /\ \A st : Sources(st)' = Sources(st)
      /\ \A st, i : Usable(st, i)' <=> Usable(st, i)
      /\ \A st, i : InputsOf(st, i)' = InputsOf(st, i)
      /\ \A st, i, f : KeyOf(st, i, f)' = KeyOf(st, i, f)
  BY <1>1, SameArguments
<1>3. failed \subseteq failed' /\ source \in Nat
  BY RunningIsTyped DEF NextSource, Fail
<1> SUFFICES ASSUME NEW k \in DOMAIN Stages, NEW i \in DOMAIN Sources(Stages[k]), Behind(k, i)'
             PROVE  Done(k, i)'
  BY <1>2 DEF AllDone
<1>4. i \in 1 .. Len(Sources(Stages[k])) /\ Len(Sources(Stages[k])) \in Nat
  BY StagesAreNames, SourcesAreTyped DEF Typed
<1>5. Behind(k, i) \/ (k = stage /\ i = source')
  <2>1. k < stage \/ (k = stage /\ i <= source + 1)
    BY <1>1 DEF Behind
  <2> QED
    BY <2>1, <1>1, <1>3, <1>4 DEF Behind
<1>6. CASE Behind(k, i)
  <2>1. Done(k, i) /\ ToSet(todo) = {}
    BY <1>1, <1>6 DEF AllDone, ToSet
  <2> QED
    BY <2>1, <1>1, <1>2, <1>3 DEF Done
<1>7. CASE k = stage /\ i = source'
  <2>1. Stages[k] = Running
    BY <1>7 DEF Running
  <2>2. CASE Usable(Running, i)
    <3>1. todo' = Inputs(Running, Sources(Running)[i])
      BY <1>1, <1>7, <2>2 DEF NextSource, Usable
    <3>2. ToSet(todo)' = InputsOf(Running, i)
      BY <3>1 DEF ToSet, InputsOf
    <3> QED
      BY <3>2, <2>1, <2>2, <1>1, <1>2, <1>7 DEF Done
  <2>3. CASE ~ Usable(Running, i)
    <3>1. <<Running, i, NoFile>> \in failed'
      BY <1>1, <1>7, <2>3 DEF NextSource, Usable, Fail
    <3> QED
      BY <3>1, <2>1, <2>3, <1>2 DEF Done
  <2> QED
    BY <2>2, <2>3
<1> QED
  BY <1>5, <1>6, <1>7

LEMMA LoadProgress ==
    ASSUME Typed, AllDone, SkipLoaded \/ LoadFails \/ LoadSucceeds
    PROVE  AllDone'
<1>1. /\ phase = "discover" /\ todo # << >> /\ todo' = Tail(todo)
      /\ UNCHANGED <<args, phase, stage, source>>
      /\ loaded \subseteq loaded' /\ CurrentKey \in loaded' /\ failed \subseteq failed'
  BY DEF SkipLoaded, LoadFails, LoadSucceeds, Fail
<1>2. /\ \A st : Sources(st)' = Sources(st)
      /\ \A st, i : Usable(st, i)' <=> Usable(st, i)
      /\ \A st, i : InputsOf(st, i)' = InputsOf(st, i)
      /\ \A st, i, f : KeyOf(st, i, f)' = KeyOf(st, i, f)
  BY <1>1, SameArguments
<1>3. /\ ToSet(todo) = {Head(todo)} \cup ToSet(Tail(todo))
      /\ KeyOf(Running, source, Head(todo)) \in loaded'
  BY <1>1, CurrentInput
<1>4. ToSet(todo)' = ToSet(Tail(todo))
  BY <1>1 DEF ToSet
<1> SUFFICES ASSUME NEW k \in DOMAIN Stages, NEW i \in DOMAIN Sources(Stages[k]), Behind(k, i)'
             PROVE  Done(k, i)'
  BY <1>2 DEF AllDone
<1>5. Done(k, i)
  BY <1>1 DEF AllDone, Behind
<1>6. CASE Usable(Stages[k], i)
  <2>1. ASSUME NEW f \in InputsOf(Stages[k], i)
        PROVE  \/ KeyOf(Stages[k], i, f) \in loaded'
               \/ k = stage /\ i = source /\ f \in ToSet(Tail(todo))
    BY <1>1, <1>3, <1>5, <1>6 DEF Done, Running
  <2> QED
    BY <2>1, <1>1, <1>2, <1>4, <1>6 DEF Done
<1>7. CASE ~ Usable(Stages[k], i)
  BY <1>1, <1>2, <1>5, <1>7 DEF Done
<1> QED
  BY <1>6, <1>7

LEMMA NextProgress == Typed /\ Outcome /\ Progress /\ [Next]_vars => Progress'
<1> SUFFICES ASSUME Typed, Outcome, Progress, [Next]_vars,
                    (ctx' = "live" /\ phase' # "exited") \/ Discovered'
             PROVE  AllDone'
  BY DEF Progress
<1>1. ctx \in {"live", "canceled"}
  BY DEF Typed, TypeOK
<1>2. ASSUME LeaveLoader \/ NextSource \/ SkipLoaded \/ LoadFails \/ LoadSucceeds PROVE AllDone'
  <2>1. /\ phase = "discover" /\ phase' \in {"discover", "enrich"} /\ UNCHANGED <<ctx, status, exit>>
        /\ status = "" /\ exit = -1
    BY <1>2 DEF LeaveLoader, NextLoader, InDiscovery, NextSource, SkipLoaded, LoadFails,
                LoadSucceeds, Outcome
  <2>2. ~ Discovered'
    BY <2>1, CodesAreNotNegative DEF Discovered
  <2>3. ctx = "live" /\ AllDone
    BY <2>1, <2>2 DEF Progress
  <2> QED
    BY <1>2, <2>3, LeaveLoaderProgress, NextSourceProgress, LoadProgress
<1>3. ASSUME LoadInputs PROVE AllDone'
  <2>1. /\ phase = "inputs" /\ status = "" /\ status' = "" /\ ctx' = ctx
        /\ UNCHANGED <<args, stage, source, todo, loaded, failed>>
        /\ \/ phase' = "discover" /\ exit' = -1
           \/ phase' = "exited" /\ exit' \in {1, 3}
    BY <1>3 DEF LoadInputs, Exit, Outcome
  <2>2. 0 \notin {1, 3, -1}
    OBVIOUS
  <2>3. ~ Discovered'
    BY <2>1, <2>2 DEF Discovered
  <2>4. phase' = "discover" /\ ctx = "live"
    BY <2>1, <2>3
  <2> QED
    BY <2>1, <2>4, SameProgress DEF Progress
<1>4. ASSUME Enrich \/ Build \/ Evaluate \/ Report PROVE AllDone'
  <2>1. /\ phase \in {"enrich", "build", "evaluate", "report"} /\ UNCHANGED ctx
        /\ UNCHANGED <<args, stage, source, todo, loaded, failed>>
    BY <1>4 DEF Enrich, Build, Evaluate, Report
  <2>2. (ctx = "live" /\ phase # "exited") \/ Discovered
    <3>1. CASE phase \in {"evaluate", "report"}
      BY <3>1 DEF Discovered
    <3>2. CASE phase \in {"enrich", "build"} /\ ctx # "live"
      <4>1. status = "" /\ exit = -1
        BY <3>2 DEF Outcome
      <4>2. phase' # "evaluate" /\ phase' # "report" /\ status' = "" /\ exit' \in {-1, 1}
        BY <1>1, <1>4, <3>2, <4>1 DEF Enrich, Build, Evaluate, Report, Exit
      <4>3. 0 \notin {-1, 1}
        OBVIOUS
      <4>4. ~ Discovered' /\ ctx' # "live"
        BY <2>1, <3>2, <4>2, <4>3 DEF Discovered
      <4> QED
        BY <4>4
    <3> QED
      BY <2>1, <3>1, <3>2
  <2> QED
    BY <2>1, <2>2, SameProgress DEF Progress
<1>5. ASSUME Cancel \/ UNCHANGED vars PROVE AllDone'
  <2>1. UNCHANGED <<args, phase, status, exit, stage, source, todo, loaded, failed>>
        /\ (ctx' = ctx \/ (ctx' = "canceled" /\ phase # "exited" /\ ctx = "live"))
    BY <1>5 DEF Cancel, vars
  <2>2. Discovered' <=> Discovered
    BY <2>1 DEF Discovered
  <2> QED
    BY <2>1, <2>2, SameProgress DEF Progress
<1> QED
  BY <1>2, <1>3, <1>4, <1>5 DEF Next, Step

PipelineInv == Typed /\ Outcome /\ Evidence /\ Progress

LEMMA PipelineInvariant == Spec => []PipelineInv
<1>1. Init => PipelineInv
  BY InitTyped, InitOutcome, InitEvidence, InitProgress DEF PipelineInv
<1>2. PipelineInv /\ [Next]_vars => PipelineInv'
  BY NextTyped, NextOutcome, NextEvidence, NextProgress DEF PipelineInv
<1> QED
  BY <1>1, <1>2, PTL DEF Spec

(* Once discovery is over with nothing left out, every input is loaded.     *)
LEMMA EverythingIsDone ==
    ASSUME PipelineInv, Discovered
    PROVE  \A st \in StageNames : \A i \in DOMAIN Sources(st) :
              IF Usable(st, i) THEN \A f \in InputsOf(st, i) : KeyOf(st, i, f) \in loaded
                               ELSE <<st, i, NoFile>> \in failed
<1>1. phase \in {"evaluate", "report", "exited"}
  <2>1. CASE exit = 0
    BY <2>1, CodesAreNotNegative DEF PipelineInv, Outcome
  <2> QED
    BY <2>1 DEF PipelineInv, Outcome, Discovered
<1>2. ToSet(todo) = {}
  <2>1. todo = << >>
    BY <1>1 DEF PipelineInv, Typed
  <2> QED
    BY <2>1 DEF ToSet
<1> SUFFICES ASSUME NEW st \in StageNames, NEW i \in DOMAIN Sources(st)
             PROVE  IF Usable(st, i) THEN \A f \in InputsOf(st, i) : KeyOf(st, i, f) \in loaded
                                     ELSE <<st, i, NoFile>> \in failed
  OBVIOUS
<1>3. PICK k \in DOMAIN Stages : Stages[k] = st
  BY StagesAreNames
<1>4. Done(k, i)
  BY <1>1, <1>3 DEF PipelineInv, Progress, AllDone, Behind
<1> QED
  BY <1>2, <1>3, <1>4 DEF Done

(* The evidence a verdict, a graph or an explanation is based on is that of *)
(* every configured input that did not fail, and nothing else: no moment at *)
(* which the context ends and no overlap of the patterns leaves a gap.      *)
THEOREM VerdictsAreOnAllEvidence == Spec => []EvidenceIsComplete
<1>1. PipelineInv => EvidenceIsComplete
  <2> SUFFICES ASSUME PipelineInv, Discovered PROVE EvidenceIsComplete
    BY DEF EvidenceIsComplete
  <2>1. \A st \in StageNames : \A i \in DOMAIN Sources(st) :
           IF Usable(st, i) THEN \A f \in InputsOf(st, i) : KeyOf(st, i, f) \in loaded
                            ELSE <<st, i, NoFile>> \in failed
    BY EverythingIsDone
  <2>2. NothingIsSkipped
    <3> SUFFICES ASSUME NEW c \in Configured
                 PROVE  IF Usable(c[1], c[2]) THEN KeysOf(c[1], c[2]) \subseteq loaded
                                              ELSE <<c[1], c[2], NoFile>> \in failed
      BY DEF NothingIsSkipped
    <3>1. c[1] \in StageNames /\ c[2] \in DOMAIN Sources(c[1])
      BY DEF Configured
    <3> QED
      BY <2>1, <3>1 DEF KeysOf, KeyOf, InputsOf
  <2> DEFINE good == {x \in StageNames \X (Files \cup URLs) :
                        \E i \in DOMAIN Sources(x[1]) :
                            /\ Usable(x[1], i)
                            /\ x[2] \in ToSet(Inputs(x[1], Sources(x[1])[i]))
                            /\ \A j \in DOMAIN Sources(x[1]) :
                                  Key(x[1], j, Sources(x[1])[j], x[2]) = Key(x[1], i, Sources(x[1])[i], x[2])
                                    => <<x[1], j, x[2]>> \notin failed}
  <2>3. good = Good
    BY <2>1 DEF Good, IsGood, KeyOf, InputsOf
  <2>4. /\ discovery.references = UNION {extraction[x].references : x \in good}
        /\ discovery.productions = UNION {extraction[x].productions : x \in good}
        /\ ToSet(discovery.consumers) = UNION {ToSet(extraction[x].consumers) : x \in good}
    BY <2>3 DEF PipelineInv, Evidence
  <2> QED
    BY <2>2, <2>4 DEF EvidenceIsComplete
<1> QED
  BY <1>1, PipelineInvariant, PTL

-----------------------------------------------------------------------------
(* Consumers that appear twice.                                             *)
Shared(c) ==
    \E st \in {"perses_usage", "tempo_queries"} : \E a, b \in DOMAIN Sources(st) :
        /\ a # b
        /\ st = "tempo_queries" => Sources(st)[a].url # Sources(st)[b].url
        /\ \E f \in InputsOf(st, a) \cap InputsOf(st, b) : c \in ToSet(extraction[<<st, f>>].consumers)

Repeats == \E x \in DOMAIN extraction : ~ UniqueIDs(extraction[x])

Overlaps ==
    Repeats \/ \A i, j \in DOMAIN discovery.consumers :
                  i < j /\ discovery.consumers[i].id = discovery.consumers[j].id
                    => Shared(discovery.consumers[i])

LEMMA InitOverlaps == Init => Overlaps
<1> SUFFICES ASSUME Init PROVE Overlaps
  OBVIOUS
<1>1. discovery.consumers = << >>
  BY DEF Init, EmptyDiscovery
<1> QED
  BY <1>1 DEF Overlaps

LEMMA SameShared ==
    ASSUME UNCHANGED args, NEW c
    PROVE  Shared(c)' <=> Shared(c)
<1>1. /\ \A st : Sources(st)' = Sources(st)
      /\ \A st, i : InputsOf(st, i)' = InputsOf(st, i)
      /\ UNCHANGED extraction
  BY SameArguments
<1>2. \A st, f : ToSet(extraction[<<st, f>>].consumers)' = ToSet(extraction[<<st, f>>].consumers)
  BY <1>1 DEF ToSet
<1> DEFINE Twice(st, a, b) ==
             /\ a # b
             /\ st = "tempo_queries" => Sources(st)[a].url # Sources(st)[b].url
             /\ \E f \in InputsOf(st, a) \cap InputsOf(st, b) : c \in ToSet(extraction[<<st, f>>].consumers)
<1>3. \A st, a, b : Twice(st, a, b)' <=> Twice(st, a, b)
  BY <1>1, <1>2
<1>4. Shared(c) <=> \E st \in {"perses_usage", "tempo_queries"} : \E a, b \in DOMAIN Sources(st) : Twice(st, a, b)
  BY DEF Shared
<1>5. Shared(c)' <=> \E st \in {"perses_usage", "tempo_queries"} : \E a, b \in DOMAIN Sources(st)' : Twice(st, a, b)'
  BY DEF Shared
<1> HIDE DEF Twice
<1> QED
  BY <1>1, <1>3, <1>4, <1>5

LEMMA SameOverlaps ==
    ASSUME Overlaps, UNCHANGED args, discovery'.consumers = discovery.consumers
    PROVE  Overlaps'
<1>1. UNCHANGED extraction
  BY SameArguments
<1>2. ASSUME NEW c PROVE Shared(c)' <=> Shared(c)
  BY SameShared
<1>3. Repeats' <=> Repeats
  BY <1>1 DEF Repeats, UniqueIDs
<1> QED
  BY <1>2, <1>3 DEF Overlaps

LEMMA LoadSucceedsOverlaps == Typed /\ Evidence /\ Overlaps /\ LoadSucceeds => Overlaps'
<1> SUFFICES ASSUME Typed, Evidence, Overlaps, LoadSucceeds PROVE Overlaps'
  OBVIOUS
<1> SUFFICES ASSUME ~ Repeats PROVE Overlaps'
  <2>1. UNCHANGED extraction
    BY DEF LoadSucceeds, args
  <2> QED
    BY <2>1 DEF Overlaps, Repeats, UniqueIDs
<1> DEFINE h == Head(todo)
           found == extraction[<<Running, h>>]
           old == discovery.consumers
           new == found.consumers
<1>1. /\ CurrentKey \notin loaded /\ todo # << >> /\ UNCHANGED args
      /\ discovery' = Appended(discovery, found, Current.required)
  BY DEF LoadSucceeds
<1>2. /\ CurrentKey = KeyOf(Running, source, h) /\ source \in DOMAIN Sources(Running)
      /\ h \in InputsOf(Running, source) /\ <<Running, h>> \in DOMAIN extraction
      /\ found \in Findings
  BY <1>1, CurrentInput
<1>3. discovery'.consumers = old \o new
  BY <1>1 DEF Appended
<1>4. old \in Seq(Consumer) /\ new \in Seq(Consumer)
  BY <1>2 DEF Typed, TypeOK, Discovery, Findings
<1>5. ASSUME NEW i \in DOMAIN old, NEW j \in DOMAIN new, old[i].id = new[j].id
      PROVE  Shared(old[i])
  <2>1. old[i] \in ToSet(old)
    BY DEF ToSet
  <2>2. PICK x \in Good : old[i] \in ToSet(extraction[x].consumers)
    BY <2>1 DEF Evidence
  <2>3. /\ x = <<x[1], x[2]>> /\ x[1] \in StageNames /\ x[2] \in Files \cup URLs
    BY DEF Good
  <2>4. PICK a \in DOMAIN Sources(x[1]) : IsGood(x[1], a, x[2])
    BY DEF Good
  <2>5. x \in DOMAIN extraction
    BY <2>3, <2>4, InputsAreTyped DEF IsGood, Typed
  <2>6. x = <<Running, h>>
    <3>1. old[i].id \in IDs(extraction[x])
      BY <2>2 DEF IDs, ToSet
    <3>2. old[i].id \in IDs(found)
      BY <1>5 DEF IDs
    <3> QED
      BY <3>1, <3>2, <2>5, <1>2, IdentifiersAssumption DEF Typed
  <2>7. x[1] = Running /\ x[2] = h
    BY <2>6
  <2>8. KeyOf(Running, a, h) # KeyOf(Running, source, h) /\ h \in InputsOf(Running, a)
    BY <2>4, <2>7, <1>1, <1>2 DEF IsGood
  <2>9. /\ Running \in {"perses_usage", "tempo_queries"} /\ a # source
        /\ Running = "tempo_queries" => Sources(Running)[a].url # Sources(Running)[source].url
    BY <2>8, KeysDiffer
  <2>10. h \in InputsOf(Running, a) \cap InputsOf(Running, source)
    BY <2>8, <1>2
  <2>11. old[i] \in ToSet(extraction[<<Running, h>>].consumers) /\ a \in DOMAIN Sources(Running)
    BY <2>2, <2>4, <2>6, <2>7
  <2> QED
    BY <2>9, <2>10, <2>11, <1>2 DEF Shared
<1>6. ASSUME NEW i \in DOMAIN old, NEW j \in DOMAIN old, i < j, old[i].id = old[j].id
      PROVE  Shared(old[i])
  BY <1>6 DEF Overlaps
<1>7. ASSUME NEW i \in DOMAIN new, NEW j \in DOMAIN new, new[i].id = new[j].id
      PROVE  i = j
  <2>1. UniqueIDs(found)
    BY <1>2 DEF Repeats
  <2>2. IsInjective([k \in DOMAIN new |-> new[k].id])
    BY <2>1 DEF UniqueIDs
  <2> QED
    BY <2>2, <1>7 DEF IsInjective
<1> HIDE DEF old, new, found, h
<1>8. ASSUME NEW i \in DOMAIN (old \o new), NEW j \in DOMAIN (old \o new), i < j,
             (old \o new)[i].id = (old \o new)[j].id
      PROVE  Shared((old \o new)[i])
  <2>1. /\ DOMAIN (old \o new) = 1 .. Len(old) + Len(new)
        /\ DOMAIN old = 1 .. Len(old) /\ DOMAIN new = 1 .. Len(new)
        /\ Len(old) \in Nat /\ Len(new) \in Nat
        /\ \A k \in DOMAIN old : (old \o new)[k] = old[k]
        /\ \A k \in DOMAIN (old \o new) : k \notin DOMAIN old =>
              k - Len(old) \in DOMAIN new /\ (old \o new)[k] = new[k - Len(old)]
    BY <1>4, Concatenation
  <2>2. i \in Nat /\ j \in Nat
    BY <2>1
  <2>3. CASE j \in DOMAIN old
    <3>1. i \in DOMAIN old
      BY <2>1, <2>3, <1>8
    <3> QED
      BY <3>1, <2>1, <2>3, <1>6, <1>8
  <2>4. CASE i \in DOMAIN old /\ j \notin DOMAIN old
    BY <2>1, <2>4, <1>5, <1>8
  <2>5. CASE i \notin DOMAIN old /\ j \notin DOMAIN old
    <3>1. i - Len(old) = j - Len(old)
      BY <2>1, <2>5, <1>7, <1>8
    <3> QED
      BY <3>1, <2>1, <2>2, <1>8
  <2> QED
    BY <2>3, <2>4, <2>5
<1>9. ASSUME NEW c PROVE Shared(c)' <=> Shared(c)
  BY <1>1, SameShared
<1> QED
  BY <1>3, <1>8, <1>9 DEF Overlaps

LEMMA NextOverlaps == Typed /\ Evidence /\ Overlaps /\ [Next]_vars => Overlaps'
<1> SUFFICES ASSUME Typed, Evidence, Overlaps, [Next]_vars PROVE Overlaps'
  OBVIOUS
<1>1. discovery \in Discovery
  BY DEF Typed, TypeOK
<1>2. ASSUME NextSource \/ LoadFails PROVE Overlaps'
  <2>1. UNCHANGED args /\ (discovery' = discovery \/ \E b : discovery' = Diagnosed(discovery, b))
    BY <1>2 DEF NextSource, LoadFails, Fail
  <2>2. discovery'.consumers = discovery.consumers
    BY <2>1, <1>1 DEF Diagnosed, Discovery
  <2> QED
    BY <2>1, <2>2, SameOverlaps
<1>3. ASSUME LoadSucceeds PROVE Overlaps'
  BY <1>3, LoadSucceedsOverlaps
<1>4. ASSUME Enrich PROVE Overlaps'
  <2>1. UNCHANGED args /\ (discovery' = discovery \/ discovery' = Diagnosed(discovery, FALSE))
    BY <1>4 DEF Enrich
  <2>2. discovery'.consumers = discovery.consumers
    BY <2>1, <1>1, DiagnosticAdded
  <2> QED
    BY <2>1, <2>2, SameOverlaps
<1>5. ASSUME Evaluate PROVE Overlaps'
  <2>1. UNCHANGED args /\ discovery' = [discovery EXCEPT !.diagnostics = @ \cup traceMappingDiagnostics]
    BY <1>5 DEF Evaluate
  <2>2. discovery'.consumers = discovery.consumers
    BY <2>1, <1>1 DEF Discovery
  <2> QED
    BY <2>1, <2>2, SameOverlaps
<1>6. ASSUME Cancel \/ LoadInputs \/ LeaveLoader \/ SkipLoaded \/ Build \/ Report \/ UNCHANGED vars
      PROVE  Overlaps'
  <2>1. UNCHANGED <<args, discovery>>
    BY <1>6 DEF Cancel, LoadInputs, LeaveLoader, SkipLoaded, Build, Report, vars
  <2> QED
    BY <2>1, SameOverlaps
<1> QED
  BY <1>2, <1>3, <1>4, <1>5, <1>6 DEF Next, Step

(* Patterns may overlap in any way: a consumer appears twice only when one  *)
(* input names it twice, or when two services or two Tempos share an input. *)
THEOREM OverlapsDoNotRepeat == Spec => []OverlapsAreHarmless
<1>1. Init => Overlaps
  BY InitOverlaps
<1>2. PipelineInv /\ Overlaps /\ [Next]_vars => Overlaps'
  BY NextOverlaps DEF PipelineInv
<1>3. Overlaps => OverlapsAreHarmless
  <2> SUFFICES ASSUME Overlaps, NEW i \in DOMAIN discovery.consumers, NEW j \in DOMAIN discovery.consumers,
                      i < j, discovery.consumers[i].id = discovery.consumers[j].id
               PROVE  Repeats \/ Shared(discovery.consumers[i])
    BY DEF OverlapsAreHarmless, Repeats, Shared, InputsOf
  <2> QED
    BY DEF Overlaps
<1> QED
  BY <1>1, <1>2, <1>3, PipelineInvariant, PTL DEF Spec

-----------------------------------------------------------------------------
(* The diagnostics: which failures the verdict looks at.                    *)
RequiredFailed == \E x \in failed : Sources(x[1])[x[2]].required

RequiredIncomplete ==
    \E st \in StageNames : \E s \in ToSet(Sources(st)) :
        s.required /\ \E f \in ToSet(Inputs(st, s)) : extraction[<<st, f>>].incomplete

TraceGap == (\E s \in TempoSources : s.required) /\ Unmapped # {}

CriticalUncertain ==
    \E i \in DOMAIN discovery.consumers, k \in DOMAIN migration :
        /\ discovery.consumers[i].criticality = "critical"
        /\ Uncertain(discovery, discovery.consumers[i], migration[k])

Required == hasRequiredDiagnostic(discovery.diagnostics)

Diagnostics ==
    /\ RequiredFailed => Required
    /\ Required => RequiredFailed \/ RequiredIncomplete \/ (phase \in {"report", "exited"} /\ TraceGap)
    /\ status = "READY" => ~ Required /\ ~ TraceGap
    /\ status = "INCOMPLETE" => Required \/ CriticalUncertain

(* The verdicts of Readiness, for the diagnostics and the classifications.  *)
LEMMA VerdictOfChanges ==
    ASSUME NEW statuses, NEW diagnostics
    PROVE  /\ statusForChanges(statuses, diagnostics) = "READY" => ~ hasRequiredDiagnostic(diagnostics)
           /\ statusForChanges(statuses, diagnostics) = "INCOMPLETE" =>
                 hasRequiredDiagnostic(diagnostics) \/ \E k \in DOMAIN statuses : statuses[k] = "INCOMPLETE"
  BY DEF statusForChanges

LEMMA OnlyCriticalIsCritical ==
    ASSUME NEW c \in Criticality, criticalityRank(c) >= criticalityRank("critical")
    PROVE  c = "critical"
<1>1. criticalityRank("critical") = 4
  BY DEF criticalityRank
<1>2. criticalityRank("high") = 3
  BY DEF criticalityRank
<1>3. criticalityRank("medium") = 2 /\ criticalityRank("") = 2
  BY DEF criticalityRank
<1>4. criticalityRank("low") = 1
  BY DEF criticalityRank
<1>5. c \in {"low", "medium", "high", "critical", ""}
  BY DEF Criticality
<1>6. criticalityRank(c) >= 4
  BY <1>1
<1>7. ~ (3 >= 4) /\ ~ (2 >= 4) /\ ~ (1 >= 4)
  OBVIOUS
<1> QED
  BY <1>2, <1>3, <1>4, <1>5, <1>6, <1>7

LEMMA VerdictOfConsumers ==
    ASSUME NEW d \in Discovery, NEW policy, NEW change,
           statusForConsumers(d, ClassifyAll(d, policy, change), policy) = "INCOMPLETE"
    PROVE  \/ hasRequiredDiagnostic(d.diagnostics)
           \/ \E i \in DOMAIN d.consumers :
                 d.consumers[i].criticality = "critical" /\ Uncertain(d, d.consumers[i], change)
<1> DEFINE class == ClassifyAll(d, policy, change)
<1>1. DOMAIN class = DOMAIN d.consumers
  BY DEF ClassifyAll
<1>2. ASSUME NEW i \in DOMAIN d.consumers, class[i] = "UNCERTAIN"
      PROVE  Uncertain(d, d.consumers[i], change)
  BY <1>2 DEF ClassifyAll, classify
<1>3. \A i \in DOMAIN d.consumers : d.consumers[i].criticality \in Criticality
  <2>1. d.consumers \in Seq(Consumer)
    BY DEF Discovery
  <2>2. \A i \in DOMAIN d.consumers : d.consumers[i] \in Consumer
    BY <2>1
  <2> QED
    BY <2>2 DEF Consumer
<1> HIDE DEF class
<1>4. \/ hasRequiredDiagnostic(d.diagnostics)
      \/ \E i \in DOMAIN class : CriticalUnknown(d.consumers[i], class[i], policy)
  BY DEF statusForConsumers, class
<1> QED
  BY <1>1, <1>2, <1>3, <1>4, OnlyCriticalIsCritical DEF CriticalUnknown

LEMMA InitDiagnostics == Init => Diagnostics
<1> SUFFICES ASSUME Init PROVE Diagnostics
  OBVIOUS
<1>1. discovery.diagnostics = {} /\ failed = {} /\ status = ""
  BY DEF Init, EmptyDiscovery
<1> QED
  BY <1>1 DEF Diagnostics, RequiredFailed, Required, hasRequiredDiagnostic

LEMMA SameArgumentsDiagnostics ==
    ASSUME UNCHANGED args
    PROVE  /\ RequiredIncomplete' <=> RequiredIncomplete
           /\ TraceGap' <=> TraceGap
<1>1. /\ \A st : Sources(st)' = Sources(st)
      /\ Unmapped' = Unmapped /\ TempoSources' = TempoSources
      /\ UNCHANGED extraction
  BY SameArguments
<1> QED
  BY <1>1 DEF RequiredIncomplete, TraceGap, ToSet

LEMMA OneMoreDiagnostic ==
    ASSUME NEW D, NEW b \in BOOLEAN
    PROVE  hasRequiredDiagnostic(D \cup {[required |-> b]}) <=> hasRequiredDiagnostic(D) \/ b
<1>1. [required |-> b].required = b
  OBVIOUS
<1>2. CASE b = TRUE
  BY <1>2, <1>1 DEF hasRequiredDiagnostic
<1>3. CASE b = FALSE
  BY <1>3, <1>1 DEF hasRequiredDiagnostic
<1> QED
  BY <1>2, <1>3

(* A step before the verdict: it fails for one source, or it finds          *)
(* something incomplete, or it does neither.                                *)
LEMMA DiagnosedStep ==
    ASSUME Diagnostics, UNCHANGED args, status = "", status' = "", phase \notin {"report", "exited"},
           NEW source0, NEW required \in BOOLEAN,
           discovery'.diagnostics = discovery.diagnostics \cup {[required |-> required]},
           \/ failed' = failed /\ (required => RequiredIncomplete)
           \/ /\ failed' = failed \cup {source0}
              /\ Sources(source0[1])[source0[2]].required = required
    PROVE  Diagnostics'
<1>1. /\ RequiredIncomplete' <=> RequiredIncomplete
      /\ \A st : Sources(st)' = Sources(st)
  BY SameArguments, SameArgumentsDiagnostics
<1>2. Required' <=> Required \/ required
  BY OneMoreDiagnostic DEF Required
<1>3. CASE failed' = failed /\ (required => RequiredIncomplete)
  <2>1. RequiredFailed' <=> RequiredFailed
    BY <1>1, <1>3 DEF RequiredFailed
  <2> QED
    BY <2>1, <1>1, <1>2, <1>3 DEF Diagnostics
<1>4. CASE /\ failed' = failed \cup {source0}
           /\ Sources(source0[1])[source0[2]].required = required
  <2>1. RequiredFailed' <=> RequiredFailed \/ required
    BY <1>1, <1>4 DEF RequiredFailed
  <2> QED
    BY <2>1, <1>1, <1>2 DEF Diagnostics
<1> QED
  BY <1>3, <1>4

LEMMA UndiagnosedStep ==
    ASSUME Diagnostics, UNCHANGED <<args, discovery, failed, status>>,
           phase \in {"report", "exited"} => phase' \in {"report", "exited"}
    PROVE  Diagnostics'
<1>1. /\ RequiredIncomplete' <=> RequiredIncomplete
      /\ TraceGap' <=> TraceGap
      /\ \A st : Sources(st)' = Sources(st)
      /\ UNCHANGED migration
  BY SameArguments, SameArgumentsDiagnostics
<1>2. /\ Required' <=> Required
      /\ RequiredFailed' <=> RequiredFailed
      /\ CriticalUncertain' <=> CriticalUncertain
  BY <1>1 DEF Required, RequiredFailed, CriticalUncertain
<1> QED
  BY <1>1, <1>2 DEF Diagnostics

LEMMA EvaluateDiagnostics == Typed /\ Typed' /\ Diagnostics /\ Evaluate /\ status = "" => Diagnostics'
<1> SUFFICES ASSUME Typed, Typed', Diagnostics, Evaluate, status = "" PROVE Diagnostics'
  OBVIOUS
<1>1. /\ UNCHANGED <<args, failed>> /\ phase = "evaluate" /\ phase' \in {"report", "exited"}
      /\ discovery' = [discovery EXCEPT !.diagnostics = @ \cup traceMappingDiagnostics]
  BY DEF Evaluate, Exit
<1>2. /\ RequiredIncomplete' <=> RequiredIncomplete
      /\ TraceGap' <=> TraceGap
      /\ \A st : Sources(st)' = Sources(st)
      /\ UNCHANGED migration
  BY <1>1, SameArguments, SameArgumentsDiagnostics
<1>3. Required' <=> Required \/ TraceGap
  <2>1. discovery \in Discovery
    BY DEF Typed, TypeOK
  <2>2. discovery'.diagnostics = discovery.diagnostics \cup traceMappingDiagnostics
    BY <1>1, <2>1 DEF Discovery
  <2>3. (\E x \in traceMappingDiagnostics : x.required) <=> TraceGap
    <3>1. CASE TempoSources = {} \/ Unmapped = {}
      BY <3>1 DEF traceMappingDiagnostics, TraceGap
    <3>2. CASE ~ (TempoSources = {} \/ Unmapped = {})
      <4>1. traceMappingDiagnostics = {} \cup {[required |-> \E s \in TempoSources : s.required]}
        BY <3>2 DEF traceMappingDiagnostics
      <4>2. hasRequiredDiagnostic(traceMappingDiagnostics)
              <=> hasRequiredDiagnostic({}) \/ \E s \in TempoSources : s.required
        BY <4>1, OneMoreDiagnostic
      <4> QED
        BY <4>2, <3>2 DEF TraceGap, hasRequiredDiagnostic
    <3> QED
      BY <3>1, <3>2
  <2> QED
    BY <2>2, <2>3 DEF Required, hasRequiredDiagnostic
<1>4. RequiredFailed' <=> RequiredFailed
  BY <1>1, <1>2 DEF RequiredFailed
<1>5. CASE UniqueIDs(discovery)
  <2> DEFINE statuses == [k \in DOMAIN migration |->
                            statusForConsumers(discovery',
                                ClassifyAll(discovery', configuration.policy, migration[k]),
                                configuration.policy)]
  <2>1. status' = statusForChanges(statuses, discovery'.diagnostics)
    BY <1>5 DEF Evaluate
  <2>2. DOMAIN statuses = DOMAIN migration
    OBVIOUS
  <2> HIDE DEF statuses
  <2>3. /\ status' = "READY" => ~ Required'
        /\ status' = "INCOMPLETE" => Required' \/ \E k \in DOMAIN statuses : statuses[k] = "INCOMPLETE"
    BY <2>1, VerdictOfChanges DEF Required
  <2>4. ASSUME NEW k \in DOMAIN statuses, statuses[k] = "INCOMPLETE"
        PROVE  Required' \/ CriticalUncertain'
    <3>1. discovery' \in Discovery
      BY DEF Typed, TypeOK
    <3>2. statusForConsumers(discovery',
              ClassifyAll(discovery', configuration.policy, migration[k]),
              configuration.policy) = "INCOMPLETE"
      BY <2>2, <2>4 DEF statuses
    <3>3. \/ hasRequiredDiagnostic(discovery'.diagnostics)
          \/ \E i \in DOMAIN discovery'.consumers :
                discovery'.consumers[i].criticality = "critical"
                  /\ Uncertain(discovery', discovery'.consumers[i], migration[k])
      BY <3>1, <3>2, VerdictOfConsumers
    <3> QED
      BY <3>3, <2>2, <1>2 DEF Required, CriticalUncertain
  <2> QED
    BY <2>3, <2>4, <1>1, <1>2, <1>3, <1>4 DEF Diagnostics
<1>6. CASE ~ UniqueIDs(discovery)
  <2>1. status' = ""
    BY <1>6 DEF Evaluate
  <2> QED
    BY <2>1, <1>1, <1>2, <1>3, <1>4 DEF Diagnostics
<1> QED
  BY <1>5, <1>6

LEMMA NextDiagnostics == Typed /\ Outcome /\ Diagnostics /\ [Next]_vars => Diagnostics'
<1> SUFFICES ASSUME Typed, Outcome, Diagnostics, [Next]_vars PROVE Diagnostics'
  OBVIOUS
<1>1. discovery \in Discovery
  BY DEF Typed, TypeOK
<1>2. ASSUME NextSource PROVE Diagnostics'
  <2>1. /\ phase = "discover" /\ UNCHANGED <<args, phase, status>> /\ status = ""
        /\ source' = source + 1 /\ source < Len(Sources(Running))
    BY <1>2 DEF NextSource, InDiscovery, Outcome
  <2>4. source' \in DOMAIN Sources(Running)
    <3>1. /\ Len(Sources(Running)) \in Nat /\ source \in 0 .. Len(Sources(Running))
          /\ DOMAIN Sources(Running) = 1 .. Len(Sources(Running))
      BY RunningIsTyped
    <3> DEFINE n == Len(Sources(Running))
    <3>2. n \in Nat /\ source \in 0 .. n /\ source < n
      BY <2>1, <3>1
    <3> HIDE DEF n
    <3>3. source + 1 \in 1 .. n
      BY <3>2
    <3> QED
      BY <2>1, <3>1, <3>3 DEF n
  <2>2. CASE UNCHANGED <<failed, discovery>>
    BY <2>1, <2>2, UndiagnosedStep
  <2>3. CASE Fail(NoFile)
    <3> DEFINE required == Sources(Running)[source'].required
               source0 == <<Running, source', NoFile>>
    <3>1. required \in BOOLEAN
      BY <2>4, RunningIsTyped
    <3>2. discovery'.diagnostics = discovery.diagnostics \cup {[required |-> required]}
      BY <2>3, <3>1, <1>1, DiagnosticAdded DEF Fail
    <3>3. failed' = failed \cup {source0} /\ Sources(source0[1])[source0[2]].required = required
      BY <2>3 DEF Fail
    <3> HIDE DEF required, source0
    <3> QED
      BY <2>1, <3>1, <3>2, <3>3, DiagnosedStep
  <2> QED
    BY <1>2, <2>2, <2>3 DEF NextSource
<1>3. ASSUME LoadFails PROVE Diagnostics'
  <2>1. /\ phase = "discover" /\ UNCHANGED <<args, phase, status>> /\ status = ""
        /\ source' \in DOMAIN Sources(Running) /\ Fail(Head(todo))
    BY <1>3, CurrentInput DEF LoadFails, Outcome
  <2> DEFINE required == Sources(Running)[source'].required
             source0 == <<Running, source', Head(todo)>>
  <2>2. required \in BOOLEAN
    BY <2>1, RunningIsTyped
  <2>3. discovery'.diagnostics = discovery.diagnostics \cup {[required |-> required]}
    BY <2>1, <2>2, <1>1, DiagnosticAdded DEF Fail
  <2>4. failed' = failed \cup {source0} /\ Sources(source0[1])[source0[2]].required = required
    BY <2>1 DEF Fail
  <2> HIDE DEF required, source0
  <2> QED
    BY <2>1, <2>2, <2>3, <2>4, DiagnosedStep
<1>4. ASSUME LoadSucceeds PROVE Diagnostics'
  <2> DEFINE found == extraction[<<Running, Head(todo)>>]
  <2>1. /\ phase = "discover" /\ UNCHANGED <<args, phase, status, failed>> /\ status = ""
        /\ discovery' = Appended(discovery, found, Current.required)
        /\ todo # << >>
    BY <1>4 DEF LoadSucceeds, Outcome
  <2>2. /\ source \in DOMAIN Sources(Running) /\ Head(todo) \in InputsOf(Running, source)
        /\ Running \in StageNames /\ Current.required \in BOOLEAN
    BY <2>1, CurrentInput, RunningIsTyped DEF Current
  <2>3. CASE found.incomplete
    <3>1. discovery'.diagnostics = discovery.diagnostics \cup {[required |-> Current.required]}
      BY <2>1, <2>3 DEF Appended
    <3>2. Current.required => RequiredIncomplete
      <4>1. Current \in ToSet(Sources(Running)) /\ Head(todo) \in ToSet(Inputs(Running, Current))
        BY <2>2 DEF Current, ToSet, InputsOf
      <4> QED
        BY <4>1, <2>2, <2>3 DEF RequiredIncomplete
    <3> QED
      BY <2>1, <2>2, <3>1, <3>2, DiagnosedStep
  <2>4. CASE ~ found.incomplete
    <3>1. discovery'.diagnostics = discovery.diagnostics
      BY <2>1, <2>4 DEF Appended
    <3>2. Required' <=> Required
      BY <3>1 DEF Required
    <3>3. RequiredFailed' <=> RequiredFailed
      BY <2>1, SameArguments DEF RequiredFailed
    <3> QED
      BY <2>1, <3>2, <3>3, SameArgumentsDiagnostics DEF Diagnostics
  <2> QED
    BY <2>3, <2>4
<1>5. ASSUME Enrich PROVE Diagnostics'
  <2>1. phase = "enrich" /\ UNCHANGED <<args, status, failed>> /\ status = ""
        /\ (discovery' = discovery \/ discovery' = Diagnosed(discovery, FALSE))
    BY <1>5 DEF Enrich, Outcome
  <2>2. CASE discovery' = discovery
    BY <2>1, <2>2, UndiagnosedStep
  <2>3. CASE discovery' = Diagnosed(discovery, FALSE)
    <3>1. discovery'.diagnostics = discovery.diagnostics \cup {[required |-> FALSE]}
      BY <2>3, <1>1, DiagnosticAdded
    <3> QED
      BY <2>1, <3>1, DiagnosedStep
  <2> QED
    BY <2>1, <2>2, <2>3
<1>6. ASSUME Evaluate PROVE Diagnostics'
  <2>1. status = ""
    BY <1>6 DEF Evaluate, Outcome
  <2>2. Typed'
    BY <1>6, EvaluateTyped
  <2> QED
    BY <1>6, <2>1, <2>2, EvaluateDiagnostics
<1>7. ASSUME Cancel \/ LoadInputs \/ LeaveLoader \/ SkipLoaded \/ Build \/ Report \/ UNCHANGED vars
      PROVE  Diagnostics'
  <2>1. UNCHANGED <<args, discovery, failed, status>>
    BY <1>7 DEF Cancel, LoadInputs, LeaveLoader, SkipLoaded, Build, Report, vars
  <2>2. phase \in {"report", "exited"} => phase' \in {"report", "exited"}
    BY <1>7 DEF Cancel, LoadInputs, LeaveLoader, InDiscovery, SkipLoaded, Build, Report, Exit, vars
  <2> QED
    BY <2>1, <2>2, UndiagnosedStep
<1> QED
  BY <1>2, <1>3, <1>4, <1>5, <1>6, <1>7 DEF Next, Step

(* A required failure or trace gap prevents READY, and an INCOMPLETE        *)
(* verdict has a required reason or a critical consumer that is not         *)
(* understood: what fails of an optional source is advisory.                *)
THEOREM OptionalFailuresAreAdvisory == Spec => []OnlyRequiredFailuresCount
<1>1. Init => Diagnostics
  BY InitDiagnostics
<1>2. PipelineInv /\ Diagnostics /\ [Next]_vars => Diagnostics'
  BY NextDiagnostics DEF PipelineInv
<1>3. Diagnostics => OnlyRequiredFailuresCount
  <2> SUFFICES ASSUME Diagnostics PROVE OnlyRequiredFailuresCount
    OBVIOUS
  <2>1. RequiredFailure <=> RequiredFailed \/ TraceGap
    BY DEF RequiredFailure, RequiredFailed, TraceGap
  <2> QED
    BY <2>1 DEF Diagnostics, OnlyRequiredFailuresCount, RequiredIncomplete, CriticalUncertain
<1> QED
  BY <1>1, <1>2, <1>3, PipelineInvariant, PTL DEF Spec
=============================================================================
