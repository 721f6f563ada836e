--------------------------- MODULE AnalysisPipeline ---------------------------
(***************************************************************************)
(* One run of tmr over its configured sources (internal/analysis/engine.go *)
(* and cmd/tmr/commands.go): the adapters load one source after the other, *)
(* each failure becoming a diagnostic, the discovery becomes a graph, the  *)
(* migration is evaluated, and the process exits.  The context belongs to  *)
(* the caller and may end between any two steps.                           *)
(*                                                                         *)
(* What a loader extracts from a file is a constant of the run; whether it *)
(* succeeds (a file unreadable, a service down, its deadline passed) is    *)
(* chosen at every load.  The evaluation itself is that of Readiness.      *)
(***************************************************************************)
EXTENDS Readiness, SequencesExt

CONSTANTS Files, URLs,
          Invocations,     \* the commands considered
          Configurations,  \* the validated configurations considered
          Migrations,      \* the validated migrations considered
          Extractions      \* what the loaders may find: Findings by loader and input

(* The loaders in the order of Discover; the first four are loadPatterns.   *)
Stages == <<"prometheus_rules", "grafana", "sloth", "pyrra",
            "perses_usage", "runtime_queries", "tempo_queries">>
StageNames == ToSet(Stages)

(* A source is unprepared when its duration does not parse or its token is  *)
(* not in the environment; its pattern expands to files or to an error.     *)
NoExpansion == <<"error">>
Source == [required : BOOLEAN, prepared : BOOLEAN, url : URLs,
           files : Seq(Files) \cup {NoExpansion}]

(* An incomplete finding leaves a diagnostic that is as required as its     *)
(* source.                                                                  *)
Findings == [consumers : Seq(Consumer), references : SUBSET Reference,
             productions : SUBSET Production, incomplete : BOOLEAN]

Configuration == [sources : [StageNames -> Seq(Source)],
                  mappings : SUBSET [scope : {"span", "resource"}, name : Names],
                  ownership : BOOLEAN, policy : Policy]
Commands == {"analyze", "advise", "remediate", "graph", "explain"}

ASSUME InvocationsAssumption == Invocations \subseteq Commands
ASSUME ConfigurationsAssumption == Configurations \subseteq Configuration
ASSUME MigrationsAssumption == Migrations \subseteq Seq(Change)

(* A metrics-usage service has no files, it is one load of its URL. *)
Inputs(st, s) == IF st = "perses_usage" THEN <<s.url>> ELSE s.files

Unusable(st, s) == ~ s.prepared \/ Inputs(st, s) \in {NoExpansion, << >>}

NoFile == "none"
ASSUME NoFileAssumption == NoFile \notin Files \cup URLs

(* There is something to be found in every input of a source that can be    *)
(* used.                                                                    *)
ASSUME ExtractionsAssumption ==
    \A x \in Extractions, c \in Configurations, st \in StageNames : \A s \in ToSet(c.sources[st]) :
        ~ Unusable(st, s) => \A f \in ToSet(Inputs(st, s)) :
                                <<st, f>> \in DOMAIN x /\ x[<<st, f>>] \in Findings

(* The identifier of a consumer names its loader and its file or service    *)
(* (ruleID, queryConsumerID, queryID, newDiscoveryBuilder).                 *)
ASSUME IdentifiersAssumption ==
    \A x \in Extractions : \A a, b \in DOMAIN x : a # b => IDs(x[a]) \cap IDs(x[b]) = {}

VARIABLES command, configuration, migration,  \* the arguments
          extraction, \* what the world holds
          ctx,        \* "live" or "canceled"
          phase,      \* "inputs", "discover", "enrich", "build", "evaluate", "report", "exited"
          stage,      \* index of the running loader
          source,     \* index of its current source, 0 before the first
          todo,       \* files of that source still to be loaded
          loaded,     \* the loaders' maps of what was loaded
          failed,     \* the failures: <<stage, source, file>>, file NoFile for the source itself
          discovery,
          status,     \* Summary.Status, "" as long as there is no result
          exit        \* exit code of the process, -1 while it runs

args == <<command, configuration, migration, extraction>>
vars == <<args, ctx, phase, stage, source, todo, loaded, failed, discovery, status, exit>>

EmptyDiscovery == [consumers |-> << >>, references |-> {}, productions |-> {}, diagnostics |-> {}]

-----------------------------------------------------------------------------
Init == /\ command \in Invocations
        /\ configuration \in Configurations
        /\ migration \in Migrations
        /\ extraction \in Extractions
        /\ ctx = "live"
        /\ phase = "inputs"
        /\ stage = 1
        /\ source = 0
        /\ todo = << >>
        /\ loaded = {}
        /\ failed = {}
        /\ discovery = EmptyDiscovery
        /\ status = ""
        /\ exit = -1

Exit(code) == phase' = "exited" /\ exit' = code

Cancel == /\ phase # "exited"
          /\ ctx = "live"
          /\ ctx' = "canceled"
          /\ UNCHANGED <<args, phase, stage, source, todo, loaded, failed, discovery, status, exit>>

(* The configuration and, except for graph and explain, the migration are   *)
(* loaded; a Weaver diff that needs a mapping ends with 3.                  *)
LoadInputs == /\ phase = "inputs"
              /\ \/ ctx = "live" /\ phase' = "discover" /\ UNCHANGED exit
                 \/ Exit(1)
                 \/ command \notin {"graph", "explain"} /\ Exit(3)
              /\ UNCHANGED <<args, ctx, stage, source, todo, loaded, failed, discovery, status>>

-----------------------------------------------------------------------------
(* Discover                                                                 *)

Running == Stages[stage]
Sources(st) == configuration.sources[st]
Current == Sources(Running)[source]

Diagnosed(d, required) == [d EXCEPT !.diagnostics = @ \cup {[required |-> required]}]

(* Mutant: a failure is as required as the first source of its kind. *)
Fail_firstSource(file) ==
    /\ failed' = failed \cup {<<Running, source', file>>}
    /\ discovery' = Diagnosed(discovery, Sources(Running)[1].required)

Fail(file) == /\ failed' = failed \cup {<<Running, source', file>>}
              /\ discovery' = Diagnosed(discovery, Sources(Running)[source'].required)

(* Mutant: the next loader begins where this one ended. *)
NextLoader_keepsSource ==
    IF stage = Len(Stages)
      THEN phase' = "enrich" /\ UNCHANGED <<stage, source>>
      ELSE stage' = stage + 1 /\ UNCHANGED <<source, phase>>

NextLoader == IF stage = Len(Stages)
                THEN phase' = "enrich" /\ UNCHANGED <<stage, source>>
                ELSE stage' = stage + 1 /\ source' = 0 /\ UNCHANGED phase

InDiscovery == phase = "discover" /\ todo = << >>

(* The loop over the sources is at its end, or leaves because the context   *)
(* has ended: the evidence is then partial and no error says so.            *)
LeaveLoader == /\ InDiscovery
               /\ source = Len(Sources(Running)) \/ ctx = "canceled"
               /\ NextLoader
               /\ UNCHANGED <<args, ctx, todo, loaded, failed, discovery, status, exit>>

(* The next source: unusable ones are diagnosed and passed over. *)
NextSource ==
    /\ InDiscovery
    /\ source < Len(Sources(Running))
    /\ ctx = "live"
    /\ source' = source + 1
    /\ LET s == Sources(Running)[source + 1]
       IN  IF Unusable(Running, s)
             THEN Fail(NoFile) /\ UNCHANGED todo
             ELSE todo' = Inputs(Running, s) /\ UNCHANGED <<failed, discovery>>
    /\ UNCHANGED <<args, ctx, phase, stage, loaded, status, exit>>

(* Mutant: each pattern remembers only its own files. *)
Key_ofSource(st, i, s, file) == <<st, i, file>>

(* What a loader's map of loaded inputs is keyed by: files are loaded once  *)
(* for every pattern and log, and once for every Tempo; nothing recognises  *)
(* a metrics-usage service that is configured twice.                        *)
Key(st, i, s, file) ==
    CASE st = "perses_usage" -> <<st, i, file>>
      [] st = "tempo_queries" -> <<st, s.url, file>>
      [] OTHER -> <<st, file>>

CurrentKey == Key(Running, source, Current, Head(todo))

(* Mutant: a file that was loaded before is looked at for ever. *)
SkipLoaded_stuck == /\ phase = "discover"
                    /\ todo # << >>
                    /\ CurrentKey \in loaded
                    /\ UNCHANGED vars

SkipLoaded == /\ phase = "discover"
              /\ todo # << >>
              /\ CurrentKey \in loaded
              /\ todo' = Tail(todo)
              /\ UNCHANGED <<args, ctx, phase, stage, source, loaded, failed, discovery, status, exit>>

(* A file is marked as loaded before the attempt, and never tried again. *)
LoadFails == /\ phase = "discover"
             /\ todo # << >>
             /\ CurrentKey \notin loaded
             /\ loaded' = loaded \cup {CurrentKey}
             /\ todo' = Tail(todo)
             /\ UNCHANGED source
             /\ Fail(Head(todo))
             /\ UNCHANGED <<args, ctx, phase, stage, status, exit>>

(* discovery.Append, with the diagnostics of the loader itself. *)
Appended(d, found, required) ==
    [consumers |-> d.consumers \o found.consumers,
     references |-> d.references \cup found.references,
     productions |-> d.productions \cup found.productions,
     diagnostics |-> d.diagnostics
                       \cup (IF found.incomplete THEN {[required |-> required]} ELSE {})]

LoadSucceeds ==
    /\ phase = "discover"
    /\ todo # << >>
    /\ ctx = "live"
    /\ CurrentKey \notin loaded
    /\ loaded' = loaded \cup {CurrentKey}
    /\ todo' = Tail(todo)
    /\ discovery' = Appended(discovery, extraction[<<Running, Head(todo)>>], Current.required)
    /\ UNCHANGED <<args, ctx, phase, stage, source, failed, status, exit>>

(* Owners are advisory: a failure to find them is never required. *)
Enrich == /\ phase = "enrich"
          /\ IF configuration.ownership /\ ctx = "canceled"
               THEN Exit(1) /\ UNCHANGED discovery
               ELSE /\ phase' = "build"
                    /\ \/ UNCHANGED discovery
                       \/ configuration.ownership /\ discovery' = Diagnosed(discovery, FALSE)
                    /\ UNCHANGED exit
          /\ UNCHANGED <<args, ctx, stage, source, todo, loaded, failed, status>>

(* Mutant: the context is not looked at again. *)
Build_uncheckedContext ==
    /\ phase = "build"
    /\ IF \E r \in discovery.references \cup discovery.productions : r.consumer \notin IDs(discovery)
         THEN Exit(1)
         ELSE IF command \in {"graph", "explain"} THEN Exit(0)
         ELSE phase' = "evaluate" /\ UNCHANGED exit
    /\ UNCHANGED <<args, ctx, stage, source, todo, loaded, failed, discovery, status>>

(* The last look at the context, then BuildGraph (see GraphBuild).  graph   *)
(* and explain print what they have and look at no diagnostic; writing may  *)
(* fail.                                                                    *)
Build ==
    /\ phase = "build"
    /\ IF \/ ctx = "canceled"
          \/ \E r \in discovery.references \cup discovery.productions :
                r.consumer \notin IDs(discovery)
         THEN Exit(1)
         ELSE IF command \in {"graph", "explain"} THEN \E code \in {0, 1} : Exit(code)
         ELSE phase' = "evaluate" /\ UNCHANGED exit
    /\ UNCHANGED <<args, ctx, stage, source, todo, loaded, failed, discovery, status>>

-----------------------------------------------------------------------------
(* Run, after Discover                                                      *)

(* The attributes of OpenTelemetry changes that no mapping translates. *)
Unmapped ==
    {x \in (DOMAIN migration) \X {"from", "to"} :
        LET from == migration[x[1]].from
            symbol == migration[x[1]][x[2]]
            scope == IF from.kind = "resource_attribute" THEN "resource" ELSE "span"
        IN  /\ from.domain = "opentelemetry"
            /\ from.kind \in {"span_attribute", "resource_attribute"}
            /\ symbol # NoSymbol
            /\ [scope |-> scope, name |-> symbol.name] \notin configuration.mappings}

TempoSources == ToSet(Sources("tempo_queries"))

traceMappingDiagnostics ==
    IF TempoSources = {} \/ Unmapped = {} THEN {}
    ELSE {[required |-> \E s \in TempoSources : s.required]}

UniqueIDs(d) == IsInjective([i \in DOMAIN d.consumers |-> d.consumers[i].id])

(* Evaluate, as one step (its loop is Evaluation). *)
Evaluate ==
    /\ phase = "evaluate"
    /\ discovery' = [discovery EXCEPT !.diagnostics = @ \cup traceMappingDiagnostics]
    /\ IF UniqueIDs(discovery)
         THEN /\ phase' = "report"
              /\ status' = statusForChanges(
                    [k \in DOMAIN migration |->
                        statusForConsumers(discovery',
                            ClassifyAll(discovery', configuration.policy, migration[k]),
                            configuration.policy)],
                    discovery'.diagnostics)
              /\ UNCHANGED exit
         ELSE Exit(1) /\ UNCHANGED status
    /\ UNCHANGED <<args, ctx, stage, source, todo, loaded, failed>>

(* Mutant: only what blocks is an error to the shell. *)
readinessExitCode_lenient(st) == IF st = "BLOCKED" THEN 2 ELSE 0

readinessExitCode(st) ==
    CASE st = "READY" -> 0 [] st = "BLOCKED" -> 2 [] st = "INCOMPLETE" -> 3

(* The report is written, or the provider explains or proposes; whatever it *)
(* answers, the exit code is the status's, or 1 when a part of this fails.  *)
Report == /\ phase = "report"
          /\ \E code \in {1, readinessExitCode(status)} : Exit(code)
          /\ UNCHANGED <<args, ctx, stage, source, todo, loaded, failed, discovery, status>>

-----------------------------------------------------------------------------
Step == \/ LoadInputs \/ LeaveLoader \/ NextSource \/ SkipLoaded \/ LoadFails \/ LoadSucceeds
        \/ Enrich \/ Build \/ Evaluate \/ Report

Next == Step \/ Cancel

(* One goroutine, bounded loops, every request with a deadline. *)
Spec == Init /\ [][Next]_vars /\ WF_vars(Step)

-----------------------------------------------------------------------------
(* Properties                                                               *)

TypeOK == /\ phase \in {"inputs", "discover", "enrich", "build", "evaluate", "report", "exited"}
          /\ ctx \in {"live", "canceled"}
          /\ stage \in DOMAIN Stages
          /\ source \in 0 .. Len(Sources(Running))
          /\ todo \in Seq(Files \cup URLs)
          /\ discovery \in Discovery
          /\ status \in Statuses \cup {""}
          /\ exit \in {-1, 0, 1, 2, 3}

(* Every source of every loader, and the inputs of those that can be used.  *)
Configured == UNION {{st} \X DOMAIN Sources(st) : st \in StageNames}
Usable(st, i) == ~ Unusable(st, Sources(st)[i])
KeysOf(st, i) == {Key(st, i, Sources(st)[i], f) : f \in ToSet(Inputs(st, Sources(st)[i]))}

Discovered == phase \in {"evaluate", "report"} \/ status # "" \/ exit = 0

(* Every input has been loaded, or has failed and left a diagnostic. *)
NothingIsSkipped ==
    \A c \in Configured :
        IF Usable(c[1], c[2]) THEN KeysOf(c[1], c[2]) \subseteq loaded
                              ELSE <<c[1], c[2], NoFile>> \in failed

(* A context that ends in the middle makes the loaders return early, in     *)
(* silence; no verdict, no graph and no explanation is ever based on what   *)
(* they had by then.  The evidence evaluated is that of every input that    *)
(* did not fail, once each, whatever the overlaps of the patterns.          *)
EvidenceIsComplete ==
    Discovered =>
        LET good == {x \in StageNames \X (Files \cup URLs) :
                        \E i \in DOMAIN Sources(x[1]) :
                            /\ Usable(x[1], i)
                            /\ x[2] \in ToSet(Inputs(x[1], Sources(x[1])[i]))
                            /\ \A j \in DOMAIN Sources(x[1]) :
                                  Key(x[1], j, Sources(x[1])[j], x[2]) = Key(x[1], i, Sources(x[1])[i], x[2])
                                    => <<x[1], j, x[2]>> \notin failed}
        IN  /\ NothingIsSkipped
            /\ discovery.references = UNION {extraction[x].references : x \in good}
            /\ discovery.productions = UNION {extraction[x].productions : x \in good}
            /\ ToSet(discovery.consumers) = UNION {ToSet(extraction[x].consumers) : x \in good}

RequiredFailure ==
    \/ \E x \in failed : Sources(x[1])[x[2]].required
    \/ (\E s \in TempoSources : s.required) /\ Unmapped # {}

(* A failure of a required source, or a missing trace mapping that one of   *)
(* them needs, prevents READY and exit code 0; an optional failure is       *)
(* advisory: INCOMPLETE has a required reason, or a critical consumer that  *)
(* is not understood.                                                       *)
OnlyRequiredFailuresCount ==
    /\ status = "READY" => ~ RequiredFailure
    /\ status = "INCOMPLETE" =>
        \/ RequiredFailure
        \/ \E st \in StageNames : \E s \in ToSet(Sources(st)) :
              s.required /\ \E f \in ToSet(Inputs(st, s)) : extraction[<<st, f>>].incomplete
        \/ \E i \in DOMAIN discovery.consumers, k \in DOMAIN migration :
              /\ discovery.consumers[i].criticality = "critical"
              /\ Uncertain(discovery, discovery.consumers[i], migration[k])

(* A consumer appears twice, which is an error and no verdict, only when    *)
(* one input names it twice or is loaded twice (by two Tempos, or from one  *)
(* metrics-usage service configured twice): the patterns of a loader may    *)
(* overlap in any way without making a consumer appear twice.               *)
OverlapsAreHarmless ==
    phase = "evaluate" => \A i, j \in DOMAIN discovery.consumers :
        i < j /\ discovery.consumers[i].id = discovery.consumers[j].id =>
            \/ \E x \in DOMAIN extraction : ~ UniqueIDs(extraction[x])
            \/ \E st \in {"perses_usage", "tempo_queries"} : \E a, b \in DOMAIN Sources(st) :
                /\ a # b
                /\ st = "tempo_queries" => Sources(st)[a].url # Sources(st)[b].url
                /\ \E f \in ToSet(Inputs(st, Sources(st)[a])) \cap ToSet(Inputs(st, Sources(st)[b])) :
                        discovery.consumers[i] \in ToSet(extraction[<<st, f>>].consumers)

(* A script can trust the exit code: 0 and 2 are the verdict of a complete  *)
(* evaluation, 3 also an incomplete Weaver mapping, and neither the report  *)
(* nor a provider changes the verdict.                                      *)
ExitCodeIsTheVerdict ==
    exit # -1 /\ command \notin {"graph", "explain"} =>
        /\ exit = 0 => status = "READY"
        /\ exit = 2 <=> status = "BLOCKED" /\ exit # 1
        /\ exit = 3 => status \in {"INCOMPLETE", ""}
        /\ status = "INCOMPLETE" => exit \in {1, 3}

(* Every run ends. *)
Exits == <>(exit # -1)

(* docs/ADAPTERS.md: "Every configured source can be marked `required`. A   *)
(* load, parse, or expansion failure on a required source prevents `READY`":*)
(* of all the files of a required source, none may have failed.             *)
RequiredSourcesAreComplete ==
    status = "READY" => \A c \in Configured :
        LET s == Sources(c[1])[c[2]]
        IN  s.required /\ Usable(c[1], c[2]) =>
                \A f \in ToSet(Inputs(c[1], s)), j \in DOMAIN Sources(c[1]) :
                    Key(c[1], j, Sources(c[1])[j], f) = Key(c[1], c[2], s, f)
                        => <<c[1], j, f>> \notin failed
=============================================================================
