# Verification of TMR

TMR (`tmr`, Telemetry Migration Readiness) answers one question before a
telemetry contract is renamed or removed: who still depends on it? It reads
rule files, dashboards, SLO documents, query logs and remote services, builds a
graph of symbols and consumers, classifies every consumer for every change, and
exits with `READY` (0), `BLOCKED` (2) or `INCOMPLETE` (3). Scripts gate
deployments on that code, so a wrong `READY` is the failure that matters.

This directory holds TLA+ modules of the parts that decide the answer, TLC
configurations that check them on small instances, and proofs for TLAPS.
Sources are quoted relative to `src/`.

## 1. Inventory of the system

A run of `tmr` is one process with one goroutine, except where an AI provider
is called. Data flows one way:

    migration, configuration
        -> adapters (one load per file or URL) -> Discovery + diagnostics
        -> ownership (advisory) -> BuildGraph -> Evaluate -> report, exit code
                                       |             |
                                  explain, graph   advise, remediate
                                                     -> provider process
                                                     -> candidate validation

| Part | State | Operations | Hard behaviour | What makes it correct |
| --- | --- | --- | --- | --- |
| Dependency graph (`internal/graph`) | nodes, two adjacency lists, edge set | `AddNode`, `AddEdge`, `ImpactPaths` | cycles through recording rules, duplicates, order of discovery | exactly the dependents, by shortest simple paths; the indexes agree |
| Graph construction (`internal/impact`) | the graph under construction | `BuildGraph` | repeated and contradictory evidence, evidence of unknown consumers | the graph is the evidence; only contradictions are refused |
| Readiness (`internal/readiness`) | worst class per consumer, statuses, summary | `Evaluate` | several changes, uncertainty, thresholds, families of series, diagnostics | `READY` is safe, `BLOCKED` is exact, the summary agrees |
| Vocabulary (`internal/domain`) | none | record types | one-way family match | (see readiness) |
| Engine (`internal/analysis`) | discovery, sets of inputs loaded | `Run`, `Discover`, one loop per adapter | failures in the middle, overlapping patterns, the end of the context, a deadline shared by files | complete evidence or no verdict; required failures count |
| Command line (`cmd/tmr`) | none | one function per command | failure after the verdict | the exit code is the verdict |
| Provider process (`internal/agentprocess`) | child process, two capped buffers, a context | `Command.Run` | copiers, watcher, deadline, exit and kill racing; descendants; limits | success is complete and voluntary; a report says how the provider ended; memory and time are bounded |
| Remediation (`internal/remediation`) | request, response, patched artifact in memory | `BuildRequest`, `Propose`, `Validate` | files that change meanwhile, repeated expressions, two readers of a file, untrusted proposals | the simulation is what a new analysis would find; a candidate moves its consumer as its change asks |
| Explanation (`internal/explanation`) | packet, response | `BuildRequest`, `Explain` | untrusted answer, redaction | the verdict is never the provider's |
| Ownership (`internal/ownership`) | rules, evidence per consumer | `Enrich` | precedence, partial loads | advisory only; last match, highest rank |
| Rule, Grafana, Sloth, Pyrra adapters | none | `LoadFile` | unresolved expressions, templates | nothing that is not understood counts as absent |
| Perses metrics-usage adapter | consumers under construction | `Discover` | three endpoints that fail apart | the consumers are what the endpoints said, in any order; what was not said is diagnosed |
| Runtime query adapter | events, aggregates | `LoadFile` | window boundary, limits, broken lines | nothing is dropped silently |
| Tempo adapter, TraceQL scanner | none | `LoadFile`, `Validate`, `Analyze` | remote validation, deadline in the middle | an attribute is a reference or unresolved |
| Weaver import (`adapters/weaver`) | none | `ParseDiff`, `Convert`, `Migration` | unmapped, duplicate, unsupported changes | every change is mapped, ignored or an error |
| Configuration (`internal/config`) | none | `LoadConfig`, `LoadMigration` | defaults, validation | only valid inputs reach the engine |
| Source expansion (`internal/source`) | none | `Expand` | `**` | the files a reader of the pattern expects |
| Report (`internal/report`) | none | rendering | none | (formatting only) |

`PROJECT.json` lists the same parts with their status, and under `hazards` the
lines at which each hard behaviour bites.

## 2. Modules

| Module | Models | State and actions in the code |
| --- | --- | --- |
| `Dependents` | reference definition of "depends on" | least closed set of a graph, no traversal |
| `Reachability` | abstract specification of an impact analysis | nodes are discovered one at a time, each led to by a known one |
| `ImpactPaths` | `Graph.ImpactPaths` | `queue`, `visited`, `paths` are the variables of the function, `current`/`todo` the two loops. `Dequeue` is the outer loop; `SkipVisited` and `Extend` are the two ways round the inner one |
| `GraphBuild` | `impact.BuildGraph`, `AddNode`, `AddEdge` | `names`, `out`, `in`, `edges` are the maps of `Graph`; one action per loop of `BuildGraph`, each round adding nodes and edge as the code does, or ending in `error` |
| `Telemetry` | `internal/domain` and the symbol comparisons | records and operators, no state |
| `Readiness` | the decisions of `evaluator.go` | operators with the names of the Go functions |
| `Evaluation` | `readiness.Evaluate` | `Reject`/`Accept` (duplicate identifiers), `EvaluateChange` (one round of the loop over changes), `Summarize` |
| `AnalysisPipeline` | `analysis.Run`, `Discover` and the commands around them | `stage`, `source`, `todo` locate the loop that runs; `loaded` is the map of inputs already tried, `failed` remembers which failed. `NextSource`, `SkipLoaded`, `LoadFails`, `LoadSucceeds`, `NextLoader`, `LeaveLoader`, then `Enrich`, `Build`, `Evaluate`, `Report`; `Cancel` at any time |
| `CappedBuffer` | `cappedBuffer` | `Write` on a record |
| `AgentProcess` | `agentprocess.Command.Run` | the calling goroutine (`phase`), the context, the child, a descendant, the watcher, the three copying goroutines and the two buffers |
| `Remediation` | `runRemediate` after the configuration is loaded | `BuildRequest`, `Propose`, `ValidateCandidate` (all checks in their order), `Report`; `Edit` is whoever saves a file |
| `LoaderCall` | what the calls of all adapters share | `source`, `ctx`, `at` (how far the loop over the input is), `work` (locals of the adapter), `discovery`, `pc`; `Fail` is an error returned to the engine, `WithDiagnostic` one kept beside the evidence, `Cancel` the end of the context |
| `RuntimeQueries` | `runtimequeries.Loader.Parse` | one action for each way round the loop over lines (`SkipBlank`, `Overflow`, `Reject`, `Accept`, `Stopped`) and round the one over events (`SkipOld` before the window, `Observe` in it), then `AppendAggregates` |
| `TraceQL` | `traceql.Analyze` and its helpers | recursive functions over tokens, no state; beside them how an expression of given parts is written (`Part`, `Quoted`, `Expression`), which is external |
| `TempoQueries` | `tempo.Loader.Parse`, `Client.Validate` | `RefuseManifest`/`AcceptManifest`, then per query `Ask` and `Accepted` or `Rejected`; `Stopped` when the deadline has passed |
| `PersesUsage` | `persesusage.Loader.Discover` and its builder | one `Answers` or `DoesNotAnswer` per endpoint; then one action for each way round the loops over entries (`SkipEntry`, `EnterEntry`), over what an entry's usage is told of (`NextTarget`) and over its uses (`SkipUse`, `TellUse`); `work.states` are the builder's consumers, `Build` is `build` |
| `SourcePatterns` | `source.Expand` | `matchSegments`, `patternRoot` and the walk as operators, beside the reference definition `Matches` |
| `Ownership` | `ownership.Enrich` | `PatternWithoutFiles`/`ExpandPattern` (one metadata pattern), `LoadFile` (one of its files), `LeavePattern`, `LeaveMetadata`, `LoadCodeowners`, `Assign` (one consumer), and the ends of the context |
| `Adapters` | one call of one of the four above | no state of its own: `Init` and `Next` are theirs, on the same variables |
| `MigrationManifest` | the manifest: conversion and both validations of `internal/config` | operators with the names of the Go functions |
| `WeaverMapping` | items of a diff, entries of a mapping and their validation | operators with the names of the Go functions |
| `MigrationInput` | `loadSelectedMigration`: `config.LoadMigration` or `weaver.LoadMigration` | `pc` walks through the documents; one action per way round the loops over items of the diff and over its changes, one per refusal |
| `MC...` | instances for TLC | constants |
| `AdaptersInvariants` | the inductive invariants of the four calls, for `AdaptersProofs` | definitions only |
| `...Proofs` | theorems and proofs | |

Composition: `Evaluation`, `AnalysisPipeline` and `Remediation` all extend
`Readiness`, which extends `Telemetry`. `Readiness` does not run the search of
`ImpactPaths` again; it uses the definition `Dependents!Reachable`, which
`ReportsExactlyTheDependents` shows the search to compute, on the edge set that
`BuiltGraphIsTheEvidence` shows `BuildGraph` to produce. `ShortestPaths`
justifies the other half, the non-transitive filter. `AgentProcess` is the
process behind `Propose`, which in `Remediation` is a failure or any response.

`RuntimeQueries`, `TempoQueries`, `PersesUsage` and `Ownership` extend
`LoaderCall`: each is one call of one adapter, which `AnalysisPipeline` has as
one step that succeeds or fails. `TempoQueries` runs the scanner of `TraceQL`,
`Ownership` the patterns of `SourcePatterns`. `Adapters` instantiates all four
on the same variables (a behaviour is a call of one of them) and
hands what they find to the operators of `Readiness`, so that `ConsumersReachTheVerdict` speaks of
the way from a line of a log, a query or an endpoint's answer to the class of a
consumer. `MigrationInput` is where `migration`, a constant choice in
`Evaluation` and `AnalysisPipeline`, comes from.

### What is abstracted

- Names and the identifiers of changes are model values; of their spelling only "is
  the other one plus a series suffix" (`Suffixed`) and what redaction makes of it
  (`Redaction`) matter.
- A path is the sequence of its nodes: the kind of an edge follows from its ends.
- Evidence methods, confidence, source lines, owners, runtime statistics and all
  wording travel through the code undecided upon and are left out.
- A PromQL expression, in a file, a log or an answer of Perses, is what the
  analyzer says of it: does it parse, is it a template, which symbols it uses and
  which patterns. A pattern stands for a reference that needs resolution: a name
  pattern (`{__name__=~...}`) or a label of no metric. It leaves the consumer
  resolved and may mean any contract. A file is the sequence of its scalars; a
  YAML alias is a scalar that repeats one before it.
- The contents of a file or service are constants of a pipeline run
  (`Extractions`); whether a load succeeds is chosen at each load, which covers
  missing files, parse errors, services that are down and deadlines that pass.
- `os/exec` is external and modelled from how `Run` configures it: a watcher that
  kills the child only, `Wait` that awaits all copiers because no `WaitDelay` is
  set.
- A log line is its shape, query, time and the optional fields the decoders look
  at; a TraceQL expression is a sequence of tokens (scope prefixes, words, single
  characters), since the scanner matches prefixes as a whole.
- A path or pattern is its sequence of segments. Within a segment there is one
  wildcard, `*`; syntax errors of `filepath.Match` are left out. The kind of a
  consumer, which a metadata rule may ask for, is like its identifier and left
  out; a rule told by Perses is identified by kind and name.
- A document either decodes or does not (size, YAML, JSON, unknown fields); the
  header of a manifest is right or not.
- Sorting for output is left out; sorting that decides something (the order of
  outgoing edges, of files) is kept.

## 3. Runs

| Run | Instance | States | Shows |
| --- | --- | --- | --- |
| `impact_paths` | 3 symbols, 2 consumers, every bipartite graph, every start | 96,576 | the search implements `Reachability` and ends, reports exactly the dependents, each by one shortest simple path of real edges |
| `graph_build` | up to 3 consumers (2 identifiers, 2 names), 2 references, 2 productions, in every order and with repetitions | 239,652 | the graph is the evidence, the indexes agree at every step, exactly the contradictions are refused |
| `evaluation` | a recording rule and an alert, metric and label renames and removals, 64 sets of metric references with 3 productions, 128 of label references with family parents and scoped uncertainty, criticalities, diagnostics, all policies, one and two changes | 1,406,976 | `READY` is justified (no legacy consumer at the threshold, no required failure, no forbidden unknown), `BLOCKED` exact, the summary agrees |
| `evaluation_unresolved` | the metric changes of `evaluation`, no consumer flagged unresolved, both gates on | violation | a critical consumer that is `DUAL` and unresolved passes |
| `analysis_pipeline` | up to two sources per loader, two files, two URLs, overlaps, unprepared sources, failing expansions, analyze and explain | 217,072 | complete evidence or no verdict; exactly required failures prevent `READY`; overlaps are harmless; the exit code is the verdict; every run ends |
| `analysis_overlap` | two overlapping patterns | violation | the required pattern's file is loaded as an optional one |
| `adapters` | logs of 4 lines out of 9 in both formats with and without a window and a limit of 3 records; TraceQL expressions of up to 3 parts out of 10, manifests of 2 queries with mappings; answers of 3 endpoints about a dashboard, a recording rule told with 2 expressions and an alert; repositories of 3 files with metadata rules, CODEOWNERS and tags; 4 changes under direct and transitive policies | 1,121,409 | each adapter's evidence is what its input says, or a diagnostic tells what is missing; the verdict hears of each use of the old contract; owners are advisory and by precedence |
| `migration_input` | manifests of one change in every combination of 9 kinds, 4 domains and the fields of two symbols, of two changes, with bad headers; diffs of one item in every form, of two items, with up to two entries | 145,211 | exactly the legal descriptions are loaded, field by field; each change of a diff is mapped, ignored or makes the import incomplete |
| `agent_process` | stdout limit 2 and up to 4 bytes, stderr 1 and 2, a descendant | 360,542 | buffers are exact; success is genuine (complete output of a provider that exited 0 by itself); what the call reports is how the provider ended; the call returns unless a descendant never ends |
| `agent_process_descendant` | with a descendant | violation | the call may outlive its deadline |
| `remediation` | a rule file of two rules and a repeated text or an alias, an SLO file, 10 expressions, a second adapter that refuses the rule file, one or two proposals, one or two changes of which redaction makes the same identifier as of another, edits | 1,268,216 | the simulation is a new analysis but for what the second adapter says; the patch hits its target; a validated candidate moves its consumer as its change asks, and migrates it |
| `remediation_redaction` | a metric that looks like a credential | violation | its target is one the validation does not know |

Four runs end in a violation on purpose: each states what a document says and
finds the code disagreeing. `PROJECT.json` quotes both sides
under `findings`.

Two passing properties state an exception of the code in their own words instead.
`ReportIsHowItEnded` says that a failure is reported *exactly* for a provider that
failed by itself and was drained while the context lived: if a process it left behind
holds the pipes until the deadline, `runner.go:49` reports a timeout and drops the
provider's own error, which `runner_test.go:46` requires of a failing provider.
`SimulationIsReanalysis` compares with an analysis that does not hear of another
adapter reading the same file (`Unheard`): `replaceSourceDiscovery`
(`validator.go:240-243`) drops all diagnostics of the file and appends those of one
adapter, so a required failure of the other one vanishes from the simulated status,
though `docs/REMEDIATION.md:85-86` says that only "that source's discovery" is
replaced. Without the exception TLC refutes both.

`ValidatedAnswersItsChange` speaks of candidates that were validated; that a target
can be validated at all is what `remediation_redaction` refutes.

### Why the bounds are enough

- *Search*: five nodes hold a cycle through two recording rules, a detour longer
  than a direct edge, a diamond, a node that nothing reaches, and a start that is
  no node of the graph. All graphs are enumerated.
- *Graph*: a contradiction needs two consumers, a repetition two items, an
  unknown consumer one. A third consumer lets each occur beside a healthy one.
- *Evaluation*: the statuses of a change depend on consumers one by one; two
  consumers give every pair of classes, and two changes every order in which a
  class can worsen. One recording rule makes transitive impact, and a rule that
  records the old name makes a cycle of contracts. Criticalities lie on both
  sides of, and at, both thresholds.
- *Pipeline*: overlap, deduplication, an early required failure followed by an
  optional one, and a deadline between two inputs each need two sources or two
  files. `Exits` and the rest do not depend on how many loaders are used at once;
  one instance gives one loader every combination, another uses several together.
- *Process*: each buffer is driven below, to, and beyond its limit by every
  division into chunks; a stream of identical bytes would not tell a prefix from
  a suffix, so there are two bytes. How long the call takes does not depend on
  them: `agent_process_descendant` has one.
- *Remediation*: one recording rule and one alert give direct and transitive
  legacy users, a text equal to an expression gives ambiguity, a second file
  gives evidence that must survive, and two proposals give one that is validated
  before or after another. Redaction gives two changes the same identifier, or one
  the identifier of a third, with equal and with different symbols; and it changes
  the name of one metric.
- *Adapters*: a log of four lines has the newest record first, in the middle or
  last, one at, before and after the cutoff, the same query twice at one time, a
  record that is not one, and one beyond the limit of three. One query and one
  expression of a rule have a pattern beside a symbol. Three parts of an
  expression put a quoted, escaped or templated attribute before, after and
  between others and strings that look like attributes. Two uses by one consumer, by
  one or by two endpoints, agree or conflict. A tree with the same name at depths 1
  to 3 lets `**` stand for no, one or two segments, twice in one pattern; two
  metadata rules and three CODEOWNERS lines give a last match that is not the
  first, one that leaves a path unassigned, and one that is not valid.
- *Migration input*: validation looks at changes one by one and then for
  duplicates, so one change in every form and two for duplicates cover it. Names
  are two per symbol, equal or not. A diff of two changes with two entries has a
  missing, a superfluous, a duplicate and an ambiguous decision.

`CHECK_DEADLOCK FALSE` is set because every one of these programs ends.

### Fairness

- `ImpactPaths`, `Evaluation`: weak fairness of the whole next-state relation.
  They are sequential loops without blocking calls; the goroutine keeps running.
- `AnalysisPipeline`: weak fairness of `Step`, the command's own steps. `Cancel`
  is the caller's and never fair. A load that hangs is a load that fails at the
  latest with its deadline (HTTP clients have timeouts, files are local).
- `AgentProcess`: weak fairness of Run's own steps, of the copiers, of the end of
  the stdin copier once no process holds the pipes, of the watcher, of reaping an
  ended child, and of `Deadline`, because `context.WithTimeout` fires. Nothing is
  assumed of the child: it may print or hang for ever. Nothing is assumed of a
  descendant either, which is why `CallReturns` excepts a descendant that
  runs for ever and `agent_process_descendant` fails.
- `GraphBuild`, `Remediation`, the adapters and `MigrationInput`: safety only. The
  adapters are bounded loops over an input that was read, and a request ends at
  the latest with its deadline.

`Cancel` models callers of `analysis.Run` that end its context. `cmd/tmr` passes
`context.Background()`, so the command itself never takes that action.

## 4. Proofs

`tlapm` checks all of these for every value of the constants, under the named
assumptions of the modules, which TLC evaluates on every run. Most say that a
constant has its type: names, ranks, limits and inputs. The others say what the
code establishes before the modelled part begins: sets of nodes are disjoint;
the identifiers of consumers found in different files differ
(`IdentifiersAssumption`: an identifier is made of the file, the group and the rule,
and `Evaluate` refuses duplicates); the empty string identifies no change
(`ChangeIDsAssumption`); the missing target of a removal is not even a malformed
symbol (`NilAssumption`); what the PromQL analyzer finds in a
query or expression are symbols and patterns (`AnalysesAssumption`,
`ExpressionAnalysesAssumption`); an alias has the value of a scalar before it
(`AliasesAssumption`); no symbol is named as redaction would name it
(`RedactionAssumption`: `[REDACTED]` is not part of a metric's name); what Perses names by kind and name is a consumer
(`UsersAssumption`); `SortedPaths`
is an order of the paths (`SortedPathsAssumption`), which are relative (`PathsAreRelative`).

**`ImpactPathsProofs`**. `SearchInvariant` is the inductive invariant. The claim
itself, "at the end the reported nodes are the dependents", says nothing of the
middle, so it is strengthened by: *sound*, nothing visited that does not depend on
the start; *expanded*, each visited node waits in the queue, is being expanded
with its unvisited successors in `todo`, or has only visited successors;
*frontier*, what is queued is visited and `todo` are real successors; *recorded*,
the ends of `paths` are the visited nodes but the start. When queue and `todo`
are empty, *expanded* says that `visited` is closed, so by leastness it contains
the dependents; *sound* is the other inclusion. That is `SearchIsExact`.
`SearchRefinesDiscovery`: every step maps to a step of `Reachability` or a
stutter. `FirstOf` needs that an order on naturals is well founded, from the
library.

The quality of the paths needs a second invariant, `PInv` (`LevelInvariant`): each
path is a simple path of real edges to its end, and the queue keeps to the levels
of the graph. A node at the head of the queue has a path of some length n; all
that waits has a path of n or n + 1, in this order; all nodes within distance n
(the set `Ball`) have been visited, and what is found next is at distance n + 1. From
it `EvidenceIsPaths` and `PathsAreShortest`. `Ball` is a function defined by
recursion over the naturals. That such a function exists is proved from its
finite approximations, and in place of an induction the smallest counterexample
is taken.

**`GraphBuildProofs`**. The two claims about a finished construction say nothing
of the loops, so the invariant `IInv` adds to the types and to the agreement of
the three indexes (`AdjacencyIsConsistent`) that the graph is what the rows read so
far make of it (`Reading`), and that the phase `error` was entered on a
contradiction. `ItemStep` is one round for references and productions alike; that
a consumer found among the nodes is a discovered one, and not a symbol, is
`NodesAssumption`. From it `GraphIsTheEvidence` and `RefusalIsExact`.

**`EvaluationProofs`**. The invariant (`Decided`) says that every recorded class,
status and the summary is what `Readiness` makes of the arguments. From it:
`RequiredFailureSafe`, `ReadyIsSafe` (no blocking consumer depends on a
contract that goes away and not on its replacement) and `ReadyHasNoCriticalUnknown`,
which together are `ReadyVerdictIsSafe`; `BlockedIsExact`, `SummaryIsConsistent`
(the counts of a summary are cardinalities of sets that partition the consumers),
and `WorstIsKept`, whose own invariant is a maximum over the changes seen so far.

**`AnalysisPipelineProofs`**. `PipelineInv` has a part for the types; `Outcome`,
when there is a status and when an exit code; `Evidence`, that the discovery holds
exactly the extractions of the inputs that are `loaded` and have not `failed`;
and `Progress`, that as long as the context lives each input of the sources
behind the current one has been tried, or the source itself has failed. With it
come two parts of their own: `Overlaps`, that a consumer appears twice only where
two loads share it by design, and `Diagnostics`, that the verdict hears of each
failed required source and of nothing else. From these the five properties of
the run: `TypeCorrect`, `VerdictsAreOnAllEvidence` (no verdict on part of the
evidence), `OptionalFailuresAreAdvisory`, `OverlapsDoNotRepeat`, `ExitCodes`.

**`RemediationProofs`**. The invariant has three parts: `Inputs`, every file has
one of its contents and the discovery is the analysis of those that were read;
`Protocol`, nothing is validated before an answer was accepted, and then in its
order; and `Sound`, for each validated candidate: it answers a target, has passed
every check on a content its file has had, and carries the verdict of its
simulation. `SimulationsAreReanalyses` rests on `ReplacingIsAnalyzing`, which is about sets of
files: identifiers of different files differ, so cutting out one file's consumers
removes its references and productions and no others. Further: `PatchesHitTheirTargets`;
`ValidatedCandidatesMigrate`; `ProvenanceIsExact`, the target
made for a change passes the provenance check exactly when redaction leaves both
symbols alone and the identifier it is sent under is that of a change with the same
symbols (so a collision is harmless only between changes that ask for the same);
and from it `CandidatesAnswerTheirChanges`. That argument goes through the
redaction: a target that passes has symbols that are names, which no redacted name
is (`RedactedName`), so its own change has them (`RedactedSymbol`), the
classification it was chosen for is the one of the change it is reported for
(`SameClassification`), and the references of its consumer are those of its
expression (`OwnReferences`).

**`MigrationInputProofs`**. What a loaded migration is says nothing of a load in
progress, so the invariant `IInv` follows the documents: `OfManifest`, a manifest
that was loaded is one `Accepts` allows; `Read`, the changes taken from a diff are
those of its wanted items, in their order, by an injection into the items read so
far; `Decided`, each decision is the one that the entries for its change stand
for, no change has two, and in the end no entry is left over; `Collected`, the
migration consists of the mapped decisions gone through so far, again by an
injection; and `Outcome`, an import that failed could not have been resolved and
one that is incomplete has a change without a decision. That nothing is left over is
a counting argument: as many entries as wanted changes, and none for anything else, so none has two
(`NoEntryTwice`). From it `TypeCorrect`, `ManifestsAreDescriptions` (both
directions: what is loaded was legal, field by field, and what was legal is
loaded), and `ImportsAreResolved`.

**`AgentProcessProofs`**. The invariant has a part for the streams (what was
taken is a prefix of what was written, and `Holds` for each buffer) and a part for
the result (a nil error while draining means that the child left with 0 and the
watcher never fired). `BuffersAreExact` rests on the lemma `WriteHolds`, on what
one `Write` does to a prefix; `SuccessIsReal` on the fact that the drain
ends only when all that was written was taken, and on the part for the result,
from which `ReportIsRight` follows as well: where the watcher fired, the context has
ended and `waitErr` is set, so the context names the reason.

**`AdaptersProofs`**. A behaviour is a call of one adapter, so each has its own
invariant, and that no other adapter moves is one lemma (`RuntimeMoves` and its
like). `TempoInv` says which queries are through, and that each has left a
consumer, resolved and with its references only if Tempo accepted it and the
scanner was sure (`ManifestsAreComplete`); its part `Understood` says that an
accepted query was read as what it was written with (`AcceptedQueriesAreRead`). `RuntimeInv` relates the events to the
lines they were read from, by an injection that keeps their order, the record
counter to the number of records so far, and the aggregates to the events of the
window that the second loop has passed; that the newest event exists is a lemma
on finite sets (`GreatestOfFinite`). It yields `LogsAreAccounted`: count, first and last
time, latest line and origins of each query are those of the log. `OwnershipInv`
keeps, for the rules as loaded, a `Provenance`: which rule of which file each one
is, in the order of patterns, paths and lines, none missing of the files loaded so
far. So the last rule that matches is the last one in the files
(`LastRuleCounts`), and `OwnersAreTheBestEvidence` follows by the ranks. That evidence is
never chosen among half of the rules is the part of the invariant that says the
loop over consumers begins with all files loaded or does nothing.

`PersesInv` has to speak of a builder in the middle of three nested loops. Its
centre is `StatesAre(S, states, places)`: the consumers are those that the tellings
`S` name, the expression of a rule is the least one told of it, it is unresolved
and diagnosed exactly if two differ, and the references are those of the
tellings, no more. What changes with the program counter is `S` only: between two answers all
that the endpoints have said; in an answer what its first entries say
(`SaidBy`); in an entry also what its usage says of the targets it has been told of
(`ToldOfAll`); and in its usage what the first uses say of the current one
(`ToldOf`). `StateGrows` is one use, and the lemmas `OneMoreUse`, `OneMoreTarget`,
`OneMoreEntry` and `AllRead` turn the end of a loop into one step of the loop around
it. Beside it goes `Complained`, that an entry read without being told in full
has a diagnostic. From it `UsageIsTheEvidence`; the least
expression, a choice in the property, exists because a rule has one that is no
greater than any other.

`PatternsMeanTheirFiles` is about a recursion over data, `matchSegments`. The
reference definition is generalised to ends of a pattern and of a path (`From`), which
obeys the same recursion (`FromRecurs`); so the recursive function exists
(`FromSolves`), and a place where another solution differed would have a successor
where it did (`SolutionIsFrom`). What remains is that no walk starts below a file the
pattern means (`MatchStartsAtRoot`): literal segments end where they stand
(`LiteralEnds`). The assumption `PathsAreRelative` excludes the absolute paths of the hazard at
`files.go:91`. That a pattern without files is diagnosed is `ReportInv`.

`AcceptedQueriesAreRead` is about recursions too: the scanner finds in
`Expression(parts)`, for parts of any kind, number and length, exactly the clear
attributes among them, and a doubt if and only if one of them leaves it
(`AnalyzeInvertsExpression`). Each of the scanner's recursions looks only at
positions further on and stops behind the last one, so it has a solution with
values of the right type (`RecursionSolves`, applied to skipping, to reading a quoted name,
to reading a name and to scanning). Then, from back to front (`Backwards`, a least
counterexample): what begins with an escaped text and its quote is read back as that
text (`ReadsQuoted`), skipping ends behind the quote (`SkipsQuoted`, `SkipsRaw`),
an unquoted name ends at the operator (`ReadsPlain`), and a word adds nothing
(`WordScanned`). `PartAdds` puts them together for one part, `RestScanned` for those
that follow. What an author may not write is in `WellWritten`: a part that is
not quoted must not contain what would end it or make it an attribute.
`AttributesAssumption` says that the attributes spelled out are among the
names, from which `TypesAreKept`, the types of all four adapters, follows without a
hypothesis.

`EvidenceReachesTheVerdict` composes the adapters with the readiness policy, for every
migration and policy. Each adapter says which consumers its input names as users
of the old contract, certain or possible (`Concerned`: by the lines of a log, by the
parts of an expression and the first mapping of each, by what endpoints told), and
its invariant says that these are consumers of the discovery with a reference
to the old symbol or a doubt (`LogIsSuspected`, `ManifestIsSuspected`,
`ServiceIsSuspected`). A reference is an edge of the impact graph, hence an impact
under transitive and direct policies alike (`UserIsImpacted`), so the
classification is one of the three that keep the old contract in sight
(`SuspicionIsClassified`). The invariants of the adapters are needed for more than their own
properties here: `FoundInLog` says that every symbol and pattern of a query that is
understood has its reference, which `NoObservationIsLost` does not ask for. A query
or an expression with a pattern is concerned by every change: the pattern's
reference needs resolution, which the classification takes for a doubt.

Every invariant of a passing run is thus a theorem. Only model-checked: all
liveness, and the refinement's fairness.

## 5. Not modelled, and why

- Flag parsing, `-help` (exit 0), `validate`, rendering and wording: no state.
- Decoding of YAML and JSON documents, and the parsers of PromQL and TraceQL that
  belong to other projects.
- Size limits of single files and texts: one comparison each, before any state.
- `config.go`: defaults and field checks of one document, with no decision that
  depends on another part. One field is validated and then read by nobody
  (`unresolvedReferencePolicy`), so it is not in `Policy`.
- The explanation protocol: the packet sent and the checks of the answer, each
  of one field. The provider's process is `AgentProcess`; no answer reaches the verdict
  (`ExitCodeIsTheVerdict` covers `explain`).
- Grafana, Sloth and Pyrra documents and the walk of a PromQL syntax tree: what
  they yield is what `Remediation` and `AnalysisPipeline` take from a file. The
  choice of panels, data sources and label positions is data without control.
- HTTP: redirects, status codes and bearer tokens are an answer or none.
- The sort of validated candidates and of targets: order for output only. Which of two
  targets with the same redacted identifiers comes first, and is kept, is a choice of
  `OneOfEach`.

## 6. Plan

Done: search, graph, readiness, evaluation, pipeline, provider process and
remediation; the adapters of logs and services, the TraceQL scanner, ownership,
source expansion, the migration manifest and the Weaver import. Proofs: search,
graph construction, evaluation, pipeline, remediation, process, migration input,
the adapters and ownership.

Left, in the order of what a wrong answer would cost:

1. The loop of `AnalysisPipeline` over one Tempo source refined by `TempoQueries`.
2. The explanation protocol, and Grafana's choice of queries.

## 7. Running

    tlc -config ImpactPaths.cfg MCImpactPaths.tla
    tlapm ImpactPathsProofs.tla

`PROJECT.json` lists every run with its module, configuration and expected
outcome, for each property a mutant of the model that the run must reject (a
definition with a suffix, such as `Extend_depthFirst`, beside the one it would
replace), and for each definition the lines it models.
