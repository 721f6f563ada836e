----------------------------- MODULE PersesUsage -----------------------------
(***************************************************************************)
(* The Perses metrics-usage adapter (adapters/persesusage): three          *)
(* endpoints of a service say which dashboards and rules use a metric, a   *)
(* pattern of metrics, or a metric the service does not know yet.  A       *)
(* consumer is put together from all that the three say of it.             *)
(*                                                                         *)
(* A rule is identified by its kind and name (its group and link, the rest *)
(* of its identity, are the same here), a dashboard by its UID.  A PromQL  *)
(* expression is a number, 0 the empty one, in the order of their texts;   *)
(* what the analyzer finds in each is a constant.                          *)
(***************************************************************************)
EXTENDS LoaderCall

CONSTANTS ExpressionAnalyses,  \* ExpressionAnalyses[e], e > 0: what pkg/promql finds
          Services             \* the sources considered, with what they would answer

Rules == {"recording_rule", "alert_rule"}
IDOf(use) == [kind |-> use.kind, name |-> use.name]

(* One entry of a response.  Its document may be null and so may the usage  *)
(* of its document, an empty sequence; only a partial metric has matching   *)
(* ones.  NoName stands for a blank name.                                   *)
Use == [kind : Rules \cup {"dashboard"}, name : Names \cup {NoName}, expression : {0} \cup DOMAIN ExpressionAnalyses]
Entry == [metric : Names \cup {NoName}, null : BOOLEAN, usage : Seq(Use),
          matching : SUBSET (Names \cup {NoName})]

Service == [adapter : {"perses_usage"}, required : BOOLEAN,
            answers : [metrics : Seq(Entry), partial : Seq(Entry), pending : Seq(Entry)]]

Endpoints == <<"metrics", "partial", "pending">>

-----------------------------------------------------------------------------
(* work: the states of the consumers by identifier (builder.consumers), the *)
(* endpoints that answered, and how far the loops over the current answer   *)
(* are: the number of entries that are through, the targets the usage of    *)
(* the next one was told of, the current target and the number of uses.     *)
NoTarget == [metric |-> NoName, partial |-> FALSE]

Init == /\ source \in Services
        /\ work = [states |-> << >>, answered |-> {}, entry |-> 0, told |-> {}, target |-> NoTarget, use |-> 0]
        /\ Begin("metrics", EmptyDiscovery)

Endpoint == Endpoints[at + 1]
Asking == pc = "metrics" /\ at < Len(Endpoints)

(* An endpoint answers, with a document that decodes. *)
Answers == /\ Asking
           /\ ctx = "live"
           /\ work' = [work EXCEPT !.answered = @ \cup {Endpoint}, !.entry = 0]
           /\ pc' = "entries"
           /\ UNCHANGED <<source, ctx, at, discovery>>

-----------------------------------------------------------------------------
(* addMetrics, addPartialMetrics and addPendingUsage.                       *)
Reading == pc = "entries" /\ work.entry < Len(source.answers[Endpoint])
CurrentEntry == source.answers[Endpoint][work.entry + 1]
Usable(entry) == entry.metric # NoName /\ ~ entry.null

SkipEntry == /\ Reading
             /\ ~ Usable(CurrentEntry)
             /\ discovery' = WithDiagnostic(discovery, <<"metric", CurrentEntry.metric>>)
             /\ work' = [work EXCEPT !.entry = @ + 1]
             /\ UNCHANGED <<source, ctx, at, pc>>

(* What the usage of an entry is told of: its metric, or its pattern and    *)
(* then the matching metrics, which are confirmed uses.                     *)
Target(metric, partial) == [metric |-> metric, partial |-> partial]
Targets(endpoint, entry) ==
    {Target(entry.metric, endpoint = "partial")}
      \cup {Target(m, FALSE) : m \in IF endpoint = "partial" THEN entry.matching \ {NoName} ELSE {}}

EnterEntry ==
    /\ Reading
    /\ Usable(CurrentEntry)
    /\ discovery' = IF /\ Endpoint = "partial" /\ CurrentEntry.usage # << >>
                       /\ NoName \in CurrentEntry.matching
                      THEN WithDiagnostic(discovery, <<"metric", CurrentEntry.metric>>) ELSE discovery
    /\ work' = [work EXCEPT !.told = {}]
    /\ pc' = "targets"
    /\ UNCHANGED <<source, ctx, at>>

(* The matching metrics come sorted by name; names have no order here.      *)
NextTarget ==
    /\ pc = "targets"
    /\ \E t \in Targets(Endpoint, CurrentEntry) \ work.told :
          /\ work.told = {} => t = Target(CurrentEntry.metric, Endpoint = "partial")
          /\ work' = [work EXCEPT !.target = t, !.use = 0]
    /\ pc' = "usage"
    /\ UNCHANGED <<source, ctx, at, discovery>>

LeaveEntry == /\ pc = "targets"
              /\ Targets(Endpoint, CurrentEntry) \subseteq work.told
              /\ work' = [work EXCEPT !.entry = @ + 1]
              /\ pc' = "entries"
              /\ UNCHANGED <<source, ctx, at, discovery>>

EndOfAnswer == /\ pc = "entries"
               /\ work.entry = Len(source.answers[Endpoint])
               /\ at' = at + 1
               /\ pc' = "metrics"
               /\ UNCHANGED <<source, ctx, work, discovery>>

-----------------------------------------------------------------------------
Metric(name) == [domain |-> "prometheus", kind |-> "metric", parent |-> NoName, name |-> name]
Reads(metric) == [symbol |-> Metric(metric), requiresResolution |-> FALSE, scope |-> ""]
MayRead(pattern) == [symbol |-> Metric(pattern), requiresResolution |-> TRUE, scope |-> ""]
MayUseLabelsOf(metric) == [symbol |-> Metric(metric), requiresResolution |-> TRUE, scope |-> "labels"]

(* addUsage, for one dashboard or rule.                                     *)
Telling == pc = "usage" /\ work.use < Len(CurrentEntry.usage)
CurrentUse == CurrentEntry.usage[work.use + 1]

NewState(use) == [expression |-> use.expression, unresolved |-> FALSE, references |-> {}]
StateOf(use) == IF IDOf(use) \in DOMAIN work.states THEN work.states[IDOf(use)] ELSE NewState(use)

SkipUse == /\ Telling
           /\ CurrentUse.name = NoName
           /\ discovery' = WithDiagnostic(discovery, <<"metric", work.target.metric>>)
           /\ work' = [work EXCEPT !.use = @ + 1]
           /\ UNCHANGED <<source, ctx, at, pc>>

addUsageReference(use, target) ==
    IF target.partial THEN {MayRead(target.metric)}
    ELSE {Reads(target.metric)} \cup (IF use.kind = "dashboard" THEN {MayUseLabelsOf(target.metric)} ELSE {})

(* Different expressions of one rule are a conflict, and the smallest of    *)
(* them is kept.                                                            *)
Conflict(use) == use.kind \in Rules /\ StateOf(use).expression # use.expression

TellUse ==
    /\ Telling
    /\ CurrentUse.name # NoName
    /\ LET use == CurrentUse
           s == StateOf(use)
           told == [expression |-> IF Conflict(use) /\ use.expression < s.expression
                                     THEN use.expression ELSE s.expression,
                    unresolved |-> s.unresolved \/ Conflict(use),
                    references |-> s.references \cup addUsageReference(use, work.target)]
       IN  /\ work' = [work EXCEPT !.use = @ + 1,
                                   !.states = [i \in DOMAIN @ \cup {IDOf(use)} |->
                                                 IF i = IDOf(use) THEN told ELSE @[i]]]
           /\ discovery' = IF Conflict(use) THEN WithDiagnostic(discovery, <<"consumer", IDOf(use)>>)
                           ELSE discovery
    /\ UNCHANGED <<source, ctx, at, pc>>

EndOfUsage == /\ pc = "usage"
              /\ work.use = Len(CurrentEntry.usage)
              /\ work' = [work EXCEPT !.told = @ \cup {work.target}]
              /\ pc' = "targets"
              /\ UNCHANGED <<source, ctx, at, discovery>>

-----------------------------------------------------------------------------
(* Mutant: a supplementary endpoint is passed over. *)
DoesNotAnswer_silently == /\ Asking
                          /\ IF Endpoint = "metrics" THEN Fail
                             ELSE /\ at' = at + 1
                                  /\ UNCHANGED <<source, ctx, work, discovery, pc>>

(* No answer in time, a bad one, or none at all: fatal for the first of     *)
(* them, a diagnostic for the others.                                       *)
DoesNotAnswer == /\ Asking
                 /\ IF Endpoint = "metrics" THEN Fail
                    ELSE /\ discovery' = WithDiagnostic(discovery, <<"endpoint", Endpoint>>)
                         /\ at' = at + 1
                         /\ UNCHANGED <<source, ctx, work, pc>>

-----------------------------------------------------------------------------
CriticalityOf(id) == IF id.kind = "alert_rule" THEN "high" ELSE "medium"

(* analyzeRule: whether the state of a rule stays unresolved, and the       *)
(* references of its expression.                                            *)
NotUnderstood(id, s) ==
    /\ id.kind \in Rules
    /\ s.expression = 0 \/ ExpressionAnalyses[s.expression].unresolved

expressionReferences(id, s) ==
    IF id.kind \notin Rules \/ NotUnderstood(id, s) THEN {}
    ELSE ReferencesIn(ExpressionAnalyses[s.expression])

Owned(id, r) == [consumer |-> id, symbol |-> r.symbol,
                 requiresResolution |-> r.requiresResolution, scope |-> r.scope]

(* build: sorted by identifier; nothing depends on the order. *)
Build ==
    /\ pc = "metrics"
    /\ at = Len(Endpoints)
    /\ LET states == work.states
           ids == Listed(DOMAIN states)
       IN  discovery' =
             [consumers |->
                 [i \in DOMAIN ids |-> [id |-> ids[i], criticality |-> CriticalityOf(ids[i]),
                                        unresolved |-> states[ids[i]].unresolved
                                                         \/ NotUnderstood(ids[i], states[ids[i]])]],
              references |->
                 UNION {{Owned(id, r) : r \in states[id].references
                                                \cup expressionReferences(id, states[id])} :
                           id \in DOMAIN states},
              productions |->
                 {[consumer |-> id, symbol |-> Metric(id.name)] :
                     id \in {id \in DOMAIN states : id.kind = "recording_rule"}},
              diagnostics |->
                 discovery.diagnostics \cup
                 {[required |-> source.required, place |-> <<"consumer", id>>] :
                     id \in {id \in DOMAIN states : NotUnderstood(id, states[id])}}]
    /\ pc' = "loaded"
    /\ UNCHANGED <<source, ctx, at, work>>

Next == \/ Answers \/ SkipEntry \/ EnterEntry \/ NextTarget \/ LeaveEntry \/ EndOfAnswer
        \/ SkipUse \/ TellUse \/ EndOfUsage \/ DoesNotAnswer \/ Build

Spec == Init /\ [][Next \/ Cancel]_vars

-----------------------------------------------------------------------------
(* Properties                                                               *)

TypeOK == /\ \A e \in Range(Endpoints) : source.answers[e] \in Seq(Entry)
          /\ at \in 0 .. Len(Endpoints)
          /\ pc \in {"metrics", "entries", "targets", "usage", "loaded", "failed"}
          /\ DOMAIN work.states \subseteq ConsumerIDs
          /\ work.answered \subseteq Range(Endpoints)
          /\ DiscoveryOK

(* What the endpoints that answered have said: who uses which metric, and   *)
(* whether that metric is only a pattern.                                   *)
Told(u, metric, partial) ==
    [id |-> IDOf(u), expression |-> u.expression, metric |-> metric, partial |-> partial]
UsesOf(e, entry) ==
    LET named == {u \in Range(entry.usage) : u.name # NoName}
    IN  {Told(u, entry.metric, e = "partial") : u \in named}
          \cup (IF e # "partial" THEN {}
                ELSE {Told(u, m, FALSE) : u \in named, m \in entry.matching \ {NoName}})
Said == UNION {UNION {UsesOf(e, x) : x \in {x \in Range(source.answers[e]) : Usable(x)}} :
                 e \in work.answered}

Found == {c.id : c \in Range(discovery.consumers)}

(* What was discovered is what was said, whichever endpoint said it, in     *)
(* whatever order and however often: a dashboard or rule is one consumer, a *)
(* rule told with different expressions or one that is not understood is    *)
(* unresolved, and what was not said (an endpoint that failed, a null       *)
(* document, a use without a name) has left a diagnostic.                   *)
DiscoveryIsTheEvidence ==
    pc = "loaded" =>
        LET of(id) == {u \in Said : u.id = id}
            expressions(id) == {u.expression : u \in of(id)}
            least(id) == CHOOSE e \in expressions(id) : \A f \in expressions(id) : e <= f
            metrics(id, partial) == {u.metric : u \in {u \in of(id) : u.partial = partial}}
        IN  /\ Found = {u.id : u \in Said}
            /\ Len(discovery.consumers) = Cardinality(Found)
            /\ \A c \in Range(discovery.consumers) :
                  LET rule == c.id.kind # "dashboard"
                      unclear == least(c.id) = 0 \/ ExpressionAnalyses[least(c.id)].unresolved
                  IN  /\ c.unresolved <=> rule /\ (Cardinality(expressions(c.id)) > 1 \/ unclear)
                      /\ c.unresolved => Diagnosed(<<"consumer", c.id>>)
                      /\ {r \in discovery.references : r.consumer = c.id} =
                            {Owned(c.id, MayRead(m)) : m \in metrics(c.id, TRUE)}
                              \cup {Owned(c.id, Reads(m)) : m \in metrics(c.id, FALSE)}
                              \cup (IF rule THEN {} ELSE
                                      {Owned(c.id, MayUseLabelsOf(m)) : m \in metrics(c.id, FALSE)})
                              \cup (IF ~ rule \/ unclear THEN {} ELSE
                                      {Owned(c.id, r) : r \in ReferencesIn(ExpressionAnalyses[least(c.id)])})
            /\ {p.consumer : p \in discovery.productions} =
                  {id \in Found : id.kind = "recording_rule"}
            /\ \A e \in Range(Endpoints) \ work.answered : Diagnosed(<<"endpoint", e>>)
            /\ \A e \in work.answered, x \in UNION {Range(source.answers[f]) : f \in work.answered} :
                  x \in Range(source.answers[e]) =>
                      /\ ~ Usable(x) => Diagnosed(<<"metric", x.metric>>)
                      /\ Usable(x) /\ (\E u \in Range(x.usage) : u.name = NoName)
                            => \E m \in {x.metric} \cup x.matching : Diagnosed(<<"metric", m>>)

(* The dashboards and rules that, by what was said of them, use what a      *)
(* change takes away, or may do so: a dashboard, any label of a metric, and *)
(* a rule with a pattern anything.                                          *)
Concerned(change) ==
    {u.id : u \in {u \in Said :
        \/ u.partial
        \/ change.from = Metric(u.metric)
        \/ IF u.id.kind = "dashboard" THEN change.from.kind = "label" /\ change.from.parent = u.metric
           ELSE \/ u.expression = 0
                \/ ExpressionAnalyses[u.expression].unresolved
                \/ ExpressionAnalyses[u.expression].patterns # {}
                \/ change.from \in ExpressionAnalyses[u.expression].symbols}}
=============================================================================
