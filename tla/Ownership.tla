------------------------------ MODULE Ownership ------------------------------
(***************************************************************************)
(* Ownership enrichment (internal/ownership): each consumer gets the owner *)
(* the best evidence names, out of rules in metadata files, the adapter    *)
(* itself, a CODEOWNERS file and the tags of a dashboard.  All files are   *)
(* advisory: what cannot be used is diagnosed and passed over.             *)
(*                                                                         *)
(* Paths are relative to the repository's root.  A tag stands for the      *)
(* owner it names ("team:", "owner:" or "owned-by:").  The kind of a       *)
(* consumer, which a metadata rule may ask for like for its identifier, is *)
(* left out.                                                               *)
(***************************************************************************)
EXTENDS LoaderCall, SourcePatterns

CONSTANTS Owners,
          NoPath, NoPattern, NoOwner, NoConsumer,  \* options that are not set
          SortedPaths,  \* all paths, in the order of their texts
          Repositories  \* the calls considered, each with the files of its repository

SearchOrder == << <<".github", "CODEOWNERS">>, <<"CODEOWNERS">>, <<"docs", "CODEOWNERS">> >>

Segments == UNION {Range(SortedPaths[i]) : i \in DOMAIN SortedPaths} \cup {"*", "**"}
PathPattern == [segments : Seq(Segments), anchored : BOOLEAN, directoryOnly : BOOLEAN]
MetadataRule == [path : PathPattern \cup {NoPattern}, consumer : ConsumerIDs \cup {NoConsumer},
                 tag : Owners \cup {NoOwner}, owner : Owners]
CodeownersLine == [valid : BOOLEAN, pattern : PathPattern, owners : SUBSET Owners]

(* A file that cannot be read or parsed, or is a link out of the            *)
(* repository, is "broken".                                                 *)
File == [kind : {"metadata", "codeowners", "broken", "directory"},
         rules : Seq(MetadataRule), lines : Seq(CodeownersLine)]

OwnedConsumer == [id : ConsumerIDs, path : Range(SortedPaths) \cup {NoPath},
                  tags : SUBSET Owners, owner : Owners \cup {NoOwner}]

(* A repository, the discovery of the loaders and how it is configured to   *)
(* be enriched.                                                             *)
IsRepository(s) ==
    /\ s.adapter = "ownership" /\ s.required = FALSE
    /\ {s.enabled, s.dashboardTags, s.codeowners} \subseteq BOOLEAN
    /\ s.codeownersPath \in Range(SortedPaths) \cup {NoPath}
    /\ s.metadata \in Seq(Seq(Segments) \ {<< >>})
    /\ DOMAIN s.files \subseteq Range(SortedPaths)
    /\ \A p \in DOMAIN s.files : s.files[p] \in File
    /\ s.consumers \in Seq(OwnedConsumer)
    /\ s.discovery \in [consumers : Seq(Consumer), references : SUBSET Reference,
                        productions : SUBSET Production,
                        diagnostics : SUBSET [required : BOOLEAN, place : {Whole}]]

-----------------------------------------------------------------------------
(* compilePathMatcher and Match: the regular expression it builds, as a     *)
(* pattern of segments.  A name without a slash matches at every depth, a   *)
(* last segment without wildcards also what is below; a final ** needs one  *)
(* segment at least.                                                        *)
pathMatches(p, path) ==
    LET single == Len(p.segments) = 1
        last == p.segments[Len(p.segments)]
        below == p.directoryOnly \/ single \/ last \notin {"*", "**"}
        middle == IF last = "**"
                    THEN SubSeq(p.segments, 1, Len(p.segments) - 1) \o <<"*", "**">>
                    ELSE p.segments
    IN  /\ path # NoPath
        /\ matchSegments((IF single /\ ~ p.anchored THEN <<"**">> ELSE << >>)
                           \o middle \o (IF below THEN <<"**">> ELSE << >>), path)

ruleMatches(rule, consumer) ==
    /\ rule.path # NoPattern => pathMatches(rule.path, consumer.path)
    /\ rule.consumer # NoConsumer => rule.consumer = consumer.id
    /\ rule.tag # NoOwner => rule.tag \in consumer.tags

(* evidence: its rank, the owners it names and those it cannot decide       *)
(* between.  With rank 2 no owner means that the path is unassigned.        *)
NoEvidence == [rank |-> 0, owners |-> {}, candidates |-> {}]

tagEvidence(tags) ==
    IF tags = {} THEN NoEvidence
    ELSE [rank |-> 1, candidates |-> tags, owners |-> IF Cardinality(tags) = 1 THEN tags ELSE {}]

evidenceFromCodeowners(line) == [rank |-> 2, owners |-> line.owners, candidates |-> line.owners]

existingOwnerEvidence(consumer) ==
    IF consumer.owner = NoOwner THEN NoEvidence
    ELSE [rank |-> 3, owners |-> {consumer.owner}, candidates |-> {}]

metadataEvidence(rule) == [rank |-> 4, owners |-> {rule.owner}, candidates |-> {}]

(* Mutant: evidence that names no owner is no evidence. *)
chooseEvidence_named(current, candidate) ==
    IF candidate.rank > current.rank /\ candidate.owners # {} THEN candidate ELSE current

chooseEvidence(current, candidate) == IF candidate.rank > current.rank THEN candidate ELSE current

-----------------------------------------------------------------------------
Init == /\ source \in Repositories
        /\ work = [rules |-> << >>, loaded |-> {}, codeowners |-> << >>, evidence |-> << >>]
        /\ Begin("enrich", source.discovery)

(* Enrich returns the error of the context, and the engine ends with it. *)
Abandon == /\ ctx = "ended"
           /\ pc' = "failed"
           /\ UNCHANGED <<source, ctx, at, work, discovery>>

(* Not enabled: only the tags that nobody else reads are dropped. *)
Enrich == /\ pc = "enrich"
          /\ \/ ~ source.enabled /\ pc' = "loaded"
             \/ source.enabled /\ ctx = "live" /\ pc' = "metadata"
          /\ UNCHANGED <<source, ctx, at, work, discovery>>

RefuseToEnrich == pc = "enrich" /\ source.enabled /\ Abandon

Issues(places) == [discovery EXCEPT
    !.diagnostics = @ \cup {[required |-> FALSE, place |-> p] : p \in places}]

(* loadMetadataRules: the files of a pattern.                               *)
Pattern == source.metadata[at + 1]
Unread == Expand(DOMAIN source.files, Pattern).files \ work.loaded

PatternWithoutFiles ==
    /\ pc = "metadata"
    /\ ctx = "live"
    /\ at < Len(source.metadata)
    /\ Expand(DOMAIN source.files, Pattern).files = {}
    /\ discovery' = Issues({<<"pattern", Pattern>>})
    /\ at' = at + 1
    /\ UNCHANGED <<source, ctx, work, pc>>

ExpandPattern == /\ pc = "metadata"
                 /\ ctx = "live"
                 /\ at < Len(source.metadata)
                 /\ Expand(DOMAIN source.files, Pattern).files # {}
                 /\ pc' = "files"
                 /\ UNCHANGED <<source, ctx, at, work, discovery>>

(* The least of them that no earlier pattern has named.                     *)
LoadFile ==
    /\ pc = "files"
    /\ \E i \in DOMAIN SortedPaths :
          LET path == SortedPaths[i]
          IN  /\ path \in Unread
              /\ \A j \in 1 .. i - 1 : SortedPaths[j] \notin Unread
              /\ IF source.files[path].kind = "metadata"
                    THEN /\ work' = [work EXCEPT !.loaded = @ \cup {path},
                                                 !.rules = @ \o source.files[path].rules]
                         /\ UNCHANGED discovery
                    ELSE /\ work' = [work EXCEPT !.loaded = @ \cup {path}]
                         /\ discovery' = Issues({<<"file", path>>})
    /\ UNCHANGED <<source, ctx, at, pc>>

LeavePattern == /\ pc = "files"
                /\ Unread = {}
                /\ at' = at + 1
                /\ pc' = "metadata"
                /\ UNCHANGED <<source, ctx, work, discovery>>

(* The rest of the patterns is left out, without an error, when the context *)
(* has ended.                                                               *)
LeaveMetadata == /\ pc = "metadata"
                 /\ at = Len(source.metadata) \/ ctx = "ended"
                 /\ pc' = "codeowners"
                 /\ UNCHANGED <<source, ctx, at, work, discovery>>

(* The first of them is the one that is used.                               *)
findCodeowners ==
    LET candidates == IF source.codeownersPath # NoPath THEN <<source.codeownersPath>>
                      ELSE SearchOrder
    IN  {candidates[i] : i \in {i \in DOMAIN candidates :
            /\ candidates[i] \in DOMAIN source.files
            /\ \A j \in 1 .. i - 1 : candidates[j] \notin DOMAIN source.files}}

(* work.codeowners are the lines of the file, of which the valid ones are   *)
(* rules.                                                                   *)
LoadCodeowners ==
    /\ pc = "codeowners"
    /\ IF ~ source.codeowners \/ ctx = "ended" THEN UNCHANGED <<work, discovery>>
       ELSE IF findCodeowners = {}
         THEN /\ discovery' = IF source.codeownersPath # NoPath
                                THEN Issues({<<"file", source.codeownersPath>>}) ELSE discovery
              /\ UNCHANGED work
       ELSE \E path \in findCodeowners :
              LET lines == source.files[path].lines
              IN  IF source.files[path].kind # "codeowners"
                    THEN discovery' = Issues({<<"file", path>>}) /\ UNCHANGED work
                    ELSE /\ discovery' = Issues({<<"line", i>> : i \in {i \in DOMAIN lines : ~ lines[i].valid}})
                         /\ work' = [work EXCEPT !.codeowners = lines]
    /\ pc' = "consumers"
    /\ at' = 0
    /\ UNCHANGED <<source, ctx>>

lastOf(indexes) == CHOOSE i \in indexes : \A j \in indexes : j <= i

(* The last rule that matches counts, of CODEOWNERS and of the metadata. *)
selectedEvidence(consumer) ==
    LET owned == {i \in DOMAIN work.codeowners : /\ work.codeowners[i].valid
                                                 /\ pathMatches(work.codeowners[i].pattern, consumer.path)}
        ruled == {i \in DOMAIN work.rules : ruleMatches(work.rules[i], consumer)}
        tagged == IF source.dashboardTags
                    THEN chooseEvidence(existingOwnerEvidence(consumer), tagEvidence(consumer.tags))
                    ELSE existingOwnerEvidence(consumer)
    IN  IF ruled # {} THEN metadataEvidence(work.rules[lastOf(ruled)])
        ELSE IF owned # {} THEN chooseEvidence(tagged, evidenceFromCodeowners(work.codeowners[lastOf(owned)]))
        ELSE tagged

Assign == /\ pc = "consumers"
          /\ ctx = "live"
          /\ at < Len(source.consumers)
          /\ work' = [work EXCEPT !.evidence = Append(@, selectedEvidence(source.consumers[at + 1]))]
          /\ at' = at + 1
          /\ UNCHANGED <<source, ctx, discovery, pc>>

StopAssigning == pc = "consumers" /\ at < Len(source.consumers) /\ Abandon

EndOfConsumers == /\ pc = "consumers"
                  /\ at = Len(source.consumers)
                  /\ pc' = "loaded"
                  /\ UNCHANGED <<source, ctx, at, work, discovery>>

Next == \/ Enrich \/ RefuseToEnrich \/ PatternWithoutFiles \/ ExpandPattern \/ LoadFile \/ LeavePattern
        \/ LeaveMetadata \/ LoadCodeowners \/ Assign \/ StopAssigning \/ EndOfConsumers

Spec == Init /\ [][Next \/ Cancel]_vars

-----------------------------------------------------------------------------
(* Properties                                                               *)

TypeOK == /\ source.consumers \in Seq(OwnedConsumer)
          /\ pc \in {"enrich", "metadata", "files", "codeowners", "consumers", "loaded", "failed"}
          /\ work.rules \in Seq(MetadataRule)
          /\ work.codeowners \in Seq(CodeownersLine)
          /\ work.loaded \subseteq DOMAIN source.files
          /\ Len(work.evidence) <= Len(source.consumers)
          /\ discovery.consumers \in Seq(Consumer)
          /\ discovery.references \subseteq Reference
          /\ discovery.productions \subseteq Production
          /\ \A x \in discovery.diagnostics : x.required \in BOOLEAN

(* A pattern finds exactly the files it means, in whatever directory the    *)
(* walk starts, and one that finds none leaves a diagnostic.                *)
PatternsFindTheirFiles ==
    \A k \in DOMAIN source.metadata :
        LET pattern == source.metadata[k]
            meant == {p \in DOMAIN source.files :
                        Matches(IF hasMeta(pattern) THEN pattern ELSE pattern \o <<"**">>, p)}
        IN  /\ Expand(DOMAIN source.files, pattern).files = meant
            /\ pc = "consumers" /\ ctx = "live" =>
                  /\ meant \subseteq work.loaded
                  /\ meant = {} => Diagnosed(<<"pattern", pattern>>)

Usable(path, kind) == path \in DOMAIN source.files /\ source.files[path].kind = kind
MetadataFiles == {p \in DOMAIN source.files : \E k \in DOMAIN source.metadata :
                    p \in Expand(DOMAIN source.files, source.metadata[k]).files}

(* <<k, p, i>>: rule i of file p, which pattern k is the first to name.     *)
RulesFor(consumer) ==
    LET Named(k, p) == p \in Expand(DOMAIN source.files, source.metadata[k]).files
        Naming(p) == {k \in DOMAIN source.metadata : Named(k, p) /\ \A j \in 1 .. k - 1 : ~ Named(j, p)}
        Matching(p) == {i \in DOMAIN source.files[p].rules : ruleMatches(source.files[p].rules[i], consumer)}
    IN  UNION {{<<k, p, i>> : k \in Naming(p), i \in Matching(p)} :
                  p \in {p \in MetadataFiles : Usable(p, "metadata")}}
Later(a, b) == LET position(p) == CHOOSE i \in DOMAIN SortedPaths : SortedPaths[i] = p
               IN  \/ a[1] > b[1]
                   \/ a[1] = b[1] /\ position(a[2]) > position(b[2])
                   \/ a[1] = b[1] /\ a[2] = b[2] /\ a[3] >= b[3]

(* The CODEOWNERS lines that speak of a consumer: of the configured file,   *)
(* or of the first one GitHub would look at.                                *)
CodeownersPath ==
    IF source.codeownersPath # NoPath THEN source.codeownersPath
    ELSE LET there == {i \in DOMAIN SearchOrder : SearchOrder[i] \in DOMAIN source.files}
         IN  IF there = {} THEN NoPath
             ELSE SearchOrder[CHOOSE i \in there : \A j \in there : i <= j]
LinesFor(consumer) ==
    IF source.codeowners /\ CodeownersPath # NoPath /\ Usable(CodeownersPath, "codeowners")
      THEN {i \in DOMAIN source.files[CodeownersPath].lines :
              LET l == source.files[CodeownersPath].lines[i]
              IN  l.valid /\ pathMatches(l.pattern, consumer.path)}
      ELSE {}

(* When the enrichment succeeds, the owner of a consumer is the one that    *)
(* the best evidence in all configured files names: the last metadata rule, *)
(* else its adapter, else the last CODEOWNERS line, which may leave the     *)
(* path unassigned on purpose, else an unambiguous tag; never the evidence  *)
(* of files that happened to be read before the context ended.  And it is   *)
(* advisory: the evidence the verdict rests on is the same, and no failure  *)
(* is a required one.                                                       *)
OwnerIsTheBestEvidence ==
    pc = "loaded" /\ source.enabled =>
        /\ \A n \in DOMAIN source.consumers :
              LET c == source.consumers[n]
                  rules == RulesFor(c)
                  lines == LinesFor(c)
                  owners == work.evidence[n].owners
              IN  IF rules # {}
                    THEN \E r \in rules : /\ \A q \in rules : Later(r, q)
                                          /\ owners = {source.files[r[2]].rules[r[3]].owner}
                  ELSE IF c.owner # NoOwner THEN owners = {c.owner}
                  ELSE IF lines # {}
                    THEN \E i \in lines : /\ \A j \in lines : j <= i
                                          /\ owners = source.files[CodeownersPath].lines[i].owners
                  ELSE IF source.dashboardTags /\ Cardinality(c.tags) = 1 THEN owners = c.tags
                  ELSE owners = {}
        /\ \A field \in {"consumers", "references", "productions"} :
              discovery[field] = source.discovery[field]
        /\ \A x \in discovery.diagnostics \ source.discovery.diagnostics : ~ x.required
=============================================================================
