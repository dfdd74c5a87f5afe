----------------------------- MODULE ReviewQueue -----------------------------
(* From the paths the engine finds to what a reviewer reads first: the      *)
(* findings of the rules (rules/rule-engine.js), the Problems panel         *)
(* (audit-controller.js, review/finding-pool.js) and the review queue       *)
(* (review/targets.js), derived again after every answer of the worker. A   *)
(* search that meets a limit may deliver any part of the paths.             *)
EXTENDS Integers, FiniteSets, Sequences

CONSTANTS
    Programs,           \* the programs analysed: sets of functions
    Rules,              \* [id, sources, sinks, accepts, recommended]
    SinksOf,            \* the sinks a guard is good for, by its capability
    MaxAnswers          \* bound on the answers of the worker

ASSUME RulesDiffer == \A r, s \in Rules : r.id = s.id => r = s
ASSUME RecommendedAreFinite == \A r \in Rules : IsFiniteSet(r.recommended)

VARIABLES
    program,    \* the functions of the workspace
    paths,      \* the paths of the last answer
    statuses,   \* what the reviewer said of the findings
    findings,   \* model.findings
    queue,      \* model.items
    stale,      \* the result awaits a synchronisation
    problems,   \* the Problems panel
    answers
queueVars == <<program, paths, statuses, findings, queue, stale, problems, answers>>

Fn(id) == CHOOSE f \in program : f.id = id
Signals(f, kind) == SelectSeq(f.signals, LAMBDA s : s.kind = kind)
SignalsOf(f, kind) == {f.signals[i] : i \in {j \in DOMAIN f.signals : f.signals[j].kind = kind}}

(* A path: a source, calls, and a sink in the function they lead to; the    *)
(* checks of the functions on its way are steps of it too.                  *)
Chains(p) ==
    LET one == {<<f>> : f \in p}
        Longer(cs) == {Append(c, g) : c \in cs, g \in p} \ {c \in {Append(d, g) : d \in cs, g \in p} :
                          \/ \E i \in 1..Len(c) - 1 : c[i] = c[Len(c)]
                          \/ \A call \in c[Len(c) - 1].calls : call.to # c[Len(c)].id}
    IN  one \union Longer(one) \union Longer(Longer(one))

Step(kind, f, quality) == [kind |-> kind, fn |-> f.id, quality |-> quality]
CallStep(f, g) == Step("call", g, (CHOOSE call \in f.calls : call.to = g.id).quality)

FlowPaths(p) ==
    UNION {{[source |-> s.category, sink |-> t.category,
             steps |-> {Step("source", c[1], s.quality), Step("sink", c[Len(c)], t.quality)}
                       \union {CallStep(c[i], c[i + 1]) : i \in 1..Len(c) - 1}
                       \union UNION {{Step("validation", c[i], v.quality) : v \in SignalsOf(c[i], "sanitizer")}
                                      \union {Step("call", c[i], x.quality) : x \in SignalsOf(c[i], "external")} : i \in DOMAIN c},
             guards |-> UNION {{v.category : v \in {w \in SignalsOf(c[i], "sanitizer") : w.quality = "enforced"}} : i \in DOMAIN c}]
            : s \in SignalsOf(c[1], "source"), t \in SignalsOf(c[Len(c)], "sink")} : c \in Chains(p)}

SinkStep(path) == CHOOSE s \in path.steps : s.kind = "sink"
SourceStep(path) == CHOOSE s \in path.steps : s.kind = "source"
CallsOf(path) == {s.quality : s \in {t \in path.steps : t.kind = "call"}}

Confidence(path) ==
    IF SinkStep(path).quality = "candidate" \/ CallsOf(path) \intersect {"review", "opaque"} # {} THEN "review"
    ELSE IF SinkStep(path).quality \in {"syntax", "medium"} \/ SourceStep(path).quality # "high" \/ CallsOf(path) \ {"high"} # {}
    THEN "medium" ELSE "high"

(* The evidence a step carries: analysisStatus.                             *)
Evidence(s) ==
    CASE s.kind = "call" /\ s.quality = "opaque" -> "unresolved"
      [] s.kind = "source" /\ s.quality = "inferred" -> "heuristic"
      [] s.kind = "source" /\ s.quality = "convention" -> "syntax-only"
      [] s.kind = "validation" /\ s.quality = "hint" -> "syntax-only"
      [] OTHER -> "verified"
Shows(path, evidence) == \E s \in path.steps : Evidence(s) = evidence
GuessedCall(path) == CallsOf(path) \ {"high"} # {}

(* rules/rule-engine.js *)
EffectiveObservedGuards(path) == {c \in path.guards : path.sink \in SinksOf[c]}
Matches(rule, path) ==
    /\ path.source \in rule.sources /\ path.sink \in rule.sinks
    /\ rule.accepts \intersect EffectiveObservedGuards(path) = {}
MissingGuards(rule, path) == rule.recommended \ EffectiveObservedGuards(path)

ConfidenceRank(c) == CASE c = "high" -> 0 [] c = "medium" -> 1 [] OTHER -> 2
ExposureBonus(path) == CASE path.source = "http" -> 10 [] path.source = "process" -> -30 [] OTHER -> 0
SortScore(rule, path) ==
    LET missing == Cardinality(MissingGuards(rule, path))
    IN  (3 - ConfidenceRank(Confidence(path))) * 10 + ExposureBonus(path) + (IF missing > 4 THEN 4 ELSE missing)
RiskBefore(rule, a, b) ==
    LET ra == ConfidenceRank(Confidence(a))  rb == ConfidenceRank(Confidence(b))
    IN  \/ ra < rb
        \/ ra = rb /\ SortScore(rule, a) > SortScore(rule, b)

FindingId(rule, path) == <<rule.id, SinkStep(path).fn, path.sink>>
EvaluateFlowPaths(found) ==
    LET hits == {h \in Rules \X found : Matches(h[1], h[2])}
        Of(h) == {k[2] : k \in {j \in hits : FindingId(j[1], j[2]) = FindingId(h[1], h[2])}}
        Primary(rule, ps) == CHOOSE a \in ps : \A b \in ps : ~RiskBefore(rule, b, a)
    IN  {[id |-> FindingId(h[1], h[2]), paths |-> Of(h), primary |-> Primary(h[1], Of(h))] : h \in hits}

(* review/finding-pool.js *)
PathVerificationStatus(path) ==
    CASE SinkStep(path).quality = "candidate" \/ Shows(path, "unresolved") -> "unresolved"
      [] \/ SinkStep(path).quality = "syntax" \/ Confidence(path) = "review"
         \/ Shows(path, "heuristic") \/ GuessedCall(path) -> "heuristic"
      [] Shows(path, "syntax-only") -> "syntax-only"
      [] OTHER -> "verified"

PoolOfPrimary(finding, decided) ==
    IF decided[finding.id] # "open" THEN "resolved"
    ELSE IF PathVerificationStatus(finding.primary) = "verified" THEN "verified"
    ELSE "review"

FindingPool(finding, decided) ==
    IF decided[finding.id] # "open" THEN "resolved"
    ELSE IF \E path \in finding.paths : PathVerificationStatus(path) = "verified" THEN "verified"
    ELSE "review"

(* buildReviewReachability: what the entries lead to, each reached function *)
(* with the entries it is reached from, and where a call was guessed.       *)
CertainCallees(p, ids) ==
    UNION {{c.to : c \in {d \in f.calls : d.quality = "high"}} : f \in {g \in p : g.id \in ids}} \intersect {f.id : f \in p}
Callees(p, ids) == UNION {{c.to : c \in f.calls} : f \in {g \in p : g.id \in ids}} \intersect {f.id : f \in p}
ReachedFrom(p, entry) ==
    LET Within[n \in 0..Cardinality(p)] ==
            IF n = 0 THEN {entry} ELSE Within[n - 1] \union Callees(p, Within[n - 1])
    IN  Within[Cardinality(p)]
EntriesOf(p, f) == {e.id : e \in {g \in p : g.entry /\ f.id \in ReachedFrom(p, g.id)}}
Uncertain(f) == \E c \in f.calls : c.quality # "high"
Unresolved(p, f) ==
    \/ EntriesOf(p, f) # {} /\ Uncertain(f)
    \/ f.entry /\ \E g \in p : g.id \in ReachedFrom(p, f.id) /\ Uncertain(g)

(* review/targets.js *)
Critical == {"command", "expression", "deserialization"}
AtMost(n, most) == IF n > most THEN most ELSE n
Score(kind, f) ==
    LET sources == Len(Signals(f, "source"))
        sinks == Len(Signals(f, "sink"))
        guarded == Len(Signals(f, "sanitizer")) > 0
    IN  (IF kind = "endpoint" THEN 18 ELSE 5) + AtMost(4 * sources, 16) + AtMost(9 * sinks, 27)
        + (IF sources > 0 /\ \E s \in SignalsOf(f, "sink") : s.category \in Critical THEN 10 ELSE 0)
        + (IF kind = "endpoint" /\ sinks > 0 /\ Signals(f, "auth") = <<>> THEN 10 ELSE 0)
        + (IF sources > 0 /\ sinks > 0 /\ ~guarded THEN 8 ELSE 0)
        + (IF f.sensitive THEN 5 ELSE 0)

PrioritizeTarget(kind, p, f, backlog) ==
    [kind |-> kind, fn |-> f.id, file |-> f.file, line |-> f.line, endLine |-> f.endLine,
     backlog |-> backlog, score |-> Score(kind, f), confidence |-> "review",
     reachable |-> kind # "file" /\ EntriesOf(p, f) # {}, entries |-> EntriesOf(p, f), unresolved |-> Unresolved(p, f),
     priority |-> IF backlog THEN "Backlog" ELSE IF Score(kind, f) >= 50 THEN "P0" ELSE IF Score(kind, f) >= 32 THEN "P1" ELSE "P2"]

SensitiveFlow(f) ==
    LET source == Signals(f, "source") # <<>>
    IN  \/ source /\ Signals(f, "sink") # <<>>
        \/ \E s \in SignalsOf(f, "sink") : s.category \in Critical
        \/ source /\ f.sensitive

BuildReviewTargets(p) ==
    LET OnEntryLine(f) == \E e \in p : e.entry /\ e.file = f.file /\ e.line = f.line
        endpoints == {PrioritizeTarget("endpoint", p, f, FALSE) : f \in {g \in p : g.entry}}
        functions == {PrioritizeTarget("function", p, f, ~SensitiveFlow(f)) :
                        f \in {g \in p : ~g.global /\ ~OnEntryLine(g) /\ (SensitiveFlow(g) \/ EntriesOf(p, g) # {})}}
        files == {PrioritizeTarget("file", p, f, FALSE) :
                    f \in {g \in p : g.global /\ Signals(g, "sink") # <<>> /\ ~\E e \in p : e.entry /\ e.file = g.file}}
    IN  endpoints \union functions \union files

FindingTouchesTarget(p, finding, item) ==
    \E path \in finding.paths : \E s \in path.steps : \E f \in p :
        /\ f.id = s.fn /\ f.file = item.file
        /\ item.kind = "function" => f.at >= item.line /\ f.at <= item.endLine

PathIsVerified(path) ==
    /\ SinkStep(path).quality # "candidate" /\ Confidence(path) # "review"
    /\ ~Shows(path, "heuristic") /\ ~Shows(path, "unresolved") /\ ~GuessedCall(path)

EveryPathVerified(linked) == \A path \in linked : PathIsVerified(path)
SomePathVerified(linked) == \E path \in linked : PathIsVerified(path)

CalibrateTarget(p, item, found) ==
    LET linked == UNION {f.paths : f \in {g \in found : FindingTouchesTarget(p, g, item)}}
        supported == SomePathVerified(linked)
        guessed == \E path \in linked : ~PathIsVerified(path)
    IN  IF linked # {}
        THEN [item EXCEPT !.priority = IF item.kind = "endpoint" THEN IF supported THEN "P0" ELSE "P1"
                                       ELSE IF item.backlog /\ ~guessed THEN "Backlog" ELSE "P2",
                          !.confidence = IF supported THEN "verified" ELSE "review",
                          !.reachable = @ \/ item.kind = "endpoint",
                          !.unresolved = @ \/ guessed]
        ELSE IF item.priority = "P0"
        THEN [item EXCEPT !.priority = "P1", !.reachable = TRUE, !.unresolved = TRUE]
        ELSE [item EXCEPT !.priority = IF item.kind = "endpoint" /\ item.unresolved THEN "P1" ELSE @,
                          !.reachable = @ \/ item.kind = "endpoint"]

CalibrateReviewTargets(p, found) == {CalibrateTarget(p, item, found) : item \in BuildReviewTargets(p)}

PriorityRank(priority) == CASE priority = "P0" -> 0 [] priority = "P1" -> 1 [] priority = "P2" -> 2 [] OTHER -> 3
CompareTargets(a, b) ==     \* a is listed before b
    \/ PriorityRank(a.priority) < PriorityRank(b.priority)
    \/ PriorityRank(a.priority) = PriorityRank(b.priority) /\ a.score > b.score

Diagnostics(found, decided, old) ==
    IF old THEN {}
    ELSE {[id |-> f.id, file |-> Fn(f.id[2]).file, confidence |-> Confidence(f.primary), from |-> SourceStep(f.primary).fn] :
            f \in {g \in found : FindingPool(g, decided) = "verified"}}

Decidable == {<<r.id, f.id, s.category>> : r \in Rules, f \in UNION Programs, s \in UNION {SignalsOf(g, "sink") : g \in UNION Programs}}

QueueInit ==
    /\ program \in Programs
    /\ paths = {} /\ findings = {} /\ problems = {} /\ answers = 0 /\ stale = FALSE
    /\ statuses = [id \in Decidable |-> "open"]
    /\ queue = CalibrateReviewTargets(program, {})

(* _applyWorkerResult: the rest of the model follows from the paths.        *)
ApplyWorkerResult ==
    /\ answers < MaxAnswers
    /\ answers' = answers + 1
    /\ paths' \in SUBSET FlowPaths(program)
    /\ findings' = EvaluateFlowPaths(paths')
    /\ queue' = CalibrateReviewTargets(program, findings')
    /\ problems' = Diagnostics(findings', statuses, stale)
    /\ UNCHANGED <<program, statuses, stale>>

SetFindingStatus ==
    /\ \E f \in findings, status \in {"open", "false_positive"} : statuses' = [statuses EXCEPT ![f.id] = status]
    /\ problems' = Diagnostics(findings, statuses', stale)
    /\ UNCHANGED <<program, paths, findings, queue, stale, answers>>

MarkStale ==
    /\ stale' = ~stale
    /\ problems' = Diagnostics(findings, statuses, stale')
    /\ UNCHANGED <<program, paths, statuses, findings, queue, answers>>

QueueNext == ApplyWorkerResult \/ SetFindingStatus \/ MarkStale
QueueSpec == QueueInit /\ [][QueueNext]_queueVars

(* What the Problems panel shows leads the queue: an endpoint in a file a   *)
(* shown flow goes through stands before everything that is not itself an   *)
(* endpoint of such a flow, though the panel and the queue judge a path by  *)
(* two different tests (pathVerificationStatus, pathIsVerified).            *)
VerifiedFlowsLeadTheQueue ==
    \A problem \in problems : \A f \in {g \in findings : g.id = problem.id} :
        \A e \in {i \in queue : i.kind = "endpoint" /\ FindingTouchesTarget(program, f, i)} :
            /\ e.confidence = "verified"
            /\ \A i \in queue : i.confidence = "review" \/ i.kind # "endpoint" => CompareTargets(e, i)

(* A path that begins in code an entry leads to is queued as a whole: every *)
(* function on it is part of the queue, under each entry that reaches the   *)
(* source, also where a call on the way was only guessed.                   *)
FlowsFromEntriesAreQueued ==
    \A f \in findings : \A path \in f.paths : \A s \in path.steps :
        ~Fn(s.fn).global =>
        \E i \in queue : i.fn = s.fn /\ EntriesOf(program, Fn(SourceStep(path).fn)) \subseteq i.entries

(* More evidence hides nothing: an answer with further paths takes no       *)
(* finding out of Problems, lowers no connection there and no endpoint of   *)
(* the queue (evaluateFlowPaths groups by sink, calibrateReviewTargets      *)
(* looks at every path of it).                                              *)
MoreEvidenceHidesNothing ==
    [][paths \subseteq paths' /\ statuses' = statuses /\ stale' = stale =>
        /\ \A p \in problems : \E q \in problems' :
              p.id = q.id /\ ConfidenceRank(q.confidence) <= ConfidenceRank(p.confidence)
        /\ \A i \in queue : i.kind = "endpoint" => \E j \in queue' :
              j.fn = i.fn /\ PriorityRank(j.priority) <= PriorityRank(i.priority)]_queueVars
===============================================================================
