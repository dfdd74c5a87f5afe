-------------------------- MODULE WorkspaceEngine --------------------------
(***************************************************************************)
(* The analysis engine of the worker thread                                *)
(* (src/src/analysis/workspace-engine.js) with what it composes: the       *)
(* invalidation cache, the module graph, the call graph, the paths and     *)
(* their findings, and the answers by which the session follows them.      *)
(* One step is one request, as the worker handles them one at a time.      *)
(*                                                                         *)
(* A text is abstracted to the functions it declares (which functions they *)
(* call, whether they read input or reach a sink, where they stand), the   *)
(* routes it registers and the modules it imports.  A path is a chain of   *)
(* calls from a root to a sink, without repetition.                        *)
(***************************************************************************)
EXTENDS Integers, FiniteSets, Sequences, SequencesExt

CONSTANTS
    File,        \* normalised absolute paths
    Name,        \* lower-case names of functions
    Text,        \* what a file may contain: see IsText
    Candidates,  \* what an import specifier may mean, best first
    Typed,       \* the files of JavaScript and TypeScript
    Options,     \* the configurations in use: see OptionRecord
    MayHold,     \* [files -> the texts a file takes]: bounds the inputs
    Workspaces,  \* what an index finds, functions of files to their texts
    MaySupersede \* whether an answer may be overtaken on the client

VARIABLES
    engine,    \* the fields of WorkspaceAnalysisEngine: see EngineState
    reviewed,  \* worker.js: the review fingerprint last sent of each finding
    model,     \* the session's findings, each with its review fingerprint
    missed     \* since the last index: whether an answer never arrived, and the
               \* files of the newer calls that overtook one, not yet answered

vars == <<engine, reviewed, model, missed>>

FunctionId == File \X Name

FunctionRecord == [calls : SUBSET Name, source : BOOLEAN, custom : BOOLEAN, sink : BOOLEAN, at : Nat]

IsText(t) ==
    /\ t.text \in Nat
    /\ DOMAIN t.functions \subseteq Name
    /\ \A n \in DOMAIN t.functions : t.functions[n] \in FunctionRecord
    /\ t.routes \subseteq Name
    /\ t.imports \subseteq DOMAIN Candidates
    /\ t.alias \in Nat
    /\ {t.admitted, t.simple} \subseteq BOOLEAN

(* Whether the parsers are compared, the files whose root has a custom     *)
(* model, those whose root disables the rule, and the limits of a search.  *)
OptionRecord == [differential : BOOLEAN, models : SUBSET File, rules : SUBSET File, limits : Nat]

ASSUME TextsAreTexts == \A t \in Text : IsText(t)
ASSUME TypedAreFiles == Typed \subseteq File
ASSUME OptionsAreOptions == Options \subseteq OptionRecord
ASSUME WorkspacesHoldTexts == \A w \in Workspaces : \A f \in DOMAIN w : w[f] \in MayHold[f]
ASSUME FilesHoldTexts == MayHold \in [File -> SUBSET Text]

Modules == INSTANCE ModuleGraph
Hashes == INSTANCE DependencyFingerprints
Cache == INSTANCE IncrementalAnalysisCache   \* its operators, not its types
    WITH Version <- {}, Fingerprint <- {}, files <- engine.cache,
         dependentsByFunction <- engine.dependents, result <- model

Nothing == [x \in {} |-> {}]
At(map, key, default) == IF key \in DOMAIN map THEN map[key] ELSE default
-----------------------------------------------------------------------------
(* What the frontend makes of a file.                                      *)

(* The types an import brings in: those of every file it leads to.         *)
TypesSeen(project, f) ==
    LET round[n \in 0..Cardinality(File)] ==
            IF n = 0 THEN Modules!Lookup(project.dependencies, f)
            ELSE round[n - 1] \union UNION {Modules!Lookup(project.dependencies, g) : g \in round[n - 1]}
    IN  {<<g, project.files[g].alias>> : g \in round[Cardinality(File)] \ {f}}

(* A custom model makes a call a source in the files of its root.          *)
Parse(opts, project, f, text) ==
        [functions |-> [n \in DOMAIN text.functions |->
            [calls |-> text.functions[n].calls,
             source |-> text.functions[n].source \/ (text.functions[n].custom /\ f \in opts.models),
             sink |-> text.functions[n].sink,
             at |-> text.functions[n].at,
             types |-> TypesSeen(project, f)]],
         routes |-> text.routes]

(* buildFunctionSummary: what a caller sees of a function, its place in    *)
(* the file apart.                                                         *)
Summary(fn) == [calls |-> fn.calls, source |-> fn.source, sink |-> fn.sink, types |-> fn.types]

SummariesOf(f, ir) == [id \in {f} \X DOMAIN ir.functions |-> Summary(ir.functions[id[2]])]

(* _analyzeFile.  A route to a function of its own file is bound by the    *)
(* frontend; one to any other name waits for the project.                  *)
Analyze(opts, project, f, text, isolated) ==
    LET ir == Parse(opts, project, f, text)
    IN  [text |-> text, ir |-> ir, isolated |-> isolated,
         bound |-> [n \in text.routes |-> IF n \in DOMAIN ir.functions THEN {<<f, n>>} ELSE {}],
         entries |-> text.routes \intersect DOMAIN ir.functions]

(* semanticIrFingerprint: the parsed tree, and for a file compiled within  *)
(* the project the generation of its program, new with every text.         *)
SameIr(f, before, after) ==
    /\ before.ir = after.ir
    /\ f \in Typed => before.isolated /\ after.isolated

(* As canAnalyzeIsolated for a file of JavaScript or TypeScript.           *)
Isolated(project, f, text) == f \in Typed /\ Modules!CanAnalyzeIsolated(project, f, text)
-----------------------------------------------------------------------------
(* The call graph.                                                         *)

FunctionsOf(fs) == UNION {{f} \X DOMAIN fs[f].ir.functions : f \in DOMAIN fs}
FunctionOf(fs, id) == fs[id[1]].ir.functions[id[2]]
IdsIn(fs, fileSet) == {id \in FunctionsOf(fs) : id[1] \in fileSet}

(* functionsFromAnalyses: a function is an entry by a binding of any file, *)
(* or by those the function carries.                                       *)
FlowFunctions(fs) ==
    LET boundIds == UNION {UNION {fs[f].bound[n] : n \in DOMAIN fs[f].bound} : f \in DOMAIN fs}
    IN  [id \in FunctionsOf(fs) |->
            [fn |-> FunctionOf(fs, id),
             isEntry |-> id \in boundIds \/ id[2] \in fs[id[1]].entries]]

(* resolveCandidates for an unqualified call: the function of that name in *)
(* the file itself, or every function of that name.                        *)
Resolve(functions, caller, name) ==
    LET named == {id \in DOMAIN functions : id[2] = name}
        local == {id \in named : id[1] = caller[1]}
    IN  IF local /= {} THEN local ELSE named

Callees(functions, caller) ==
    UNION {Resolve(functions, caller, n) : n \in functions[caller].fn.calls}

(* _filesCallingAny: by the names in the summaries.                        *)
FilesCallingAny(fs, names) ==
    {f \in DOMAIN fs : \E n \in DOMAIN fs[f].ir.functions :
        fs[f].ir.functions[n].calls \intersect names /= {}}

(* _rebuildDependencies, for the files given.                              *)
Dependencies(functions, f) ==
    UNION {Callees(functions, id) : id \in {i \in DOMAIN functions : i[1] = f}}

RebuildCache(fs, c, functions, affected) ==
    [f \in DOMAIN c |-> IF f \in affected /\ f \in DOMAIN fs
                        THEN [c[f] EXCEPT !.dependencyFunctionIds = Dependencies(functions, f)]
                        ELSE c[f]]

RebuildIndex(fs, c, index, functions, affected) ==
    LET todo == SetToSeq(affected \intersect DOMAIN c \intersect DOMAIN fs)
        after[n \in 0..Len(todo)] ==
            IF n = 0 THEN index
            ELSE Cache!IndexAfterUpdate(c, after[n - 1], todo[n], Dependencies(functions, todo[n]))
    IN  after[Len(todo)]
-----------------------------------------------------------------------------
(* _applyProjectEntryBindings.                                             *)

(* A handler is bound when exactly one function of the workspace is meant; *)
(* one of the route's own file was bound by the frontend.                  *)
ResolveProjectEntryHandler(fs, f, n) ==
    IF n \in DOMAIN fs[f].ir.functions THEN {<<f, n>>}
    ELSE LET candidates == {id \in FunctionsOf(fs) : id[2] = n}
         IN  IF Cardinality(candidates) = 1 THEN candidates ELSE {}

Bind(fs) ==
    LET BoundIn(f) == [n \in fs[f].text.routes |-> ResolveProjectEntryHandler(fs, f, n)]
        entryIds == UNION {UNION {BoundIn(f)[n] : n \in fs[f].text.routes} : f \in DOMAIN fs}
    IN  [f \in DOMAIN fs |-> [fs[f] EXCEPT
            !.bound = BoundIn(f),
            !.entries = {n \in DOMAIN fs[f].ir.functions : <<f, n>> \in entryIds}]]

BindingsOf(fs) ==
    [id \in FunctionsOf(fs) |->
        {f \in DOMAIN fs : \E n \in DOMAIN fs[f].bound : id \in fs[f].bound[n]}]

ChangedBindings(before, after) ==
    {id \in DOMAIN before \union DOMAIN after :
        ~(id \in DOMAIN before /\ id \in DOMAIN after /\ before[id] = after[id])}
-----------------------------------------------------------------------------
(* Paths and findings.                                                     *)

IsRoot(functions, id) == functions[id].isEntry \/ functions[id].fn.source

(* findSourceSinkPaths from the given roots: a chain of calls, no function *)
(* visited twice, to a function with a sink; with the evidence of every    *)
(* function on the way.                                                    *)
PathsFrom(functions, roots) ==
    LET chains[n \in 1..Cardinality(DOMAIN functions)] ==
            IF n = 1 THEN {<<id>> : id \in {r \in roots \intersect DOMAIN functions : IsRoot(functions, r)}}
            ELSE UNION {{Append(c, next) : next \in Callees(functions, Last(c)) \ Range(c)} : c \in chains[n - 1]}
        all == UNION {chains[n] : n \in DOMAIN chains}
    IN  {[steps |-> c, evidence |-> [i \in DOMAIN c |-> functions[c[i]].fn],
          byEntry |-> functions[c[1]].isEntry] :
             c \in {d \in all : functions[Last(d)].fn.sink}}

Touched(path) == Range(path.steps)

(* evaluateFlowPaths: a finding per sink whose rule is enabled where the   *)
(* sink is, with all the paths that end there.                             *)
Evaluate(opts, ps) ==
    [sink \in {Last(p.steps) : p \in {q \in ps : Last(q.steps)[1] \notin opts.rules}} |->
        {p \in ps : Last(p.steps) = sink}]

(* The session's reviewFingerprints: versions, configuration and           *)
(* dependencies, hashed through cycles.                                    *)
ReviewFingerprints(c, opts) ==
    Hashes!DependencyHashes(
        [digest |-> [f \in DOMAIN c |-> <<c[f].version, opts.limits, f \in opts.models, f \in opts.rules>>],
         dependencies |-> [f \in DOMAIN c |-> {id[1] : id \in c[f].dependencyFunctionIds}]])

(* attachReviewFingerprints: of every file on one of the finding's paths.  *)
FingerprintOf(found, sink, prints) ==
    LET touched == {sink[1]} \union UNION {{id[1] : id \in Touched(p)} : p \in found[sink]}
    IN  IF touched \subseteq DOMAIN prints THEN [f \in touched |-> prints[f]] ELSE Nothing

Fingerprints(found, prints) == [sink \in DOMAIN found |-> FingerprintOf(found, sink, prints)]
-----------------------------------------------------------------------------
(* Re-analysis.  e is an engine: the fields                                *)
(*   options      an OptionRecord                                          *)
(*   files, cache, dependents, project, flow, entryBindings                *)
(*   pendingFiles, pendingFunctions, paths, findings                       *)

(* The paths kept: none of their functions is run again.                   *)
Retained(ps, invalidated) == {p \in ps : Touched(p) \intersect invalidated = {}}

(* reanalyzeAffectedFunctions: everything when told to or when there was   *)
(* no path before; otherwise the functions queued are the roots, and the   *)
(* paths that touch none of them are kept.                                 *)
Reanalyze(e, forceAll) ==
    IF e.pendingFiles = {} /\ e.pendingFunctions = {} /\ ~forceAll THEN e
    ELSE LET everything == DOMAIN e.flow
             next == IF forceAll \/ e.paths = {}
                     THEN PathsFrom(e.flow, everything)
                     ELSE Retained(e.paths, e.pendingFunctions)
                              \union PathsFrom(e.flow, e.pendingFunctions)
         IN  [e EXCEPT !.paths = next,
                       !.findings = Evaluate(e.options, next),
                       !.pendingFiles = {},
                       !.pendingFunctions = {}]

(* _queueAffectedFunctions: those that changed, and every function of the  *)
(* files queued.                                                           *)
Queue(e, changed) ==
    [e EXCEPT !.pendingFunctions = @ \union changed \union IdsIn(e.files, e.pendingFiles)]

(* The entries bound and the call graph rebuilt for the files queued, the  *)
(* functions that changed queued with those whose entries did.             *)
Rebuild(e, fs, functions, bindings) ==
    [e EXCEPT
        !.files = fs,
        !.entryBindings = bindings,
        !.flow = functions,
        !.cache = RebuildCache(fs, e.cache, functions, e.pendingFiles),
        !.dependents = RebuildIndex(fs, e.cache, e.dependents, functions, e.pendingFiles)]

RebuildQueue(e, fs, bindings, changed) ==
    Queue(Rebuild(e, fs, FlowFunctions(fs), bindings), changed \union ChangedBindings(e.entryBindings, bindings))

BindQueue(e, fs, changed) == RebuildQueue(e, fs, BindingsOf(fs), changed)

BindRebuildQueue(e, changed) == BindQueue(e, Bind(e.files), changed)

(* cache.updateFile for one file, its record kept as it was but for what   *)
(* the new analysis says.                                                  *)
CacheFile(e, f, record, deps) ==
    [e EXCEPT !.files = Cache!With(@, f, record),
              !.cache = Cache!FilesAfterUpdate(@, f, record.text, SummariesOf(f, record.ir), deps),
              !.dependents = Cache!IndexAfterUpdate(e.cache, @, f, deps)]

(* What cache.updateFile calls changed between two engines, and the files  *)
(* it invalidates.                                                         *)
ChangedIn(before, after, f) ==
    Cache!ChangedFunctions(Cache!SummariesOf(before.cache, f), Cache!SummariesOf(after.cache, f))

AffectedBy(e, f, changed) == Cache!AffectedFiles(e.cache, e.dependents, f, changed)

NamesIn(fs, fileSet) == {id[2] : id \in IdsIn(fs, fileSet)}

(* The consumers of a changed file analysed again, each within the         *)
(* project.                                                                *)
ReparseDependents(e, consumers) ==
    LET todo == SetToSeq(consumers \intersect DOMAIN e.files)
        after[n \in 0..Len(todo)] ==
            IF n = 0 THEN e
            ELSE CacheFile(after[n - 1], todo[n],
                     Analyze(e.options, e.project, todo[n], e.files[todo[n]].text, FALSE),
                     Cache!DependsOn(e.cache, todo[n]))
    IN  after[Len(todo)]

(* updateFile and removeFile from where they agree: the consumers are      *)
(* analysed again, and whatever depends on a function that changed, or     *)
(* calls one of the names before or after, is queued.                      *)
InvalidateParsed(parsed, touched, changed, names) ==
    BindRebuildQueue(
        [parsed EXCEPT !.pendingFiles =
            (@ \union touched \union UNION {AffectedBy(parsed, g, changed[g]) : g \in touched}
               \union FilesCallingAny(parsed.files, names \union NamesIn(parsed.files, touched)))
            \intersect DOMAIN parsed.files],
        UNION {changed[g] : g \in touched})

InvalidateTouched(before, parsed, touched, names) ==
    InvalidateParsed(parsed, touched, [g \in touched |-> ChangedIn(before, parsed, g)], names)

Invalidate(before, e, f, consumers, names) ==
    LET touched == {f} \union (consumers \intersect DOMAIN e.files)
    IN  InvalidateTouched(before, ReparseDependents(e, consumers), touched,
                          names \union NamesIn(e.files, touched))

(* removeFile: the consumers are those before the file is taken out.       *)
Removed(e, f) ==
    IF f \notin DOMAIN e.files THEN e
    ELSE LET consumers == Modules!DependentsOf(e.project, f) \ {f}
             without == [e EXCEPT
                !.files = Cache!Without(@, f),
                !.cache = Cache!Without(@, f),
                !.dependents = Cache!RemoveReverse(@, f, Cache!DependsOn(e.cache, f)),
                !.project = Modules!RemoveFromProject(@, f)]
         IN  Invalidate(e, without, f, consumers, NamesIn(e.files, {f}))

(* updateFile, without the re-analysis at its end.                         *)
Consumers(e, project, f, isolated) ==
    IF f \in Typed /\ ~isolated
    THEN Modules!DependentsOf(e.project, f) \union Modules!DependentsOf(project, f) ELSE {}

Accept(e, f, record, cached) ==
    IF f \in DOMAIN e.files /\ SameIr(f, e.files[f], record) THEN cached
    ELSE Invalidate(e, cached, f, Consumers(e, cached.project, f, record.isolated), NamesIn(e.files, {f}))

Reanalyzed(e, f, record, project) ==
    Accept(e, f, record, CacheFile([e EXCEPT !.project = project], f, record, Cache!DependsOn(e.cache, f)))

(* Too large to read: the project keeps what it had.  Too complex to       *)
(* analyse: a file the engine did not have leaves the project.             *)
Refused(e, f, text, project) ==
    Removed(IF ~text.admitted THEN e
            ELSE [e EXCEPT !.project = IF f \in Typed /\ f \notin DOMAIN e.files
                                       THEN Modules!RemoveFromProject(project, f) ELSE project], f)

UpdatedIn(e, f, text, project) ==
    CASE ~(text.admitted /\ text.simple) -> Refused(e, f, text, project)
      [] text.admitted /\ text.simple /\ f \in DOMAIN e.files /\ e.files[f].text = text -> e
      [] OTHER -> Reanalyzed(e, f, Analyze(e.options, project, f, text, Isolated(e.project, f, text)), project)

Updated(e, f, text) ==
    UpdatedIn(e, f, text, IF f \in Typed THEN Modules!UpdateProject(e.project, f, text) ELSE e.project)
-----------------------------------------------------------------------------
(* What starts from nothing: the index, and a change of the parser.        *)

(* The files of w analysed in the project given; the entries are bound,    *)
(* every dependency resolved and everything searched.                      *)
Rebuilt(e, project, w) ==
    LET record == [f \in DOMAIN w |->
            Analyze(e.options, project, f, w[f], Isolated(project, f, w[f]))]
        cached == [f \in DOMAIN w |->
            [version |-> w[f], functionSummaries |-> SummariesOf(f, record[f].ir),
             dependencyFunctionIds |-> {}]]
        fresh == [e EXCEPT !.files = record, !.cache = cached, !.dependents = Nothing,
                           !.project = project, !.pendingFiles = DOMAIN w]
    IN  Reanalyze(BindRebuildQueue(fresh, {}), TRUE)

TypedOf(w) == Modules!RebuildModuleDependencies([f \in DOMAIN w \intersect Typed |-> w[f]])

EmptyEngine(opts) ==
    [options |-> opts, files |-> Nothing, cache |-> Nothing, dependents |-> Nothing,
     project |-> Modules!EmptyProject, flow |-> Nothing, entryBindings |-> Nothing,
     pendingFiles |-> {}, pendingFunctions |-> {}, paths |-> {}, findings |-> Nothing]

(* initializeWorkspace: a file too complex to analyse is left out, and     *)
(* stays in the project the others are compiled in.                        *)
Initialized(opts, w) ==
    LET admitted == [f \in {g \in DOMAIN w : w[g].admitted} |-> w[f]]
    IN  Rebuilt(EmptyEngine(opts), TypedOf(admitted),
                [f \in {g \in DOMAIN admitted : w[g].simple} |-> w[f]])

(* _reparseWorkspace *)
ReparseWorkspace(e) ==
    LET w == [f \in DOMAIN e.files |-> e.files[f].text] IN Rebuilt(e, TypedOf(w), w)

(* A slip of _reparseConfiguredFiles: the files affected and no caller of  *)
(* theirs.                                                                 *)
AffectedOnly(e, affected) == affected

(* The callers are found in the summaries before they are replaced.        *)
WithCallers(e, affected) ==
    affected \union UNION {Cache!AffectedFiles(e.cache, e.dependents, f, Cache!Declared(e.cache, f)) :
                               f \in affected}

(* _reparseConfiguredFiles: the files whose models changed are analysed    *)
(* again, those and the files whose rules changed are run again, with      *)
(* their callers.                                                          *)
ReparseConfiguredFiles(e, reparsed, affected) ==
    LET todo == SetToSeq(reparsed)
        after[n \in 0..Len(todo)] ==
            IF n = 0 THEN e
            ELSE LET f == todo[n]
                     text == e.files[f].text
                 IN  CacheFile(after[n - 1], f,
                         Analyze(e.options, e.project, f, text, Isolated(e.project, f, text)), {})
        pending == [after[Len(todo)] EXCEPT !.pendingFiles = WithCallers(e, affected)]
    IN  Reanalyze(BindRebuildQueue(pending, {}), FALSE)

(* configure *)
Configured(e, opts) ==
    LET next == [e EXCEPT !.options = opts]
        Differ(before, after) == {f \in DOMAIN e.files : (f \in before) /= (f \in after)}
        reparsed == Differ(e.options.models, opts.models)
        affected == reparsed \union Differ(e.options.rules, opts.rules)
                        \union (IF e.options.limits = opts.limits THEN {} ELSE DOMAIN e.files)
        frontend == e.options.models /= opts.models \/ e.options.rules /= opts.rules
    IN  CASE opts = e.options -> e
          [] opts.differential /= e.options.differential -> ReparseWorkspace(next)
          [] opts.differential = e.options.differential /\ frontend ->
                 ReparseConfiguredFiles(next, reparsed, affected)
          [] OTHER -> Reanalyze(next, TRUE)
-----------------------------------------------------------------------------
(* The requests.  Every answer carries the findings that differ from the   *)
(* engine's last, or whose review fingerprint is not the one last sent,    *)
(* and the ids of those that are gone (diffById, dispatch); the session    *)
(* applies it to what it holds, unless a newer call for the same file has  *)
(* superseded it.                                                          *)

(* A slip of dispatch: only the findings that changed are sent.            *)
ChangedFindings(before, after, sent, prints) ==
    {id \in DOMAIN after : ~(id \in DOMAIN before /\ before[id] = after[id])}

Upserts(before, after, sent, prints) ==
    {id \in DOMAIN after :
        \/ ~(id \in DOMAIN before /\ before[id] = after[id])
        \/ ~(id \in DOMAIN sent /\ sent[id] = prints[id])}

NoneMissed == [ever |-> FALSE, awaited |-> {}]

PrintsOf(e) == Fingerprints(e.findings, ReviewFingerprints(e.cache, e.options))

Dispatch(subjects, next, prints, superseded) ==
    LET after == next.findings
        upsert == Upserts(engine.findings, after, reviewed, prints)
        removedIds == DOMAIN engine.findings \ DOMAIN after
    IN  /\ engine' = next
        /\ reviewed' = prints
        /\ missed' = IF superseded THEN [ever |-> TRUE, awaited |-> missed.awaited \union subjects]
                     ELSE [missed EXCEPT !.awaited = @ \ subjects]
        /\ model' = IF superseded THEN model
                    ELSE [id \in (DOMAIN model \ removedIds) \union upsert |->
                             IF id \in upsert THEN <<after[id], prints[id]>> ELSE model[id]]

Answer(subjects, next, superseded) == Dispatch(subjects, next, PrintsOf(next), superseded)

Supersedable == IF MaySupersede THEN BOOLEAN ELSE {FALSE}

(* initializeWorkspace is answered with everything.                        *)
Indexed(next, prints) ==
    /\ engine' = next
    /\ reviewed' = prints
    /\ missed' = NoneMissed
    /\ model' = [id \in DOMAIN next.findings |-> <<next.findings[id], prints[id]>>]

IndexedAs(next) == Indexed(next, PrintsOf(next))

InitializeWorkspace(opts, w) == IndexedAs(Initialized(opts, w))

(* updateFile: an update that changes nothing the analysis sees leaves     *)
(* what is queued; so does the refusal of a file the engine never had.     *)
Quiet(f, text, next) ==
    \/ f \in DOMAIN engine.files /\ text.admitted /\ text.simple
          /\ engine.files[f].text /= text
          /\ SameIr(f, engine.files[f], next.files[f])
    \/ f \notin DOMAIN engine.files /\ ~(text.admitted /\ text.simple)

AnswerUpdate(f, text, next) ==
    \E superseded \in Supersedable :
        Answer({f}, IF Quiet(f, text, next) THEN next ELSE Reanalyze(next, FALSE), superseded)

UpdateFile(f, text) == AnswerUpdate(f, text, Updated(engine, f, text))

(* removeFile; a batch of deletions is analysed by a request of its own.   *)
AnswerRemoval(f, reanalyze, next) ==
    \E superseded \in Supersedable :
        Answer({f}, IF reanalyze /\ f \in DOMAIN engine.files THEN Reanalyze(next, FALSE) ELSE next, superseded)

RemoveFile(f, reanalyze) == AnswerRemoval(f, reanalyze, Removed(engine, f))

ReanalyzeAffectedFunctions == Answer({}, Reanalyze(engine, FALSE), FALSE)

Configure(opts) == Answer({}, Configured(engine, opts), FALSE)

Init ==
    /\ \E opts \in Options : engine = EmptyEngine(opts)
    /\ reviewed = Nothing
    /\ model = Nothing
    /\ missed = NoneMissed

Next ==
    \/ \E opts \in Options, w \in Workspaces : InitializeWorkspace(opts, w)
    \/ \E f \in File : \E text \in MayHold[f] : UpdateFile(f, text)
    \/ \E f \in File, reanalyze \in BOOLEAN : RemoveFile(f, reanalyze)
    \/ ReanalyzeAffectedFunctions
    \/ \E opts \in Options : Configure(opts)

Spec == Init /\ [][Next]_vars
-----------------------------------------------------------------------------
(* The fields of the engine, and what relates them: the cache has a record *)
(* of exactly the files analysed, what is queued exists or existed, a path *)
(* runs through functions, and the client's findings have an id.           *)
TypeOK ==
    /\ engine.options \in Options
    /\ DOMAIN engine.files \subseteq File
    /\ DOMAIN engine.cache = DOMAIN engine.files
    /\ \A f \in DOMAIN engine.files :
           /\ engine.files[f].text \in MayHold[f]
           /\ engine.files[f].isolated \in BOOLEAN
           /\ DOMAIN engine.files[f].bound = engine.files[f].text.routes
           /\ engine.cache[f].dependencyFunctionIds \subseteq FunctionId
           /\ engine.cache[f].version = engine.files[f].text
    /\ DOMAIN engine.project.files \subseteq Typed
    /\ DOMAIN engine.project.dependencies = DOMAIN engine.project.files
    /\ engine.pendingFiles \subseteq DOMAIN engine.files
    /\ engine.pendingFunctions \subseteq FunctionId
    /\ \A p \in engine.paths : p.steps \in Seq(FunctionId)
    /\ DOMAIN engine.findings = DOMAIN reviewed
    /\ DOMAIN model \subseteq FunctionId
    /\ missed.ever \in BOOLEAN /\ missed.awaited \subseteq File

TextsOf(e) == [f \in DOMAIN e.files |-> e.files[f].text]


(* The call graph is kept for the queued files only, and is still the one  *)
(* a full resolution of the current analyses gives: no edit changes what a *)
(* call of a file that was not queued resolves to, or which function a     *)
(* route of another file is bound to.                                      *)
CallGraphCurrent ==
    LET functions == FlowFunctions(Bind(engine.files))
    IN  /\ engine.flow = functions
        /\ \A f \in DOMAIN engine.cache :
               engine.cache[f].dependencyFunctionIds = Dependencies(functions, f)
        /\ Cache!InverseOf(engine.dependents, engine.cache)

AllPaths == PathsFrom(FlowFunctions(Bind(engine.files)), FunctionsOf(engine.files))

(* No edit, removal or change of configuration leaves a path that the      *)
(* current files do not have, unless it runs through a function still      *)
(* queued: what is shown is never the evidence of code that is gone.       *)
StalePathsQueued ==
    \A p \in engine.paths \ AllPaths : Touched(p) \intersect engine.pendingFunctions /= {}

(* A path through at most one call is never lost, but while its root is    *)
(* queued: the roots run again include the callers of whatever changed.    *)
NearPathsComplete ==
    \A p \in AllPaths \ engine.paths :
        Len(p.steps) >= 3 \/ p.steps[1] \in engine.pendingFunctions

(* The answers reproduce the engine: applied in order, none missed since   *)
(* the index, they give the session every finding as it is, each with the  *)
(* fingerprint its review decisions are compared by.                       *)
DeltasReproduceFindings ==
    ~missed.ever => model = [id \in DOMAIN engine.findings |-> <<engine.findings[id],
        PrintsOf(engine)[id]>>]

ReviewGraph == [digest |-> [f \in DOMAIN engine.cache |->
                    <<engine.cache[f].version, engine.options.limits, f \in engine.options.models,
                      f \in engine.options.rules>>],
                dependencies |-> [f \in DOMAIN engine.cache |->
                    {id[1] : id \in engine.cache[f].dependencyFunctionIds}]]

(* A step changes the fingerprint of a file if and only if it changes the  *)
(* content, the configuration or the dependencies of a file it reaches: a  *)
(* change anywhere in a cycle reopens every decision on it, and a change   *)
(* outside reopens none.                                                   *)
FingerprintsTrackDependencies ==
    [][\A f \in DOMAIN engine.cache \intersect DOMAIN engine'.cache :
          (ReviewFingerprints(engine.cache, engine.options)[f]
               = ReviewFingerprints(engine'.cache, engine'.options)[f])
          <=> (Hashes!ReachedFrom(ReviewGraph, f) = Hashes!ReachedFrom(ReviewGraph', f))]_vars

(* What the comment on the merged coverage flags and the roadmap take for  *)
(* granted: an incremental search that was cut by no limit has every path  *)
(* of the workspace.                                                       *)
IncrementalFindsAll ==
    engine.pendingFunctions = {} => AllPaths \subseteq engine.paths

(* What the changelog says of the deltas and the coalescing of queued      *)
(* updates: once the update that superseded another is answered, the       *)
(* session has the engine's findings.                                      *)
SupersededHarmless ==
    (engine.pendingFunctions = {} /\ missed.awaited = {})
        => DOMAIN model = DOMAIN engine.findings
=============================================================================
