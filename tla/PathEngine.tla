----------------------------- MODULE PathEngine ------------------------------
(* The search for paths from sources to sinks (dataflow/path-engine.js).    *)
(* A program is a record of functions; a function has its parameters and    *)
(* the sequences of events found on the paths through it (OperationCfg).    *)
(* The search is one deterministic walk from every root under budgets that  *)
(* are shared by all of them; what it keeps between the roots is its search *)
(* record, the "limits" and the "paths" of the code. Time is counted in     *)
(* looks at the clock: the deadline passes after any number of them.        *)
EXTENDS Integers, Sequences, FiniteSets, SequencesExt, Functions

(* Access paths (ir/access-path.js) and what an assignment does to the      *)
(* tainted ones (dataflow/taint-kernel.js). A path is a root name and the   *)
(* segments below it, <<"req", "body", "id">>; the segment "*" is an index  *)
(* nothing is known of, and is compatible with every segment.               *)
CompatibleSegment(left, right) == left = "*" \/ right = "*" \/ left = right

(* The value at a path is part of what stands at the produced one.          *)
PathFeeds(produced, consumed) ==
    /\ Len(produced) <= Len(consumed)
    /\ produced[1] = consumed[1]
    /\ \A i \in 2..Len(produced) : CompatibleSegment(produced[i], consumed[i])

PathsOverlap(left, right) == PathFeeds(left, right) \/ PathFeeds(right, left)

Intersects(values, tainted) == \E value \in values, path \in tainted : PathsOverlap(value, path)

(* What stands between a path and one below it.                             *)
RelativeAccessPath(value, root) == SubSeq(value, Len(root) + 1, Len(value))
AppendAccessPath(root, segments) == root \o segments

(* Where taint of a path goes when the input is assigned to the output: at  *)
(* most one path. Only an alias keeps to the part that is tainted; an       *)
(* expression needs the whole input tainted, an aggregate any part of it.   *)
RebaseTaint(path, input, output, mode) ==
    CASE mode = "aggregate" -> IF PathsOverlap(path, input) THEN {output} ELSE {}
      [] mode = "expression" -> IF PathFeeds(path, input) THEN {output} ELSE {}
      [] mode = "alias" /\ PathFeeds(path, input) -> {output}
      [] mode = "alias" /\ ~PathFeeds(path, input) ->
            IF PathFeeds(input, path) THEN {AppendAccessPath(output, RelativeAccessPath(path, input))} ELSE {}

PropagatedAssignmentTargets(target, inputs, tainted, mode) ==
    UNION {RebaseTaint(path, input, target, mode) : input \in inputs, path \in tainted}

RemoveAssignedTaint(tainted, target) == {path \in tainted : ~PathFeeds(target, path)}

(* applyAssignment: a strong update of the target.                          *)
ApplyAssignment(tainted, target, inputs, mode) ==
    RemoveAssignedTaint(tainted, target) \union PropagatedAssignmentTargets(target, inputs, tainted, mode)
-----------------------------------------------------------------------------
(* The search and its budgets.                                              *)
NoRoot == [fn |-> "none", at |-> 0]

(* truncate: the search is not complete, and its root is not.               *)
Truncate(s) == [s EXCEPT !.truncated = TRUE, !.partial = @ \union ({s.root} \ {NoRoot})]

(* analysisExpired looks at the clock.                                      *)
Late(c, s) == s.clock > c.budget.clock
Look(c, s) == IF s.clock + 1 > c.budget.clock THEN Truncate([s EXCEPT !.clock = @ + 1]) ELSE [s EXCEPT !.clock = @ + 1]

EventsSpent(c, s) == s.events >= c.budget.events \/ s.rootEvents >= c.budget.rootEvents
StatesSpent(c, s) == s.states >= c.budget.states \/ s.rootStates >= c.budget.rootStates
CountEvent(s) == [s EXCEPT !.events = @ + 1, !.rootEvents = @ + 1]
CountState(s) == [s EXCEPT !.states = @ + 1, !.rootStates = @ + 1]

Step(kind, fn, at) == [kind |-> kind, fn |-> fn, at |-> at]
-----------------------------------------------------------------------------
(* Evidence: the steps by which each tainted path came to be tainted.       *)
Shortest(options) == CHOOSE steps \in options : \A other \in options : Len(steps) <= Len(other)

BestEvidenceForValues(values, evidence, otherwise) ==
    LET found == {evidence[path] : path \in {p \in DOMAIN evidence : Intersects(values, {p})}}
    IN  IF found = {} THEN otherwise ELSE Shortest(found)

EvidenceOf(evidence, path) == IF path \in DOMAIN evidence THEN evidence[path] ELSE <<>>

(* assignmentEvidence: for each path the assignment taints, the shortest    *)
(* way there.                                                               *)
Ways(e, local, fn, output) ==
    {Append(EvidenceOf(local.evidence, path), Step("propagation", fn, e.at)) :
        path \in {p \in local.tainted : \E input \in e.vars : output \in RebaseTaint(p, input, e.target, e.mode)}}

AssignmentEvidence(e, local, fn) ==
    [output \in PropagatedAssignmentTargets(e.target, e.vars, local.tainted, e.mode) |->
        Shortest(Ways(e, local, fn, output))]

RemoveAssignedEvidence(evidence, target) ==
    Restrict(evidence, {path \in DOMAIN evidence : ~PathFeeds(target, path)})

Overlay(f, g) == [x \in DOMAIN f \union DOMAIN g |-> IF x \in DOMAIN g THEN g[x] ELSE f[x]]
Assigned(f, x, y) == Overlay(f, [z \in {x} |-> y])
-----------------------------------------------------------------------------
(* Guards. A guard holds for the values of its inputs at the time it ran:   *)
(* a value is known by its path and the number of times that path was       *)
(* assigned.                                                                *)
VersionOf(versions, path) == IF path \in DOMAIN versions THEN versions[path] ELSE 0
(* A slip: assignments do not make new versions.                            *)
KeepValueVersion(versions, path) == versions

AdvanceValueVersion(versions, path) == Assigned(versions, path, VersionOf(versions, path) + 1)

GuardVersionChanged(control, path, versions) ==
    path \in DOMAIN control.versions /\ control.versions[path] # VersionOf(versions, path)

Guarded(e) == e.vars \union e.output
CaptureGuard(e, versions) ==
    [at |-> e.at, inputs |-> e.vars, outputs |-> e.output, scope |-> e.scope,
     versions |-> [path \in Guarded(e) |-> VersionOf(versions, path)]]

(* propagateOutputGuardAssignments: what is assigned from protected values  *)
(* alone is protected.                                                      *)
Protected(control, e, local) ==
    LET inputs == {v \in e.vars : Intersects({v}, local.tainted)}
        outputs == {o \in control.outputs : ~GuardVersionChanged(control, o, local.versions)}
    IN  IF control.outputs = {} \/ inputs = {} \/ outputs = {} \/ \E v \in inputs : ~Intersects({v}, outputs)
        THEN control
        ELSE [control EXCEPT !.outputs = outputs \union {e.target},
                             !.versions = Assigned(@, e.target, VersionOf(local.versions, e.target))]

(* controlRelation with guardCapabilityFailures: whether the guard holds    *)
(* for what the event consumes.                                             *)
Effective(control, e, versions) ==
    /\ e.at \in control.scope
    /\ IF control.outputs # {}
       THEN \E o \in control.outputs : Intersects(e.vars, {o}) /\ ~GuardVersionChanged(control, o, versions)
       ELSE /\ control.inputs = {} \/ Intersects(e.vars, control.inputs)
            /\ \A v \in control.inputs : ~GuardVersionChanged(control, v, versions)
-----------------------------------------------------------------------------
(* incomingParameterVariables: what a call taints in the function called.   *)
(* An argument that is tainted as a whole taints its parameter; otherwise   *)
(* only those parts of the parameter the function mentions.                 *)
PathsOf(e) == e.vars \union {e.target} \union UNION {a.vars : a \in Range(e.args)}
ParameterAccessBindings(f, root) ==
    {p \in UNION {PathsOf(e) : e \in Range(f.events)} : p # <<>> /\ p # root /\ PathFeeds(root, p)}

IncomingFor(argument, root, bindings, tainted) ==
    CASE \E v \in argument.vars, p \in tainted : PathFeeds(p, v) -> {root} \union bindings
      [] argument.path = <<>> -> {}
      [] bindings = {} -> IF Intersects({argument.path}, tainted) THEN {root} ELSE {}
      [] OTHER -> {b \in bindings :
                    Intersects({AppendAccessPath(argument.path, RelativeAccessPath(b, root))}, tainted)}

IncomingParameterVariables(f, e, tainted) ==
    UNION {IncomingFor(e.args[i], f.params[i], ParameterAccessBindings(f, f.params[i]), tainted) :
            i \in DOMAIN f.params \intersect DOMAIN e.args}

ArgumentVars(e) == UNION {a.vars : a \in Range(e.args)}
Crossed(crossed, e) == [k \in DOMAIN crossed |-> crossed[k] + (IF k \in e.crosses THEN 1 ELSE 0)]
TooFar(c, crossed) == \E k \in DOMAIN crossed : crossed[k] > c.budget.crossings

(* flowEventSequences: the events from some one on, on the first paths; the *)
(* search is not complete when there are more.                              *)
SequencesFrom(f, start) == [i \in DOMAIN f.sequences |-> SelectSeq(f.sequences[i], LAMBDA e : e.at >= start)]
Allowed(c) == IF c.budget.cfgPaths < c.budget.paths THEN c.budget.cfgPaths ELSE c.budget.paths
Few(seq, n) == SubSeq(seq, 1, IF Len(seq) < n THEN Len(seq) ELSE n)
CutAt(s, seq, n) == IF Len(seq) > n THEN Truncate(s) ELSE s
-----------------------------------------------------------------------------
(* findTaintedReturn: whether a function called with some parameters        *)
(* tainted returns a tainted value. "at" is the return it found, 0 if none. *)
NotFound(s) == [at |-> 0, search |-> s]

RECURSIVE FindTaintedReturn(_, _, _), ReturnAmong(_, _, _, _), ReturnOnPath(_, _, _, _, _), ReturnThrough(_, _, _, _, _, _)

ReturnThrough(c, w, e, callees, tainted, s) ==
    IF callees = <<>> THEN NotFound(s)
    ELSE LET incoming == IncomingParameterVariables(c.program[Head(callees)], e, tainted)
             result == IF incoming = {} THEN NotFound(s)
                       ELSE FindTaintedReturn(c, [w EXCEPT !.fn = Head(callees), !.incoming = incoming,
                                !.depth = @ + 1, !.crossed = Crossed(@, e)], s)
         IN  IF result.at # 0 THEN result
             ELSE ReturnThrough(c, w, e, Tail(callees), tainted, result.search)

ReturnFromCall(c, w, e, rest, tainted, result) ==
    ReturnOnPath(c, w, rest, IF result.at # 0 THEN tainted \union {e.target} ELSE tainted, result.search)

ReturnEvent(c, w, e, rest, tainted, s) ==
    CASE e.type = "assignment" ->
            ReturnOnPath(c, w, rest, ApplyAssignment(tainted, e.target, e.vars, e.mode), s)
      [] e.type = "call" /\ e.target # <<>> /\ TooFar(c, Crossed(w.crossed, e)) ->
            ReturnOnPath(c, w, rest, tainted, Truncate(s))
      [] e.type = "call" /\ e.target # <<>> /\ ~TooFar(c, Crossed(w.crossed, e)) /\ e.callees = <<>> ->
            ReturnOnPath(c, w, rest,
                IF Intersects(ArgumentVars(e), tainted) THEN tainted \union {e.target} ELSE tainted, s)
      [] e.type = "call" /\ e.target # <<>> /\ ~TooFar(c, Crossed(w.crossed, e)) /\ e.callees # <<>> ->
            ReturnFromCall(c, w, e, rest, tainted,
                ReturnThrough(c, w, e, Few(e.callees, c.budget.candidates), tainted, CutAt(s, e.callees, c.budget.candidates)))
      [] e.type = "return" /\ Intersects(e.vars, tainted) -> [at |-> e.at, search |-> s]
      [] OTHER -> ReturnOnPath(c, w, rest, tainted, s)

ReturnCounted(c, w, events, tainted, s) ==
    IF s.rootEvents > c.budget.rootEvents THEN NotFound(Truncate(s))
    ELSE ReturnEvent(c, w, Head(events), Tail(events), tainted, s)

ReturnLooked(c, w, events, tainted, s) ==
    IF Late(c, s) THEN NotFound(s)
    ELSE IF s.events >= c.budget.events THEN NotFound(Truncate(s))
    ELSE ReturnCounted(c, w, events, tainted, CountEvent(s))

ReturnOnPath(c, w, events, tainted, s) ==
    IF events = <<>> THEN NotFound(s) ELSE ReturnLooked(c, w, events, tainted, Look(c, s))

ReturnFirst(c, w, rest, result) ==
    IF result.at # 0 THEN result ELSE ReturnAmong(c, w, rest, result.search)

ReturnAmong(c, w, sequences, s) ==
    IF sequences = <<>> THEN NotFound(s)
    ELSE LET t == Look(c, s)
         IN  IF Late(c, t) THEN NotFound(t)
             ELSE ReturnFirst(c, w, Tail(sequences), ReturnOnPath(c, w, Head(sequences), w.incoming, t))

ReturnEntered(c, w, f, s) ==
    ReturnAmong(c, w, Few(f.sequences, c.budget.cfgPaths), CutAt(s, f.sequences, c.budget.cfgPaths))

FindTaintedReturn(c, w, s) ==
    LET t == Look(c, s)
        key == <<w.fn, w.incoming>>
    IN  IF Late(c, t) THEN NotFound(t)
        ELSE IF w.depth > c.budget.depth \/ StatesSpent(c, t) THEN NotFound(Truncate(t))
        ELSE IF key \in w.visited THEN NotFound(CountState(t))
        ELSE ReturnEntered(c, [w EXCEPT !.visited = @ \union {key}], c.program[w.fn], CountState(t))
-----------------------------------------------------------------------------
(* walkFlow and walkLinearFlow: through the events of each path of a        *)
(* function, and into the functions called. "local" is what the walk of one *)
(* path knows: what is tainted and by which steps, versions and guards.     *)
RECURSIVE Walk(_, _, _), WalkAmong(_, _, _, _), WalkEvents(_, _, _, _, _), WalkThrough(_, _, _, _, _, _)

ControlSteps(fn, controls, kind) == [i \in DOMAIN controls |-> Step(kind, fn, controls[i].at)]
EffectiveFor(e, local) == SelectSeq(local.controls, LAMBDA control : Effective(control, e, local.versions))
HintsFor(e, local) ==
    SelectSeq(local.controls, LAMBDA control : e.at \in control.scope /\ ~Effective(control, e, local.versions))

AssignmentEvent(w, e, local) ==
    LET advanced == [local EXCEPT !.versions = AdvanceValueVersion(@, e.target)]
    IN  [advanced EXCEPT
            !.controls = [i \in DOMAIN @ |-> Protected(@[i], e, advanced)],
            !.tainted = ApplyAssignment(@, e.target, e.vars, e.mode),
            !.evidence = Overlay(RemoveAssignedEvidence(@, e.target), AssignmentEvidence(e, local, w.fn))]

ControlEvent(e, local) ==
    IF Guarded(e) # {} /\ ~Intersects(Guarded(e), local.tainted) THEN local
    ELSE [local EXCEPT !.controls = Append(@, CaptureGuard(e, local.versions))]

(* A sink reached by a tainted value: the path to it, with the guards that  *)
(* hold for it and, as hints, those that do not.                            *)
PathTo(w, e, local) ==
    BestEvidenceForValues(e.vars, local.evidence, local.steps)
    \o ControlSteps(w.fn, EffectiveFor(e, local), "guard")
    \o ControlSteps(w.fn, HintsFor(e, local), "hint")
    \o <<Step("sink", w.fn, e.at)>>

SinkEvent(c, w, e, local, s) ==
    IF ~Intersects(e.vars, local.tainted) THEN s
    ELSE IF Len(PathTo(w, e, local)) > c.budget.steps THEN Truncate(s)
    ELSE [s EXCEPT !.paths = Append(@, [root |-> s.root, steps |-> PathTo(w, e, local)])]

(* The functions a call may lead to, one after the other; the first of them *)
(* that returns a tainted value counts.                                     *)
CalleeWalk(w, e, local, callee, incoming) ==
    LET steps == BestEvidenceForValues(e.vars, local.evidence, local.steps)
                 \o ControlSteps(w.fn, EffectiveFor(e, local), "guard") \o <<Step("call", w.fn, e.at)>>
    IN  [fn |-> callee, start |-> 0, tainted |-> incoming, evidence |-> [p \in incoming |-> steps], steps |-> steps,
         depth |-> w.depth + 1, crossed |-> Crossed(w.crossed, e), visited |-> w.visited \union {<<callee, incoming>>}]

ReturnWalk(w, e, callee, incoming) ==
    [fn |-> callee, incoming |-> incoming, visited |-> w.visited, depth |-> w.depth + 1, crossed |-> Crossed(w.crossed, e)]

WalkCallee(c, w, e, local, callee, incoming, returned) ==
    LET s == Walk(c, CalleeWalk(w, e, local, callee, incoming), returned.search)
    IN  IF e.target = <<>> \/ returned.at # 0 THEN [returned EXCEPT !.search = s]
        ELSE LET found == FindTaintedReturn(c, ReturnWalk(w, e, callee, incoming), s)
             IN  [at |-> found.at, fn |-> callee, search |-> found.search]

WalkThrough(c, w, e, local, callees, returned) ==
    IF callees = <<>> THEN returned
    ELSE LET incoming == IncomingParameterVariables(c.program[Head(callees)], e, local.tainted)
         IN  WalkThrough(c, w, e, local, Tail(callees),
                IF incoming = {} \/ <<Head(callees), incoming>> \in w.visited THEN returned
                ELSE WalkCallee(c, w, e, local, Head(callees), incoming, returned))

TaintTarget(local, target, steps) ==
    [local EXCEPT !.tainted = @ \union {target}, !.steps = steps, !.evidence = Assigned(@, target, steps)]

AfterCall(w, e, local, returned) ==
    CASE e.target # <<>> /\ returned.at # 0 ->
            TaintTarget(local, e.target, local.steps \o ControlSteps(w.fn, EffectiveFor(e, local), "guard")
                \o <<Step("call", w.fn, e.at), Step("return", returned.fn, returned.at)>>)
      [] e.target # <<>> /\ e.callees = <<>> /\ Intersects(ArgumentVars(e), local.tainted) ->
            TaintTarget(local, e.target, Append(local.steps, Step("call", w.fn, e.at)))
      [] OTHER -> local

WalkAfterCall(c, w, e, rest, local, returned) ==
    WalkEvents(c, w, rest, AfterCall(w, e, local, returned), returned.search)

(* A guard whose output is the target of the call makes its new version.    *)
CallEvent(c, w, e, rest, local, s) ==
    IF TooFar(c, Crossed(w.crossed, e)) THEN WalkEvents(c, w, rest, local, Truncate(s))
    ELSE WalkAfterCall(c, w, e, rest, local,
            WalkThrough(c, w, e, local, Few(e.callees, c.budget.candidates),
                [at |-> 0, fn |-> w.fn, search |-> CutAt(s, e.callees, c.budget.candidates)]))

CallVersions(e, local) ==
    IF e.target = <<>> \/ e.guarded THEN local ELSE [local EXCEPT !.versions = AdvanceValueVersion(@, e.target)]

WalkEvent(c, w, e, rest, local, s) ==
    CASE e.type = "assignment" -> WalkEvents(c, w, rest, AssignmentEvent(w, e, local), s)
      [] e.type = "control" -> WalkEvents(c, w, rest, ControlEvent(e, local), s)
      [] e.type = "call" -> CallEvent(c, w, e, rest, CallVersions(e, local), s)
      [] e.type = "sink" -> WalkEvents(c, w, rest, local, SinkEvent(c, w, e, local, s))
      [] OTHER -> WalkEvents(c, w, rest, local, s)

WalkCounted(c, w, events, local, s) ==
    IF Len(s.paths) >= c.budget.paths THEN Truncate(s)
    ELSE WalkEvent(c, w, Head(events), Tail(events), local, s)

WalkLooked(c, w, events, local, s) ==
    IF Late(c, s) THEN s
    ELSE IF Len(local.steps) >= c.budget.steps \/ EventsSpent(c, s) THEN Truncate(s)
    ELSE WalkCounted(c, w, events, local, CountEvent(s))

WalkEvents(c, w, events, local, s) ==
    IF events = <<>> THEN s ELSE WalkLooked(c, w, events, local, Look(c, s))

WalkAmong(c, w, sequences, s) ==
    IF sequences = <<>> THEN s
    ELSE LET t == Look(c, s)
         IN  IF Late(c, t) THEN t
             ELSE IF Len(t.paths) >= c.budget.paths \/ EventsSpent(c, t) THEN Truncate(t)
             ELSE WalkAmong(c, w, Tail(sequences),
                    WalkEvents(c, w, Head(sequences), [tainted |-> w.tainted, evidence |-> w.evidence,
                        versions |-> <<>>, steps |-> w.steps, controls |-> <<>>], t))

WalkEntered(c, w, sequences, s) ==
    WalkAmong(c, w, Few(sequences, Allowed(c)), CutAt(s, sequences, Allowed(c)))

Walk(c, w, s) ==
    LET t == Look(c, s)
    IN  IF Late(c, t) THEN t
        ELSE IF \/ w.depth > c.budget.depth \/ Len(w.steps) >= c.budget.steps
                \/ Len(t.paths) >= c.budget.paths \/ StatesSpent(c, t) THEN Truncate(t)
        ELSE WalkEntered(c, w, SequencesFrom(c.program[w.fn], w.start), CountState(t))
=============================================================================
