---------------------------- MODULE AuditQueries -----------------------------
(* The queries a reviewer asks from the editor (query/audit-query-engine.js): *)
(* where a value comes from, where it goes, who calls a function, which       *)
(* entries lead to it and which sinks it leads to. They read the programs of  *)
(* PathEngine by rules of their own. An answer is a list of nodes, each with  *)
(* the nodes shown below it, and the limits spent on it.                      *)
EXTENDS PathEngine, FiniteSetsExt

Answer(nodes, limits) == [nodes |-> nodes, limits |-> limits]
Limits(request) == [maxDepth |-> request.maxDepth, maxNodes |-> request.maxNodes, nodes |-> 0, truncated |-> FALSE]

(* reserve.                                                                   *)
Reserve(limits) == [limits EXCEPT !.nodes = @ + 1, !.truncated = @ \/ limits.nodes >= limits.maxNodes]
ReserveEach(limits, n) == FoldLeft(LAMBDA l, i : Reserve(l), limits, [i \in 1..n |-> i])
Reserved(limits) == limits.nodes < limits.maxNodes

(* dedupeNodes: of the nodes that read the same the first one stays.          *)
(* A slip: wherever they are.                                                 *)
ReadsAlike(node) == [kind |-> node.kind, label |-> node.label]

Reads(node) == [kind |-> node.kind, fn |-> node.fn, at |-> node.at, label |-> node.label]
DedupeNodes(nodes) ==
    LET first == {i \in DOMAIN nodes : \A j \in 1..i - 1 : Reads(nodes[j]) # Reads(nodes[i])}
    IN  [i \in 1..Cardinality(first) |-> nodes[CHOOSE j \in first : Cardinality({k \in first : k <= j}) = i]]

Shown(nodes) == UNION {node.below \union {[kind |-> node.kind, fn |-> node.fn, at |-> node.at]} : node \in Range(nodes)}
QueryNode(kind, fn, at, label, children) ==
    [kind |-> kind, fn |-> fn, at |-> at, label |-> label, below |-> Shown(DedupeNodes(children))]
Leaf(kind, fn, at) == QueryNode(kind, fn, at, <<"", {}>>, <<>>)

(* A node for a call reads by the name of the function called.                *)
CallNode(c, fn, e, callee, values, children) ==
    QueryNode("call", fn, e.at, <<c.program[callee].name, values>>, children)

Limit(w) == Leaf("limit", w.fn, 0)
Stopped(w, limits) == IF w.depth > limits.maxDepth THEN Leaf("depth", w.fn, 0) ELSE Leaf("cycle", w.fn, 0)
-----------------------------------------------------------------------------
(* createContext: the calls that lead to a function.                          *)
Incoming(c, fn) ==
    FlattenSeq([i \in 1..Cardinality(DOMAIN c.program) |->
        LET caller == SetToSeq(DOMAIN c.program)[i]
            calls == SelectSeq(c.program[caller].events, LAMBDA e : fn \in Range(e.callees))
        IN  [j \in DOMAIN calls |-> [caller |-> caller, event |-> calls[j]]]])

EventConsumes(e, value) == \E v \in e.vars \union ArgumentVars(e) : PathsOverlap(value, v)

(* eventSequences up to some events: the paths that pass one, cut there.      *)
FirstOf(sequence, lines) == Min({i \in DOMAIN sequence : sequence[i].at \in lines})
Passing(f, lines) == {s \in Range(f.sequences) : \E i \in DOMAIN s : s[i].at \in lines}
UpTo(f, lines) == {SubSeq(s, 1, FirstOf(s, lines)) : s \in Passing(f, lines)}
Before(f, lines) == {SubSeq(s, 1, FirstOf(s, lines) - 1) : s \in Passing(f, lines)}
-----------------------------------------------------------------------------
(* taintReachesEventOnSomePath: from the value that was asked for, or from an *)
(* event that produced it, by strong updates along one path.                  *)
ApplyEvent(w, e, tainted) ==
    CASE e.type = "assignment" /\ w.origin = 0 /\ e.at = w.after /\ PathFeeds(e.target, w.value) -> tainted
      [] e.type = "assignment" /\ ~(w.origin = 0 /\ e.at = w.after /\ PathFeeds(e.target, w.value)) ->
            ApplyAssignment(tainted, e.target, e.vars, e.mode)
      [] e.type = "source" /\ e.target # <<>> /\ e.at > w.after -> RemoveAssignedTaint(tainted, e.target) \union {e.target}
      [] e.type = "call" /\ e.target # <<>> ->
            RemoveAssignedTaint(tainted, e.target)
            \union (IF Intersects(ArgumentVars(e), tainted) THEN {e.target} ELSE {})
      [] OTHER -> tainted

TaintReaches(f, w, target) ==
    \E s \in UpTo(f, {target.at}) :
        /\ w.origin = 0 \/ \E i \in DOMAIN s : s[i].at = w.origin
        /\ LET events == SelectSeq(Front(s), LAMBDA e : e.at >= w.after /\ e.at > w.origin)
           IN  Intersects({w.value}, FoldLeft(LAMBDA tainted, e : ApplyEvent(w, e, tainted), {w.value}, events))

Consumers(f, w) ==
    SelectSeq(f.events, LAMBDA e : /\ e.at >= w.after /\ e.at # w.origin
                                   /\ EventConsumes(e, w.value) /\ TaintReaches(f, w, e))

(* calleeValuesForCallerVariable.                                             *)
ValueInCallee(argument, parameter, value) ==
    IF \E v \in argument.vars : PathFeeds(value, v) THEN {parameter}
    ELSE IF argument.path # <<>> /\ PathFeeds(argument.path, value)
         THEN {AppendAccessPath(parameter, RelativeAccessPath(value, argument.path))} ELSE {}
CalleeValuesForCallerVariable(f, e, value) ==
    UNION {ValueInCallee(e.args[i], f.params[i], value) : i \in DOMAIN e.args \intersect DOMAIN f.params}

Following(w, fn, value, after, origin) ==
    [fn |-> fn, value |-> value, after |-> after, origin |-> origin, depth |-> w.depth + 1, visiting |-> w.visiting]

RECURSIVE ForwardVariable(_, _, _), ForwardEach(_, _, _), ForwardEvent(_, _, _, _), ForwardEvents(_, _, _, _),
          ForwardParts(_, _, _)

ForwardEach(c, ws, limits) ==
    IF ws = <<>> THEN Answer(<<>>, limits)
    ELSE LET first == ForwardVariable(c, Head(ws), limits)
             rest == ForwardEach(c, Tail(ws), first.limits)
         IN  Answer(first.nodes \o rest.nodes, rest.limits)

(* A part of an answer is a node and the values its children follow.          *)
Part(node, ws) == [node |-> node, ws |-> ws]
ForwardParts(c, parts, limits) ==
    IF parts = <<>> THEN Answer(<<>>, limits)
    ELSE LET below == ForwardEach(c, Head(parts).ws, limits)
             rest == ForwardParts(c, Tail(parts), below.limits)
             node == Head(parts).node
         IN  Answer(<<[node EXCEPT !.below = @ \union Shown(DedupeNodes(below.nodes))]>> \o rest.nodes, rest.limits)

AssignmentParts(c, w, e) ==
    LET outputs == SetToSeq(PropagatedAssignmentTargets(e.target, e.vars, {w.value}, e.mode))
    IN  [i \in DOMAIN outputs |->
            Part(QueryNode("assignment", w.fn, e.at, <<"", {outputs[i]}>>, <<>>), <<Following(w, w.fn, outputs[i], e.at, e.at)>>)]

CalleePart(c, w, e, callee) ==
    LET values == CalleeValuesForCallerVariable(c.program[callee], e, w.value)
        into == SetToSeq(values)
    IN  Part(CallNode(c, w.fn, e, callee, values, IF values = {} THEN <<Leaf("argument", callee, 0)>> ELSE <<>>),
             [i \in DOMAIN into |-> Following(w, callee, into[i], 0, 0)])

CallParts(c, w, e) ==
    IF e.propagates /\ e.target # <<>> /\ Intersects(ArgumentVars(e), {w.value})
    THEN <<Part(QueryNode("propagator", w.fn, e.at, <<"", {e.target}>>, <<>>), <<Following(w, w.fn, e.target, e.at, e.at)>>)>>
    ELSE IF e.callees = <<>> THEN <<Part(Leaf("unresolved", w.fn, e.at), <<>>)>>
    ELSE [i \in DOMAIN e.callees |-> CalleePart(c, w, e, e.callees[i])]

ReturnPart(c, w, edge) ==
    IF edge.event.target = <<>>
    THEN Part(CallNode(c, edge.caller, edge.event, w.fn, {}, <<Leaf("return", edge.caller, edge.event.at)>>), <<>>)
    ELSE Part(CallNode(c, edge.caller, edge.event, w.fn, {edge.event.target}, <<>>),
              <<Following(w, edge.caller, edge.event.target, edge.event.at, edge.event.at)>>)

ReturnParts(c, w, e) ==
    LET callers == Incoming(c, w.fn)
    IN  IF callers = <<>> THEN <<Part(Leaf("return", w.fn, e.at), <<>>)>>
        ELSE [i \in DOMAIN callers |-> ReturnPart(c, w, callers[i])]

ForwardEvent(c, w, e, limits) ==
    ForwardParts(c,
        CASE e.type = "assignment" -> AssignmentParts(c, w, e)
          [] e.type = "sink" -> <<Part(Leaf("sink", w.fn, e.at), <<>>)>>
          [] e.type = "call" -> CallParts(c, w, e)
          [] e.type = "return" -> ReturnParts(c, w, e)
          [] e.type = "control" -> <<Part(Leaf("guard", w.fn, e.at), <<>>)>>
          [] OTHER -> <<>>, limits)

ForwardEvents(c, w, events, limits) ==
    IF events = <<>> THEN Answer(<<>>, limits)
    ELSE IF ~Reserved(limits) THEN Answer(<<Limit(w)>>, Reserve(limits))
    ELSE LET first == ForwardEvent(c, w, Head(events), Reserve(limits))
             rest == ForwardEvents(c, w, Tail(events), first.limits)
         IN  Answer(first.nodes \o rest.nodes, rest.limits)

Deduped(answer) == Answer(DedupeNodes(answer.nodes), answer.limits)
Visited(w) == <<w.fn, w.value, w.after, w.origin>>
Entering(w) == [w EXCEPT !.visiting = @ \union {Visited(w)}]

ForwardVariable(c, w, limits) ==
    IF ~Reserved(limits) THEN Answer(<<Limit(w)>>, Reserve(limits))
    ELSE IF Visited(w) \in w.visiting \/ w.depth > limits.maxDepth THEN Answer(<<Stopped(w, limits)>>, Reserve(limits))
    ELSE Deduped(ForwardEvents(c, Entering(w), Consumers(c.program[w.fn], w), Reserve(limits)))
-----------------------------------------------------------------------------
(* latestDefinitions: what last defined the value on each path to a line. The *)
(* line itself counts only when nothing before it does.                       *)
Defines(e, value, line) == e.at <= line /\ e.target # <<>> /\ PathFeeds(e.target, value)

(* A slip: on whatever path.                                                  *)
LatestInText(f, value, line) ==
    LET found == {e \in Range(f.events) : Defines(e, value, line) /\ e.at < line}
    IN  {e \in found : \A other \in found : other.at <= e.at}

LatestDefinitions(f, value, line) ==
    LET paths == IF \E e \in Range(f.events) : e.at = line THEN Before(f, {line}) ELSE Range(f.sequences)
        found == {Last(d) : d \in {SelectSeq(s, LAMBDA e : Defines(e, value, line)) : s \in paths} \ {<<>>}}
        others == {e \in Range(f.events) : Defines(e, value, line)}
    IN  IF found # {} THEN found ELSE {e \in others : \A other \in others : other.at <= e.at}

(* assignmentInputs.                                                          *)
AssignmentInputs(e, output) ==
    IF e.mode = "alias" /\ PathFeeds(e.target, output)
    THEN {AppendAccessPath(v, RelativeAccessPath(output, e.target)) : v \in e.vars} ELSE e.vars

(* callerValuesForParameter.                                                  *)
CallerValues(e, index, below) ==
    IF index \notin DOMAIN e.args THEN {}
    ELSE LET argument == e.args[index]
         IN  IF below # <<>>
             THEN {AppendAccessPath(v, below) : v \in IF argument.path # <<>> THEN {argument.path} ELSE argument.vars}
             ELSE IF argument.vars # {} THEN argument.vars
             ELSE IF argument.path # <<>> THEN {argument.path} ELSE {}

RECURSIVE BackwardVariable(_, _, _), BackwardEach(_, _, _), BackwardParts(_, _, _)

BackwardEach(c, ws, limits) ==
    IF ws = <<>> THEN Answer(<<>>, limits)
    ELSE LET first == BackwardVariable(c, Head(ws), limits)
             rest == BackwardEach(c, Tail(ws), first.limits)
         IN  Answer(first.nodes \o rest.nodes, rest.limits)

BackwardParts(c, parts, limits) ==
    IF parts = <<>> THEN Answer(<<>>, limits)
    ELSE LET below == BackwardEach(c, Head(parts).ws, limits)
             rest == BackwardParts(c, Tail(parts), below.limits)
             node == Head(parts).node
         IN  Answer(<<[node EXCEPT !.below = @ \union Shown(DedupeNodes(below.nodes))]>> \o rest.nodes, rest.limits)

Each(w, fn, values, line) ==
    LET ordered == SetToSeq(values) IN [i \in DOMAIN ordered |-> Following(w, fn, ordered[i], line, 0)]

(* What a call returned: the values at the returns of the functions called.   *)
ReturnedBy(c, w, callee) ==
    FlattenSeq([i \in DOMAIN c.program[callee].events |->
        LET e == c.program[callee].events[i] IN IF e.type = "return" THEN Each(w, callee, e.vars, e.at) ELSE <<>>])

DefinitionWalks(c, w, e) ==
    CASE e.type = "assignment" -> Each(w, w.fn, AssignmentInputs(e, w.value), e.at)
      [] e.type = "call" -> FlattenSeq([i \in DOMAIN e.callees |-> ReturnedBy(c, w, e.callees[i])])
      [] OTHER -> <<>>

DefinitionPart(c, w, e) ==
    Part(QueryNode(e.type, w.fn, e.at, <<"", {w.value}>>,
            IF e.type = "call" /\ e.callees = <<>> THEN <<Leaf("unresolved", w.fn, e.at)>> ELSE <<>>),
         DefinitionWalks(c, w, e))

CallerPart(c, w, edge, index, below) ==
    Part(CallNode(c, edge.caller, edge.event, w.fn, {<<>>}, <<>>),
         Each(w, edge.caller, CallerValues(edge.event, index, below), edge.event.at))

(* parameterForVariable, and the calls that supply the parameter.             *)
ParameterOf(f, value) == SelectInSeq(f.params, LAMBDA parameter : PathFeeds(parameter, value))
FromCallers(c, w, index, limits) ==
    LET callers == Incoming(c, w.fn)
        below == RelativeAccessPath(w.value, c.program[w.fn].params[index])
    IN  IF callers # <<>> THEN BackwardParts(c, [i \in DOMAIN callers |-> CallerPart(c, w, callers[i], index, below)], limits)
        ELSE Answer(<<Leaf(IF c.program[w.fn].inputs # {} THEN "entry" ELSE "parameter", w.fn, 0)>>, limits)

BackwardFrom(c, w, limits) ==
    LET f == c.program[w.fn]
        definitions == SetToSeq(LatestDefinitions(f, w.value, w.after))
    IN  IF definitions # <<>> THEN BackwardParts(c, [i \in DOMAIN definitions |-> DefinitionPart(c, w, definitions[i])], limits)
        ELSE IF ParameterOf(f, w.value) # 0 THEN FromCallers(c, w, ParameterOf(f, w.value), limits)
        ELSE Answer(<<Leaf("unknown-origin", w.fn, 0)>>, limits)

BackwardVariable(c, w, limits) ==
    IF ~Reserved(limits) THEN Answer(<<Limit(w)>>, Reserve(limits))
    ELSE IF Visited(w) \in w.visiting \/ w.depth > limits.maxDepth THEN Answer(<<Stopped(w, limits)>>, Reserve(limits))
    ELSE BackwardFrom(c, Entering(w), Reserve(limits))
-----------------------------------------------------------------------------
(* traceToEntries and reachableSinks, over the calls alone. A call is shown   *)
(* when something resolved stands below it.                                   *)
RECURSIVE TraceToEntries(_, _, _), TraceCallers(_, _, _, _), ReachableSinks(_, _, _), SinksThrough(_, _, _, _)

Deeper(w, fn) == [w EXCEPT !.fn = fn, !.depth = @ + 1, !.visiting = @ \union {w.fn}]

TraceCallers(c, w, callers, limits) ==
    IF callers = <<>> THEN Answer(<<>>, limits)
    ELSE LET edge == Head(callers)
             first == TraceToEntries(c, Deeper(w, edge.caller), limits)
             rest == TraceCallers(c, w, Tail(callers), first.limits)
         IN  Answer(<<CallNode(c, edge.caller, edge.event, w.fn, {}, first.nodes)>> \o rest.nodes, rest.limits)

TraceToEntries(c, w, limits) ==
    IF ~Reserved(limits) THEN Answer(<<Limit(w)>>, Reserve(limits))
    ELSE IF c.program[w.fn].inputs # {} THEN Answer(<<Leaf("entry", w.fn, 0)>>, Reserve(limits))
    ELSE IF w.depth > limits.maxDepth \/ w.fn \in w.visiting THEN Answer(<<Stopped(w, limits)>>, Reserve(limits))
    ELSE IF Incoming(c, w.fn) = <<>> THEN Answer(<<Leaf("no-entry", w.fn, 0)>>, Reserve(limits))
    ELSE TraceCallers(c, w, Incoming(c, w.fn), Reserve(limits))

CallsMade(f) ==
    FlattenSeq([i \in DOMAIN f.events |->
        [j \in DOMAIN f.events[i].callees |-> [event |-> f.events[i], callee |-> f.events[i].callees[j]]]])
Unresolved(f) == SelectSeq(f.events, LAMBDA e : e.type = "call" /\ e.callees = <<>>)
Resolved(nodes) == \E node \in Range(nodes) : node.kind \notin {"unresolved", "limit"}

SinksThrough(c, w, calls, limits) ==
    IF calls = <<>> THEN Answer(<<>>, limits)
    ELSE LET call == Head(calls)
             first == ReachableSinks(c, Deeper(w, call.callee), limits)
             rest == SinksThrough(c, w, Tail(calls), first.limits)
         IN  Answer((IF Resolved(first.nodes) THEN <<CallNode(c, w.fn, call.event, call.callee, {}, first.nodes)>> ELSE <<>>)
                    \o rest.nodes, rest.limits)

ReachableSinks(c, w, limits) ==
    IF ~Reserved(limits) THEN Answer(<<Limit(w)>>, Reserve(limits))
    ELSE IF w.depth > limits.maxDepth \/ w.fn \in w.visiting THEN Answer(<<Stopped(w, limits)>>, Reserve(limits))
    ELSE LET f == c.program[w.fn]
             sinks == SelectSeq(f.events, LAMBDA e : e.type = "sink")
             outside == Unresolved(f)
             called == SinksThrough(c, w, CallsMade(f), Reserve(limits))
         IN  Deduped(Answer([i \in DOMAIN sinks |-> Leaf("sink", w.fn, sinks[i].at)] \o called.nodes
                            \o [i \in DOMAIN outside |-> Leaf("unresolved", w.fn, outside[i].at)], called.limits))
-----------------------------------------------------------------------------
(* callerNodes and calleeNodes.                                               *)
Callers(c, fn, limits) ==
    LET callers == Incoming(c, fn)
    IN  Answer([i \in DOMAIN callers |-> CallNode(c, callers[i].caller, callers[i].event, fn, {}, <<>>)],
               ReserveEach(limits, Len(callers)))
Callees(c, fn, limits) ==
    LET called == CallsMade(c.program[fn])
        outside == Unresolved(c.program[fn])
    IN  Answer([i \in DOMAIN called |-> CallNode(c, fn, called[i].event, called[i].callee, {}, <<>>)]
               \o [i \in DOMAIN outside |-> Leaf("unresolved", fn, outside[i].at)],
               ReserveEach(limits, Len(called) + Len(outside)))

(* explainHere: the operations of a line, or of the lines next to it, and     *)
(* the calls of the function that nothing was found for. The limit on nodes   *)
(* is counted and not obeyed.                                                 *)
OperationsAt(f, line) ==
    LET exact == SelectSeq(f.events, LAMBDA e : e.at = line)
    IN  IF exact # <<>> THEN exact ELSE SelectSeq(f.events, LAMBDA e : e.at \in line - 1..line + 1)

UnresolvedCallNode(fn, e) == Leaf("unresolved", fn, e.at)
CalledAt(c, fn, e) ==
    IF e.type # "call" THEN <<>>
    ELSE IF e.callees = <<>> THEN <<UnresolvedCallNode(fn, e)>>
    ELSE [i \in DOMAIN e.callees |-> CallNode(c, fn, e, e.callees[i], {}, <<>>)]
ExplainOperation(c, fn, e) == QueryNode(e.type, fn, e.at, <<"", e.vars \union {e.target}>>, CalledAt(c, fn, e))

ExplainHere(c, w, limits) ==
    LET f == c.program[w.fn]
        here == OperationsAt(f, w.after)
        outside == Unresolved(f)
        children == [i \in DOMAIN here |-> ExplainOperation(c, w.fn, here[i])]
                    \o [i \in DOMAIN outside |-> UnresolvedCallNode(w.fn, outside[i])]
                    \o (IF here = <<>> THEN <<Leaf("gap", w.fn, 0)>> ELSE <<>>)
    IN  Answer(<<QueryNode("analysis", w.fn, 0, <<f.name, {}>>, children)>>, ReserveEach(limits, Len(here)))
-----------------------------------------------------------------------------
(* selectFunction: the innermost function around a line of a file, or the one *)
(* that begins nearest to it.                                                 *)
InFile(c, request) == {fn \in DOMAIN c.program : c.program[fn].file = request.file}
Around(c, request) == {fn \in InFile(c, request) : request.line \in c.program[fn].begins..c.program[fn].ends}
Length(f) == f.ends - f.begins
Distance(f, line) == IF f.begins > line THEN f.begins - line ELSE line - f.begins

(* A slip: the function that begins first.                                    *)
OutermostFunction(c, request) ==
    CHOOSE fn \in InFile(c, request) : \A g \in InFile(c, request) : c.program[fn].begins <= c.program[g].begins

SelectFunction(c, request) ==
    IF Around(c, request) # {}
    THEN CHOOSE fn \in Around(c, request) : \A g \in Around(c, request) : Length(c.program[fn]) <= Length(c.program[g])
    ELSE CHOOSE fn \in InFile(c, request) : \A g \in InFile(c, request) :
            Distance(c.program[fn], request.line) <= Distance(c.program[g], request.line)

(* inferVariable: what a line gives a value to, or else what it uses.         *)
InferVariable(f, line) ==
    LET here == SelectSeq(f.events, LAMBDA e : e.at = line)
        written == SelectSeq(here, LAMBDA e : e.target # <<>>)
        used == SelectSeq(here, LAMBDA e : e.vars # {})
    IN  IF written # <<>> THEN Head(written).target
        ELSE IF used # <<>> THEN CHOOSE v \in Head(used).vars : TRUE ELSE <<>>

AskedOf(c, w, kind, limits) ==
    CASE kind \in {"trace-backward", "trace-forward"} /\ w.value = <<>> -> Answer(<<Leaf("selection", w.fn, 0)>>, limits)
      [] kind = "trace-backward" /\ w.value # <<>> -> BackwardVariable(c, w, limits)
      [] kind = "trace-forward" /\ w.value # <<>> -> ForwardVariable(c, w, limits)
      [] kind = "find-callers" -> Callers(c, w.fn, limits)
      [] kind = "find-callees" -> Callees(c, w.fn, limits)
      [] kind = "trace-to-entry" -> TraceToEntries(c, w, limits)
      [] kind = "reachable-sinks" -> ReachableSinks(c, w, limits)
      [] kind = "explain" -> ExplainHere(c, w, limits)

WithSubject(answer, w) ==
    [nodes |-> IF answer.nodes = <<>> THEN <<Leaf("empty", w.fn, 0)>> ELSE answer.nodes,
     limits |-> answer.limits, fn |-> w.fn, value |-> w.value, line |-> w.after]

(* emptyResult: no function of the file was indexed.                          *)
EmptyResult(request) ==
    [nodes |-> <<Leaf("empty", "", 0)>>, limits |-> Limits(request), fn |-> "", value |-> request.value, line |-> 0]

(* runAuditQuery. Lines are counted from where the function begins.           *)
RunAuditQuery(c, request) ==
    IF InFile(c, request) = {} THEN EmptyResult(request)
    ELSE LET fn == SelectFunction(c, request)
             line == request.line - c.program[fn].begins
             value == IF request.value # <<>> THEN request.value ELSE InferVariable(c.program[fn], line)
             w == [fn |-> fn, value |-> value, after |-> line, origin |-> 0, depth |-> 0, visiting |-> {}]
         IN  WithSubject(AskedOf(c, w, request.kind, Limits(request)), w)

(* Nothing in the answer says that the query stopped early.                   *)
Whole(answer) ==
    ~answer.limits.truncated /\ \A node \in Shown(answer.nodes) : node.kind \notin {"limit", "depth"}
=============================================================================
