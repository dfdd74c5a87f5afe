---------------------------- MODULE QuerySession -----------------------------
(* A reviewer asks the queries of AuditQueries of one program.                *)
EXTENDS TaintedRuns, AuditQueries

CONSTANTS
    Programs,       \* the analysed programs
    Requests(_)     \* what may be asked of each

VARIABLES
    program,    \* the functions of the analyses
    request,    \* what was asked, NoRequest before
    answer      \* what runAuditQuery answered
vars == <<program, request, answer>>

NoRequest == [kind |-> "none"]
NoAnswer == [nodes |-> <<>>, limits |-> [truncated |-> FALSE]]
Context == [program |-> program]

Init ==
    /\ program \in Programs
    /\ request = NoRequest
    /\ answer = NoAnswer

Ask ==
    /\ request = NoRequest
    /\ request' \in Requests(program)
    /\ answer' = RunAuditQuery(Context, request')
    /\ UNCHANGED program

Next == Ask
Spec == Init /\ [][Next]_vars
-----------------------------------------------------------------------------
NamesTellApart == \A f, g \in DOMAIN program : program[f].name = program[g].name => f = g
Asked(kind) == request.kind = kind
ShownKind(kind) == {[fn |-> node.fn, at |-> node.at] : node \in {x \in Shown(answer.nodes) : x.kind = kind}}

(* What an answer is held to: it neither stopped early nor at a function that *)
(* was not indexed.                                                           *)
Complete == Whole(answer) /\ ShownKind("unresolved") = {}

(* The calls of the program as a relation.                                    *)
CallsTo == {<<fn, callee>> \in (DOMAIN program) \X (DOMAIN program) :
                \E e \in Range(program[fn].events) : callee \in Range(e.callees)}
RECURSIVE Reached(_)
Reached(functions) ==
    LET more == functions \union {edge[2] : edge \in {x \in CallsTo : x[1] \in functions}}
    IN  IF more = functions THEN functions ELSE Reached(more)

EventPlaces(type) ==
    UNION {{[fn |-> fn, at |-> e.at] : e \in {x \in Range(program[fn].events) : x.type = type}} : fn \in DOMAIN program}
SinksIn(functions) == {place \in EventPlaces("sink") : place.fn \in functions}

(* reachableSinks follows calls that call each other and stops at limits: it  *)
(* shows no sink the calls do not lead to, and all they lead to when the      *)
(* answer is whole. Implementations of one name are merged by dedupeNodes,    *)
(* which loses what the others lead to, so the names are told apart here.     *)
ReachableSinksAreAll ==
    Asked("reachable-sinks") =>
        /\ ShownKind("sink") \subseteq SinksIn(Reached({answer.fn}))
        /\ Whole(answer) /\ NamesTellApart => SinksIn(Reached({answer.fn})) \subseteq ShownKind("sink")

(* traceToEntries, which goes the other way, finds an entry exactly where     *)
(* some entry leads to the function.                                          *)
EntriesAreFound ==
    Asked("trace-to-entry") /\ Whole(answer) =>
        (ShownKind("entry") # {} <=> \E fn \in DOMAIN program : program[fn].inputs # {} /\ answer.fn \in Reached({fn}))

(* The sinks that get the raw data that is in a value at some line.           *)
RawFrom(fn, value, line) ==
    {[fn |-> s.fn, at |-> s.at] : s \in RawSinks(program, [fn |-> fn, at |-> line, values |-> {value}])}

(* forwardVariable: whatever the data of a value gets to when the program     *)
(* runs is shown, through assignments, calls, returns and recursion.          *)
ForwardShowsFlows ==
    Asked("trace-forward") /\ Complete /\ NamesTellApart =>
        RawFrom(answer.fn, answer.value, answer.line) \subseteq ShownKind("sink")

(* backwardVariable: the sources whose data gets to the sink asked about are  *)
(* shown.                                                                     *)
SourcesOf(place) ==
    {source \in EventPlaces("source") :
        \E e \in Range(program[source.fn].events) :
            e.at = source.at /\ \E v \in e.vars : place \in RawFrom(source.fn, v, e.at)}
BackwardShowsFlows ==
    Asked("trace-backward") /\ Complete =>
        SourcesOf([fn |-> answer.fn, at |-> answer.line]) \subseteq ShownKind("source")

(* explainHere, which finds the function by the line it stands on and looks   *)
(* its calls up by their callers, shows what stands on that line, and agrees  *)
(* on each call with findCallers, which looks it up by what is called.        *)
PlacesOn(file, line) ==
    {place \in UNION {EventPlaces(type) : type \in {"source", "assignment", "call", "control", "sink", "return"}} :
        program[place.fn].file = file /\ program[place.fn].begins + place.at = line}
CallersShown(fn) ==
    LET found == RunAuditQuery(Context, [request EXCEPT !.kind = "find-callers", !.file = program[fn].file, !.line = program[fn].begins])
    IN  {[fn |-> node.fn, at |-> node.at] : node \in {x \in Shown(found.nodes) : x.kind = "call"}}
ExplanationsAgree ==
    Asked("explain") =>
        LET here == PlacesOn(request.file, request.line)
            shown == {[fn |-> node.fn, at |-> node.at] : node \in Shown(answer.nodes)}
        IN  /\ here \subseteq shown
            /\ \A place \in here \intersect EventPlaces("call") :
                    (place \in UNION {CallersShown(fn) : fn \in DOMAIN program}) <=> (place \notin ShownKind("unresolved"))

(* The same where values are only assigned as a whole: what is written to a   *)
(* part of a value does not define the value for latestDefinitions.           *)
WholesWritten == \A fn \in DOMAIN program : \A e \in Range(program[fn].events) : Len(e.target) < 2
BackwardShowsWholeFlows == WholesWritten => BackwardShowsFlows
=============================================================================
