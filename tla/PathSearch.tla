----------------------------- MODULE PathSearch ------------------------------
(* findSourceSinkPaths: the roots of a program are walked one after the     *)
(* other under shared budgets; what was cut short is known by its root. The *)
(* order of the roots is a ranking for reviewers and may be any here.       *)
EXTENDS TaintedRuns

CONSTANTS
    Searches,       \* programs, budgets, and whether the roots of a selection are asked for
    MaxResults,     \* options.maxPaths, how many paths are returned
    RequestNames    \* the names that stand for a request by convention

VARIABLES
    context,    \* the program and the budgets of this search
    asked,      \* the functions whose roots are asked for
    waiting,    \* the roots not walked yet
    search,     \* what is shared by the walks
    result      \* what the search returned, <<>> before
vars == <<context, asked, waiting, search, result>>

Root(fn, at, values) == [fn |-> fn, at |-> at, values |-> values]

EventsOf(f, type) == {e \in Range(f.events) : e.type = type}
SourceRoots(program, fn) == {Root(fn, e.at, e.vars) : e \in EventsOf(program[fn], "source")}
EntryRoots(program, fn) ==
    IF program[fn].inputs = {} THEN {} ELSE {Root(fn, 0, program[fn].inputs)}

(* collectTransferredRequestParams: a parameter that a call hands a request *)
(* and that is read by its parts.                                           *)
NamesIn(values) == {v[1] : v \in values}
GlobalRoots(program) ==
    RequestNames \union UNION {NamesIn(e.vars) : e \in UNION {EventsOf(program[fn], "source") : fn \in DOMAIN program}}

TransferEdges(program, names) ==
    UNION {{[fn |-> fn, args |-> e.args, callee |-> callee] : callee \in Range(e.callees)} :
            <<fn, e>> \in UNION {{fn} \X {x \in EventsOf(program[fn], "call") :
                                    NamesIn(ArgumentVars(x)) \intersect names # {}} : fn \in DOMAIN program}}

TransferredAlong(program, edge, names, transferred) ==
    {<<edge.callee, i>> : i \in {j \in DOMAIN edge.args \intersect DOMAIN program[edge.callee].params :
        NamesIn(edge.args[j].vars) \intersect
            (names \union {program[edge.fn].params[t[2]][1] : t \in {x \in transferred : x[1] = edge.fn}}) # {}}}

RECURSIVE TransferRounds(_, _, _, _, _)
TransferRounds(program, edges, names, transferred, rounds) ==
    LET more == transferred \union UNION {TransferredAlong(program, edge, names, transferred) : edge \in edges}
    IN  IF rounds = 0 \/ more = transferred THEN transferred
        ELSE TransferRounds(program, edges, names, more, rounds - 1)

ReadsProperties(f, parameter) ==
    \E e \in Range(f.events) : \E v \in e.vars \union ArgumentVars(e) : v # parameter /\ PathFeeds(parameter, v)

TransferredRequestParams(program, names) ==
    {t \in TransferRounds(program, TransferEdges(program, names), names, {}, 8) :
        ReadsProperties(program[t[1]], program[t[1]].params[t[2]])}

TransferredRoots(program, fn) ==
    LET params == {program[fn].params[t[2]] :
                    t \in {x \in TransferredRequestParams(program, GlobalRoots(program)) : x[1] = fn}}
    IN  IF params = {} THEN {} ELSE {Root(fn, 0, params)}

(* buildRoots over the functions asked for; a selection looks for no        *)
(* transferred requests.                                                    *)
BuildRoots(program, functions, selection) ==
    UNION {SourceRoots(program, fn) \union EntryRoots(program, fn)
           \union (IF selection THEN {} ELSE TransferredRoots(program, fn)) : fn \in functions}
-----------------------------------------------------------------------------
EmptySearch == [truncated |-> FALSE, partial |-> {}, root |-> NoRoot, clock |-> 0, states |-> 0, events |-> 0,
                rootStates |-> 0, rootEvents |-> 0, paths |-> <<>>]

Asked(c) == IF c.selection THEN SUBSET DOMAIN c.program ELSE {DOMAIN c.program}

Init ==
    /\ context \in Searches
    /\ asked \in Asked(context)
    /\ waiting = BuildRoots(context.program, asked, context.selection)
    /\ search = EmptySearch
    /\ result = <<>>

RootWalk(r) ==
    LET steps == <<Step("source", r.fn, r.at)>>
    IN  [fn |-> r.fn, start |-> r.at, tainted |-> r.values, evidence |-> [v \in r.values |-> steps], steps |-> steps,
         depth |-> 0, crossed |-> [k \in {"closure", "async"} |-> 0], visited |-> {<<r.fn, r.values>>}]

(* What ends the loop over the roots before its next root.                  *)
Spent(c, s) == Late(c, s) \/ Len(s.paths) >= c.budget.paths \/ s.states >= c.budget.states \/ s.events >= c.budget.events

WalkRoot ==
    /\ ~Spent(context, Look(context, search))
    /\ \E r \in waiting :
          /\ search' = Walk(context, RootWalk(r),
                            [Look(context, search) EXCEPT !.root = r, !.rootStates = 0, !.rootEvents = 0])
          /\ waiting' = waiting \ {r}
    /\ UNCHANGED <<context, asked, result>>

(* A slip: the roots never entered are forgotten.                           *)
ForgetRoots ==
    /\ waiting # {}
    /\ Spent(context, Look(context, search))
    /\ search' = Truncate(Look(context, search))
    /\ waiting' = {}
    /\ UNCHANGED <<context, asked, result>>

(* The roots never entered are incomplete too.                              *)
LeaveRoots ==
    /\ waiting # {}
    /\ Spent(context, Look(context, search))
    /\ search' = [Truncate(Look(context, search)) EXCEPT !.partial = @ \union waiting]
    /\ waiting' = {}
    /\ UNCHANGED <<context, asked, result>>

(* Paths with the same steps are one; which of a kind is a validation that  *)
(* holds makes no difference. The first one found stays.                    *)
Key(steps) == [i \in DOMAIN steps |-> [steps[i] EXCEPT !.kind = IF @ = "hint" THEN "guard" ELSE @]]
UniquePaths(paths) ==
    {paths[i] : i \in {j \in DOMAIN paths : \A k \in 1..j - 1 : Key(paths[k].steps) # Key(paths[j].steps)}}

Conclude ==
    /\ waiting = {} /\ result = <<>>
    /\ \E kept \in kSubset(IF Cardinality(UniquePaths(search.paths)) < MaxResults
                           THEN Cardinality(UniquePaths(search.paths)) ELSE MaxResults, UniquePaths(search.paths)) :
          result' = <<[paths |-> kept, partial |-> search.partial,
                       truncated |-> search.truncated \/ Cardinality(UniquePaths(search.paths)) > MaxResults]>>
    /\ UNCHANGED <<context, asked, waiting, search>>

Next == WalkRoot \/ LeaveRoots \/ Conclude
Spec == Init /\ [][Next]_vars
-----------------------------------------------------------------------------
(* The same search without a budget.                                        *)
Unlimited == [depth |-> 9, steps |-> 99, paths |-> 99, states |-> 999, rootStates |-> 999, events |-> 999,
              rootEvents |-> 999, cfgPaths |-> 9, candidates |-> 9, crossings |-> 9, clock |-> 99999]

PathsFrom(program, r) ==
    Range(Walk([program |-> program, budget |-> Unlimited], RootWalk(r), [EmptySearch EXCEPT !.root = r]).paths)

Keys(paths) == {Key(p.steps) : p \in paths}
AskedRoots == BuildRoots(context.program, asked, context.selection)

(* What a search does not find it says it did not look for: from a root     *)
(* that is not listed as incomplete every path there is was found, and a    *)
(* result that is not truncated holds them all.                             *)
TruncationIsHonest ==
    \A answer \in Range(result) :
        /\ \A r \in AskedRoots \ answer.partial :
              Keys(PathsFrom(context.program, r)) \subseteq Keys(Range(search.paths))
        /\ ~answer.truncated =>
              UNION {Keys(PathsFrom(context.program, r)) : r \in AskedRoots} \subseteq Keys(answer.paths)

(* A selection of functions has the roots these functions have in a full    *)
(* search.                                                                  *)
SelectionHasItsRoots ==
    AskedRoots = {r \in BuildRoots(context.program, DOMAIN context.program, FALSE) : r.fn \in asked}

Unguarded(p) == \A i \in DOMAIN p.steps : p.steps[i].kind # "guard"

RawFlowsReported(r) ==
    \A sink \in RawSinks(context.program, r) :
        \E p \in Range(search.paths) : p.root = r /\ Last(p.steps) = sink /\ Unguarded(p)

(* No part of a guarded value, and no value it is a part of, is written.    *)
GuardsMeetWholePaths ==
    \A fn \in DOMAIN context.program :
        LET events == Range(context.program[fn].events)
        IN  \A guard \in EventsOf(context.program[fn], "control"), e \in events : \A v \in Guarded(guard) :
                e.target # <<>> /\ PathsOverlap(v, e.target) => e.target = v

(* Whatever raw data gets to from a root whose search is complete, there is *)
(* a path to it, and one on which no guard is taken to hold: a guard whose  *)
(* value was assigned again no longer protects (guardVersionChanged).       *)
EveryRawFlowReported ==
    \A answer \in Range(result) : \A r \in AskedRoots \ answer.partial : RawFlowsReported(r)

(* The same where guarded values are only assigned as a whole.              *)
RawFlowsPastWholeGuardsReported == GuardsMeetWholePaths => EveryRawFlowReported
=============================================================================
