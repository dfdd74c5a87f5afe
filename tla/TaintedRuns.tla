----------------------------- MODULE TaintedRuns -----------------------------
(* What the programs of PathEngine do when they run: where data that comes  *)
(* from a root gets to. Every value is told apart by its path: it is clean, *)
(* raw data from the root, or such data after a guard. This is the          *)
(* reference the search is checked against; a function called gets copies   *)
(* of its arguments.                                                        *)
EXTENDS PathEngine

CONSTANTS Names, Parts, MaxCalls

Values == {<<n>> : n \in Names} \union {<<n, p>> : n \in Names, p \in Parts}
Parted == {<<>>} \union {<<p>> : p \in Parts}

Worst(statuses) == IF "raw" \in statuses THEN "raw" ELSE IF "guarded" \in statuses THEN "guarded" ELSE "clean"
Same(status) == [suffix \in Parted |-> status]

Read(env, path) == [suffix \in Parted |-> IF path \o suffix \in Values THEN env[path \o suffix] ELSE env[path]]
Written(env, path, value) ==
    [v \in Values |-> IF PathFeeds(path, v)
                      THEN IF RelativeAccessPath(v, path) \in Parted THEN value[RelativeAccessPath(v, path)] ELSE value[<<>>]
                      ELSE env[v]]

At(env, values) == {env[v] : v \in values}
Within(env, values) == {env[v] : v \in {x \in Values : \E y \in values : PathFeeds(y, x)}}

Assign(env, e) ==
    CASE e.mode = "alias" /\ e.vars # {} -> Written(env, e.target, Read(env, CHOOSE v \in e.vars : TRUE))
      [] e.mode = "aggregate" -> Written(env, e.target, Same(Worst(Within(env, e.vars))))
      [] OTHER -> Written(env, e.target, Same(Worst(At(env, e.vars))))

Guard(env, values) ==
    [v \in Values |-> IF env[v] = "raw" /\ \E y \in values : PathFeeds(y, v) THEN "guarded" ELSE env[v]]

Argument(env, argument) ==
    IF argument.path # <<>> THEN Read(env, argument.path) ELSE Same(Worst(At(env, argument.vars)))
Called(f, e, env) ==
    [v \in Values |-> LET bound == {i \in DOMAIN f.params \intersect DOMAIN e.args : PathFeeds(f.params[i], v)}
                      IN  IF bound = {} THEN "clean"
                          ELSE LET i == CHOOSE j \in bound : TRUE
                               IN  Argument(env, e.args[i])[RelativeAccessPath(v, f.params[i])]]

(* The runs of a list of events: the sinks that get raw data, and what is   *)
(* returned.                                                                *)
RECURSIVE Runs(_, _, _, _, _, _)
RunsOf(program, fn, env, calls) ==
    UNION {Runs(program, fn, sequence, env, {}, calls) : sequence \in Range(program[fn].sequences)}

Runs(program, fn, events, env, sinks, calls) ==
    IF events = <<>> THEN {[sinks |-> sinks, value |-> Same("clean")]}
    ELSE LET e == Head(events)
             On(next, reached) == Runs(program, fn, Tail(events), next, reached, calls)
             Out(status) == IF e.guarded /\ status = "raw" THEN "guarded" ELSE status
         IN  CASE e.type = "assignment" -> On(Assign(env, e), sinks)
               [] e.type = "control" -> On(IF e.output = {} THEN Guard(env, e.vars) ELSE env, sinks)
               [] e.type = "sink" ->
                    On(env, IF Worst(Within(env, e.vars)) = "raw" THEN sinks \union {Step("sink", fn, e.at)} ELSE sinks)
               [] e.type = "return" ->
                    {[sinks |-> sinks, value |-> Read(env, CHOOSE v \in e.vars : TRUE)]}
               [] e.type = "call" /\ e.callees = <<>> ->
                    On(IF e.target = <<>> THEN env
                       ELSE Written(env, e.target, Same(Out(Worst(Within(env, ArgumentVars(e)))))), sinks)
               [] e.type = "call" /\ e.callees # <<>> /\ calls > 0 ->
                    UNION {UNION {On(IF e.target = <<>> THEN env ELSE Written(env, e.target, run.value), sinks \union run.sinks) :
                                    run \in RunsOf(program, callee, Called(program[callee], e, env), calls - 1)} :
                            callee \in Range(e.callees)}
               [] OTHER -> On(env, sinks)

From(sequence, at) == SelectSeq(sequence, LAMBDA e : e.at >= at)
RawSinks(program, r) ==
    UNION {run.sinks : run \in UNION {
        Runs(program, r.fn, From(sequence, r.at), Written([v \in Values |-> "clean"], value, Same("raw")), {}, MaxCalls) :
            sequence \in Range(program[r.fn].sequences), value \in r.values}}
=============================================================================
