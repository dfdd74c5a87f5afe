------------------------------- MODULE MCFlows -------------------------------
(* Functions grow by one operation at a time, in source order, in every way *)
(* their statements may nest; each is closed by a last step, so that what   *)
(* follows a branch exists. Its graph (OperationCfg) is compared with what  *)
(* it may do when it runs (Steps). Beside it, each in runs of its own: what *)
(* two trackers of the parsers' frontends know while they visit a function, *)
(* of the elements of lists and of constants.                               *)
EXTENDS OperationCfg, ConstantOutcomes

CONSTANTS
    Kinds,          \* the kinds of operations written
    MaxOperations,  \* bound on them
    Frontend,       \* "compiler" or "parsers": which one gave the ranges
    Indexes, Scopes, MaxCalls   \* of ListSlots

VARIABLES
    moving,     \* which of the three moves: "flows", "lists" or "constants"
    written,    \* the operations of the function so far
    function,   \* the function they make, a last step after them
    cfg,        \* its graph, <<>> while a part is missing
    steps,      \* its executions, step by step
    calls, state, effects   \* of ListSlots
flowVars == <<written, function, cfg, steps>>
listVars == <<calls, state, effects>>
vars == <<moving, flowVars, listVars, visitVars>>

Slots == INSTANCE ListSlots
-----------------------------------------------------------------------------
(* The reference: what a function of the analysed languages may do. From    *)
(* each operation the ones that may run next, by the structure of its       *)
(* statements; nothing of source order, ranges and joins is known here.     *)
PartOf(f, b, part) == {i \in DOMAIN f.ops : f.ops[i].parent = b /\ f.ops[i].part = part}

(* Where control goes when the last operation of a part is done, and after  *)
(* statement i as a whole.                                                  *)
PartEnd(f, after, b, part) ==
    LET then == IF PartOf(f, b, "then") = {} THEN after[b] ELSE Min(PartOf(f, b, "then"))
        finally == IF PartOf(f, b, "finally") = {} THEN after[b] ELSE Min(PartOf(f, b, "finally"))
    IN  CASE f.ops[b].kind = "loop" /\ part = "then" -> b
          [] f.ops[b].kind = "try" /\ part = "then" /\ PartOf(f, b, "else") # {} -> Min(PartOf(f, b, "else"))
          [] f.ops[b].kind = "try" /\ part \in {"then", "catch", "else"} -> finally
          [] OTHER -> after[b]

After(f) ==
    LET after[i \in 0..Len(f.ops)] ==
            IF i = 0 THEN Exit(f)
            ELSE LET later == {j \in PartOf(f, f.ops[i].parent, f.ops[i].part) : j > i}
                 IN  IF later # {} THEN Min(later)
                     ELSE IF f.ops[i].parent = 0 THEN Exit(f)
                     ELSE PartEnd(f, after, f.ops[i].parent, f.ops[i].part)
    IN  after

(* Where a jump of some kind out of statement i goes: to the nearest thing  *)
(* around it that stops it, a finally part on the way included.             *)
Stops(f, after, b, part, kind) ==
    CASE kind = "throw" /\ f.ops[b].kind = "try" /\ part = "then" /\ f.ops[b].catches ->
            {IF PartOf(f, b, "catch") = {} THEN PartEnd(f, after, b, "catch") ELSE Min(PartOf(f, b, "catch"))}
      [] f.ops[b].kind = "try" /\ part # "finally" /\ PartOf(f, b, "finally") # {} -> {Min(PartOf(f, b, "finally"))}
      [] kind = "break" /\ part = "then" /\ f.ops[b].kind \in {"loop", "switch"} -> {after[b]}
      [] kind = "continue" /\ part = "then" /\ f.ops[b].kind = "loop" -> {b}
      [] OTHER -> {}

JumpsFrom(f, after, kind) ==
    LET to[i \in 0..Len(f.ops)] ==
            IF i = 0 \/ f.ops[i].parent = 0 THEN Exit(f)
            ELSE LET stop == Stops(f, after, f.ops[i].parent, f.ops[i].part, kind)
                 IN  IF stop = {} THEN to[f.ops[i].parent] ELSE Min(stop)
    IN  to

(* A decision is taken at the end of the condition, or at the branch.       *)
DecidedAt(f, b) == Max({b} \union PartOf(f, b, "condition"))
First(f, b, part, other) == IF PartOf(f, b, part) = {} THEN other ELSE Min(PartOf(f, b, part))

Outcomes(f, after, b) ==
    (IF f.ops[b].outcome = "false" THEN {} ELSE {First(f, b, "then", after[b])})
    \union (IF f.ops[b].outcome = "true" THEN {} ELSE {First(f, b, "else", after[b])})

(* The operations that may run after i.                                     *)
NextOf(f, after, i) ==
    LET branches == {b \in 1..i : f.ops[b].kind \in Branches \ {"try"} /\ DecidedAt(f, b) = i}
        kind == f.ops[i].kind
    IN  CASE kind \in Jumps -> {JumpsFrom(f, after, kind)[i]}
          [] kind = "try" -> {Min(PartOf(f, i, "then"))}
          [] branches # {} -> UNION {Outcomes(f, after, d) : d \in branches}
          [] kind \in Branches \ {"try"} /\ branches = {} -> {Min(PartOf(f, i, "condition"))}
          [] OTHER -> {after[i]}

(* What a finally part goes on with that was entered by jump i.             *)
Unwound(f, after, b, i) ==
    LET finally == PartOf(f, b, "finally")
        jumps == JumpsFrom(f, after, f.ops[i].kind)
    IN  IF finally # {} /\ i \in b..Min(finally) /\ jumps[i] = Min(finally)
           /\ f.ops[Max(finally)].kind \notin Jumps \union Branches
        THEN {<<Max(finally), jumps[b]>>} ELSE {}

StepsFrom(f, after) ==
    {<<0, 1>>}
    \union UNION {{<<i, j>> : j \in NextOf(f, after, i)} : i \in DOMAIN f.ops}
    \union UNION {Unwound(f, after, b, i) : b \in {t \in DOMAIN f.ops : f.ops[t].kind = "try"},
                                           i \in {j \in DOMAIN f.ops : f.ops[j].kind \in Jumps}}

Steps(f) == StepsFrom(f, After(f))
-----------------------------------------------------------------------------
(* The functions written.                                                   *)

PartsOf(kind) ==
    CASE kind = "if" -> <<"condition", "then", "else">>
      [] kind \in {"loop", "switch"} -> <<"condition", "then">>
      [] kind = "try" -> <<"then", "catch", "else", "finally">>
      [] OTHER -> <<>>

(* Where the next operation may stand: in the body, in a part of the last   *)
(* one, or in this part or a later one of what stands around that.          *)
NotBefore(kind, part) ==
    LET parts == PartsOf(kind)
    IN  {parts[j] : j \in {k \in DOMAIN parts : \E i \in 1..k : parts[i] = part}}

Places(f) ==
    LET last == Len(f.ops)
    IN  {<<0, "body">>}
        \union (IF last = 0 THEN {} ELSE {last} \X Range(PartsOf(f.ops[last].kind)))
        \union (IF last = 0 THEN {} ELSE UNION {{e[1]} \X NotBefore(f.ops[e[1]].kind, e[2]) : e \in f.around[last]})

Plain(kind, place) == [kind |-> kind, parent |-> place[1], part |-> place[2],
                       outcome |-> "either", negative |-> FALSE, catches |-> FALSE]

Around(f, place) == IF place[1] = 0 THEN {} ELSE {place} \union f.around[place[1]]
Stopping(f, place) == {f.ops[e[1]].kind : e \in Around(f, place)}

May(kind, f, place) ==
    /\ kind = "break" => {"loop", "switch"} \intersect Stopping(f, place) # {}
    /\ kind = "continue" => "loop" \in Stopping(f, place)

Written(f, place) ==
    {Plain(kind, place) : kind \in {k \in Kinds : May(k, f, place)}}
    \union {[Plain("if", place) EXCEPT !.negative = TRUE], [Plain("if", place) EXCEPT !.outcome = "true"]}
    \union (IF "try" \in Kinds THEN {[Plain("try", place) EXCEPT !.catches = TRUE]} ELSE {})

Operations(f, place) == IF place[2] = "condition" THEN {Plain("guard", place)} ELSE Written(f, place)

(* A loop and a try have a body, a try without a catch a finally part alone. *)
Complete(f) ==
    \A b \in DOMAIN f.ops :
        /\ f.ops[b].kind \in {"loop", "try"} => PartOf(f, b, "then") # {}
        /\ f.ops[b].kind = "try" /\ ~f.ops[b].catches =>
              PartOf(f, b, "catch") \union PartOf(f, b, "else") = {} /\ PartOf(f, b, "finally") # {}

Closing(ops) == Function(Frontend, Append(ops, Plain("step", <<0, "body">>)))

Init ==
    /\ moving \in {"flows", "lists", "constants"}
    /\ written = <<>> /\ function = Closing(<<>>) /\ cfg = <<>> /\ steps = {}
    /\ Slots!Init /\ VisitInit

AppendOperation ==
    /\ moving = "flows" /\ UNCHANGED <<moving, listVars, visitVars>>
    /\ Len(written) < MaxOperations
    /\ \E place \in Places(Function(Frontend, written)) :
          \E o \in Operations(Function(Frontend, written), place) : written' = Append(written, o)
    /\ function' = Closing(written')
    /\ cfg' = IF Complete(function') THEN BuildOperationCFG(function') ELSE <<>>
    /\ steps' = IF Complete(function') THEN Steps(function') ELSE {}

TrackList == moving = "lists" /\ UNCHANGED <<moving, flowVars, visitVars>> /\ Slots!Next
TrackConstants == moving = "constants" /\ UNCHANGED <<moving, flowVars, listVars>> /\ VisitNext

Next == AppendOperation \/ TrackList \/ TrackConstants
Spec == Init /\ [][Next]_vars

(* What the properties on whole executions leave to the runs that refute     *)
(* it: a branch that ends a part of another one joins at the operation that  *)
(* follows it in the source, wherever that stands. Out of scope altogether:  *)
(* a jump out of two trys, and a break or continue past a finally part.      *)
JoinsWhereItContinues(f, after) ==
    \A b \in DOMAIN f.ops : f.ops[b].kind \in Branches => JoinOf(f, b) = after[b]

TrysAround(f, i) == {e \in f.around[i] : f.ops[e[1]].kind = "try"}
LeavesOneTry(f) ==
    \A i \in DOMAIN f.ops : f.ops[i].kind \in Jumps =>
        /\ Cardinality(TrysAround(f, i)) <= 1
        /\ f.ops[i].kind \in {"break", "continue"} =>
              \A e \in TrysAround(f, i) : PartOf(f, e[1], "finally") = {}

Structured(f) == JoinsWhereItContinues(f, After(f)) /\ LeavesOneTry(f)

Covers(executed) ==
    \A s \in steps : s[1] \in executed /\ s[2] # Exit(function) => s \in Pairs(cfg)


(* What the graph takes for unreachable never runs: the operations markDead  *)
(* hides from findings and queries (cfg.js reachableFrom).                   *)
UnreachableIsDead == Reach(steps, 0) \subseteq Reach(Pairs(cfg), 0)

(* What may run after the guard rejected, until the guard runs again.        *)
Bypasses(g, b, executed) ==
    IF g \in executed /\ function.ops[b].outcome = "either" /\ g = DecidedAt(function, b)
    THEN Reach({s \in steps : s[1] # g}, First(function, b, Rejected(function, b), After(function)[b]))
    ELSE {}


(* A use of a validated parameter that is told to be protected by the       *)
(* rejection of broken constraints (safeOperationIds) runs only after the   *)
(* check, never after the check found errors, and with no change of the     *)
(* parameter since.                                                         *)
EnforcedUsesAreValid ==
    Structured(function) =>
    \A m \in DOMAIN function.ops :
        LET g == EnforcedAt(function, cfg, {m})
            since == {s \in steps : s[1] # g}
            executed == Reach(steps, 0)
            refused == Reach(since, First(function, function.ops[g].parent, "then", After(function)[function.ops[g].parent]))
        IN  g \in executed =>
            \A i \in SafeOperationIds(function, cfg, {m}) \intersect executed :
                i \notin Reach(since, 0) /\ i \notin refused
                /\ (m \in executed /\ m # i => i \notin Reach(since, m))

(* ListSlots: what a read of a list of known elements may find is among the  *)
(* values its slots are taken to hold (collection-semantics.js).             *)
ReadsFindTheirElement == Slots!ReadsFindTheirElement
=============================================================================
