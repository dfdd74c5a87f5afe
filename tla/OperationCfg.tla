----------------------------- MODULE OperationCfg ----------------------------
(* The control flow graph of a function (dataflow/cfg.js) over the          *)
(* operations a frontend emits, and the sequences of events read from it    *)
(* (dataflow/control-flow.js). A function is a sequence of operations in    *)
(* source order. An operation stands in a part of another one, its parent   *)
(* (0 for the body of the function): the location of a branch is its whole  *)
(* statement, so the operations of a part are those whose location lies in  *)
(* the range of the part. Block 0 is the entry, block Len(f.ops) + 1 the exit,  *)
(* and block i the one of operation i.                                      *)
EXTENDS Integers, Sequences, FiniteSets, SequencesExt, FiniteSetsExt

Branches == {"if", "loop", "switch", "try"}
Jumps == {"return", "throw", "break", "continue"}
Exit(f) == Len(f.ops) + 1

(* What stands around operation i: the pairs of a branch and one of its     *)
(* parts, as far out as the function goes.                                  *)
Enclosing(ops) ==
    LET around[i \in 0..Len(ops)] ==
            IF i = 0 \/ ops[i].parent = 0 THEN {}
            ELSE {<<ops[i].parent, ops[i].part>>} \union around[ops[i].parent]
    IN  around

Function(frontend, ops) == [ops |-> ops, around |-> Enclosing(ops), frontend |-> frontend]

(* The parts a frontend gives a range. The compiler frontend reads none of  *)
(* a switch but its condition; the parsers read its body as the then part.  *)
Ranged(frontend, kind) ==
    IF kind = "switch" /\ frontend = "compiler" THEN {"condition"}
    ELSE {"condition", "then", "else", "catch", "finally"}

(* blocksInRange.                                                           *)
BlocksInRange(f, b, part) ==
    IF part \notin Ranged(f.frontend, f.ops[b].kind) THEN {}
    ELSE {i \in DOMAIN f.ops : <<b, part>> \in f.around[i]}

(* The end of a branch, and the first operation that starts at or after it. *)
EndOf(f, b) == Max({b} \union {i \in DOMAIN f.ops : \E e \in f.around[i] : e[1] = b})
JoinOf(f, b) == EndOf(f, b) + 1

(* Edges are a list of triples: what a block leads to, in order, and why.   *)
RemoveOutgoing(edges, block) == SelectSeq(edges, LAMBDA e : e[1] # block)
Add(edges, from, to, why) == Append(edges, <<from, to, why>>)
FirstOr(blocks, other) == IF blocks = {} THEN other ELSE Min(blocks)


(* connectTail: the last block of a part leads on to where the part ends,   *)
(* unless it is a jump.                                                     *)
ConnectTail(f, edges, blocks, to, why) ==
    IF blocks = {} \/ f.ops[Max(blocks)].kind \in Jumps THEN edges
    ELSE Add(RemoveOutgoing(edges, Max(blocks)), Max(blocks), to, why)

(* A branch or a loop: through its condition to either part, from the parts *)
(* to the join or back to the loop.                                         *)
BranchEdges(f, edges, b) ==
    LET Part(part) == BlocksInRange(f, b, part)
        condition == Part("condition")
        join == JoinOf(f, b)
        decision == IF condition = {} THEN b ELSE Max(condition)
        entered == IF condition = {} THEN RemoveOutgoing(edges, b)
                   ELSE RemoveOutgoing(Add(RemoveOutgoing(edges, b), b, Min(condition), "condition"), decision)
        true == IF f.ops[b].outcome = "false" THEN entered
                ELSE Add(entered, decision, FirstOr(Part("then"), join), "true")
        false == IF f.ops[b].outcome = "true" THEN true
                 ELSE Add(true, decision, FirstOr(Part("else"), join), "false")
        loop == f.ops[b].kind = "loop"
        then == ConnectTail(f, false, Part("then"), IF loop THEN b ELSE join, IF loop THEN "loop" ELSE "join")
    IN  ConnectTail(f, then, Part("else"), join, "join")

FinallyEntry(f, b) == FirstOr(BlocksInRange(f, b, "finally"), JoinOf(f, b))
ExceptionEntry(f, b) == FirstOr(BlocksInRange(f, b, "catch"), FinallyEntry(f, b))

(* buildTryEdges: the body, or an exception at its start.                   *)
TryEdges(f, edges, b) ==
    LET Part(part) == BlocksInRange(f, b, part)
        finally == FinallyEntry(f, b)
        success == FirstOr(Part("else"), finally)
        normal == Add(RemoveOutgoing(edges, b), b, FirstOr(Part("then"), success), "normal")
        exception == Add(normal, b, ExceptionEntry(f, b), "exception")
        body == ConnectTail(f, exception, Part("then"), success, "try-success")
        else == ConnectTail(f, body, Part("else"), finally, "try-else")
        catch == ConnectTail(f, else, Part("catch"), finally, "catch")
    IN  ConnectTail(f, catch, Part("finally"), JoinOf(f, b), "finally")

(* The edges of one operation, in the order of the operations.              *)
OperationEdges(f, edges, i) ==
    CASE f.ops[i].kind \in {"return", "throw"} -> Add(RemoveOutgoing(edges, i), i, Exit(f), f.ops[i].kind)
      [] f.ops[i].kind \in {"break", "continue"} -> RemoveOutgoing(edges, i)
      [] f.ops[i].kind = "try" -> TryEdges(f, edges, i)
      [] f.ops[i].kind \in Branches \ {"try"} -> BranchEdges(f, edges, i)
      [] OTHER -> edges

(* The innermost branch of some kind around operation i, 0 for none: parts  *)
(* are nested, so the innermost is the last to begin.                       *)
InnermostContaining(f, i, kind, parts) ==
    Max({0} \union {b \in 1..i : f.ops[b].kind = kind /\
            \E part \in parts : i \in BlocksInRange(f, b, part)})

TryParts == {"then", "catch", "else", "finally"}

(* wireStructuredTransfers: where a jump leads. The second component holds  *)
(* the trys whose finally part may leave the function.                      *)
Transfer(f, wired, i) ==
    LET edges == wired[1]
        kind == f.ops[i].kind
        loop == InnermostContaining(f, i, "loop", {"then"})
        handler == InnermostContaining(f, i, "try", TryParts)
        In(part) == i \in BlocksInRange(f, handler, part)
        finally == BlocksInRange(f, handler, "finally")
        To(block, why) == Add(RemoveOutgoing(edges, i), i, block, why)
    IN  CASE kind = "continue" /\ loop # 0 -> <<To(loop, kind), wired[2]>>
          [] kind = "break" /\ loop # 0 -> <<To(JoinOf(f, loop), kind), wired[2]>>
          [] kind = "return" /\ handler # 0 ->
                IF finally = {} \/ In("finally") THEN wired
                ELSE <<To(Min(finally), "finally-return"), wired[2] \union {handler}>>
          [] kind = "throw" /\ handler # 0 ->
                IF In("then") THEN <<To(ExceptionEntry(f, handler), "exception"), wired[2]>>
                ELSE IF finally = {} THEN <<To(Exit(f), "exception"), wired[2]>>
                ELSE <<To(Min(finally), "exception"), wired[2] \union {handler}>>
          [] OTHER -> wired

WireStructuredTransfers(f, edges) ==
    LET wired == FoldLeft(LAMBDA w, i : Transfer(f, w, i), <<edges, {}>>, [i \in DOMAIN f.ops |-> i])
        tails == {Max(BlocksInRange(f, b, "finally")) : b \in wired[2]}
    IN  wired[1] \o SetToSeq({<<t, Exit(f), "finally-abrupt">> : t \in tails})

(* buildOperationCFG: every block leads to the next one, until the          *)
(* operations say otherwise.                                                *)
BuildOperationCFG(f) ==
    LET next == [i \in 1..Len(f.ops) + 1 |-> <<i - 1, i, "next">>]
        structured == FoldLeft(LAMBDA edges, i : OperationEdges(f, edges, i), next, [i \in DOMAIN f.ops |-> i])
    IN  WireStructuredTransfers(f, structured)

Pairs(edges) == {<<e[1], e[2]>> : e \in Range(edges)}

(* reachableFrom, over any set of pairs.                                    *)
RECURSIVE Closed(_, _)
Closed(pairs, seen) ==
    LET next == {e[2] : e \in {p \in pairs : p[1] \in seen}}
    IN  IF next \subseteq seen THEN seen ELSE Closed(pairs, seen \union next)
Reach(pairs, start) == Closed(pairs, {start})

(* computeDominators: the equations solved from above, round by round.      *)
Refined(dom, before) ==
    [b \in DOMAIN dom |-> IF b = 0 THEN {0}
        ELSE {b} \union (IF before[b] = {} THEN {} ELSE {d \in DOMAIN dom : \A p \in before[b] : d \in dom[p]})]
RECURSIVE Solved(_, _)
Solved(dom, before) ==
    LET next == Refined(dom, before) IN IF next = dom THEN dom ELSE Solved(next, before)
Dominators(f, edges) ==
    Solved([b \in 0..Exit(f) |-> IF b = 0 THEN {0} ELSE 0..Exit(f)],
           [b \in 0..Exit(f) |-> {e[1] : e \in {p \in Pairs(edges) : p[2] = b}}])

(* applyGuardScopes: the blocks a guard in the condition of a branch is     *)
(* taken to protect, those behind the join too when the other part never    *)
(* gets there.                                                              *)
GuardBranch(f, g) ==
    LET around == {b \in 1..g : f.ops[b].kind \in Branches /\ g \in BlocksInRange(f, b, "condition")}
    IN  FirstOr(around, 0)

Rejected(f, b) == IF f.ops[b].negative THEN "then" ELSE "else"
Guarded(f, b) == IF f.ops[b].negative THEN "else" ELSE "then"


GuardAppliesToBlocks(f, edges, g) ==
    LET b == GuardBranch(f, g)
        guarded == BlocksInRange(f, b, Guarded(f, b))
        rejected == BlocksInRange(f, b, Rejected(f, b))
        terminates == rejected # {} /\ JoinOf(f, b) \notin Reach(Pairs(edges), Min(rejected))
    IN  IF b = 0 THEN {}
        ELSE guarded \union (IF ~terminates THEN {}
                             ELSE {i \in 0..Exit(f) : JoinOf(f, b) \in Dominators(f, edges)[i]})
-----------------------------------------------------------------------------
(* When the rejection of a request whose @Valid parameter broke its         *)
(* constraints is taken for proven (dataflow/path-engine.js): the handler   *)
(* asks `if (result.hasErrors())`, and the operations that run only where   *)
(* the answer was no, with no change of the parameter on the way, use it as *)
(* it was constrained. The check is the guard operation of that condition;  *)
(* which operations may change the parameter is given (changes).            *)

(* positiveBindingResultCheck: the condition is the check, not negated.     *)
Checks(f) ==
    {g \in DOMAIN f.ops :
        /\ f.ops[g].kind = "guard" /\ f.ops[g].part = "condition"
        /\ f.ops[f.ops[g].parent].kind = "if" /\ ~f.ops[f.ops[g].parent].negative}

EdgeOf(edges, g, why) == SelectSeq(edges, LAMBDA e : e[1] = g /\ e[3] = why)
BehindEdge(edges, g, why) ==
    IF EdgeOf(edges, g, why) = <<>> THEN {} ELSE Reach(Pairs(edges), Head(EdgeOf(edges, g, why))[2])

(* A slip: what the rejecting answer leads to as well counts as accepted.   *)
AcceptedAtAll(f, edges, g) ==
    {i \in BehindEdge(edges, g, "false") \intersect DOMAIN f.ops :
        BehindEdge(edges, g, "true") # {} /\ g \in Dominators(f, edges)[i]}

AcceptedOnly(f, edges, g) ==
    {i \in (BehindEdge(edges, g, "false") \ BehindEdge(edges, g, "true")) \intersect DOMAIN f.ops :
        BehindEdge(edges, g, "true") # {} /\ g \in Dominators(f, edges)[i]}

(* javaBeanValidationEnforcement: the operations that use the parameter as  *)
(* constrained. A change of it before the check, in the block of the use or *)
(* of the check itself is not looked for.                                   *)
SafeOperations(f, edges, g, changes) ==
    LET changed == (changes \intersect BehindEdge(edges, g, "false")) \ {g}
    IN  {i \in AcceptedOnly(f, edges, g) : \A m \in changed \ {i} : i \notin Reach(Pairs(edges), m)}

(* The first check that makes any operation safe is the one that is told.   *)
EnforcedAt(f, edges, changes) ==
    FirstOr({g \in Checks(f) : SafeOperations(f, edges, g, changes) # {}}, 0)
SafeOperationIds(f, edges, changes) ==
    IF EnforcedAt(f, edges, changes) = 0 THEN {}
    ELSE SafeOperations(f, edges, EnforcedAt(f, edges, changes), changes)
=============================================================================
