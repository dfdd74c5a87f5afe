--------------------------- MODULE ConstantOutcomes ---------------------------
(* How the parsers' frontends decide a branch whose condition is constant:  *)
(* while they visit a function in source order they keep the variables last *)
(* assigned a constant, and what the condition comes to under these is the  *)
(* outcome of the branch (frontends/tree-sitter-frontend.js); the other     *)
(* part is unreachable and its findings are omitted. Beside what the visit  *)
(* knows stand the memories the function may run with. Values are tagged,   *)
(* booleans are 0 and 1; numbers stay in -Bound..Bound, where no language   *)
(* overflows. Strings and null, which are carried and compared alike, are   *)
(* left out, and so are loops, whose bodies are parts like any other.       *)
EXTENDS Integers

CONSTANTS
    Counters, Flags,    \* the variables: of numbers, of booleans
    Numbers,            \* literals, and what a call may return
    Bound,
    MaxStatements

ASSUME VariablesDiffer == Counters \intersect Flags = {}
ASSUME BoundIsNatural == Bound \in Nat
ASSUME NumbersAreSmall == Numbers \subseteq -Bound..Bound

VARIABLES
    constants,  \* the constant a variable is taken to hold, or NoConstant
    memories,   \* the memories an execution may have here
    aside,      \* those it may have where the other part of the branch starts or ended
    inside,     \* "" or the part of a branch the visit is in
    doubtful,   \* variables that hold what a part of a branch assigned
    decided,    \* the last branch: what it was taken for, and what it may do
    statements     \* how many statements there are
visitVars == <<constants, memories, aside, inside, doubtful, decided, statements>>

Variables == Counters \union Flags
NoConstant == <<"none", 0>>
Number(n) == <<"number", n>>
Boolean(b) == <<"boolean", IF b THEN 1 ELSE 0>>
IsTrue(v) == v = Boolean(TRUE)
Both(a, b, type) == a[1] = type /\ b[1] = type

(* Math.trunc and % of JavaScript: both follow the sign of the dividend.    *)
Magnitude(n) == IF n < 0 THEN -n ELSE n
Signed(n, m) == IF n < 0 THEN -m ELSE m
Truncated(a, b) == Signed(a * b, Magnitude(a) \div Magnitude(b))
Remainder(a, b) == Signed(a, Magnitude(a) % Magnitude(b))

(* The switch of constantExpressionValue, both sides constant.              *)
Arithmetic(op, a, b) ==
    CASE op = "+" -> a + b
      [] op = "-" -> a - b
      [] op = "*" -> a * b
      [] op = "/" -> Truncated(a, b)
      [] op = "%" -> Remainder(a, b)
Compared(op, a, b) ==
    CASE op = ">" -> a > b
      [] op = ">=" -> a >= b
      [] op = "<" -> a < b
      [] op = "<=" -> a <= b
      [] op = "==" -> a = b
      [] op = "!=" -> a # b
Sums == {"+", "-", "*", "/", "%"}
Relations == {">", ">=", "<", "<=", "==", "!="}

Summed(op, a, b) ==
    IF ~Both(a, b, "number") \/ (op \in {"/", "%"} /\ b[2] = 0) THEN NoConstant
    ELSE Number(Arithmetic(op, a[2], b[2]))
Related(op, a, b) == Boolean(Compared(op, a[2], b[2]))
Joined(op, a, b) ==
    IF ~Both(a, b, "boolean") THEN NoConstant
    ELSE Boolean(IF op = "&&" THEN IsTrue(a) /\ IsTrue(b) ELSE IsTrue(a) \/ IsTrue(b))
Combined(op, a, b) ==
    CASE op \in Sums -> Summed(op, a, b)
      [] op \in Relations -> Related(op, a, b)
      [] OTHER -> Joined(op, a, b)

(* An operand is a literal, a variable or a call; an expression an operand, *)
(* one negated, or two of them.                                             *)
OperandValue(operand) ==
    CASE operand[1] = "variable" -> constants[operand[2]]
      [] operand[1] = "call" -> NoConstant
      [] OTHER -> operand
Negated(v) ==
    CASE v[1] = "number" -> Number(-v[2])
      [] v[1] = "boolean" -> Boolean(~IsTrue(v))
      [] OTHER -> NoConstant
ConstantExpressionValue(e) ==
    LET left == OperandValue(e.left)
        right == OperandValue(e.right)
    IN  CASE e.op = "operand" -> left
          [] e.op = "negated" -> Negated(left)
          [] OTHER -> IF NoConstant \in {left, right} THEN NoConstant ELSE Combined(e.op, left, right)

(* What visit keeps of an assignment: outside branches, the constant or     *)
(* that there is none any more.                                             *)
KeepConstants(target, e) ==
    IF inside = "" /\ ConstantExpressionValue(e) # NoConstant
    THEN [constants EXCEPT ![target] = ConstantExpressionValue(e)]
    ELSE constants
AssignConstant(target, e) ==
    IF inside # "" THEN constants ELSE [constants EXCEPT ![target] = ConstantExpressionValue(e)]

(* genericBranchMetadata                                                    *)
ConstantOutcome(e) ==
    CASE ConstantExpressionValue(e) = Boolean(TRUE) -> "true"
      [] ConstantExpressionValue(e) = Boolean(FALSE) -> "false"
      [] OTHER -> "either"

(* What the language does: of an expression in a memory, the values it may  *)
(* have, none when it throws. A quotient is the one whose product falls     *)
(* short of the dividend by less than the divisor, towards zero.            *)
Quotient(a, b) ==
    CHOOSE q \in -Bound..Bound :
        /\ Magnitude(a - q * b) < Magnitude(b)
        /\ a - q * b # 0 => (a - q * b > 0 <=> a > 0)
OperandValues(operand, memory) ==
    CASE operand[1] = "variable" -> {memory[operand[2]]}
      [] operand[1] = "call" -> Numbers
      [] OTHER -> {operand[2]}
ValueOf(op, a, b) ==
    CASE op \in {"+", "-", "*"} -> Arithmetic(op, a, b)
      [] op = "/" -> Quotient(a, b)
      [] op = "%" -> a - b * Quotient(a, b)
      [] op \in Relations -> IF Compared(op, a, b) THEN 1 ELSE 0
      [] op = "&&" -> a * b
      [] OTHER -> a + b - a * b
Values(e, memory) ==
    CASE e.op = "operand" -> OperandValues(e.left, memory)
      [] e.op = "negated" -> {IF e.flag THEN 1 - v ELSE -v : v \in OperandValues(e.left, memory)}
      [] OTHER -> {ValueOf(e.op, p[1], p[2]) : p \in
                      {q \in OperandValues(e.left, memory) \X OperandValues(e.right, memory) :
                          e.op \in {"/", "%"} => q[2] # 0}}

CounterOperands == {Number(n) : n \in Numbers} \union {<<"variable", c>> : c \in Counters}
FlagOperands == {Boolean(b) : b \in BOOLEAN} \union {<<"variable", v>> : v \in Flags}
Expressions(ops, flag, operands) == [op : ops, flag : {flag}, left : operands, right : operands]
OfOne(ops, flag, operands) == [op : ops, flag : {flag}, left : operands, right : {NoConstant}]
CounterExpressions ==
    OfOne({"operand", "negated"}, FALSE, CounterOperands) \union OfOne({"operand"}, FALSE, {<<"call", 0>>})
    \union Expressions(Sums, FALSE, CounterOperands)
FlagExpressions ==
    OfOne({"operand", "negated"}, TRUE, FlagOperands) \union Expressions({"&&", "||", "==", "!="}, TRUE, FlagOperands)
    \union Expressions(Relations, TRUE, CounterOperands)
UsedBy(e) == {v \in Variables : <<"variable", v>> \in {e.left, e.right}}

NoBranchYet == [claimed |-> "either", outcomes |-> {}, doubtful |-> FALSE]
Unassigned == {[v \in Variables |-> IF v \in Counters THEN n ELSE 0] : n \in Numbers}

VisitInit ==
    /\ constants = [v \in Variables |-> NoConstant]
    /\ memories = Unassigned /\ aside = {}
    /\ inside = "" /\ doubtful = {} /\ decided = NoBranchYet /\ statements = 0

Write == statements < MaxStatements /\ statements' = statements + 1

Assign(target, e) ==
    /\ Write
    /\ memories' = UNION {{[m EXCEPT ![target] = v] : v \in Values(e, m)} : m \in memories}
    /\ \A m \in memories' : m[target] \in -Bound..Bound
    /\ constants' = AssignConstant(target, e)
    /\ ConstantExpressionValue(e)[2] \in -Bound..Bound
    /\ doubtful' = IF inside # "" \/ UsedBy(e) \intersect doubtful # {}
                   THEN doubtful \union {target} ELSE doubtful \ {target}
    /\ UNCHANGED <<aside, inside, decided>>

Decide(e) ==
    /\ Write
    /\ decided' = [claimed |-> ConstantOutcome(e),
                   outcomes |-> UNION {Values(e, m) : m \in memories},
                   doubtful |-> UsedBy(e) \intersect doubtful # {}]
    /\ UNCHANGED <<constants, doubtful>>

Branch(e) ==
    /\ Decide(e) /\ inside = "" /\ inside' = "then"
    /\ memories' = {m \in memories : 1 \in Values(e, m)}
    /\ aside' = {m \in memories : 0 \in Values(e, m)}
(* A branch within one, with nothing in it.                                 *)
InnerBranch(e) == Decide(e) /\ inside # "" /\ UNCHANGED <<memories, aside, inside>>

OtherPart ==
    /\ inside = "then" /\ inside' = "else"
    /\ memories' = aside /\ aside' = memories
    /\ UNCHANGED <<constants, doubtful, decided, statements>>
EndBranch ==
    /\ inside # "" /\ inside' = ""
    /\ memories' = memories \union aside /\ aside' = {}
    /\ UNCHANGED <<constants, doubtful, decided, statements>>

VisitNext ==
    \/ \E c \in Counters, e \in CounterExpressions : Assign(c, e)
    \/ \E v \in Flags, e \in FlagExpressions : Assign(v, e)
    \/ \E e \in FlagExpressions : Branch(e) \/ InnerBranch(e)
    \/ OtherPart
    \/ EndBranch
VisitSpec == VisitInit /\ [][VisitNext]_visitVars

(* A branch taken for constant goes that way on every execution that        *)
(* reaches it, so that the part it hides never runs: a constant is given up *)
(* as soon as the variable may hold anything else, and arithmetic on        *)
(* constants is that of the program. Out of scope: conditions that depend   *)
(* on what a part of a branch assigned, which the visit does not see.       *)
DecidedBranchesAreConstant ==
    decided.claimed # "either" /\ ~decided.doubtful =>
        decided.outcomes \subseteq {IF decided.claimed = "true" THEN 1 ELSE 0}
===============================================================================
