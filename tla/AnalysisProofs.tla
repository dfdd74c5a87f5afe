----------------------------- MODULE AnalysisProofs -----------------------------
(* What the analysis claims of a program.                                   *)
(*                                                                          *)
(* Constants: a branch is decided by what constantExpressionValue makes of  *)
(* the constants kept. The invariant says of every variable that holds no   *)
(* assignment of a part of a branch that it has, where it is taken for a    *)
(* constant, this value in every memory the function may run with (Agree);  *)
(* the lemmas before it, that expressions of such variables have the value  *)
(* they are taken for and no other, division included, which JavaScript     *)
(* truncates by signs and magnitudes.                                       *)
(*                                                                          *)
(* Calls: how one is resolved is derived from the functions indexed, so     *)
(* that the work is in what one function more changes of the selection.     *)
(*                                                                          *)
(* Findings: each answer of the engine is a difference to the last; what    *)
(* the engine made of a request does not matter for what they add up to.    *)
EXTENDS ConstantOutcomes, CallResolution, WorkspaceEngine, TLAPS

Small == -Bound..Bound

(* Division.                                                                *)
LEMMA NoSmallMultiple ==
    ASSUME NEW d \in Int, NEW y \in Nat, d # 0, d * y < y, -y < d * y
    PROVE  FALSE
<1>1. CASE d >= 1
  <2>1. d * y = y + (d - 1) * y
    OBVIOUS
  <2>2. (d - 1) * y >= 0
    BY <1>1
  <2> QED
    BY <2>1, <2>2
<1>2. CASE d <= -1
  <2>1. d * y = -y - (-d - 1) * y
    OBVIOUS
  <2>2. (-d - 1) * y >= 0
    BY <1>2
  <2> QED
    BY <2>1, <2>2
<1> QED
  BY <1>1, <1>2

(* What a quotient towards zero is, and that there is no other.             *)
IsQuotient(a, b, q) ==
    /\ Magnitude(a - q * b) < Magnitude(b)
    /\ a - q * b # 0 => (a - q * b > 0 <=> a > 0)

LEMMA OneQuotient ==
    ASSUME NEW a \in Int, NEW b \in Int, b # 0, NEW p \in Int, NEW q \in Int,
           IsQuotient(a, b, p), IsQuotient(a, b, q)
    PROVE  p = q
<1> SUFFICES ASSUME p # q PROVE FALSE
  OBVIOUS
<1> DEFINE d == q - p
           y == Magnitude(b)
           left == a - p * b
           right == a - q * b
<1>1. y \in Nat /\ d \in Int /\ d # 0 /\ left \in Int /\ right \in Int
  BY DEF Magnitude
<1>2. left - right = d * b
  OBVIOUS
<1>3. /\ Magnitude(left) < y /\ Magnitude(right) < y
      /\ left # 0 => (left > 0 <=> a > 0)
      /\ right # 0 => (right > 0 <=> a > 0)
  BY DEF IsQuotient
<1> HIDE DEF left, right, d, y
<1>4. -y < left - right /\ left - right < y
  BY <1>1, <1>3 DEF Magnitude
<1>5. d * b = d * y \/ d * b = -(d * y)
  BY <1>1 DEF y, Magnitude
<1>6. -y < d * y /\ d * y < y
  <2>1. d * y \in Int
    BY <1>1
  <2> QED
    BY <1>1, <1>2, <1>4, <1>5, <2>1
<1> QED
  BY <1>1, <1>6, NoSmallMultiple

LEMMA Quotients ==
    ASSUME NEW x \in Nat, NEW y \in Nat, y > 0
    PROVE  \E k \in Nat, r \in 0..y - 1 : /\ x \div y = k /\ x % y = r
                                          /\ x = k * y + r /\ k <= x
<1> DEFINE k == x \div y
           r == x % y
<1>1. x = k * y + r /\ r \in 0..y - 1 /\ k \in Nat
  OBVIOUS
<1> HIDE DEF k, r
<1>2. k * y = k + k * (y - 1) /\ k * (y - 1) >= 0
  BY <1>1
<1>3. k <= x
  BY <1>1, <1>2
<1> QED
  BY <1>1, <1>3 DEF k, r

LEMMA TruncatedIsQuotient ==
    ASSUME NEW a \in Int, NEW b \in Int, b # 0
    PROVE  /\ Truncated(a, b) \in Int /\ Magnitude(Truncated(a, b)) <= Magnitude(a)
           /\ IsQuotient(a, b, Truncated(a, b))
           /\ Remainder(a, b) = a - Truncated(a, b) * b
<1> DEFINE x == Magnitude(a)
           y == Magnitude(b)
           q == Truncated(a, b)
<1>1. x \in Nat /\ y \in Nat /\ y > 0
  BY DEF Magnitude
<1>2. PICK k \in Nat, r \in 0..y - 1 : x \div y = k /\ x % y = r /\ x = k * y + r /\ k <= x
  BY <1>1, Quotients
<1>3. q = Signed(a * b, k) /\ Remainder(a, b) = Signed(a, r)
  BY <1>2 DEF Truncated, Remainder
<1> SUFFICES /\ q = k \/ q = -k
             /\ a < 0 => a - q * b = -r
             /\ a >= 0 => a - q * b = r
  <2>1. Remainder(a, b) = a - q * b
    BY <1>2, <1>3 DEF Signed
  <2>2. q \in Int /\ Magnitude(q) <= x
    BY <1>1, <1>2 DEF Magnitude
  <2>3. Magnitude(a - q * b) = r
    BY <1>2 DEF Magnitude
  <2>4. a - q * b # 0 => (a - q * b > 0 <=> a > 0)
    <3>1. a = 0 => r = 0
      <4>1. a = 0 => x = 0
        BY DEF Magnitude
      <4>2. k * y >= 0
        BY <1>1, <1>2
      <4> QED
        BY <1>1, <1>2, <4>1, <4>2
    <3> QED
      BY <1>2, <3>1
  <2>5. Magnitude(a - q * b) < y
    BY <1>1, <1>2, <2>3
  <2> HIDE DEF q
  <2>6. IsQuotient(a, b, q)
    BY <2>4, <2>5 DEF IsQuotient
  <2> QED
    BY <2>1, <2>2, <2>6 DEF q
<1> HIDE DEF q
<1>4. r = x - k * y /\ k * y \in Int
  <2> HIDE DEF x, y
  <2> QED
    BY <1>1, <1>2
<1>5. CASE a >= 0 /\ b > 0
  <2>1. a * b >= 0
    BY <1>5
  <2>2. q = k /\ x = a /\ y = b
    BY <1>3, <1>5, <2>1 DEF Signed, Magnitude
  <2> QED
    BY <1>4, <1>5, <2>2
<1>6. CASE a < 0 /\ b < 0
  <2>1. a * b >= 0
    BY <1>6
  <2>2. q = k /\ x = -a /\ y = -b
    BY <1>3, <1>6, <2>1 DEF Signed, Magnitude
  <2>3. q * b = -(k * y)
    BY <1>6, <2>2
  <2> QED
    BY <1>4, <1>6, <2>2, <2>3
<1>7. CASE a > 0 /\ b < 0
  <2>1. a * b < 0
    BY <1>7
  <2>2. q = -k /\ x = a /\ y = -b
    BY <1>3, <1>7, <2>1 DEF Signed, Magnitude
  <2>3. q * b = k * y
    BY <1>7, <2>2
  <2> QED
    BY <1>4, <1>7, <2>2, <2>3
<1>8. CASE a < 0 /\ b > 0
  <2>1. a * b < 0
    BY <1>8
  <2>2. q = -k /\ x = -a /\ y = b
    BY <1>3, <1>8, <2>1 DEF Signed, Magnitude
  <2>3. q * b = -(k * y)
    BY <1>8, <2>2
  <2> QED
    BY <1>4, <1>8, <2>2, <2>3
<1>9. CASE a = 0 /\ b < 0
  <2>1. a * b = 0 /\ x = 0
    BY <1>9 DEF Magnitude
  <2>2. q = k
    BY <1>3, <2>1 DEF Signed
  <2>3. k = 0 /\ r = 0
    BY <1>1, <1>2, <2>1
  <2> QED
    BY <1>9, <2>2, <2>3
<1> QED
  BY <1>5, <1>6, <1>7, <1>8, <1>9

(* The quotient of the program is found within the bound.                   *)
LEMMA QuotientIsTruncated ==
    ASSUME NEW a \in Small, NEW b \in Small, b # 0
    PROVE  Quotient(a, b) = Truncated(a, b)
<1>1. a \in Int /\ b \in Int
  BY BoundIsNatural DEF Small
<1>2. Truncated(a, b) \in Small
  <2>1. Truncated(a, b) \in Int /\ Magnitude(Truncated(a, b)) <= Magnitude(a)
    BY <1>1, TruncatedIsQuotient
  <2> QED
    BY <1>1, <2>1, BoundIsNatural DEF Small, Magnitude
<1>3. IsQuotient(a, b, Truncated(a, b))
  BY <1>1, TruncatedIsQuotient
<1>4. \A q \in Small : IsQuotient(a, b, q) => q = Truncated(a, b)
  <2>1. \A q \in Small : q \in Int
    BY BoundIsNatural DEF Small
  <2> QED
    BY <1>1, <1>2, <1>3, <2>1, OneQuotient
<1>5. Quotient(a, b) = CHOOSE q \in Small : IsQuotient(a, b, q)
  BY DEF Quotient, IsQuotient, Small
<1> QED
  BY <1>2, <1>3, <1>4, <1>5

(* The constants a variable may be taken to hold.                           *)
Numbered == {Number(n) : n \in Small}
Told == {<<"boolean", 0>>, <<"boolean", 1>>}
ConstantsOf(v) == IF v \in Counters THEN Numbered ELSE Told
AreConstants ==
    /\ constants \in [Variables -> Numbered \union Told \union {NoConstant}]
    /\ \A v \in Variables : constants[v] # NoConstant => constants[v] \in ConstantsOf(v)

LEMMA Tags ==
    /\ \A n : Number(n)[1] = "number" /\ Number(n)[2] = n
    /\ \A b \in BOOLEAN : Boolean(b) \in Told
    /\ \A b \in Told : b[1] = "boolean" /\ b[2] \in {0, 1}
    /\ NoConstant \notin Numbered /\ NoConstant \notin Told
<1>1. \A b \in BOOLEAN : Boolean(b) = <<"boolean", IF b THEN 1 ELSE 0>>
  BY Zenon DEF Boolean
<1>2. \A b \in BOOLEAN : Boolean(b) \in Told
  BY <1>1 DEF Told
<1> QED
  BY <1>2 DEF Number, Told, Numbered, NoConstant

(* Operands of a type, and what is known of them.                           *)
Agrees(operand, m) ==
    \A v \in Variables : operand = <<"variable", v>> /\ constants[v] # NoConstant => m[v] = constants[v][2]

LEMMA CounterOperand ==
    ASSUME AreConstants, NEW operand \in CounterOperands \union {<<"call", 0>>}, OperandValue(operand) # NoConstant
    PROVE  /\ OperandValue(operand) \in Numbered
           /\ \A m : Agrees(operand, m) => OperandValues(operand, m) = {OperandValue(operand)[2]}
<1>1. CASE \E n \in Numbers : operand = Number(n)
  <2>1. PICK n \in Numbers : operand = Number(n)
    BY <1>1
  <2>2. operand[1] = "number" /\ operand[2] = n /\ operand \in Numbered
    BY <2>1, NumbersAreSmall DEF Number, Small, Numbered
  <2>3. OperandValue(operand) = operand /\ \A m : OperandValues(operand, m) = {n}
    BY <2>2 DEF OperandValue, OperandValues
  <2> QED
    BY <2>1, <2>2, <2>3
<1>2. CASE \E c \in Counters : operand = <<"variable", c>>
  <2>1. PICK c \in Counters : operand = <<"variable", c>>
    BY <1>2
  <2>2. operand[1] = "variable" /\ operand[2] = c /\ c \in Variables
    BY <2>1 DEF Variables
  <2>3. OperandValue(operand) = constants[c] /\ \A m : OperandValues(operand, m) = {m[c]}
    BY <2>2 DEF OperandValue, OperandValues
  <2>4. constants[c] \in Numbered
    BY <2>1, <2>2, <2>3 DEF AreConstants, ConstantsOf
  <2> QED
    BY <2>1, <2>2, <2>3, <2>4 DEF Agrees
<1>3. CASE operand = <<"call", 0>>
  BY <1>3 DEF OperandValue
<1> QED
  BY <1>1, <1>2, <1>3 DEF CounterOperands

LEMMA FlagOperand ==
    ASSUME AreConstants, NEW operand \in FlagOperands, OperandValue(operand) # NoConstant
    PROVE  /\ OperandValue(operand) \in Told
           /\ \A m : Agrees(operand, m) => OperandValues(operand, m) = {OperandValue(operand)[2]}
<1>1. CASE \E b \in BOOLEAN : operand = Boolean(b)
  <2>1. operand \in Told /\ operand[1] = "boolean"
    BY <1>1, Tags
  <2>2. OperandValue(operand) = operand /\ \A m : OperandValues(operand, m) = {operand[2]}
    BY <2>1 DEF OperandValue, OperandValues
  <2> QED
    BY <2>1, <2>2
<1>2. CASE \E c \in Flags : operand = <<"variable", c>>
  <2>1. PICK c \in Flags : operand = <<"variable", c>>
    BY <1>2
  <2>2. operand[1] = "variable" /\ operand[2] = c /\ c \in Variables /\ c \notin Counters
    BY <2>1, VariablesDiffer DEF Variables
  <2>3. OperandValue(operand) = constants[c] /\ \A m : OperandValues(operand, m) = {m[c]}
    BY <2>2 DEF OperandValue, OperandValues
  <2>4. constants[c] \in Told
    BY <2>1, <2>2, <2>3 DEF AreConstants, ConstantsOf
  <2> QED
    BY <2>1, <2>2, <2>3, <2>4 DEF Agrees
<1> QED
  BY <1>1, <1>2 DEF FlagOperands

LEMMA CombinedIs ==
    ASSUME NEW op, NEW a, NEW b
    PROVE  /\ op \in Sums => Combined(op, a, b) = Summed(op, a, b)
           /\ op \in Relations => Combined(op, a, b) = <<"boolean", IF Compared(op, a[2], b[2]) THEN 1 ELSE 0>>
           /\ op \in {"&&", "||"} => Combined(op, a, b) = Joined(op, a, b)
<1>1. /\ op \in Sums => Combined(op, a, b) = Summed(op, a, b)
      /\ op \in Relations => Combined(op, a, b) = Related(op, a, b)
      /\ op \in {"&&", "||"} => Combined(op, a, b) = Joined(op, a, b)
  BY DEF Combined, Sums, Relations
<1>2. Related(op, a, b) = <<"boolean", IF Compared(op, a[2], b[2]) THEN 1 ELSE 0>>
  BY DEF Related, Boolean
<1> QED
  BY <1>1, <1>2

LEMMA ValueIs ==
    ASSUME NEW op, NEW a, NEW b
    PROVE  /\ op \in {"+", "-", "*"} => ValueOf(op, a, b) = Arithmetic(op, a, b)
           /\ op = "/" => ValueOf(op, a, b) = Quotient(a, b) /\ Arithmetic(op, a, b) = Truncated(a, b)
           /\ op = "%" => ValueOf(op, a, b) = a - b * Quotient(a, b) /\ Arithmetic(op, a, b) = Remainder(a, b)
           /\ op \in Relations => ValueOf(op, a, b) = IF Compared(op, a, b) THEN 1 ELSE 0
           /\ op = "&&" => ValueOf(op, a, b) = a * b
           /\ op = "||" => ValueOf(op, a, b) = a + b - a * b
<1>1. /\ op \in {"+", "-", "*"} => ValueOf(op, a, b) = Arithmetic(op, a, b)
      /\ op = "/" => ValueOf(op, a, b) = Quotient(a, b)
      /\ op = "%" => ValueOf(op, a, b) = a - b * Quotient(a, b)
      /\ op \in Relations => ValueOf(op, a, b) = IF Compared(op, a, b) THEN 1 ELSE 0
      /\ op = "&&" => ValueOf(op, a, b) = a * b
      /\ op = "||" => ValueOf(op, a, b) = a + b - a * b
  BY DEF ValueOf, Relations
<1>2. /\ op = "/" => Arithmetic(op, a, b) = Truncated(a, b)
      /\ op = "%" => Arithmetic(op, a, b) = Remainder(a, b)
  BY DEF Arithmetic
<1> QED
  BY <1>1, <1>2

LEMMA ArithmeticIsInt ==
    ASSUME NEW op \in {"+", "-", "*"}, NEW a \in Int, NEW b \in Int
    PROVE  Arithmetic(op, a, b) \in Int
<1>1. CASE op = "+"
  BY <1>1 DEF Arithmetic
<1>2. CASE op = "-"
  BY <1>2 DEF Arithmetic
<1>3. CASE op = "*"
  BY <1>3 DEF Arithmetic
<1> QED
  BY <1>1, <1>2, <1>3

(* Two constants are combined as the program combines their values.         *)
LEMMA CountersSummed ==
    ASSUME NEW op \in Sums, NEW a \in Numbered, NEW b \in Numbered, Combined(op, a, b) # NoConstant
    PROVE  /\ op \in {"/", "%"} => b[2] # 0
           /\ ValueOf(op, a[2], b[2]) \in Int
           /\ Combined(op, a, b) = Number(ValueOf(op, a[2], b[2]))
<1> DEFINE x == a[2]
           y == b[2]
<1>1. x \in Small /\ y \in Small /\ x \in Int /\ y \in Int
  BY BoundIsNatural, Tags DEF Small, Numbered
<1>2. Both(a, b, "number")
  BY Tags DEF Both, Numbered
<1>3. (op \in {"/", "%"} => y # 0) /\ Combined(op, a, b) = Number(Arithmetic(op, x, y))
  BY <1>2, CombinedIs DEF Summed
<1> HIDE DEF x, y
<1>4. Arithmetic(op, x, y) = ValueOf(op, x, y) /\ ValueOf(op, x, y) \in Int
  <2>1. CASE op \in {"+", "-", "*"}
    <3>1. Arithmetic(op, x, y) \in Int
      BY <1>1, <2>1, ArithmeticIsInt
    <3>2. ValueOf(op, x, y) = Arithmetic(op, x, y)
      BY <2>1, ValueIs
    <3> QED
      BY <3>1, <3>2
  <2>2. CASE op \in {"/", "%"}
    <3>1. Quotient(x, y) = Truncated(x, y)
      BY <1>1, <1>3, <2>2, QuotientIsTruncated
    <3>2. Truncated(x, y) \in Int /\ Remainder(x, y) = x - Truncated(x, y) * y
      BY <1>1, <1>3, <2>2, TruncatedIsQuotient
    <3>3. Truncated(x, y) * y = y * Truncated(x, y) /\ y * Truncated(x, y) \in Int
      BY <1>1, <3>2
    <3> QED
      BY <1>1, <2>2, <3>1, <3>2, <3>3, ValueIs
  <2> QED
    BY <2>1, <2>2 DEF Sums
<1> QED
  BY <1>3, <1>4 DEF x, y

LEMMA Compares ==
    ASSUME NEW op \in Relations, NEW a, NEW b
    PROVE  Combined(op, a, b) \in Told /\ Combined(op, a, b)[2] = ValueOf(op, a[2], b[2])
<1>1. ValueOf(op, a[2], b[2]) = IF Compared(op, a[2], b[2]) THEN 1 ELSE 0
  BY ValueIs
<1> QED
  BY <1>1, CombinedIs DEF Told

LEMMA FlagsJoined ==
    ASSUME NEW op \in {"&&", "||"}, NEW a \in Told, NEW b \in Told
    PROVE  Combined(op, a, b) \in Told /\ Combined(op, a, b)[2] = ValueOf(op, a[2], b[2])
<1>1. Both(a, b, "boolean")
  BY Tags DEF Both
<1>2. Boolean(TRUE) = <<"boolean", 1>> /\ Boolean(FALSE) = <<"boolean", 0>>
  BY DEF Boolean
<1>3. \A v \in Told : v = <<"boolean", 1>> \/ (v = <<"boolean", 0>> /\ v # <<"boolean", 1>>)
  BY DEF Told
<1>4. \A v : IsTrue(v) <=> v = <<"boolean", 1>>
  BY <1>2, Zenon DEF IsTrue
<1>5. Combined(op, a, b) = Joined(op, a, b)
  BY CombinedIs
<1>6. CASE op = "&&"
  <2>1. ValueOf(op, a[2], b[2]) = a[2] * b[2]
    BY <1>6, ValueIs
  <2>2. CASE IsTrue(a) /\ IsTrue(b)
    <3>0. Joined(op, a, b) = Boolean(TRUE)
      BY <1>1, <1>6, <2>2, Zenon DEF Joined
    <3>1. Combined(op, a, b) = <<"boolean", 1>>
      BY <1>2, <1>5, <3>0, Zenon
    <3> QED
      BY <1>4, <2>1, <2>2, <3>1 DEF Told
  <2>3. CASE ~(IsTrue(a) /\ IsTrue(b))
    <3>0. Joined(op, a, b) = Boolean(FALSE)
      BY <1>1, <1>6, <2>3, Zenon DEF Joined
    <3>1. Combined(op, a, b) = <<"boolean", 0>>
      BY <1>2, <1>5, <3>0, Zenon
    <3>2. a = <<"boolean", 0>> \/ b = <<"boolean", 0>>
      BY <1>3, <1>4, <2>3
    <3>3. a[2] * b[2] = 0
      BY <3>2, Tags
    <3> QED
      BY <2>1, <3>1, <3>3 DEF Told
  <2> QED
    BY <2>2, <2>3
<1>7. CASE op = "||"
  <2>1. ValueOf(op, a[2], b[2]) = a[2] + b[2] - a[2] * b[2]
    BY <1>7, ValueIs
  <2>2. CASE IsTrue(a) \/ IsTrue(b)
    <3>0. Joined(op, a, b) = Boolean(TRUE)
      BY <1>1, <1>7, <2>2 DEF Joined
    <3>1. Combined(op, a, b) = <<"boolean", 1>>
      BY <1>2, <1>5, <3>0, Zenon
    <3>2. a = <<"boolean", 1>> \/ b = <<"boolean", 1>>
      BY <1>4, <2>2
    <3>3. a[2] + b[2] - a[2] * b[2] = 1
      BY <3>2, Tags
    <3> QED
      BY <2>1, <3>1, <3>3 DEF Told
  <2>3. CASE ~(IsTrue(a) \/ IsTrue(b))
    <3>0. Joined(op, a, b) = Boolean(FALSE)
      BY <1>1, <1>7, <2>3 DEF Joined
    <3>1. Combined(op, a, b) = <<"boolean", 0>>
      BY <1>2, <1>5, <3>0, Zenon
    <3>2. a = <<"boolean", 0>> /\ b = <<"boolean", 0>>
      BY <1>3, <1>4, <2>3
    <3> QED
      BY <2>1, <3>1, <3>2 DEF Told
  <2> QED
    BY <2>2, <2>3
<1> QED
  BY <1>6, <1>7

(* The memories that hold the constants of the variables an expression uses *)
(* give it the value it is taken for, and no other.                         *)
Follows(e, m) == \A v \in UsedBy(e) : constants[v] # NoConstant => m[v] = constants[v][2]
Evaluated(e) ==
    \A m : Follows(e, m) => Values(e, m) \subseteq {ConstantExpressionValue(e)[2]}

LEMMA OperandsFollow ==
    ASSUME NEW e, NEW m, Follows(e, m)
    PROVE  Agrees(e.left, m) /\ Agrees(e.right, m)
  BY DEF Follows, Agrees, UsedBy

LEMMA NegatedIs ==
    ASSUME NEW v
    PROVE  /\ v \in Numbered => Negated(v) = Number(-v[2])
           /\ v \in Told => Negated(v) \in Told /\ Negated(v)[2] = 1 - v[2]
<1>1. v \in Numbered => v[1] = "number"
  BY Tags DEF Numbered
<1>2. v \in Told => v[1] = "boolean"
  BY Tags
<1>3. v \in Numbered => Negated(v) = Number(-v[2])
  BY <1>1 DEF Negated
<1>4. v \in Told => Negated(v) = Boolean(~IsTrue(v))
  BY <1>2 DEF Negated
<1>5. Boolean(TRUE) = <<"boolean", 1>> /\ Boolean(FALSE) = <<"boolean", 0>>
  BY DEF Boolean
<1>6. IsTrue(v) <=> v = <<"boolean", 1>>
  BY <1>5, Zenon DEF IsTrue
<1>7. CASE v = <<"boolean", 1>>
  <2>1. v \in Told
    BY <1>7 DEF Told
  <2>2. Boolean(~IsTrue(v)) = Boolean(FALSE)
    BY <1>6, <1>7, Zenon
  <2>3. Negated(v) = <<"boolean", 0>>
    BY <1>4, <1>5, <2>1, <2>2, Zenon
  <2> QED
    BY <1>3, <1>7, <2>3 DEF Told
<1>8. CASE v = <<"boolean", 0>>
  <2>1. v \in Told /\ v # <<"boolean", 1>>
    BY <1>8 DEF Told
  <2>2. Boolean(~IsTrue(v)) = Boolean(TRUE)
    BY <1>6, <2>1, Zenon
  <2>3. Negated(v) = <<"boolean", 1>>
    BY <1>4, <1>5, <2>1, <2>2, Zenon
  <2> QED
    BY <1>3, <1>8, <2>3 DEF Told
<1> QED
  BY <1>3, <1>7, <1>8 DEF Told

LEMMA ExpressionIs ==
    ASSUME NEW e
    PROVE  /\ e.op = "operand" => /\ ConstantExpressionValue(e) = OperandValue(e.left)
                                  /\ \A m : Values(e, m) = OperandValues(e.left, m)
           /\ e.op = "negated" =>
                /\ ConstantExpressionValue(e) = Negated(OperandValue(e.left))
                /\ \A m : Values(e, m) = {IF e.flag THEN 1 - v ELSE -v : v \in OperandValues(e.left, m)}
           /\ e.op \notin {"operand", "negated"} =>
                /\ ConstantExpressionValue(e) # NoConstant =>
                     /\ OperandValue(e.left) # NoConstant /\ OperandValue(e.right) # NoConstant
                     /\ ConstantExpressionValue(e) = Combined(e.op, OperandValue(e.left), OperandValue(e.right))
                /\ \A m : Values(e, m) = {ValueOf(e.op, p[1], p[2]) : p \in
                            {q \in OperandValues(e.left, m) \X OperandValues(e.right, m) :
                                e.op \in {"/", "%"} => q[2] # 0}}
<1>1. e.op = "operand" => ConstantExpressionValue(e) = OperandValue(e.left) /\ \A m : Values(e, m) = OperandValues(e.left, m)
  BY DEF ConstantExpressionValue, Values
<1>2. e.op = "negated" =>
        /\ ConstantExpressionValue(e) = Negated(OperandValue(e.left))
        /\ \A m : Values(e, m) = {IF e.flag THEN 1 - v ELSE -v : v \in OperandValues(e.left, m)}
  BY DEF ConstantExpressionValue, Values
<1>3. e.op \notin {"operand", "negated"} => ConstantExpressionValue(e) =
        IF NoConstant \in {OperandValue(e.left), OperandValue(e.right)} THEN NoConstant
        ELSE Combined(e.op, OperandValue(e.left), OperandValue(e.right))
  BY DEF ConstantExpressionValue
<1>4. e.op \notin {"operand", "negated"} =>
        \A m : Values(e, m) = {ValueOf(e.op, p[1], p[2]) : p \in
                 {q \in OperandValues(e.left, m) \X OperandValues(e.right, m) : e.op \in {"/", "%"} => q[2] # 0}}
  BY DEF Values
<1> QED
  BY <1>1, <1>2, <1>3, <1>4

(* What two operands of one value each come to.                             *)
LEMMA OneValueEach ==
    ASSUME NEW e, e.op \notin {"operand", "negated"}, NEW m, NEW x, NEW y,
           OperandValues(e.left, m) = {x}, OperandValues(e.right, m) = {y}
    PROVE  Values(e, m) \subseteq {ValueOf(e.op, x, y)}
  BY ExpressionIs

LEMMA TwoOperands ==
    ASSUME NEW e, e.op \notin {"operand", "negated"}, NEW x, NEW y,
           \A m : Agrees(e.left, m) => OperandValues(e.left, m) = {x},
           \A m : Agrees(e.right, m) => OperandValues(e.right, m) = {y},
           ConstantExpressionValue(e)[2] = ValueOf(e.op, x, y)
    PROVE  Evaluated(e)
<1> SUFFICES ASSUME NEW m, Follows(e, m) PROVE Values(e, m) \subseteq {ConstantExpressionValue(e)[2]}
  BY DEF Evaluated
<1>1. OperandValues(e.left, m) = {x} /\ OperandValues(e.right, m) = {y}
  BY OperandsFollow
<1>2. Values(e, m) \subseteq {ValueOf(e.op, x, y)}
  BY <1>1, OneValueEach
<1> QED
  BY <1>2

LEMMA CountersEvaluate ==
    ASSUME AreConstants, NEW e \in CounterExpressions, ConstantExpressionValue(e) # NoConstant
    PROVE  ConstantExpressionValue(e) \in {Number(n) : n \in Int} /\ Evaluated(e)
<1> DEFINE c == ConstantExpressionValue(e)
<1>1. CASE e.op = "operand" /\ e.left \in CounterOperands \union {<<"call", 0>>}
  <2>1. c = OperandValue(e.left) /\ \A m : Values(e, m) = OperandValues(e.left, m)
    BY <1>1, ExpressionIs
  <2>2. c \in Numbered /\ \A m : Agrees(e.left, m) => OperandValues(e.left, m) = {c[2]}
    BY <1>1, <2>1, CounterOperand
  <2> QED
    BY <2>1, <2>2, OperandsFollow, BoundIsNatural DEF Evaluated, Numbered, Small
<1>2. CASE e.op = "negated" /\ e.flag = FALSE /\ e.left \in CounterOperands
  <2>1. c = Negated(OperandValue(e.left)) /\ \A m : Values(e, m) = {-v : v \in OperandValues(e.left, m)}
    BY <1>2, ExpressionIs
  <2>2. OperandValue(e.left) # NoConstant
    <3>1. Negated(NoConstant) = NoConstant
      BY DEF Negated, NoConstant
    <3> QED
      BY <2>1, <3>1
  <2>3. /\ OperandValue(e.left) \in Numbered
        /\ \A m : Agrees(e.left, m) => OperandValues(e.left, m) = {OperandValue(e.left)[2]}
    BY <1>2, <2>2, CounterOperand
  <2>4. c = Number(-OperandValue(e.left)[2]) /\ OperandValue(e.left)[2] \in Int
    BY <2>1, <2>3, NegatedIs, Tags, BoundIsNatural DEF Numbered, Small
  <2>5. c[2] = -OperandValue(e.left)[2]
    BY <2>4, Tags
  <2>6. Evaluated(e)
    BY <2>1, <2>3, <2>5, OperandsFollow DEF Evaluated
  <2> QED
    BY <2>4, <2>6
<1>3. CASE e.op \in Sums /\ e.left \in CounterOperands /\ e.right \in CounterOperands
  <2> DEFINE a == OperandValue(e.left)
             b == OperandValue(e.right)
  <2>0. e.op \notin {"operand", "negated"}
    BY <1>3 DEF Sums
  <2>1. a # NoConstant /\ b # NoConstant /\ c = Combined(e.op, a, b)
    BY <2>0, ExpressionIs
  <2>2. /\ a \in Numbered /\ b \in Numbered
        /\ \A m : Agrees(e.left, m) => OperandValues(e.left, m) = {a[2]}
        /\ \A m : Agrees(e.right, m) => OperandValues(e.right, m) = {b[2]}
    BY <1>3, <2>1, CounterOperand
  <2> HIDE DEF a, b
  <2>3. ValueOf(e.op, a[2], b[2]) \in Int /\ c = Number(ValueOf(e.op, a[2], b[2]))
    BY <1>3, <2>1, <2>2, CountersSummed
  <2>4. c[2] = ValueOf(e.op, a[2], b[2])
    BY <2>3, Tags
  <2>5. Evaluated(e)
    BY <2>0, <2>2, <2>4, TwoOperands
  <2> QED
    BY <2>3, <2>5
<1> QED
  BY <1>1, <1>2, <1>3 DEF CounterExpressions, OfOne, Expressions

LEMMA FlagsEvaluate ==
    ASSUME AreConstants, NEW e \in FlagExpressions, ConstantExpressionValue(e) # NoConstant
    PROVE  ConstantExpressionValue(e) \in Told /\ Evaluated(e)
<1> DEFINE c == ConstantExpressionValue(e)
<1>1. CASE e.op = "operand" /\ e.left \in FlagOperands
  <2>1. c = OperandValue(e.left) /\ \A m : Values(e, m) = OperandValues(e.left, m)
    BY <1>1, ExpressionIs
  <2>2. c \in Told /\ \A m : Agrees(e.left, m) => OperandValues(e.left, m) = {c[2]}
    BY <1>1, <2>1, FlagOperand
  <2> QED
    BY <2>1, <2>2, OperandsFollow DEF Evaluated
<1>2. CASE e.op = "negated" /\ e.flag = TRUE /\ e.left \in FlagOperands
  <2>1. c = Negated(OperandValue(e.left)) /\ \A m : Values(e, m) = {1 - v : v \in OperandValues(e.left, m)}
    BY <1>2, ExpressionIs
  <2>2. OperandValue(e.left) # NoConstant
    <3>1. Negated(NoConstant) = NoConstant
      BY DEF Negated, NoConstant
    <3> QED
      BY <2>1, <3>1
  <2>3. /\ OperandValue(e.left) \in Told
        /\ \A m : Agrees(e.left, m) => OperandValues(e.left, m) = {OperandValue(e.left)[2]}
    BY <1>2, <2>2, FlagOperand
  <2>4. c \in Told /\ c[2] = 1 - OperandValue(e.left)[2]
    BY <2>1, <2>3, NegatedIs
  <2>5. Evaluated(e)
    BY <2>1, <2>3, <2>4, OperandsFollow DEF Evaluated
  <2> QED
    BY <2>4, <2>5
<1>3. ASSUME e.op \notin {"operand", "negated"},
             OperandValue(e.left) # NoConstant => \A m : Agrees(e.left, m) => OperandValues(e.left, m) = {OperandValue(e.left)[2]},
             OperandValue(e.right) # NoConstant => \A m : Agrees(e.right, m) => OperandValues(e.right, m) = {OperandValue(e.right)[2]},
             c[2] = ValueOf(e.op, OperandValue(e.left)[2], OperandValue(e.right)[2])
      PROVE  Evaluated(e)
  <2>1. OperandValue(e.left) # NoConstant /\ OperandValue(e.right) # NoConstant
    BY <1>3, ExpressionIs
  <2> QED
    BY <1>3, <2>1, TwoOperands
<1>4. CASE e.op \in {"&&", "||"} /\ e.left \in FlagOperands /\ e.right \in FlagOperands
  <2>1. OperandValue(e.left) # NoConstant /\ OperandValue(e.right) # NoConstant
        /\ c = Combined(e.op, OperandValue(e.left), OperandValue(e.right))
    BY <1>4, ExpressionIs
  <2>2. OperandValue(e.left) \in Told /\ OperandValue(e.right) \in Told
    BY <1>4, <2>1, FlagOperand
  <2>3. c \in Told /\ c[2] = ValueOf(e.op, OperandValue(e.left)[2], OperandValue(e.right)[2])
    BY <1>4, <2>1, <2>2, FlagsJoined
  <2> QED
    BY <1>3, <1>4, <2>3, FlagOperand
<1>5. CASE e.op \in Relations /\ (\/ e.left \in FlagOperands /\ e.right \in FlagOperands
                                  \/ e.left \in CounterOperands /\ e.right \in CounterOperands)
  <2>1. e.op \notin {"operand", "negated"}
    BY <1>5 DEF Relations
  <2>2. c = Combined(e.op, OperandValue(e.left), OperandValue(e.right))
    BY <2>1, ExpressionIs
  <2>3. c \in Told /\ c[2] = ValueOf(e.op, OperandValue(e.left)[2], OperandValue(e.right)[2])
    BY <1>5, <2>2, Compares
  <2> QED
    BY <1>3, <1>5, <2>1, <2>3, FlagOperand, CounterOperand
<1> QED
  <2>1. {"&&", "||", "==", "!="} \subseteq {"&&", "||"} \union Relations
    BY DEF Relations
  <2> QED
    BY <1>1, <1>2, <1>4, <1>5, <2>1 DEF FlagExpressions, OfOne, Expressions
(* The invariant: a variable that holds no assignment of a part of a branch *)
(* has, where it is taken for a constant, that value in every memory.       *)
Agree ==
    \A v \in Variables \ doubtful : constants[v] # NoConstant =>
        \A m \in memories \union aside : m[v] = constants[v][2]
VisitInvariant ==
    /\ AreConstants
    /\ \A m \in memories \union aside : DOMAIN m = Variables
    /\ inside = "" => aside = {}
    /\ Agree
    /\ DecidedBranchesAreConstant

LEMMA TrustedFollow ==
    ASSUME Agree, NEW e, UsedBy(e) \intersect doubtful = {}, NEW m \in memories
    PROVE  Follows(e, m)
  BY DEF Agree, Follows, UsedBy

LEMMA AssignmentAgrees ==
    ASSUME VisitInvariant, NEW target \in Variables, NEW e, Assign(target, e),
           ConstantExpressionValue(e) # NoConstant =>
               ConstantExpressionValue(e) \in ConstantsOf(target) /\ Evaluated(e)
    PROVE  VisitInvariant'
<1> DEFINE c == ConstantExpressionValue(e)
<1>0. /\ AreConstants /\ Agree /\ DecidedBranchesAreConstant /\ (inside = "" => aside = {})
      /\ \A m \in memories \union aside : DOMAIN m = Variables
      /\ aside' = aside /\ inside' = inside /\ decided' = decided
      /\ memories' = UNION {{[m EXCEPT ![target] = v] : v \in Values(e, m)} : m \in memories}
      /\ constants' = IF inside # "" THEN constants ELSE [constants EXCEPT ![target] = c]
      /\ doubtful' = IF inside # "" \/ UsedBy(e) \intersect doubtful # {}
                     THEN doubtful \union {target} ELSE doubtful \ {target}
  BY DEF VisitInvariant, Assign, AssignConstant
<1>00. c # NoConstant => c \in ConstantsOf(target) /\ Evaluated(e)
  OBVIOUS
<1> HIDE DEF c
<1>1. AreConstants'
  <2>1. CASE inside # ""
    BY <1>0, <2>1 DEF AreConstants
  <2>2. CASE inside = ""
    <3>1. c \in Numbered \union Told \union {NoConstant}
      BY <1>00 DEF ConstantsOf
    <3>2. constants' \in [Variables -> Numbered \union Told \union {NoConstant}]
      BY <1>0, <2>2, <3>1 DEF AreConstants
    <3>3. \A v \in Variables : constants'[v] = IF v = target THEN c ELSE constants[v]
      BY <1>0, <2>2 DEF AreConstants
    <3>4. \A v \in Variables : constants'[v] # NoConstant => constants'[v] \in ConstantsOf(v)
      BY <1>0, <1>00, <3>3 DEF AreConstants
    <3> QED
      BY <3>2, <3>4 DEF AreConstants
  <2> QED
    BY <2>1, <2>2
<1>2. \A n \in memories' : \E m \in memories : \E x \in Values(e, m) : n = [m EXCEPT ![target] = x]
  <2> DEFINE Written(m) == {[m EXCEPT ![target] = v] : v \in Values(e, m)}
  <2>1. \A m : \A n \in Written(m) : \E x \in Values(e, m) : n = [m EXCEPT ![target] = x]
    OBVIOUS
  <2>2. memories' = UNION {Written(m) : m \in memories}
    BY <1>0, Zenon
  <2> HIDE DEF Written
  <2>3. \A n \in memories' : \E m \in memories : n \in Written(m)
    BY <2>2
  <2> QED
    BY <2>1, <2>3
<1>3. \A n \in memories' \union aside' : DOMAIN n = Variables
  BY <1>0, <1>2
<1>4. ASSUME NEW v \in Variables \ doubtful', constants'[v] # NoConstant, NEW n \in memories' \union aside'
      PROVE  n[v] = constants'[v][2]
  <2>1. CASE v # target
    <3>1. v \notin doubtful /\ constants'[v] = constants[v]
      BY <1>0, <2>1 DEF AreConstants
    <3>2. CASE n \in aside
      BY <1>0, <1>4, <3>1, <3>2 DEF Agree
    <3>3. CASE n \in memories'
      <4>1. PICK m \in memories : \E x \in Values(e, m) : n = [m EXCEPT ![target] = x]
        BY <1>2, <3>3
      <4>2. n[v] = m[v]
        BY <1>0, <2>1, <4>1
      <4> QED
        BY <1>0, <1>4, <3>1, <4>2 DEF Agree
    <3> QED
      BY <1>0, <3>2, <3>3
  <2>2. CASE v = target
    <3>1. inside = "" /\ aside = {} /\ UsedBy(e) \intersect doubtful = {}
      BY <1>0, <1>4, <2>2
    <3>2. constants'[v] = c /\ c # NoConstant
      BY <1>0, <1>4, <2>2, <3>1 DEF AreConstants
    <3>3. PICK m \in memories : \E x \in Values(e, m) : n = [m EXCEPT ![target] = x]
      BY <1>0, <1>2, <3>1
    <3>4. n[v] \in Values(e, m)
      BY <1>0, <2>2, <3>3
    <3>5. Follows(e, m)
      BY <1>0, <3>1, TrustedFollow
    <3>6. Values(e, m) \subseteq {c[2]}
      BY <1>00, <3>2, <3>5 DEF Evaluated, c
    <3> QED
      BY <3>2, <3>3, <3>4, <3>6
  <2> QED
    BY <2>1, <2>2
<1>5. Agree'
  BY <1>4 DEF Agree
<1>6. DecidedBranchesAreConstant'
  BY <1>0 DEF DecidedBranchesAreConstant
<1> QED
  BY <1>0, <1>1, <1>3, <1>5, <1>6 DEF VisitInvariant

LEMMA DecisionIsSound ==
    ASSUME VisitInvariant, NEW e \in FlagExpressions, Decide(e)
    PROVE  DecidedBranchesAreConstant'
<1> DEFINE c == ConstantExpressionValue(e)
<1>1. /\ decided'.claimed = ConstantOutcome(e)
      /\ decided'.outcomes = UNION {Values(e, m) : m \in memories}
      /\ decided'.doubtful = (UsedBy(e) \intersect doubtful # {})
  BY DEF Decide
<1>2. Boolean(TRUE) = <<"boolean", 1>> /\ Boolean(FALSE) = <<"boolean", 0>>
  BY DEF Boolean
<1>3. /\ c = <<"boolean", 1>> => ConstantOutcome(e) = "true"
      /\ c = <<"boolean", 0>> => ConstantOutcome(e) = "false"
      /\ c # <<"boolean", 1>> /\ c # <<"boolean", 0>> => ConstantOutcome(e) = "either"
  <2>1. <<"boolean", 1>> # <<"boolean", 0>>
    OBVIOUS
  <2>2. ConstantOutcome(e) =
          CASE c = <<"boolean", 1>> -> "true" [] c = <<"boolean", 0>> -> "false" [] OTHER -> "either"
    BY <1>2, Zenon DEF ConstantOutcome
  <2> QED
    BY <2>1, <2>2
<1> SUFFICES ASSUME decided'.claimed # "either", ~decided'.doubtful
             PROVE  decided'.outcomes \subseteq {IF decided'.claimed = "true" THEN 1 ELSE 0}
  BY DEF DecidedBranchesAreConstant
<1>4. c \in Told /\ c[2] = IF decided'.claimed = "true" THEN 1 ELSE 0
  BY <1>1, <1>3 DEF Told
<1>5. Evaluated(e)
  BY <1>4, Tags, FlagsEvaluate DEF VisitInvariant
<1>6. \A m \in memories : Values(e, m) \subseteq {c[2]}
  BY <1>1, <1>5, TrustedFollow DEF VisitInvariant, Evaluated
<1> QED
  BY <1>1, <1>4, <1>6

LEMMA VisitHolds == VisitSpec => []VisitInvariant
<1>1. VisitInit => VisitInvariant
  <2> SUFFICES ASSUME VisitInit PROVE VisitInvariant
    OBVIOUS
  <2>1. AreConstants
    BY DEF VisitInit, AreConstants
  <2>2. Agree
    BY DEF VisitInit, Agree
  <2>3. DecidedBranchesAreConstant
    BY DEF VisitInit, NoBranchYet, DecidedBranchesAreConstant
  <2>4. (\A m \in memories \union aside : DOMAIN m = Variables) /\ aside = {}
    BY DEF VisitInit, Unassigned
  <2> QED
    BY <2>1, <2>2, <2>3, <2>4 DEF VisitInvariant
<1>2. VisitInvariant /\ [VisitNext]_visitVars => VisitInvariant'
  <2> SUFFICES ASSUME VisitInvariant, [VisitNext]_visitVars PROVE VisitInvariant'
    OBVIOUS
  <2>0. AreConstants
    BY DEF VisitInvariant
  <2>1. ASSUME NEW c \in Counters, NEW e \in CounterExpressions, Assign(c, e) PROVE VisitInvariant'
    <3>1. ConstantExpressionValue(e)[2] \in Small /\ c \in Variables /\ ConstantsOf(c) = Numbered
      BY <2>1 DEF Assign, Small, Variables, ConstantsOf
    <3>2. ASSUME ConstantExpressionValue(e) # NoConstant
          PROVE  ConstantExpressionValue(e) \in ConstantsOf(c) /\ Evaluated(e)
      <4>1. PICK n \in Int : ConstantExpressionValue(e) = Number(n)
        BY <2>0, <3>2, CountersEvaluate
      <4>2. n \in Small
        BY <3>1, <4>1, Tags
      <4> QED
        BY <2>0, <3>1, <3>2, <4>1, <4>2, CountersEvaluate DEF Numbered
    <3> QED
      BY <2>1, <3>1, <3>2, AssignmentAgrees
  <2>2. ASSUME NEW v \in Flags, NEW e \in FlagExpressions, Assign(v, e) PROVE VisitInvariant'
    <3>1. v \in Variables /\ ConstantsOf(v) = Told
      BY VariablesDiffer DEF Variables, ConstantsOf
    <3> QED
      BY <2>0, <2>2, <3>1, FlagsEvaluate, AssignmentAgrees
  <2>3. ASSUME NEW e \in FlagExpressions, Branch(e) PROVE VisitInvariant'
    <3>1. DecidedBranchesAreConstant'
      BY <2>3, DecisionIsSound DEF Branch
    <3>2. /\ memories' \union aside' \subseteq memories \union aside
          /\ constants' = constants /\ doubtful' = doubtful /\ inside' = "then"
      BY <2>3 DEF Branch, Decide
    <3>3. AreConstants' /\ Agree'
      BY <3>2 DEF VisitInvariant, AreConstants, Agree
    <3> QED
      BY <3>1, <3>2, <3>3 DEF VisitInvariant
  <2>4. ASSUME NEW e \in FlagExpressions, InnerBranch(e) PROVE VisitInvariant'
    <3>1. DecidedBranchesAreConstant'
      BY <2>4, DecisionIsSound DEF InnerBranch
    <3>2. UNCHANGED <<memories, aside, inside, constants, doubtful>>
      BY <2>4 DEF InnerBranch, Decide
    <3>3. AreConstants' /\ Agree'
      BY <3>2 DEF VisitInvariant, AreConstants, Agree
    <3> QED
      BY <3>1, <3>2, <3>3 DEF VisitInvariant
  <2>5. ASSUME OtherPart \/ EndBranch PROVE VisitInvariant'
    <3>1. /\ memories' \union aside' = memories \union aside /\ (inside' = "" => aside' = {})
          /\ constants' = constants /\ doubtful' = doubtful /\ decided' = decided
      BY <2>5 DEF OtherPart, EndBranch
    <3>2. AreConstants' /\ Agree' /\ DecidedBranchesAreConstant'
      BY <3>1 DEF VisitInvariant, AreConstants, Agree, DecidedBranchesAreConstant
    <3> QED
      BY <3>1, <3>2 DEF VisitInvariant
  <2>6. CASE UNCHANGED visitVars
    BY <2>6 DEF visitVars, VisitInvariant, AreConstants, Agree, DecidedBranchesAreConstant
  <2> QED
    BY <2>1, <2>2, <2>3, <2>4, <2>5, <2>6 DEF VisitNext
<1> QED
  BY <1>1, <1>2, PTL DEF VisitSpec

(* A branch taken for constant goes that way on every execution that        *)
(* reaches it (genericBranchMetadata, of the constants kept by visit and    *)
(* the arithmetic of constantExpressionValue): whatever the variables, the  *)
(* literals and the bound, the part it hides never runs.                    *)
THEOREM DecidedBranches == VisitSpec => []DecidedBranchesAreConstant
<1>1. VisitInvariant => DecidedBranchesAreConstant
  BY DEF VisitInvariant
<1> QED
  BY <1>1, VisitHolds, PTL

(* What of a scored candidate is needed here.                               *)
LEMMA ScoredIs ==
    ASSUME NEW f, NEW caller, NEW event, NEW reference, NEW indexed,
           NEW s, s = ScoreCandidate(f, caller, event, reference, indexed)
    PROVE  /\ s.fn = f
           /\ s.precise => s.strong
           /\ indexed => s.precise
           /\ SameFile(f, caller) => s.strong
<1> DEFINE precise == \/ indexed
                      \/ event.target = f.id
                      \/ TypeResolution(f, caller, event, reference).match
                      \/ \E t \in {f.scope} \union f.implements : ReceiverMatches(event.receiverType, t)
                      \/ (IF reference = NoReference THEN "none" ELSE ReferenceMatch(reference.target, f.file)) = "exact"
                      \/ event.receiver # "" /\ event.receiver \in FileNames(f.file)
<1>1. s.fn = f /\ s.precise = precise /\ s.strong = (precise \/ SameFile(f, caller))
  BY DEF ScoreCandidate
<1> QED
  BY <1>1

(* Candidates with nothing strong about them do not change which of others  *)
(* are selected, when one that is strong is.                                *)
LEMMA SelectionStands ==
    ASSUME NEW scored, NEW extra, \A s \in scored \union extra : s.precise => s.strong,
           \A s \in extra : ~s.strong, \E s \in Select(scored) : s.strong
    PROVE  Select(scored \union extra) = Select(scored)
<1> DEFINE Executable(all) == {s \in all : s.fn.executable}
           Pool(all) == IF \E s \in Executable(all) : s.precise THEN Executable(all) ELSE all
           Precise(all) == {s \in Pool(all) : s.precise}
           Strong(all) == {s \in Pool(all) : s.strong}
           more == scored \union extra
<1>1. \A all : Select(all) = IF Precise(all) # {} THEN Highest(Precise(all))
                             ELSE IF Strong(all) # {} THEN Strong(all) ELSE Highest(Pool(all))
  BY DEF Select
<1>2. (\E s \in Executable(more) : s.precise) <=> (\E s \in Executable(scored) : s.precise)
  OBVIOUS
<1>3. Precise(more) = Precise(scored) /\ Strong(more) = Strong(scored)
  <2>1. CASE \E s \in Executable(scored) : s.precise
    BY <1>2, <2>1
  <2>2. CASE ~\E s \in Executable(scored) : s.precise
    BY <1>2, <2>2
  <2> QED
    BY <2>1, <2>2
<1> HIDE DEF Precise, Strong, Pool, more
<1>4. Precise(scored) # {} \/ Strong(scored) # {}
  <2> SUFFICES ASSUME Precise(scored) = {}, Strong(scored) = {} PROVE FALSE
    OBVIOUS
  <2>1. PICK s \in Highest(Pool(scored)) : s.strong
    BY <1>1
  <2>2. s \in Pool(scored)
    BY <2>1 DEF Highest
  <2> QED
    BY <2>1, <2>2 DEF Strong
<1>5. Select(more) = Select(scored)
  BY <1>1, <1>3, <1>4
<1> QED
  BY <1>5 DEF more

(* What resolveCandidates selects from, and what it makes of it.            *)
Scored(candidates, indexed, caller, event) ==
    {s \in {ScoreCandidate(f, caller, event, EventReference(caller, event), f \in indexed) :
              f \in {g \in candidates : /\ event.target \in {"", g.id}
                                        /\ CanCall(caller.language, g.language)
                                        /\ caller.root \in {"", g.root}}} : s.compatible}
Resolved(selected) ==
    {[id |-> s.fn.id, quality |-> IF Cardinality(selected) > 1 \/ ~s.strong THEN "review" ELSE "high"] : s \in selected}

LEMMA ResolveIs ==
    ASSUME NEW candidates, NEW indexed, NEW caller, NEW event
    PROVE  ResolveAmong(candidates, indexed, caller, event) = Resolved(Select(Scored(candidates, indexed, caller, event)))
  BY DEF ResolveAmong, Resolved, Scored

LEMMA HighIsStrong ==
    ASSUME NEW selected, NEW r \in Resolved(selected), r.quality = "high"
    PROVE  \E s \in selected : s.strong
  BY DEF Resolved

(* A function elsewhere that nothing ties to the call changes nothing of    *)
(* how it is resolved for sure.                                             *)
LEMMA StrangerChangesNothing ==
    ASSUME NEW known, NEW caller, NEW event, NEW f, ~SameFile(f, caller),
           ~ScoreCandidate(f, caller, event, EventReference(caller, event), f \in SemanticCandidates({f}, caller, event)).strong,
           \E r \in ResolveCandidates(known, caller, event) : r.quality = "high"
    PROVE  ResolveCandidates(known \union {f}, caller, event) = ResolveCandidates(known, caller, event)
<1> DEFINE indexed == SemanticCandidates(known, caller, event)
           reference == EventReference(caller, event)
           Of(all) == UniqueLexicalCandidate(Named(all, caller, event), caller, event)
           Score(g) == ScoreCandidate(g, caller, event, reference, g \in indexed)
<1>1. f \notin SemanticCandidates({f}, caller, event)
  <2> SUFFICES ASSUME f \in SemanticCandidates({f}, caller, event) PROVE FALSE
    OBVIOUS
  <2> DEFINE within == f \in SemanticCandidates({f}, caller, event)
             s == ScoreCandidate(f, caller, event, reference, within)
  <2>1. (s.precise => s.strong) /\ (within => s.precise)
    BY ScoredIs
  <2> QED
    BY <2>1
<1>2. SemanticCandidates(known \union {f}, caller, event) = indexed /\ f \notin indexed
  BY <1>1 DEF SemanticCandidates
<1>3. ~Score(f).strong
  BY <1>1, <1>2
<1>4. Of(known \union {f}) \in {Of(known), Of(known) \union {f}}
  <2>1. Named(known \union {f}, caller, event) \in {Named(known, caller, event), Named(known, caller, event) \union {f}}
    BY <1>2 DEF Named
  <2>2. ASSUME NEW all
        PROVE  UniqueLexicalCandidate(all \union {f}, caller, event) \in
                  {UniqueLexicalCandidate(all, caller, event), UniqueLexicalCandidate(all, caller, event) \union {f}}
    <3>1. {g \in all \union {f} : SameFile(g, caller)} = {g \in all : SameFile(g, caller)}
      OBVIOUS
    <3> QED
      BY <3>1 DEF UniqueLexicalCandidate
  <2> QED
    BY <2>1, <2>2
<1> DEFINE scored == Scored(Of(known), indexed, caller, event)
           more == Scored(Of(known \union {f}), indexed, caller, event)
           extra == {s \in {Score(f)} : s \in more}
<1>5. more = scored \union extra
  <2> HIDE DEF Of
  <2>1. more \subseteq scored \union {Score(f)}
    BY <1>4 DEF Scored
  <2>2. scored \subseteq more
    BY <1>4 DEF Scored
  <2> HIDE DEF more, scored
  <2> QED
    BY <2>1, <2>2
<1>6. \A s \in more : s.precise => s.strong
  <2> SUFFICES ASSUME NEW s \in more PROVE s.precise => s.strong
    OBVIOUS
  <2>1. PICK g : s = ScoreCandidate(g, caller, event, reference, g \in indexed)
    BY DEF Scored
  <2> QED
    BY <2>1, ScoredIs
<1>7. \E s \in Select(scored) : s.strong
  <2>1. ResolveCandidates(known, caller, event) = Resolved(Select(scored))
    BY ResolveIs DEF ResolveCandidates
  <2> HIDE DEF scored
  <2> QED
    BY <2>1, HighIsStrong
<1>8. Select(more) = Select(scored)
  <2>1. \A s \in extra : ~s.strong
    BY <1>3
  <2> HIDE DEF more, scored, extra
  <2> QED
    BY <1>5, <1>6, <1>7, <2>1, SelectionStands
<1>9. /\ ResolveCandidates(known \union {f}, caller, event) = Resolved(Select(more))
      /\ ResolveCandidates(known, caller, event) = Resolved(Select(scored))
  BY <1>2, ResolveIs DEF ResolveCandidates
<1> QED
  BY <1>8, <1>9

(* A call that is resolved for sure is resolved the same after a function   *)
(* was indexed that lies in another file and that nothing ties to the call: *)
(* no import, no declared type, no receiver (dataflow/call-resolver.js      *)
(* resolveCandidates with its scores): whatever functions there are, and    *)
(* however many.                                                            *)
THEOREM StrangersAreNothing == CallSpec => StrangersChangeNothing
<1>1. [CallNext]_callVars =>
        [\A f \in functions' \ functions :
           LET before == ResolveCandidates(functions, call.caller, call.event)
           IN  Stranger(f) /\ (\E r \in before : r.quality = "high")
               => ResolveCandidates(functions', call.caller, call.event) = before]_callVars
  <2> SUFFICES ASSUME CallNext, NEW f \in functions' \ functions, Stranger(f),
                      \E r \in ResolveCandidates(functions, call.caller, call.event) : r.quality = "high"
               PROVE  ResolveCandidates(functions', call.caller, call.event)
                        = ResolveCandidates(functions, call.caller, call.event)
    OBVIOUS
  <2>1. functions' = functions \union {f}
    BY DEF CallNext, IndexFunction
  <2> QED
    BY <2>1, StrangerChangesNothing DEF Stranger
<1> QED
  BY <1>1, PTL DEF CallSpec, StrangersChangeNothing

(* Findings: the answers since the last index give the session the findings *)
(* of the engine, if none of them was overtaken.                            *)
DeltasInvariant == reviewed = PrintsOf(engine) /\ DeltasReproduceFindings

LEMMA EveryFindingHasAPrint ==
    ASSUME NEW e
    PROVE  DOMAIN PrintsOf(e) = DOMAIN e.findings
  BY DEF PrintsOf, Fingerprints

LEMMA DispatchReproduces ==
    ASSUME DeltasInvariant, NEW subjects, NEW next, NEW superseded \in BOOLEAN, Answer(subjects, next, superseded)
    PROVE  DeltasInvariant'
<1> DEFINE prints == PrintsOf(next)
           upsert == Upserts(engine.findings, next.findings, reviewed, prints)
           removedIds == DOMAIN engine.findings \ DOMAIN next.findings
<1>1. /\ engine' = next /\ reviewed' = prints
      /\ missed' = IF superseded THEN [ever |-> TRUE, awaited |-> missed.awaited \union subjects]
                   ELSE [missed EXCEPT !.awaited = @ \ subjects]
      /\ model' = IF superseded THEN model
                  ELSE [id \in (DOMAIN model \ removedIds) \union upsert |->
                           IF id \in upsert THEN <<next.findings[id], prints[id]>> ELSE model[id]]
  BY DEF Answer, Dispatch
<1>2. reviewed' = PrintsOf(engine)'
  BY <1>1 DEF PrintsOf
<1>3. ASSUME ~missed'.ever
      PROVE  model' = [id \in DOMAIN next.findings |-> <<next.findings[id], prints[id]>>]
  <2>1. ~superseded /\ ~missed.ever
    BY <1>1, <1>3
  <2>2. reviewed = PrintsOf(engine) /\ DOMAIN reviewed = DOMAIN engine.findings
    BY EveryFindingHasAPrint DEF DeltasInvariant
  <2>3. model = [id \in DOMAIN engine.findings |-> <<engine.findings[id], reviewed[id]>>]
    BY <2>1, <2>2 DEF DeltasInvariant, DeltasReproduceFindings
  <2>4. upsert = {id \in DOMAIN next.findings :
                    \/ ~(id \in DOMAIN engine.findings /\ engine.findings[id] = next.findings[id])
                    \/ ~(id \in DOMAIN reviewed /\ reviewed[id] = prints[id])}
    BY DEF Upserts
  <2>5. model' = [id \in (DOMAIN model \ removedIds) \union upsert |->
                     IF id \in upsert THEN <<next.findings[id], prints[id]>> ELSE model[id]]
    BY <1>1, <2>1
  <2> HIDE DEF prints, upsert
  <2>6. (DOMAIN model \ removedIds) \union upsert = DOMAIN next.findings
    BY <2>2, <2>3, <2>4
  <2>7. \A id \in DOMAIN next.findings \ upsert : model[id] = <<next.findings[id], prints[id]>>
    BY <2>2, <2>3, <2>4
  <2> QED
    BY <2>5, <2>6, <2>7
<1>4. DeltasReproduceFindings'
  BY <1>1, <1>3 DEF DeltasReproduceFindings, PrintsOf
<1> QED
  BY <1>2, <1>4 DEF DeltasInvariant

LEMMA IndexReproduces ==
    ASSUME NEW next, IndexedAs(next)
    PROVE  DeltasInvariant'
  BY DEF IndexedAs, Indexed, DeltasInvariant, DeltasReproduceFindings, PrintsOf

(* Every request of the engine ends in an answer (worker.js, dispatch).     *)
LEMMA StepsAnswer ==
    ASSUME Next
    PROVE  \/ \E next : IndexedAs(next)
           \/ \E subjects, next : \E superseded \in BOOLEAN : Answer(subjects, next, superseded)
<1>0. Supersedable \subseteq BOOLEAN
  BY DEF Supersedable
<1>1. CASE \E opts \in Options, w \in Workspaces : InitializeWorkspace(opts, w)
  BY <1>1 DEF InitializeWorkspace
<1>2. CASE \E x \in File : \E text \in MayHold[x] : UpdateFile(x, text)
  BY <1>0, <1>2 DEF UpdateFile, AnswerUpdate
<1>3. CASE \E x \in File, reanalyze \in BOOLEAN : RemoveFile(x, reanalyze)
  BY <1>0, <1>3 DEF RemoveFile, AnswerRemoval
<1>4. CASE ReanalyzeAffectedFunctions
  BY <1>4 DEF ReanalyzeAffectedFunctions
<1>5. CASE \E opts \in Options : Configure(opts)
  BY <1>5 DEF Configure
<1> QED
  BY <1>1, <1>2, <1>3, <1>4, <1>5 DEF Next

(* What the session holds after any number of updates, removals and         *)
(* configurations is every finding of the engine with the review            *)
(* fingerprint of now, and no other, unless an answer was overtaken by a    *)
(* newer call for its file (worker.js dispatch, diffById; applied by the    *)
(* session).                                                                *)
THEOREM DeltasAreComplete == Spec => []DeltasReproduceFindings
<1>1. Init => DeltasInvariant
  <2> SUFFICES ASSUME Init PROVE DeltasInvariant
    OBVIOUS
  <2>1. engine.findings = Nothing /\ reviewed = Nothing /\ model = Nothing
    BY DEF Init, EmptyEngine
  <2>2. DOMAIN Nothing = {}
    BY DEF Nothing
  <2>3. PrintsOf(engine) = Nothing
    BY <2>1, <2>2 DEF PrintsOf, Fingerprints, Nothing
  <2> QED
    BY <2>1, <2>2, <2>3 DEF DeltasInvariant, DeltasReproduceFindings, Nothing
<1>2. DeltasInvariant /\ [Next]_vars => DeltasInvariant'
  <2>1. ASSUME DeltasInvariant, Next PROVE DeltasInvariant'
    BY <2>1, StepsAnswer, DispatchReproduces, IndexReproduces
  <2>2. ASSUME DeltasInvariant, UNCHANGED vars PROVE DeltasInvariant'
    BY <2>2 DEF vars, DeltasInvariant, DeltasReproduceFindings, PrintsOf
  <2> QED
    BY <2>1, <2>2
<1>3. DeltasInvariant => DeltasReproduceFindings
  BY DEF DeltasInvariant
<1> QED
  BY <1>1, <1>2, <1>3, PTL DEF Spec
=================================================================================
