----------------------------- MODULE IntMachine -----------------------------
(***************************************************************************)
(* Machine integers: an unbounded value with the width and signedness of   *)
(* its type, the operators of the interpreter on them and the intrinsics   *)
(* on Field elements, and a local that any sequence of operators, casts,   *)
(* intrinsics and for loops is applied to.                                 *)
(*                                                                         *)
(* BigInt's `/` and `%` truncate toward zero and its `>>` rounds toward    *)
(* minus infinity; its bitwise operators are constants here, used on       *)
(* non-negative operands only.                                             *)
(***************************************************************************)
EXTENDS Integers, Powers

CONSTANTS MaxBits,           \* the widest integer type
          Modulus,           \* of the field the program was compiled under
          Radix,             \* the radices the program decomposes elements in
          BitAnd(_, _), BitOr(_, _), BitXor(_, _)

ASSUME WidthAssumption == MaxBits \in Nat \ {0}

ASSUME ModulusAssumption == Modulus \in Nat \ {0, 1}

ASSUME RadixAssumption == Radix \subseteq Nat

ASSUME BitwiseAssumption ==
  \A n \in 1 .. MaxBits : \A p, q \in 0 .. pow2(n) - 1 :
    /\ BitAnd(p, q) \in Nat /\ BitOr(p, q) \in Nat /\ BitXor(p, q) \in Nat
    /\ \A i \in 1 .. n : /\ bit(BitAnd(p, q), i) = 1 <=> bit(p, i) = 1 /\ bit(q, i) = 1
                         /\ bit(BitOr(p, q), i) = 1 <=> bit(p, i) = 1 \/ bit(q, i) = 1
                         /\ bit(BitXor(p, q), i) = 1 <=> bit(p, i) # bit(q, i)

VARIABLES acc,       \* the local, an IntValue
          todo,      \* the operation whose operands have been evaluated
          loop,      \* i and the exclusive end of the for loop acc is the index of
          outcome    \* "ok", or the error that ended the run

vars == <<acc, todo, loop, outcome>>

-----------------------------------------------------------------------------
(* IntValue                                                                *)
IntType == [signed : BOOLEAN, bits : 1 .. MaxBits]

Abs(x) == IF x < 0 THEN -x ELSE x

Quotient(a, b)  == IF (a < 0) = (b < 0) THEN Abs(a) \div Abs(b) ELSE -(Abs(a) \div Abs(b))
Remainder(a, b) == IF a < 0 THEN -(Abs(a) % Abs(b)) ELSE a % Abs(b)

\* Slip: the remainder of a negative value is used as it is.
WrapTruncated(ty, raw) ==
  LET u == Remainder(raw, pow2(ty.bits))
  IN  IF ty.signed /\ u >= pow2(ty.bits - 1) THEN u - pow2(ty.bits) ELSE u

wrap(ty, raw) ==
  LET r == Remainder(raw, pow2(ty.bits))
      u == IF r < 0 THEN r + pow2(ty.bits) ELSE r
  IN  IF ty.signed /\ u >= pow2(ty.bits - 1) THEN u - pow2(ty.bits) ELSE u

least(ty)    == IF ty.signed THEN -pow2(ty.bits - 1) ELSE 0
greatest(ty) == IF ty.signed THEN pow2(ty.bits - 1) - 1 ELSE pow2(ty.bits) - 1

IntValueOf(ty) == {[type |-> ty, value |-> v] : v \in least(ty) .. greatest(ty)}

Ok(x)   == [ok |-> TRUE, int |-> x]
Fail(e) == [ok |-> FALSE, error |-> e]

canonical(ty, raw) == [type |-> ty, value |-> wrap(ty, raw)]

checked(ty, raw) == IF raw < least(ty) \/ raw > greatest(ty) THEN Fail("Overflow")
                    ELSE Ok([type |-> ty, value |-> raw])

unsigned_repr(x) == IF x.value < 0 THEN x.value + pow2(x.type.bits) ELSE x.value

-----------------------------------------------------------------------------
(* eval_int_binary, eval_unary, eval_cast                                  *)
ArithOp   == {"Add", "Subtract", "Multiply", "Divide", "Modulo"}
BitwiseOp == {"And", "Or", "Xor"}
ShiftOp   == {"ShiftLeft", "ShiftRight"}
CompareOp == {"Equal", "NotEqual", "Less", "LessEqual", "Greater", "GreaterEqual"}
BinaryOp  == ArithOp \cup BitwiseOp \cup ShiftOp

Divided(ty, a, b) == IF b = 0 THEN Fail("DivisionByZero") ELSE checked(ty, Quotient(a, b))

\* i_MIN % -1 is an error although the remainder is 0.
Reduced(ty, a, b) ==
  IF b = 0 THEN Fail("DivisionByZero")
  ELSE IF ty.signed /\ a = least(ty) /\ b = -1 THEN Fail("Overflow")
  ELSE Ok(canonical(ty, Remainder(a, b)))

arithmetic(op, a, b) ==
  CASE op = "Add"      -> checked(a.type, a.value + b.value)
    [] op = "Subtract" -> checked(a.type, a.value - b.value)
    [] op = "Multiply" -> checked(a.type, a.value * b.value)
    [] op = "Divide"   -> Divided(a.type, a.value, b.value)
    [] op = "Modulo"   -> Reduced(a.type, a.value, b.value)

bitwise(op, a, b) ==
  LET p == unsigned_repr(a)
      q == unsigned_repr(b)
  IN  Ok(canonical(a.type, CASE op = "And" -> BitAnd(p, q)
                             [] op = "Or"  -> BitOr(p, q)
                             [] op = "Xor" -> BitXor(p, q)))

\* Slip: an arithmetic shift of the bit pattern.
ShiftPattern(op, a, b) ==
  IF unsigned_repr(b) >= a.type.bits THEN Fail("Overflow")
  ELSE Ok(canonical(a.type, IF op = "ShiftLeft"
                            THEN unsigned_repr(a) * pow2(unsigned_repr(b))
                            ELSE unsigned_repr(a) \div pow2(unsigned_repr(b))))

\* The amount is the bit pattern of b, so a negative one is too large.
shift(op, a, b) ==
  LET amount == unsigned_repr(b)
  IN  IF amount >= a.type.bits THEN Fail("Overflow")
      ELSE Ok(canonical(a.type, IF op = "ShiftLeft"
                                THEN unsigned_repr(a) * pow2(amount)
                                ELSE a.value \div pow2(amount)))

eval_int_binary(op, a, b) ==
  IF a.type # b.type THEN Fail("Type")
  ELSE CASE op \in ArithOp   -> arithmetic(op, a, b)
         [] op \in BitwiseOp -> bitwise(op, a, b)
         [] op \in ShiftOp   -> shift(op, a, b)

compare(op, a, b) ==
  CASE op = "Equal"        -> a.value = b.value
    [] op = "NotEqual"     -> a.value # b.value
    [] op = "Less"         -> a.value < b.value
    [] op = "LessEqual"    -> a.value <= b.value
    [] op = "Greater"      -> a.value > b.value
    [] op = "GreaterEqual" -> a.value >= b.value

negate(x)     == checked(x.type, -x.value)
complement(x) == Ok(canonical(x.type, pow2(x.type.bits) - 1 - unsigned_repr(x)))
cast(ty, x)   == Ok(canonical(ty, x.value))
castBool(ty, holds) == Ok(canonical(ty, IF holds THEN 1 ELSE 0))

\* FieldConfig::fits_unsigned: every value of the type is a field element.
fits_unsigned(bits) == pow2(bits) <= Modulus

toField(x) == IF x.type.signed \/ ~fits_unsigned(x.type.bits) THEN Fail("Type")
              ELSE Ok(unsigned_repr(x) % Modulus)

\* A cast to Field and on to an integer type.
throughField(ty, x) == LET f == toField(x) IN IF f.ok THEN Ok(canonical(ty, f.int)) ELSE f

-----------------------------------------------------------------------------
(* The intrinsics on Field elements, applied to the local cast to Field;   *)
(* what they return is cast back to the type of the local.                 *)
digit(f, radix, k) == (f \div power(radix, k)) % radix

\* count limbs, padded with zeros, least significant first unless big_endian.
to_radix(f, radix, count, big_endian) ==
  IF radix \notin 2 .. 256 THEN Fail("Type")
  ELSE IF f >= power(radix, count) THEN Fail("AssertionFailed")
  ELSE [ok |-> TRUE, limbs |-> [i \in 1 .. count |->
          digit(f, radix, IF big_endian THEN count - i ELSE i - 1)]]

limb(t, x) ==
  LET f == toField(x)
      r == to_radix(f.int, t.radix, t.count, t.big_endian)
  IN  IF ~f.ok THEN f ELSE IF ~r.ok THEN r ELSE Ok(canonical(x.type, r.limbs[t.at]))

\* The element has at most `bits` bits; the value is left as it is.
apply_range_constraint(bits, x) ==
  LET f == toField(x)
  IN  IF ~f.ok THEN f ELSE IF f.int >= pow2(bits) THEN Fail("AssertionFailed") ELSE Ok(x)

field_less_than(x, y) ==
  LET p == toField(x)
      q == toField(y)
  IN  IF ~p.ok THEN p ELSE IF ~q.ok THEN q ELSE castBool(x.type, p.int < q.int)

-----------------------------------------------------------------------------
IntValue == UNION {IntValueOf(ty) : ty \in IntType}

Nothing == [op |-> "Nothing"]

Operation == {Nothing}
  \cup {[op |-> o, rhs |-> b] : o \in BinaryOp \cup CompareOp, b \in IntValue}
  \cup {[op |-> o, to |-> ty] : o \in {"Cast", "ThroughField"}, ty \in IntType}
  \cup {[op |-> o] : o \in {"Minus", "Not"}}
  \cup {[op |-> "FieldLess", rhs |-> b] : b \in IntValue}
  \cup {[op |-> "RangeConstraint", bits |-> n] : n \in 1 .. MaxBits}
  \cup UNION {[op : {"Limb"}, radix : Radix, big_endian : BOOLEAN, count : {n}, at : 1 .. n] :
                n \in 1 .. MaxBits}

\* A comparison gives a Bool, which is cast to the type of its operands.
compared(op, a, b) == IF a.type # b.type THEN Fail("Type")
                      ELSE castBool(a.type, compare(op, a, b))

result(t, x) ==
  CASE t.op \in BinaryOp     -> eval_int_binary(t.op, x, t.rhs)
    [] t.op \in CompareOp    -> compared(t.op, x, t.rhs)
    [] t.op = "Minus"        -> negate(x)
    [] t.op = "Not"          -> complement(x)
    [] t.op = "Cast"         -> cast(t.to, x)
    [] t.op = "ThroughField" -> throughField(t.to, x)
    [] t.op = "FieldLess"    -> field_less_than(x, t.rhs)
    [] t.op = "RangeConstraint" -> apply_range_constraint(t.bits, x)
    [] t.op = "Limb"         -> limb(t, x)

NoLoop == [i |-> 0, end |-> 0]

Init == /\ acc \in IntValue
        /\ todo = Nothing
        /\ loop = NoLoop
        /\ outcome = "ok"

Idle == outcome = "ok" /\ todo = Nothing /\ loop = NoLoop

Evaluate == /\ Idle
            /\ todo' \in Operation \ {Nothing}
            /\ UNCHANGED <<acc, loop, outcome>>

Apply == /\ todo # Nothing
         /\ todo' = Nothing
         /\ LET r == result(todo, acc)
            IN  IF r.ok THEN acc' = r.int /\ UNCHANGED outcome
                        ELSE outcome' = r.error /\ UNCHANGED acc
         /\ UNCHANGED loop

EnterFor ==
  /\ Idle
  /\ \E b \in IntValueOf(acc.type), inclusive \in BOOLEAN :
       loop' = [i   |-> acc.value,
                end |-> IF inclusive THEN b.value + 1 ELSE b.value]
  /\ UNCHANGED <<acc, todo, outcome>>

\* Slip: the counter is kept in the index type.
IterateWrapped ==
  /\ loop.i < loop.end
  /\ acc' = canonical(acc.type, loop.i)
  /\ loop' = [loop EXCEPT !.i = wrap(acc.type, @ + 1)] \/ loop' = NoLoop
  /\ UNCHANGED <<todo, outcome>>

\* Slip: the counter is advanced before the index is bound.
IterateAhead ==
  /\ loop.i < loop.end
  /\ acc' = canonical(acc.type, loop.i + 1)
  /\ loop' = [loop EXCEPT !.i = @ + 1] \/ loop' = NoLoop
  /\ UNCHANGED <<todo, outcome>>

\* The index is bound and the body runs; it may end in a break.
Iterate == /\ loop.i < loop.end
           /\ acc' = canonical(acc.type, loop.i)
           /\ loop' = [loop EXCEPT !.i = @ + 1] \/ loop' = NoLoop
           /\ UNCHANGED <<todo, outcome>>

LeaveFor == /\ loop # NoLoop /\ loop.i >= loop.end
            /\ loop' = NoLoop
            /\ UNCHANGED <<acc, todo, outcome>>

Next == Evaluate \/ Apply \/ EnterFor \/ Iterate \/ LeaveFor

Spec == Init /\ [][Next]_vars

\* One thread and, here, bodies that return: the loop's own steps are taken.
FairSpec == Spec /\ WF_vars(Iterate \/ LeaveFor)

-----------------------------------------------------------------------------
(* Every value is the representative its type has for it, after any        *)
(* sequence of operators, casts and loops: the operators read the sign off *)
(* the value and never renormalise their operands.                         *)
Canonical == acc.type \in IntType /\ acc \in IntValueOf(acc.type)

(* A for loop counts in unbounded integers and binds the counter wrapped   *)
(* into the index type; the wrap never changes it, although the exclusive  *)
(* end of an inclusive range may lie outside the type.                     *)
IndexIsCounter == [][loop # NoLoop /\ acc' # acc => acc'.value = loop.i]_vars

(* A for loop over any range of its index type ends, also when the range   *)
(* ends at the greatest value of the type.                                 *)
ForEnds == loop # NoLoop ~> loop = NoLoop
=============================================================================
