------------------------------- MODULE Words -------------------------------
(***************************************************************************)
(* What an integer operation means on words of bits: ripple carries and    *)
(* overflow flags, digit-wise logic, shifts of digits, a division law, and *)
(* casts that extend or drop digits.  A word is [signed, digits], the      *)
(* least significant digit first.  A for loop is the sequence of words its *)
(* index still has to take.                                                *)
(***************************************************************************)
EXTENDS Integers, Sequences, FiniteSets, SequencesExt, Powers

CONSTANTS MaxBits, Modulus, Radix

VARIABLES acc, todo, loop, outcome

vars == <<acc, todo, loop, outcome>>

-----------------------------------------------------------------------------
Bit        == {0, 1}
Width(w)   == Len(w.digits)
Digits(n)  == [1 .. n -> Bit]
Word       == UNION {[signed : BOOLEAN, digits : Digits(n)] : n \in 1 .. MaxBits}
WordType   == [signed : BOOLEAN, bits : 1 .. MaxBits]
TypeOf(w)  == [signed |-> w.signed, bits |-> Width(w)]

\* What the i low digits are the notation of, for each i; all of the binary
\* digits are that of the number.
LowPart(ds, radix) ==
  LET n[i \in 0 .. Len(ds)] == IF i = 0 THEN 0 ELSE n[i - 1] + ds[i] * power(radix, i - 1) IN n
Number(ds) == LowPart(ds, 2)[Len(ds)]

Zero(n)    == [i \in 1 .. n |-> 0]
Flip(ds)   == [i \in DOMAIN ds |-> 1 - ds[i]]
Sign(w)    == IF w.signed THEN Last(w.digits) ELSE 0

\* w's digits at width n: extended by its sign, or cut off.
Extend(w, n) == [i \in 1 .. n |-> IF i <= Width(w) THEN w.digits[i] ELSE Sign(w)]

Ok(w)      == [ok |-> TRUE, word |-> w]
Fail(e)    == [ok |-> FALSE, error |-> e]
With(w, ds) == [w EXCEPT !.digits = ds]

\* The carry out of each digit of a sum; Carries[0] is the carry in.
Carries(xs, ys, in) ==
  LET c[i \in 0 .. Len(xs)] == IF i = 0 THEN in ELSE (xs[i] + ys[i] + c[i - 1]) \div 2 IN c

Sum(xs, ys, in) ==
  LET c == Carries(xs, ys, in) IN [i \in DOMAIN xs |-> (xs[i] + ys[i] + c[i - 1]) % 2]

\* A signed sum overflows when the carries into and out of the sign differ;
\* an unsigned one when the carry out is not `clear`.
Overflows(w, ys, in, clear) ==
  LET c == Carries(w.digits, ys, in)
      n == Width(w)
  IN  IF w.signed THEN c[n] # c[n - 1] ELSE c[n] # clear

Plus(a, b)  == IF Overflows(a, b.digits, 0, 0) THEN Fail("Overflow")
               ELSE Ok(With(a, Sum(a.digits, b.digits, 0)))
Minus(a, b) == IF Overflows(a, Flip(b.digits), 1, 1) THEN Fail("Overflow")
               ELSE Ok(With(a, Sum(a.digits, Flip(b.digits), 1)))

Shifted(ds, k, fill) ==
  [i \in DOMAIN ds |-> IF i - k \in DOMAIN ds THEN ds[i - k] ELSE fill]

\* Long multiplication at twice the width, where it is exact.
Partial(xs, ys) ==
  LET p[k \in 0 .. Len(ys)] ==
        IF k = 0 THEN Zero(Len(xs))
        ELSE IF ys[k] = 0 THEN p[k - 1] ELSE Sum(p[k - 1], Shifted(xs, k - 1, 0), 0)
  IN  p
LongProduct(a, b) == LET n == 2 * Width(a) IN Partial(Extend(a, n), Extend(b, n))[n]

Times(a, b) ==
  LET long  == LongProduct(a, b)
      short == With(a, SubSeq(long, 1, Width(a)))
  IN  IF Extend(short, Len(long)) = long THEN Ok(short) ELSE Fail("Overflow")

Magnitude(w) == IF Sign(w) = 0 THEN Number(w.digits)
                ELSE Number(Flip(w.digits)) + 1

\* The division law: q * b + r = a, |r| < |b| and r has the sign of a.
Divides(a, b, q, r) ==
  LET n == 2 * Width(a)
  IN  /\ Sum(LongProduct(q, b), Extend(r, n), 0) = Extend(a, n)
      /\ Magnitude(r) < Magnitude(b)
      /\ Magnitude(r) = 0 \/ Sign(r) = Sign(a)

Same(a) == {With(a, ds) : ds \in Digits(Width(a))}

\* Quotient and remainder exist together: i_MIN and -1 have neither.
Division(op, a, b) ==
  LET answers == {qr \in Same(a) \X Same(a) : Divides(a, b, qr[1], qr[2])}
      qr      == CHOOSE x \in answers : TRUE
  IN  IF Magnitude(b) = 0 THEN Fail("DivisionByZero")
      ELSE IF answers = {} THEN Fail("Overflow")
      ELSE Ok(IF op = "Divide" THEN qr[1] ELSE qr[2])

Logic(op, d, e) == CASE op = "And" -> IF d + e = 2 THEN 1 ELSE 0
                     [] op = "Or"  -> IF d + e > 0 THEN 1 ELSE 0
                     [] op = "Xor" -> IF d # e THEN 1 ELSE 0

Shift(op, a, b) ==
  LET amount == Number(b.digits)
  IN  IF amount >= Width(a) THEN Fail("Overflow")
      ELSE Ok(With(a, IF op = "ShiftLeft" THEN Shifted(a.digits, amount, 0)
                                          ELSE Shifted(a.digits, -amount, Sign(a))))

\* The first digit that differs from the top decides; a sign counts against.
Less(a, b) ==
  \E i \in 1 .. Width(a) :
    /\ a.digits[i] # b.digits[i]
    /\ \A j \in i + 1 .. Width(a) : a.digits[j] = b.digits[j]
    /\ (a.digits[i] < b.digits[i]) # (a.signed /\ i = Width(a))

Holds(op, a, b) == CASE op = "Equal"        -> a = b
                     [] op = "NotEqual"     -> a # b
                     [] op = "Less"         -> Less(a, b)
                     [] op = "LessEqual"    -> ~Less(b, a)
                     [] op = "Greater"      -> Less(b, a)
                     [] op = "GreaterEqual" -> ~Less(a, b)

Truth(w, holds) == With(w, [i \in DOMAIN w.digits |-> IF i = 1 /\ holds THEN 1 ELSE 0])

Cast(ty, w) == [signed |-> ty.signed, digits |-> Extend(w, ty.bits)]

\* Every word of the type of w is a number below the modulus.
Embeds(w) == ~w.signed /\ \A v \in Same(w) : Number(v.digits) < Modulus

Clear(ds, n) == \A i \in DOMAIN ds : i > n => ds[i] = 0

\* The limbs of an element are so many digits of its notation in the radix;
\* an element that has no such notation is refused.
Notations(number, radix, count) ==
  {ds \in [1 .. count -> 0 .. radix - 1] : LowPart(ds, radix)[count] = number}

Limb(t, w) ==
  LET notations == Notations(Number(w.digits), t.radix, t.count)
      ds == CHOOSE x \in notations : TRUE
      at == IF t.big_endian THEN t.count + 1 - t.at ELSE t.at
  IN  IF ~Embeds(w) \/ t.radix \notin 2 .. 256 THEN Fail("Type")
      ELSE IF notations = {} THEN Fail("AssertionFailed")
      ELSE Ok(CHOOSE v \in Same(w) : Number(v.digits) = ds[at])

FieldLess(a, b) ==
  LET n == MaxBits + 1
  IN  IF ~Embeds(a) \/ ~Embeds(b) THEN Fail("Type")
      ELSE Ok(Truth(a, Less(With(a, Extend(a, n)), With(b, Extend(b, n)))))

-----------------------------------------------------------------------------
Binary(op, a, b) ==
  CASE op = "Add"                         -> Plus(a, b)
    [] op = "Subtract"                    -> Minus(a, b)
    [] op = "Multiply"                    -> Times(a, b)
    [] op \in {"Divide", "Modulo"}        -> Division(op, a, b)
    [] op \in {"And", "Or", "Xor"}        ->
         Ok(With(a, [i \in DOMAIN a.digits |-> Logic(op, a.digits[i], b.digits[i])]))
    [] op \in {"ShiftLeft", "ShiftRight"} -> Shift(op, a, b)
    [] OTHER                              -> Ok(Truth(a, Holds(op, a, b)))

Result(t, w) ==
  CASE t.op = "Minus" -> Minus(With(w, Zero(Width(w))), w)
    [] t.op = "Not"   -> Ok(With(w, Flip(w.digits)))
    [] t.op = "Cast"  -> Ok(Cast(t.to, w))
    [] t.op = "ThroughField" -> IF Embeds(w) THEN Ok(Cast(t.to, w)) ELSE Fail("Type")
    [] t.op = "FieldLess" -> FieldLess(w, t.rhs)
    [] t.op = "RangeConstraint" -> IF ~Embeds(w) THEN Fail("Type")
                                   ELSE IF Clear(w.digits, t.bits) THEN Ok(w)
                                   ELSE Fail("AssertionFailed")
    [] t.op = "Limb"  -> Limb(t, w)
    [] OTHER          -> IF TypeOf(w) # TypeOf(t.rhs) THEN Fail("Type")
                         ELSE Binary(t.op, w, t.rhs)

Nothing == [op |-> "Nothing"]

BinaryOp == {"Add", "Subtract", "Multiply", "Divide", "Modulo", "And", "Or", "Xor",
             "ShiftLeft", "ShiftRight", "Equal", "NotEqual", "Less", "LessEqual",
             "Greater", "GreaterEqual"}

\* The words from a up to b, each after those that are less.
WordsFrom(a, b, inclusive) ==
  LET ws == {w \in Same(a) : ~Less(w, a) /\ (Less(w, b) \/ (inclusive /\ w = b))}
  IN  [k \in 1 .. Cardinality(ws) |->
         CHOOSE w \in ws : Cardinality({v \in ws : Less(v, w)}) = k - 1]

Init == acc \in Word /\ todo = Nothing /\ loop = <<>> /\ outcome = "ok"

Evaluate == /\ \/ \E op \in BinaryOp \cup {"FieldLess"}, b \in Word : todo' = [op |-> op, rhs |-> b]
               \/ \E op \in {"Cast", "ThroughField"}, ty \in WordType : todo' = [op |-> op, to |-> ty]
               \/ \E op \in {"Minus", "Not"} : todo' = [op |-> op]
               \/ \E n \in 1 .. MaxBits : todo' = [op |-> "RangeConstraint", bits |-> n]
               \/ \E radix \in Radix, big \in BOOLEAN, n \in 1 .. MaxBits, i \in 1 .. MaxBits :
                    i <= n /\ todo' = [op |-> "Limb", radix |-> radix, big_endian |-> big,
                                       count |-> n, at |-> i]
            /\ UNCHANGED <<acc, loop, outcome>>

Apply == /\ todo # Nothing
         /\ todo' = Nothing
         /\ LET r == Result(todo, acc)
            IN  IF r.ok THEN acc' = r.word /\ UNCHANGED outcome
                        ELSE outcome' = r.error /\ UNCHANGED acc
         /\ UNCHANGED loop

EnterFor == /\ outcome = "ok" /\ todo = Nothing /\ loop = <<>>
            /\ \E b \in Same(acc), inclusive \in BOOLEAN : loop' = WordsFrom(acc, b, inclusive)
            /\ UNCHANGED <<acc, todo, outcome>>

Iterate == /\ loop # <<>>
           /\ acc' = Head(loop)
           /\ loop' \in {Tail(loop), <<>>}
           /\ UNCHANGED <<todo, outcome>>

Next == Evaluate \/ Apply \/ EnterFor \/ Iterate

Spec == Init /\ [][Next]_vars
=============================================================================
