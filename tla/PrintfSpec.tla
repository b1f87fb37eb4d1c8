------------------------------ MODULE PrintfSpec ------------------------------
(***************************************************************************)
(* What C's printf promises: a format is a sequence of items, characters   *)
(* and conversion directives, and each item has a text.  Nothing here      *)
(* looks at how the text is computed.                                      *)
(***************************************************************************)
EXTENDS Integers, Sequences, SequencesExt

CONSTANTS
    Character,      \* a character is a string of length one; "NUL" ends a string
    IntBits,        \* the width of int, long and pointers
    ShortBits,
    CharBits,
    LongLongBits

\* An argument is a number or the characters of a string.
Num(v) == [n |-> v, s |-> <<>>]
Str(s) == [n |-> 0, s |-> s]
Argument == [n : Int, s : Seq(Character)]

\* A width or a precision is left out, written in the format, or an argument.
NotGiven == [form |-> "none", n |-> 0]
Given(n) == [form |-> "digits", n |-> n]
Starred(n) == [form |-> "star", n |-> n]

Text(c) == [kind |-> "text", spec |-> c]
Directive(flags, width, precision, length, spec, arg) ==
    [kind |-> "directive", flags |-> flags, width |-> width, precision |-> precision,
     length |-> length, spec |-> spec, arg |-> arg]
\* A format that ends before the directive does.
CutShort(directive) == [directive EXCEPT !.kind = "cut"]

IntegerSpecs == {"d", "i", "u", "x", "X", "o", "b"}
Signed(spec) == spec \in {"d", "i"}
BaseOf(spec) == CASE spec \in {"x", "X", "p"} -> 16 [] spec = "o" -> 8 [] spec = "b" -> 2 [] OTHER -> 10

-----------------------------------------------------------------------------
LowerDigits == <<"0", "1", "2", "3", "4", "5", "6", "7", "8", "9", "a", "b", "c", "d", "e", "f">>
UpperDigits == <<"0", "1", "2", "3", "4", "5", "6", "7", "8", "9", "A", "B", "C", "D", "E", "F">>

\* The numeral of v, the most significant digit first.
Numeral(v, base, digits) ==
    LET numeral[n \in Nat] == IF n < base THEN <<digits[n + 1]>>
                              ELSE Append(numeral[n \div base], digits[(n % base) + 1])
    IN  numeral[v]

\* How the item is written in a format, and the arguments it is called with.
Spell(item) ==
    LET number(n) == Numeral(n, 10, LowerDigits)
        field(f) == CASE f.form = "none" -> <<>>
                      [] f.form = "digits" -> number(f.n)
                      [] f.form = "star" -> <<"*">>
    IN  IF item.kind = "text" THEN <<item.spec>>
        ELSE <<"%">> \o item.flags \o field(item.width)
             \o (IF item.precision.form = "none" THEN <<>> ELSE <<".">> \o field(item.precision))
             \o item.length
             \o (IF item.kind = "cut" THEN <<>> ELSE <<item.spec>>)

Arguments(item) ==
    LET starred(f) == IF f.form = "star" THEN <<Num(f.n)>> ELSE <<>>
    IN  IF item.kind = "text" THEN <<>>
        ELSE starred(item.width) \o starred(item.precision)
             \o (IF item.kind = "directive" /\ item.spec # "%" THEN <<item.arg>> ELSE <<>>)

-----------------------------------------------------------------------------
(***************************************************************************)
(* The text of an item.                                                    *)
(***************************************************************************)
Bits(length) ==
    CASE length = <<"h", "h">> -> CharBits
      [] length = <<"h">> -> ShortBits
      [] length \in {<<"l", "l">>, <<"j">>} -> LongLongBits
      [] OTHER -> IntBits

\* The value of an argument in a type of b bits, signed or unsigned.
AsSigned(v, b) == ((v + 2^(b - 1)) % 2^b) - 2^(b - 1)
AsUnsigned(v, b) == v % 2^b

Value(item) == IF Signed(item.spec) THEN AsSigned(item.arg.n, Bits(item.length))
                                    ELSE AsUnsigned(item.arg.n, Bits(item.length))
Magnitude(item) == IF Value(item) < 0 THEN -Value(item) ELSE Value(item)

Has(item, flag) == Contains(item.flags, flag)
LeftAligned(item) == Has(item, "-") \/ item.width.n < 0
FieldWidth(item) == IF item.width.n < 0 THEN -item.width.n ELSE item.width.n

Repeat(c, n) == IF n > 0 THEN [k \in 1..n |-> c] ELSE <<>>

NumeralOf(item) ==
    IF item.precision.form # "none" /\ item.precision.n = 0 /\ Magnitude(item) = 0 THEN <<>>
    ELSE Numeral(Magnitude(item), BaseOf(item.spec),
                 IF item.spec \in {"X", "p"} THEN UpperDigits ELSE LowerDigits)

Precise(item) == Repeat("0", item.precision.n - Len(NumeralOf(item))) \o NumeralOf(item)

\* The sign, or what `#' puts in front of a value that is not zero.
Prefix(item) ==
    CASE Signed(item.spec) ->
           (CASE Value(item) < 0 -> <<"-">>
              [] Value(item) >= 0 /\ Has(item, "+") -> <<"+">>
              [] Value(item) >= 0 /\ ~Has(item, "+") /\ Has(item, " ") -> <<" ">>
              [] OTHER -> <<>>)
      [] item.spec \in {"x", "X", "b"} /\ Has(item, "#") /\ Magnitude(item) # 0 -> <<"0", item.spec>>
      [] item.spec = "o" /\ Has(item, "#") /\ (Precise(item) = <<>> \/ Head(Precise(item)) # "0") -> <<"0">>
      [] OTHER -> <<>>

ZeroFilled(item) == Has(item, "0") /\ ~LeftAligned(item) /\ item.precision.form = "none"

NumberText(item) ==
    LET used == Len(Prefix(item)) + Len(Precise(item))
    IN  Prefix(item)
        \o (IF ZeroFilled(item) THEN Repeat("0", FieldWidth(item) - used) ELSE <<>>)
        \o Precise(item)

\* A pointer is shown as all its digits.
PointerText(item) ==
    LET n == Numeral(AsUnsigned(item.arg.n, IntBits), 16, UpperDigits)
    IN  Repeat("0", (IntBits \div 4) - Len(n)) \o n

StringText(item) ==
    IF item.precision.form # "none" /\ item.precision.n < Len(item.arg.s)
    THEN SubSeq(item.arg.s, 1, item.precision.n) ELSE item.arg.s

Body(item) ==
    CASE item.spec \in IntegerSpecs -> NumberText(item)
      [] item.spec = "p" -> PointerText(item)
      [] item.spec = "s" -> StringText(item)
      [] item.spec = "c" -> item.arg.s

Justified(body, width, left) ==
    LET spaces == Repeat(" ", width - Len(body))
    IN  IF left THEN body \o spaces ELSE spaces \o body

Meaning(item) ==
    IF item.kind = "text" THEN <<item.spec>>
    ELSE IF item.spec = "%" THEN <<"%">>
    ELSE Justified(Body(item), FieldWidth(item), LeftAligned(item))

\* A precision below zero, given as an argument, counts as none.
Normal(item) ==
    IF item.kind = "text" \/ item.precision.n >= 0 THEN item
    ELSE [item EXCEPT !.precision = NotGiven]

\* The format of a call and its arguments, and what the call promises to produce.
Format(items) == FlattenSeq([k \in 1..Len(items) |-> Spell(items[k])])
Passed(items) == FlattenSeq([k \in 1..Len(items) |-> Arguments(items[k])])
Promise(items) == FlattenSeq([k \in 1..Len(items) |-> Meaning(Normal(items[k]))])
=============================================================================
