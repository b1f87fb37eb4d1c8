-------------------------------- MODULE Printf --------------------------------
(***************************************************************************)
(* libc/stdio.c: the parser of formats, the integer, character, string and *)
(* pointer conversions, and the functions that take the output.  A call    *)
(* runs to its end; one step is one round of a parser's loop or one stage  *)
(* of a conversion.  Not here: the conversions of doubles.                 *)
(*                                                                         *)
(* size_t is as wide as int and long.  The text of a call is shorter than  *)
(* the largest size_t.                                                     *)
(***************************************************************************)
EXTENDS PrintfSpec

CONSTANTS
    PRINTF_NTOA_BUFFER_SIZE,  \* 32
    Calls                     \* the calls made, see Call

ASSUME SizeAssumption == PRINTF_NTOA_BUFFER_SIZE \in Nat \ {0}

ASSUME BitsAssumption ==
    /\ \A b \in {IntBits, ShortBits, CharBits, LongLongBits} :
           2^b \in Nat \ {0} /\ 2^(b - 1) \in Nat /\ 2^b = 2 * 2^(b - 1)
    /\ IntBits \div 4 \in 0..(2^IntBits - 1)

\* "must be big enough to hold one converted numeric number": the array holds the
\* digits of every pointer.
ASSUME PointerAssumption ==
    /\ IntBits \div 4 <= PRINTF_NTOA_BUFFER_SIZE
    /\ \A v \in 0..(2^IntBits - 1) : Len(Numeral(v, 16, UpperDigits)) <= PRINTF_NTOA_BUFFER_SIZE

NUL == "NUL"

ASSUME CharacterAssumption ==
    /\ {NUL, "0", "-", "+", " ", "b", "x", "X"} \subseteq Character
    /\ \A d \in 1..16 : LowerDigits[d] \in Character /\ UpperDigits[d] \in Character

\* A call of one of the functions of stdio.h: `null' when it is given no buffer.
Call(api, null, count, items) ==
    [api |-> api, null |-> null, count |-> count, items |-> items,
     format |-> Format(items), args |-> Passed(items)]

ASSUME CallAssumption ==
    \A c \in Calls : /\ c.api \in {"printf", "sprintf", "snprintf", "fctprintf"}
                     /\ c.count \in 0..(2^IntBits - 1)
                     /\ c.format \in Seq(Character) /\ c.args \in Seq(Argument)

VARIABLES
    call,
    pc,         \* where in _vsnprintf or below
    format,     \* the characters from *format on
    va,         \* the arguments still to come
    flags, width, precision,
    number,     \* base, sign and remaining value in _ntoa_long
    buf,        \* the digits of _ntoa_long, the last first
    idx,        \* characters given to `out'
    sent,       \* characters _putchar or the caller's function has got
    buffer      \* the caller's buffer, as far as it has been written

directive == <<flags, width, precision>>
conversion == <<number, buf>>
output == <<idx, sent, buffer>>
vars == <<call, pc, format, va, directive, conversion, output>>

SizeMax == 2^IntBits - 1
maxlen == IF call.api = "snprintf" THEN call.count ELSE SizeMax
out == CASE call.null -> "_out_null"
         [] ~call.null /\ call.api = "printf" -> "_out_char"
         [] ~call.null /\ call.api = "fctprintf" -> "_out_fct"
         [] OTHER -> "_out_buffer"

Init ==
    /\ call \in Calls
    /\ pc = "scan" /\ format = call.format /\ va = call.args
    /\ flags = {} /\ width = 0 /\ precision = 0
    /\ number = [base |-> 10, negative |-> FALSE, value |-> 0] /\ buf = <<>>
    /\ idx = 0 /\ sent = <<>> /\ buffer = [k \in {} |-> NUL]

-----------------------------------------------------------------------------
(***************************************************************************)
(* Output.                                                                 *)
(***************************************************************************)
\* Mutant: the last byte counts as one more.
out_buffer_past(s, at) ==
    LET hit == {k \in at..(at + Len(s) - 1) : k <= maxlen}
    IN  [k \in DOMAIN buffer \cup hit |-> IF k \in hit THEN s[k - at + 1] ELSE buffer[k]]

\* The buffer with s written at `at', as far as it has room.
out_buffer(s, at) ==
    LET hit == {k \in at..(at + Len(s) - 1) : k < maxlen}
    IN  [k \in DOMAIN buffer \cup hit |-> IF k \in hit THEN s[k - at + 1] ELSE buffer[k]]

\* _out_char and _out_fct keep NULs to themselves.
Heard(s) == FlattenSeq([k \in 1..Len(s) |-> IF s[k] = NUL THEN <<>> ELSE <<s[k]>>])

Out(s) ==
    /\ idx' = idx + Len(s)
    /\ buffer' = IF out = "_out_buffer" THEN out_buffer(s, idx) ELSE buffer
    /\ sent' = IF out \in {"_out_char", "_out_fct"} THEN sent \o Heard(s) ELSE sent

Spaces(n) == Repeat(" ", n)

\* A text in its field.
InField(s) == IF "LEFT" \in flags THEN s \o Spaces(width - Len(s)) ELSE Spaces(width - Len(s)) \o s

-----------------------------------------------------------------------------
(***************************************************************************)
(* The parser, up to the specifier.                                        *)
(***************************************************************************)
Peek == IF format = <<>> THEN NUL ELSE Head(format)
Skip(k) == format' = SubSeq(format, k + 1, Len(format))

FlagOf == [c \in {"0", "-", "+", " ", "#"} |->
             CASE c = "0" -> "ZEROPAD" [] c = "-" -> "LEFT" [] c = "+" -> "PLUS"
               [] c = " " -> "SPACE" [] c = "#" -> "HASH"]
DigitOf == [c \in {LowerDigits[d + 1] : d \in 0..9} |-> CHOOSE d \in 0..9 : LowerDigits[d + 1] = c]

\* One round of _atoi.
Atoi(i) == (10 * i + DigitOf[Peek]) % 2^IntBits

Literal ==
    /\ pc = "scan" /\ Peek \notin {NUL, "%"}
    /\ Out(<<Peek>>) /\ Skip(1)
    /\ UNCHANGED <<call, pc, va, directive, conversion>>

Percent ==
    /\ pc = "scan" /\ Peek = "%"
    /\ pc' = "flags" /\ Skip(1)
    /\ flags' = {} /\ width' = 0 /\ precision' = 0
    /\ UNCHANGED <<call, va, conversion, output>>

\* Mutant: one of the flags is not stepped over.
FlagsStuck ==
    /\ pc = "flags"
    /\ \/ /\ Peek \in DOMAIN FlagOf
          /\ flags' = flags \cup {FlagOf[Peek]} /\ pc' = pc
          /\ IF Peek = "#" THEN UNCHANGED format ELSE Skip(1)
       \/ /\ Peek \notin DOMAIN FlagOf
          /\ pc' = "width" /\ UNCHANGED <<flags, format>>
    /\ UNCHANGED <<call, va, width, precision, conversion, output>>

Flags ==
    /\ pc = "flags"
    /\ \/ /\ Peek \in DOMAIN FlagOf
          /\ flags' = flags \cup {FlagOf[Peek]} /\ pc' = pc /\ Skip(1)
       \/ /\ Peek \notin DOMAIN FlagOf
          /\ pc' = "width" /\ UNCHANGED <<flags, format>>
    /\ UNCHANGED <<call, va, width, precision, conversion, output>>

Width ==
    /\ pc \in {"width", "width_digits"}
    /\ \/ /\ Peek \in DOMAIN DigitOf
          /\ width' = Atoi(width) /\ Skip(1) /\ pc' = "width_digits"
          /\ UNCHANGED <<flags, va>>
       \/ /\ pc = "width" /\ Peek = "*" /\ va # <<>>
          /\ LET w == Head(va).n
             IN  IF w < 0 THEN flags' = flags \cup {"LEFT"} /\ width' = (-w) % 2^IntBits
                          ELSE flags' = flags /\ width' = w % 2^IntBits
          /\ va' = Tail(va) /\ Skip(1) /\ pc' = "precision"
       \/ /\ Peek \notin DOMAIN DigitOf /\ (pc = "width" => Peek # "*")
          /\ pc' = "precision"
          /\ UNCHANGED <<flags, width, va, format>>
    /\ UNCHANGED <<call, precision, conversion, output>>

Precision ==
    /\ pc = "precision"
    /\ \/ Peek = "." /\ flags' = flags \cup {"PRECISION"} /\ Skip(1) /\ pc' = "precision_value"
       \/ Peek # "." /\ pc' = "length" /\ UNCHANGED <<flags, format>>
    /\ UNCHANGED <<call, va, width, precision, conversion, output>>

PrecisionValue ==
    /\ pc \in {"precision_value", "precision_digits"}
    /\ \/ /\ Peek \in DOMAIN DigitOf
          /\ precision' = Atoi(precision) /\ Skip(1) /\ pc' = "precision_digits"
          /\ UNCHANGED va
       \/ /\ pc = "precision_value" /\ Peek = "*" /\ va # <<>>
          /\ precision' = IF Head(va).n > 0 THEN Head(va).n % 2^IntBits ELSE 0
          /\ va' = Tail(va) /\ Skip(1) /\ pc' = "length"
       \/ /\ Peek \notin DOMAIN DigitOf /\ (pc = "precision_value" => Peek # "*")
          /\ pc' = "length"
          /\ UNCHANGED <<precision, va, format>>
    /\ UNCHANGED <<call, flags, width, conversion, output>>

\* Mutant: `h' is taken to come in pairs.
LengthPairs ==
    /\ pc = "length" /\ pc' = "specifier"
    /\ \/ Peek \in {"l", "h"} /\ flags' = flags \cup {"LONG"} /\ Skip(2)
       \/ Peek \notin {"l", "h"} /\ UNCHANGED <<flags, format>>
    /\ UNCHANGED <<call, va, width, precision, conversion, output>>

Twice(c) == Len(format) > 1 /\ format[1] = c /\ format[2] = c

\* intmax_t is a long long, ptrdiff_t and size_t are as wide as long.
Length ==
    /\ pc = "length" /\ pc' = "specifier"
    /\ \/ Peek = "l" /\ Twice("l") /\ flags' = flags \cup {"LONG", "LONG_LONG"} /\ Skip(2)
       \/ Peek = "l" /\ ~Twice("l") /\ flags' = flags \cup {"LONG"} /\ Skip(1)
       \/ Peek = "h" /\ Twice("h") /\ flags' = flags \cup {"SHORT", "CHAR"} /\ Skip(2)
       \/ Peek = "h" /\ ~Twice("h") /\ flags' = flags \cup {"SHORT"} /\ Skip(1)
       \/ Peek = "j" /\ flags' = flags \cup {"LONG_LONG"} /\ Skip(1)
       \/ Peek \in {"t", "z"} /\ flags' = flags \cup {"LONG"} /\ Skip(1)
       \/ Peek \notin {"l", "h", "j", "t", "z"} /\ UNCHANGED <<flags, format>>
    /\ UNCHANGED <<call, va, width, precision, conversion, output>>

-----------------------------------------------------------------------------
(***************************************************************************)
(* Integers: _ntoa_long, _ntoa_long_long and _ntoa_format.                 *)
(***************************************************************************)
\* The head of _ntoa_long: no prefix for zero, no digits either when a precision
\* is given.
StartNumber(base, negative, value, f) ==
    /\ number' = [base |-> base, negative |-> negative, value |-> value]
    /\ buf' = <<>>
    /\ flags' = IF value = 0 THEN f \ {"HASH"} ELSE f
    /\ pc' = IF "PRECISION" \in f /\ value = 0 THEN "pad" ELSE "digits"

ValueBits == CASE "LONG_LONG" \in flags -> LongLongBits
               [] flags \cap {"LONG", "LONG_LONG"} = {"LONG"} -> IntBits
               [] flags \cap {"LONG", "LONG_LONG", "CHAR"} = {"CHAR"} -> CharBits
               [] flags \cap {"LONG", "LONG_LONG", "CHAR", "SHORT"} = {"SHORT"} -> ShortBits
               [] OTHER -> IntBits

\* `0 - value' wraps for the least value, as the build does it.
Integer ==
    /\ pc = "specifier" /\ Peek \in IntegerSpecs /\ va # <<>>
    /\ LET base == BaseOf(Peek)
           f == (IF Peek = "X" THEN flags \cup {"UPPERCASE"} ELSE flags)
                \ ((IF base = 10 THEN {"HASH"} ELSE {})
                   \cup (IF Signed(Peek) THEN {} ELSE {"PLUS", "SPACE"})
                   \cup (IF "PRECISION" \in flags THEN {"ZEROPAD"} ELSE {}))
           value == IF Signed(Peek) THEN AsSigned(Head(va).n, ValueBits)
                                    ELSE AsUnsigned(Head(va).n, ValueBits)
       IN  StartNumber(base, value < 0, (IF value > 0 THEN value ELSE 0 - value) % 2^ValueBits, f)
    /\ va' = Tail(va) /\ Skip(1)
    /\ UNCHANGED <<call, width, precision, output>>

\* sizeof(void*) * 2 digits.
Pointer ==
    /\ pc = "specifier" /\ Peek = "p" /\ va # <<>>
    /\ width' = IntBits \div 4
    /\ StartNumber(16, FALSE, AsUnsigned(Head(va).n, IntBits), flags \cup {"ZEROPAD", "UPPERCASE"})
    /\ va' = Tail(va) /\ Skip(1)
    /\ UNCHANGED <<call, precision, output>>

\* One round of the do loop.
Digit ==
    /\ pc = "digits"
    /\ LET d == (number.value % number.base) + 1
           left == number.value \div number.base
       IN  /\ buf' = Append(buf, IF "UPPERCASE" \in flags THEN UpperDigits[d] ELSE LowerDigits[d])
           /\ number' = [number EXCEPT !.value = left]
           /\ pc' = IF left # 0 /\ Len(buf') < PRINTF_NTOA_BUFFER_SIZE THEN pc ELSE "pad"
    /\ UNCHANGED <<call, format, va, directive, output>>

\* Zeros up to n characters, if the array has room for them.
ZerosTo(s, n) ==
    LET size == IF n < PRINTF_NTOA_BUFFER_SIZE THEN n ELSE PRINTF_NTOA_BUFFER_SIZE
    IN  s \o Repeat("0", size - Len(s))
Push(s, c) == IF Len(s) < PRINTF_NTOA_BUFFER_SIZE THEN Append(s, c) ELSE s

HasSign == number.negative \/ flags \cap {"PLUS", "SPACE"} # {}

\* Mutant: the zeros are not held back by the end of the array.
PadBeyond ==
    /\ pc = "pad" /\ pc' = "hash"
    /\ \/ "LEFT" \in flags /\ UNCHANGED <<width, buf>>
       \/ /\ "LEFT" \notin flags
          /\ width' = IF width > 0 /\ "ZEROPAD" \in flags /\ HasSign THEN width - 1 ELSE width
          /\ LET precise == ZerosTo(buf, precision)
             IN  buf' = IF "ZEROPAD" \in flags
                        THEN precise \o Repeat("0", width' - Len(precise)) ELSE precise
    /\ UNCHANGED <<call, format, va, flags, precision, number, output>>

\* Mutant: the zeros take the place of the sign as well.
PadSignless ==
    /\ pc = "pad" /\ pc' = "hash"
    /\ \/ "LEFT" \in flags /\ UNCHANGED buf
       \/ /\ "LEFT" \notin flags
          /\ LET precise == ZerosTo(buf, precision)
             IN  buf' = IF "ZEROPAD" \in flags THEN ZerosTo(precise, width) ELSE precise
    /\ UNCHANGED <<call, format, va, directive, number, output>>

Pad ==
    /\ pc = "pad" /\ pc' = "hash"
    /\ \/ "LEFT" \in flags /\ UNCHANGED <<width, buf>>
       \/ /\ "LEFT" \notin flags
          /\ width' = IF width > 0 /\ "ZEROPAD" \in flags /\ HasSign THEN width - 1 ELSE width
          /\ LET precise == ZerosTo(buf, precision)
             IN  buf' = IF "ZEROPAD" \in flags THEN ZerosTo(precise, width') ELSE precise
    /\ UNCHANGED <<call, format, va, flags, precision, number, output>>

\* The prefix takes the place of zeros, or of digits, when the number fills its
\* width; base 8 has no letter.
Hash ==
    /\ pc = "hash" /\ pc' = "sign"
    /\ LET n == Len(buf)
           fills == "PRECISION" \notin flags /\ n > 0 /\ n \in {precision, width}
           kept == IF ~fills THEN n ELSE IF number.base = 16 /\ n > 1 THEN n - 2 ELSE n - 1
           body == SubSeq(buf, 1, kept)
           letter == CASE number.base = 16 -> Push(body, IF "UPPERCASE" \in flags THEN "X" ELSE "x")
                       [] number.base = 2 -> Push(body, "b")
                       [] OTHER -> body
       IN  buf' = IF "HASH" \in flags THEN Push(letter, "0") ELSE buf
    /\ UNCHANGED <<call, format, va, directive, number, output>>

Sign ==
    /\ pc = "sign" /\ pc' = "out_rev"
    /\ buf' = CASE number.negative -> Push(buf, "-")
                [] ~number.negative /\ "PLUS" \in flags -> Push(buf, "+")
                [] ~number.negative /\ flags \cap {"PLUS", "SPACE"} = {"SPACE"} -> Push(buf, " ")
                [] OTHER -> buf
    /\ UNCHANGED <<call, format, va, directive, number, output>>

\* No spaces where zeros were wanted.
OutRev ==
    /\ pc = "out_rev" /\ pc' = "scan"
    /\ LET text == Reverse(buf)
       IN  Out(IF "ZEROPAD" \in flags /\ "LEFT" \notin flags THEN text ELSE InField(text))
    /\ UNCHANGED <<call, format, va, directive, conversion>>

-----------------------------------------------------------------------------
(***************************************************************************)
(* The other specifiers, and the end.                                      *)
(***************************************************************************)
\* %c and %s; the precision cuts a string only.
String ==
    /\ pc = "specifier" /\ pc' = "scan" /\ Peek \in {"c", "s"} /\ va # <<>>
    /\ LET p == Head(va).s
           cut == Peek = "s" /\ "PRECISION" \in flags /\ precision < Len(p)
       IN  Out(InField(IF cut THEN SubSeq(p, 1, precision) ELSE p))
    /\ va' = Tail(va) /\ Skip(1)
    /\ UNCHANGED <<call, directive, conversion>>

\* `%' and everything unknown stands for itself, the NUL of the format as well;
\* after that the parser reads what lies behind the format.
Other ==
    /\ pc = "specifier" /\ Peek \notin IntegerSpecs \cup {"p", "c", "s"}
    /\ Out(<<Peek>>) /\ Skip(1)
    /\ pc' = IF format = <<>> THEN "past" ELSE "scan"
    /\ UNCHANGED <<call, va, directive, conversion>>

\* maxlen - 1U
BeforeEnd == IF maxlen = 0 THEN SizeMax ELSE maxlen - 1

\* The NUL goes behind the text or into the last byte of the buffer.
Terminate ==
    /\ pc = "scan" /\ format = <<>> /\ pc' = "done"
    /\ buffer' = IF out = "_out_buffer"
                 THEN out_buffer(<<NUL>>, IF idx < maxlen THEN idx ELSE BeforeEnd)
                 ELSE buffer
    /\ UNCHANGED <<call, format, va, directive, conversion, idx, sent>>

Parse == Literal \/ Percent \/ Flags \/ Width \/ Precision \/ PrecisionValue \/ Length
Convert == Integer \/ Pointer \/ Digit \/ Pad \/ Hash \/ Sign \/ OutRev \/ String \/ Other

Next == Parse \/ Convert \/ Terminate

Spec == Init /\ [][Next]_vars

\* The caller waits for the call to return.
FairSpec == Spec /\ WF_vars(Next)

-----------------------------------------------------------------------------
(***************************************************************************)
(* Properties.                                                             *)
(***************************************************************************)
FlagNames == {"ZEROPAD", "LEFT", "PLUS", "SPACE", "HASH", "UPPERCASE", "CHAR", "SHORT",
              "LONG", "LONG_LONG", "PRECISION"}
Stages == {"scan", "flags", "width", "width_digits", "precision", "precision_value",
           "precision_digits", "length", "specifier", "digits", "pad", "hash", "sign",
           "out_rev", "past", "done"}

\* Type invariant.  The array of _ntoa_long is never overrun, and digits, zeros,
\* prefix and sign, which compete for it, are each kept out when it is full.
TypeOK ==
    /\ pc \in Stages
    /\ format \in Seq(Character) /\ va \in Seq(Argument)
    /\ flags \subseteq FlagNames
    /\ width \in 0..SizeMax /\ precision \in 0..SizeMax
    /\ number \in [base : {2, 8, 10, 16}, negative : BOOLEAN, value : Nat]
    /\ buf \in Seq(Character) /\ Len(buf) <= PRINTF_NTOA_BUFFER_SIZE
    /\ pc = "digits" => Len(buf) < PRINTF_NTOA_BUFFER_SIZE
    /\ idx \in Nat

\* snprintf never touches a byte at or behind `count'; in front of it the text
\* grows without a gap, and what is there at the end is a string: the text or as
\* much of it as there is room for, then a NUL (_out_buffer, the termination).
Shorter(m, n) == IF m < n THEN m ELSE n
CountRespected ==
    out = "_out_buffer" =>
        /\ pc # "done" => DOMAIN buffer = 0..(Shorter(idx, maxlen) - 1)
        /\ pc = "done" /\ maxlen > 0 => LET end == Shorter(idx, maxlen - 1)
                                        IN  DOMAIN buffer = 0..end /\ buffer[end] = NUL
        /\ pc = "done" /\ maxlen = 0 => DOMAIN buffer = {}

\* What a directive may not ask of this code: more characters than the array
\* holds; a precision beyond the digits, left-aligned, or any for a zero there; a
\* prefix where the digits leave the width no room for it; an octal prefix with
\* zeros of the precision or for a zero without digits; a precision below zero; a
\* NUL.
Supported(item) ==
    \/ item.kind = "text"
    \/ item.kind = "directive" /\ item.spec \in {"%", "p"} /\ item.flags = <<>>
         /\ item.width.form = "none" /\ item.precision.form = "none"
    \/ item.kind = "directive" /\ item.spec \in {"c", "s"}
         /\ item.precision.n >= 0 /\ NUL \notin Range(item.arg.s)
    \/ /\ item.kind = "directive" /\ item.spec \in IntegerSpecs
       /\ item.precision.n >= 0
       /\ LET n == Len(NumeralOf(item))
              w == FieldWidth(item)
              precise == item.precision.form # "none"
              prefixed == Has(item, "#") /\ item.spec \in {"x", "X", "o", "b"}
              nonzero == Magnitude(item) # 0
          IN  /\ Len(NumberText(item)) <= PRINTF_NTOA_BUFFER_SIZE
              /\ LeftAligned(item) => item.precision.n <= (IF nonzero THEN n ELSE 0)
              /\ prefixed /\ nonzero /\ ~precise =>
                    /\ w # n
                    /\ ZeroFilled(item) => CASE item.spec \in {"x", "X"} -> w # n + 1
                                             [] item.spec = "b" -> w <= n + 1
                                             [] OTHER -> TRUE
              /\ prefixed /\ item.spec = "o" /\ precise => nonzero /\ item.precision.n <= n

\* The text is what the format and the arguments ask for, with every flag, width,
\* precision and length in any order and every value, and the count returned is its
\* length; all arguments are used up (_vsnprintf, _ntoa_format, _out_rev).
TextAsAsked ==
    pc = "done" /\ (\A k \in 1..Len(call.items) : Supported(call.items[k])) =>
        LET text == Promise(call.items)
        IN  /\ idx = Len(text) /\ va = <<>>
            /\ out \in {"_out_char", "_out_fct"} => sent = text
            /\ out = "_out_buffer" => \A k \in DOMAIN buffer :
                   k # Shorter(idx, maxlen - 1) => buffer[k] = text[k + 1]

\* Only a format that ends in the middle of a directive is read beyond its end.
ReadsInsideFormat ==
    pc = "past" => call.items[Len(call.items)].kind = "cut"

\* Every call returns, or has left its format.
Termination == <>(pc \in {"done", "past"})
=============================================================================
