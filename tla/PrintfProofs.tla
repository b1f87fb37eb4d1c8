----------------------------- MODULE PrintfProofs -----------------------------
(***************************************************************************)
(* Theorems about printf that hold for all calls, whatever their formats   *)
(* and arguments, and for every size of the array in _ntoa_long.           *)
(***************************************************************************)
EXTENDS Printf, SequenceLemmas

-----------------------------------------------------------------------------
(***************************************************************************)
(* Numbers and characters.                                                 *)
(***************************************************************************)
LEMMA Remainder == ASSUME NEW a \in Int, NEW n \in Nat \ {0} PROVE a % n \in 0..(n - 1)
  OBVIOUS

LEMMA Sizes == 2^IntBits \in Nat \ {0} /\ SizeMax \in Nat
  BY BitsAssumption DEF SizeMax

LEMMA Glyphs ==
    /\ NUL \in Character /\ "0" \in Character /\ "-" \in Character /\ "+" \in Character
    /\ " " \in Character /\ "b" \in Character /\ "x" \in Character /\ "X" \in Character
<1>1. \A c \in {NUL, "0", "-", "+", " ", "b", "x", "X"} : c \in Character
  BY CharacterAssumption
<1> QED
  BY <1>1

LEMMA CharacterTypes ==
    /\ \A c \in DOMAIN FlagOf : FlagOf[c] \in FlagNames
    /\ \A c \in DOMAIN DigitOf : DigitOf[c] \in 0..9
    /\ \A d \in 1..16 : UpperDigits[d] \in Character /\ LowerDigits[d] \in Character
<1>1. \A c \in DOMAIN FlagOf : FlagOf[c] \in FlagNames
  BY DEF FlagOf, FlagNames
<1>2. ASSUME NEW c \in DOMAIN DigitOf PROVE DigitOf[c] \in 0..9
  <2>1. \E d \in 0..9 : LowerDigits[d + 1] = c
    BY DEF DigitOf
  <2>2. DigitOf[c] = CHOOSE d \in 0..9 : LowerDigits[d + 1] = c
    BY DEF DigitOf
  <2> QED
    BY <2>1, <2>2
<1>3. \A d \in 1..16 : UpperDigits[d] \in Character /\ LowerDigits[d] \in Character
  BY CharacterAssumption
<1> QED
  BY <1>1, <1>2, <1>3

LEMMA PeekType == format \in Seq(Character) => Peek \in Character
  BY Glyphs, HeadTailProperties DEF Peek

\* Skipping characters leaves a format, taking an argument leaves arguments.
LEMMA SkipType ==
    ASSUME format \in Seq(Character), NEW k \in Nat, Skip(k) PROVE format' \in Seq(Character)
  BY SubSeqProperties DEF Skip

LEMMA TakeType ==
    ASSUME va \in Seq(Argument), va # <<>>
    PROVE  Head(va).n \in Int /\ Head(va).s \in Seq(Character) /\ Tail(va) \in Seq(Argument)
<1>1. Head(va) \in Argument /\ Tail(va) \in Seq(Argument)
  BY HeadTailProperties
<1> QED
  BY <1>1 DEF Argument

LEMMA AtoiType ==
    ASSUME NEW i \in 0..SizeMax, Peek \in DOMAIN DigitOf PROVE Atoi(i) \in 0..SizeMax
<1>1. 10 * i + DigitOf[Peek] \in Int
  BY CharacterTypes, Sizes
<1> QED
  BY <1>1, Remainder, Sizes DEF Atoi, SizeMax

-----------------------------------------------------------------------------
(***************************************************************************)
(* Texts.                                                                  *)
(***************************************************************************)
LEMMA RepeatType ==
    ASSUME NEW c \in Character, NEW n \in Int
    PROVE  Repeat(c, n) \in Seq(Character) /\ Len(Repeat(c, n)) = IF n > 0 THEN n ELSE 0
  BY DEF Repeat

LEMMA InFieldType ==
    ASSUME NEW s \in Seq(Character), width \in Nat PROVE InField(s) \in Seq(Character)
<1>1. width - Len(s) \in Int
  BY LenProperties
<1>2. Spaces(width - Len(s)) \in Seq(Character)
  BY <1>1, Glyphs, RepeatType DEF Spaces
<1> QED
  BY <1>2, ConcatProperties DEF InField

LEMMA ReverseType == ASSUME NEW s \in Seq(Character) PROVE Reverse(s) \in Seq(Character)
  BY DEF Reverse

\* Zeros and single characters never leave the array.
LEMMA PushType ==
    ASSUME NEW s \in Seq(Character), NEW c \in Character, Len(s) <= PRINTF_NTOA_BUFFER_SIZE
    PROVE  Push(s, c) \in Seq(Character) /\ Len(Push(s, c)) <= PRINTF_NTOA_BUFFER_SIZE
  BY SizeAssumption, AppendProperties, LenProperties DEF Push

LEMMA ZerosToType ==
    ASSUME NEW s \in Seq(Character), NEW n \in Nat, Len(s) <= PRINTF_NTOA_BUFFER_SIZE
    PROVE  ZerosTo(s, n) \in Seq(Character) /\ Len(ZerosTo(s, n)) <= PRINTF_NTOA_BUFFER_SIZE
<1> DEFINE size == IF n < PRINTF_NTOA_BUFFER_SIZE THEN n ELSE PRINTF_NTOA_BUFFER_SIZE
           zeros == Repeat("0", size - Len(s))
<1>1. /\ size \in Nat /\ size <= PRINTF_NTOA_BUFFER_SIZE /\ Len(s) \in Nat
      /\ size - Len(s) \in Int
  BY SizeAssumption, LenProperties
<1>2. /\ zeros \in Seq(Character)
      /\ Len(zeros) = IF size - Len(s) > 0 THEN size - Len(s) ELSE 0
  BY <1>1, Glyphs, RepeatType
<1>3. ZerosTo(s, n) = s \o zeros
  BY DEF ZerosTo
<1>4. ZerosTo(s, n) \in Seq(Character) /\ Len(ZerosTo(s, n)) = Len(s) + Len(zeros)
  BY <1>2, <1>3, ConcatProperties
<1> QED
  BY <1>1, <1>2, <1>4

-----------------------------------------------------------------------------
(***************************************************************************)
(* Type correctness.                                                       *)
(***************************************************************************)
CallOK == call \in Calls

LEMMA InitType == Init => CallOK /\ TypeOK
<1> SUFFICES ASSUME Init PROVE CallOK /\ TypeOK
  OBVIOUS
<1>1. call \in Calls /\ format \in Seq(Character) /\ va \in Seq(Argument)
  BY CallAssumption DEF Init
<1>2. buf \in Seq(Character) /\ Len(buf) = 0
  BY DEF Init
<1> QED
  BY <1>1, <1>2, SizeAssumption, Sizes DEF Init, CallOK, TypeOK, Stages, FlagNames

LEMMA ValueBitsKind == ValueBits \in {IntBits, ShortBits, CharBits, LongLongBits}
  BY DEF ValueBits

LEMMA ValueTypes ==
    ASSUME NEW v \in Int, NEW b \in {IntBits, ShortBits, CharBits, LongLongBits}
    PROVE  /\ AsSigned(v, b) \in Int /\ AsUnsigned(v, b) \in Nat
           /\ \A m \in Int : m % 2^b \in Nat
<1> DEFINE N == 2^b
           H == 2^(b - 1)
<1>1. N \in Nat \ {0} /\ H \in Nat
  BY BitsAssumption
<1> HIDE DEF N, H
<1>2. \A m \in Int : m % N \in Nat
  BY <1>1, Remainder
<1>3. (v + H) % N \in Nat
  BY <1>1, <1>2
<1>4. ((v + H) % N) - H \in Int
  BY <1>1, <1>3
<1>5. AsSigned(v, b) = ((v + H) % N) - H /\ AsUnsigned(v, b) = v % N
  BY DEF AsSigned, AsUnsigned, N, H
<1> QED
  BY <1>2, <1>4, <1>5 DEF N

\* A conversion starts with an empty array.
LEMMA StartType ==
    ASSUME NEW base \in {2, 8, 10, 16}, NEW negative \in BOOLEAN, NEW value \in Nat,
           NEW f \in SUBSET FlagNames, StartNumber(base, negative, value, f)
    PROVE  /\ number' \in [base : {2, 8, 10, 16}, negative : BOOLEAN, value : Nat]
           /\ buf' \in Seq(Character) /\ Len(buf') = 0
           /\ flags' \subseteq FlagNames /\ pc' \in {"pad", "digits"}
<1>1. buf' = <<>>
  BY DEF StartNumber
<1>2. flags' \subseteq FlagNames
  BY DEF StartNumber
<1> QED
  BY <1>1, <1>2 DEF StartNumber

\* The steps that print, print a sequence of characters.
Prints == Literal \/ OutRev \/ String \/ Other

LEMMA Printed == TypeOK /\ Prints => \E s \in Seq(Character) : Out(s)
<1> SUFFICES ASSUME TypeOK, Prints PROVE \E s \in Seq(Character) : Out(s)
  OBVIOUS
<1> width \in Nat /\ precision \in Nat
  BY Sizes DEF TypeOK
<1>1. CASE Literal \/ Other
  <2>1. Out(<<Peek>>)
    BY <1>1 DEF Literal, Other
  <2>2. Peek \in Character
    BY PeekType DEF TypeOK
  <2>3. <<Peek>> \in Seq(Character)
    BY <2>2
  <2> QED
    BY <2>1, <2>3
<1>2. CASE OutRev
  <2>1. Reverse(buf) \in Seq(Character)
    BY ReverseType DEF TypeOK
  <2>2. InField(Reverse(buf)) \in Seq(Character)
    BY <2>1, InFieldType
  <2>3. Out(Reverse(buf)) \/ Out(InField(Reverse(buf)))
    BY <1>2 DEF OutRev
  <2> QED
    BY <2>1, <2>2, <2>3
<1>3. CASE String
  <2> DEFINE p == Head(va).s
             t == SubSeq(p, 1, precision)
             cut == Peek = "s" /\ "PRECISION" \in flags /\ precision < Len(p)
  <2>1. p \in Seq(Character)
    BY <1>3, TakeType DEF String, TypeOK
  <2>2. cut => t \in Seq(Character)
    BY <2>1, SubSeqProperties, LenProperties
  <2>3. Out(InField(IF cut THEN t ELSE p))
    BY <1>3 DEF String
  <2> HIDE DEF p, t, cut
  <2>4. (IF cut THEN t ELSE p) \in Seq(Character)
    BY <2>1, <2>2
  <2> QED
    BY <2>3, <2>4, InFieldType
<1> QED
  BY <1>1, <1>2, <1>3 DEF Prints

LEMMA IdxType == TypeOK /\ Prints => idx' \in Nat
  BY Printed, LenProperties DEF Out, TypeOK

LEMMA ParseType == TypeOK /\ Parse => TypeOK'
<1> SUFFICES ASSUME TypeOK, Parse PROVE TypeOK'
  OBVIOUS
<1> USE DEF TypeOK, directive, conversion, output
<1>1. CASE Literal
  BY <1>1, IdxType, SkipType DEF Literal, Prints
<1>2. CASE Percent
  BY <1>2, SkipType, Sizes DEF Percent, Stages
<1>3. CASE Flags
  <2>1. flags' \subseteq FlagNames
    BY <1>3, CharacterTypes DEF Flags
  <2>2. format' \in Seq(Character)
    BY <1>3, SkipType DEF Flags
  <2> QED
    BY <1>3, <2>1, <2>2 DEF Flags, Stages
<1>4. CASE Width
  <2>1. format' \in Seq(Character)
    BY <1>4, SkipType DEF Width
  <2>2. va' \in Seq(Argument)
    BY <1>4, TakeType DEF Width
  <2>3. width' \in 0..SizeMax /\ flags' \subseteq FlagNames
    <3>1. CASE Peek \in DOMAIN DigitOf /\ width' = Atoi(width) /\ UNCHANGED <<flags, va>>
      BY <3>1, AtoiType
    <3>2. CASE /\ va # <<>>
               /\ LET w == Head(va).n
                  IN  IF w < 0 THEN flags' = flags \cup {"LEFT"} /\ width' = (-w) % 2^IntBits
                               ELSE flags' = flags /\ width' = w % 2^IntBits
      <4>1. Head(va).n \in Int /\ -Head(va).n \in Int
        BY <3>2, TakeType
      <4>2. \A m \in Int : m % 2^IntBits \in 0..SizeMax
        BY Remainder, Sizes DEF SizeMax
      <4> QED
        BY <3>2, <4>1, <4>2 DEF FlagNames
    <3>3. CASE UNCHANGED <<flags, width>>
      BY <3>3
    <3> QED
      BY <1>4, <3>1, <3>2, <3>3 DEF Width
  <2>4. pc' \in {"width_digits", "precision"}
    BY <1>4 DEF Width
  <2> QED
    BY <1>4, <2>1, <2>2, <2>3, <2>4 DEF Width, Stages
<1>5. CASE Precision
  <2>1. format' \in Seq(Character)
    BY <1>5, SkipType DEF Precision
  <2> QED
    BY <1>5, <2>1 DEF Precision, Stages, FlagNames
<1>6. CASE PrecisionValue
  <2>1. format' \in Seq(Character)
    BY <1>6, SkipType DEF PrecisionValue
  <2>2. va' \in Seq(Argument)
    BY <1>6, TakeType DEF PrecisionValue
  <2>3. precision' \in 0..SizeMax
    <3>1. CASE Peek \in DOMAIN DigitOf /\ precision' = Atoi(precision)
      BY <3>1, AtoiType
    <3>2. CASE va # <<>> /\ precision' = IF Head(va).n > 0 THEN Head(va).n % 2^IntBits ELSE 0
      <4>1. Head(va).n \in Int
        BY <3>2, TakeType
      <4>2. Head(va).n % 2^IntBits \in 0..SizeMax
        BY <4>1, Remainder, Sizes DEF SizeMax
      <4> QED
        BY <3>2, <4>2, Sizes
    <3>3. CASE UNCHANGED precision
      BY <3>3
    <3> QED
      BY <1>6, <3>1, <3>2, <3>3 DEF PrecisionValue
  <2>4. pc' \in {"precision_digits", "length"}
    BY <1>6 DEF PrecisionValue
  <2> QED
    BY <1>6, <2>1, <2>2, <2>3, <2>4 DEF PrecisionValue, Stages
<1>7. CASE Length
  <2>1. format' \in Seq(Character)
    BY <1>7, SkipType DEF Length
  <2>2. flags' \subseteq FlagNames
    BY <1>7 DEF Length, FlagNames
  <2> QED
    BY <1>7, <2>1, <2>2 DEF Length, Stages
<1> QED
  BY <1>1, <1>2, <1>3, <1>4, <1>5, <1>6, <1>7 DEF Parse

LEMMA BaseType == ASSUME NEW c PROVE BaseOf(c) \in {2, 8, 10, 16}
  BY DEF BaseOf

LEMMA DivisionType ==
    ASSUME NEW v \in Nat, NEW b \in {2, 8, 10, 16} PROVE (v % b) + 1 \in 1..16 /\ v \div b \in Nat
<1>1. b \in 1..16
  OBVIOUS
<1>2. v % b \in 0..(b - 1)
  BY <1>1, Remainder
<1>3. v \div b \in Nat
  BY <1>1
<1> QED
  BY <1>1, <1>2, <1>3

LEMMA ConvertType == TypeOK /\ Convert => TypeOK'
<1> SUFFICES ASSUME TypeOK, Convert PROVE TypeOK'
  OBVIOUS
<1> USE DEF TypeOK, directive, conversion, output
<1>1. CASE Integer
  <2>1. Head(va).n \in Int /\ va' \in Seq(Argument) /\ format' \in Seq(Character)
    BY <1>1, TakeType, SkipType DEF Integer
  <2> DEFINE base == BaseOf(Peek)
             f == (IF Peek = "X" THEN flags \cup {"UPPERCASE"} ELSE flags)
                  \ ((IF base = 10 THEN {"HASH"} ELSE {})
                     \cup (IF Signed(Peek) THEN {} ELSE {"PLUS", "SPACE"})
                     \cup (IF "PRECISION" \in flags THEN {"ZEROPAD"} ELSE {}))
             value == IF Signed(Peek) THEN AsSigned(Head(va).n, ValueBits)
                                      ELSE AsUnsigned(Head(va).n, ValueBits)
             magnitude == (IF value > 0 THEN value ELSE 0 - value) % 2^ValueBits
  <2>2. value \in Int
    <3>1. AsSigned(Head(va).n, ValueBits) \in Int /\ AsUnsigned(Head(va).n, ValueBits) \in Nat
      BY <2>1, ValueBitsKind, ValueTypes
    <3> QED
      BY <3>1
  <2>3. magnitude \in Nat
    <3>1. (IF value > 0 THEN value ELSE 0 - value) \in Int
      BY <2>2
    <3> HIDE DEF value
    <3> QED
      BY <2>1, <3>1, ValueBitsKind, ValueTypes
  <2>4. f \in SUBSET FlagNames /\ (value < 0) \in BOOLEAN
    BY <2>2 DEF FlagNames
  <2>5. StartNumber(base, value < 0, magnitude, f)
    BY <1>1 DEF Integer
  <2> HIDE DEF base, f, value, magnitude
  <2>6. base \in {2, 8, 10, 16}
    BY BaseType DEF base
  <2>7. /\ number' \in [base : {2, 8, 10, 16}, negative : BOOLEAN, value : Nat]
        /\ buf' \in Seq(Character) /\ Len(buf') = 0
        /\ flags' \subseteq FlagNames /\ pc' \in {"pad", "digits"}
    BY <2>3, <2>4, <2>5, <2>6, StartType
  <2> QED
    BY <1>1, <2>1, <2>7, SizeAssumption DEF Integer, Stages
<1>2. CASE Pointer
  <2>1. Head(va).n \in Int /\ va' \in Seq(Argument) /\ format' \in Seq(Character)
    BY <1>2, TakeType, SkipType DEF Pointer
  <2> DEFINE value == AsUnsigned(Head(va).n, IntBits)
             f == flags \cup {"ZEROPAD", "UPPERCASE"}
  <2>2. value \in Nat
    BY <2>1, ValueTypes
  <2>3. f \in SUBSET FlagNames
    BY DEF FlagNames
  <2>4. StartNumber(16, FALSE, value, f)
    BY <1>2 DEF Pointer
  <2> HIDE DEF value, f
  <2>5. /\ number' \in [base : {2, 8, 10, 16}, negative : BOOLEAN, value : Nat]
        /\ buf' \in Seq(Character) /\ Len(buf') = 0
        /\ flags' \subseteq FlagNames /\ pc' \in {"pad", "digits"}
    BY <2>2, <2>3, <2>4, StartType
  <2>6. width' \in 0..SizeMax
    BY <1>2, BitsAssumption DEF Pointer, SizeMax
  <2> QED
    BY <1>2, <2>1, <2>5, <2>6, SizeAssumption DEF Pointer, Stages
<1>3. CASE Digit
  <2> DEFINE d == (number.value % number.base) + 1
             left == number.value \div number.base
  <2>1. d \in 1..16 /\ left \in Nat
    <3>1. number.value \in Nat /\ number.base \in {2, 8, 10, 16}
      OBVIOUS
    <3> QED
      BY <3>1, DivisionType
  <2>2. UpperDigits[d] \in Character /\ LowerDigits[d] \in Character
    BY <2>1, CharacterTypes
  <2>3. number' = [number EXCEPT !.value = left]
    BY <1>3 DEF Digit
  <2>4. PICK c \in Character : buf' = Append(buf, c)
    BY <1>3, <2>2 DEF Digit
  <2>5. Len(buf) < PRINTF_NTOA_BUFFER_SIZE
    BY <1>3 DEF Digit
  <2>6. pc' = "pad" \/ (pc' = "digits" /\ Len(buf') < PRINTF_NTOA_BUFFER_SIZE)
    <3>1. /\ pc = "digits"
          /\ pc' = IF left # 0 /\ Len(buf') < PRINTF_NTOA_BUFFER_SIZE THEN pc ELSE "pad"
      BY <1>3 DEF Digit
    <3> HIDE DEF left
    <3> QED
      BY <3>1
  <2> HIDE DEF d, left
  <2>7. buf' \in Seq(Character) /\ Len(buf') = Len(buf) + 1
    BY <2>4, AppendProperties
  <2>8. Len(buf') <= PRINTF_NTOA_BUFFER_SIZE
    BY <2>5, <2>7, SizeAssumption, LenProperties
  <2>9. number' \in [base : {2, 8, 10, 16}, negative : BOOLEAN, value : Nat]
    BY <2>1, <2>3
  <2> QED
    BY <1>3, <2>6, <2>7, <2>8, <2>9 DEF Digit, Stages
<1>4. CASE Pad
  <2>1. width' \in 0..SizeMax
    BY <1>4, Sizes DEF Pad
  <2>2. buf' \in Seq(Character) /\ Len(buf') <= PRINTF_NTOA_BUFFER_SIZE
    <3> DEFINE precise == ZerosTo(buf, precision)
    <3>1. precise \in Seq(Character) /\ Len(precise) <= PRINTF_NTOA_BUFFER_SIZE
      BY ZerosToType, Sizes
    <3>2. buf' \in {buf, precise, ZerosTo(precise, width')}
      BY <1>4 DEF Pad
    <3> HIDE DEF precise
    <3>3. /\ ZerosTo(precise, width') \in Seq(Character)
          /\ Len(ZerosTo(precise, width')) <= PRINTF_NTOA_BUFFER_SIZE
      BY <2>1, <3>1, ZerosToType, Sizes
    <3> QED
      BY <3>1, <3>2, <3>3
  <2> QED
    BY <1>4, <2>1, <2>2 DEF Pad, Stages
<1>5. CASE Hash
  <2>1. buf' \in Seq(Character) /\ Len(buf') <= PRINTF_NTOA_BUFFER_SIZE
    <3> DEFINE n == Len(buf)
               fills == "PRECISION" \notin flags /\ n > 0 /\ n \in {precision, width}
               kept == IF ~fills THEN n ELSE IF number.base = 16 /\ n > 1 THEN n - 2 ELSE n - 1
               body == SubSeq(buf, 1, kept)
               letter == CASE number.base = 16 -> Push(body, IF "UPPERCASE" \in flags THEN "X" ELSE "x")
                           [] number.base = 2 -> Push(body, "b")
                           [] OTHER -> body
    <3>1. n \in Nat /\ kept \in 0..n
      BY LenProperties
    <3>2. body \in Seq(Character) /\ Len(body) <= PRINTF_NTOA_BUFFER_SIZE
      <4>1. body \in Seq(Character) /\ Len(body) = kept
        BY <3>1, SubSeqProperties
      <4> QED
        BY <3>1, <4>1, SizeAssumption
    <3>3. buf' = IF "HASH" \in flags THEN Push(letter, "0") ELSE buf
      BY <1>5 DEF Hash
    <3> HIDE DEF body
    <3>4. letter \in {Push(body, "X"), Push(body, "x"), Push(body, "b"), body}
      OBVIOUS
    <3>5. letter \in Seq(Character) /\ Len(letter) <= PRINTF_NTOA_BUFFER_SIZE
      BY <3>2, <3>4, Glyphs, PushType
    <3> HIDE DEF letter
    <3>6. Push(letter, "0") \in Seq(Character) /\ Len(Push(letter, "0")) <= PRINTF_NTOA_BUFFER_SIZE
      BY <3>5, Glyphs, PushType
    <3> QED
      BY <3>3, <3>6
  <2> QED
    BY <1>5, <2>1 DEF Hash, Stages
<1>6. CASE Sign
  <2>1. buf' \in {Push(buf, "-"), Push(buf, "+"), Push(buf, " "), buf}
    BY <1>6 DEF Sign
  <2>2. buf' \in Seq(Character) /\ Len(buf') <= PRINTF_NTOA_BUFFER_SIZE
    BY <2>1, Glyphs, PushType
  <2> QED
    BY <1>6, <2>2 DEF Sign, Stages
<1>7. CASE OutRev
  BY <1>7, IdxType DEF OutRev, Prints, Stages
<1>8. CASE String
  <2>1. va' \in Seq(Argument) /\ format' \in Seq(Character)
    BY <1>8, TakeType, SkipType DEF String
  <2> QED
    BY <1>8, <2>1, IdxType DEF String, Prints, Stages
<1>9. CASE Other
  BY <1>9, IdxType, SkipType DEF Other, Prints, Stages
<1> QED
  BY <1>1, <1>2, <1>3, <1>4, <1>5, <1>6, <1>7, <1>8, <1>9 DEF Convert

LEMMA NextType == TypeOK /\ [Next]_vars => TypeOK'
<1> SUFFICES ASSUME TypeOK, [Next]_vars PROVE TypeOK'
  OBVIOUS
<1>1. CASE Parse
  BY <1>1, ParseType
<1>2. CASE Convert
  BY <1>2, ConvertType
<1>3. CASE Terminate
  BY <1>3 DEF Terminate, TypeOK, Stages, directive, conversion
<1>4. CASE UNCHANGED vars
  BY <1>4 DEF vars, directive, conversion, output, TypeOK
<1> QED
  BY <1>1, <1>2, <1>3, <1>4 DEF Next

\* No call, whatever its format and arguments, overruns the array of _ntoa_long
\* (_ntoa_long, _ntoa_format).
THEOREM TypeCorrect == Spec => []TypeOK
<1>1. Init => TypeOK
  BY InitType
<1>2. TypeOK /\ [Next]_vars => TypeOK'
  BY NextType
<1> QED
  BY <1>1, <1>2, PTL DEF Spec

-----------------------------------------------------------------------------
(***************************************************************************)
(* The caller's buffer.                                                    *)
(***************************************************************************)
LEMMA CallKept == [Next]_vars => call' = call
  BY DEF Next, Parse, Convert, vars, Literal, Percent, Flags, Width, Precision, PrecisionValue,
         Length, Integer, Pointer, Digit, Pad, Hash, Sign, OutRev, String, Other, Terminate

LEMMA LimitType == CallOK => maxlen \in 0..SizeMax
  BY CallAssumption, Sizes DEF CallOK, maxlen, SizeMax

\* Printing extends what has been written without a gap, up to maxlen.
LEMMA PrintedBuffer ==
    ASSUME TypeOK, CallOK, CallOK', call' = call, NEW s \in Seq(Character), Out(s),
           out = "_out_buffer", DOMAIN buffer = 0..(Shorter(idx, maxlen) - 1)
    PROVE  DOMAIN buffer' = 0..(Shorter(idx', maxlen') - 1)
<1>1. maxlen \in Nat /\ maxlen' = maxlen /\ Len(s) \in Nat /\ idx \in Nat
  BY LimitType, Sizes, LenProperties DEF maxlen, TypeOK
<1>2. buffer' = out_buffer(s, idx) /\ idx' = idx + Len(s)
  BY DEF Out
<1>3. DOMAIN buffer' = DOMAIN buffer \cup {k \in idx..(idx + Len(s) - 1) : k < maxlen}
  BY <1>2 DEF out_buffer
<1> QED
  BY <1>1, <1>2, <1>3 DEF Shorter

LEMMA TerminatedBuffer ==
    ASSUME TypeOK, CallOK, Terminate, CountRespected PROVE CountRespected'
<1> SUFFICES ASSUME out = "_out_buffer" PROVE CountRespected'
  BY DEF Terminate, CountRespected, out
<1> DEFINE at == IF idx < maxlen THEN idx ELSE BeforeEnd
           hit == {k \in at..(at + Len(<<NUL>>) - 1) : k < maxlen}
<1>1. maxlen \in 0..SizeMax /\ idx \in Nat
  BY LimitType DEF TypeOK
<1>2. idx' = idx /\ call' = call /\ pc' = "done" /\ pc = "scan"
  BY DEF Terminate
<1>3. maxlen' = maxlen /\ out' = out
  BY <1>2 DEF maxlen, out
<1>4. DOMAIN buffer = 0..(Shorter(idx, maxlen) - 1)
  BY <1>2 DEF CountRespected
<1>5. buffer' = [k \in DOMAIN buffer \cup hit |-> IF k \in hit THEN <<NUL>>[k - at + 1] ELSE buffer[k]]
  BY DEF Terminate, out_buffer
<1>6. CASE maxlen = 0
  <2>1. hit = {} /\ DOMAIN buffer = {}
    <3>1. at = SizeMax /\ at \in Nat
      BY <1>1, <1>6, Sizes DEF BeforeEnd
    <3> HIDE DEF at
    <3>2. hit = {}
      BY <1>6, <3>1
    <3> QED
      BY <1>1, <1>4, <1>6, <3>2 DEF Shorter
  <2>2. DOMAIN buffer' = {}
    BY <1>5, <2>1
  <2> QED
    BY <1>2, <1>3, <1>6, <2>2 DEF CountRespected
<1>7. CASE maxlen > 0
  <2>1. at = Shorter(idx, maxlen - 1) /\ at \in Nat /\ at < maxlen
    BY <1>1, <1>7, Sizes DEF Shorter, BeforeEnd
  <2> HIDE DEF at
  <2>2. hit = {at}
    BY <1>1, <2>1, Sizes
  <2>3. DOMAIN buffer \cup hit = 0..at
    BY <1>1, <1>4, <1>7, <2>1, <2>2, Sizes DEF Shorter
  <2>4. DOMAIN buffer' = 0..at /\ buffer'[at] = NUL
    BY <1>5, <2>1, <2>2, <2>3
  <2>5. Shorter(idx, maxlen - 1)' = at
    BY <1>2, <1>3, <2>1 DEF Shorter
  <2> QED
    BY <1>1, <1>2, <1>3, <1>7, <2>4, <2>5, Sizes DEF CountRespected
<1> QED
  BY <1>1, <1>6, <1>7, Sizes

LEMMA NextBuffer ==
    TypeOK /\ CallOK /\ CountRespected /\ [Next]_vars => CallOK' /\ CountRespected'
<1> SUFFICES ASSUME TypeOK, CallOK, CountRespected, [Next]_vars PROVE CallOK' /\ CountRespected'
  OBVIOUS
<1>1. call' = call
  BY CallKept
<1>2. CallOK' /\ out' = out /\ maxlen' = maxlen
  BY <1>1 DEF CallOK, out, maxlen
<1>3. CASE Prints
  <2>1. pc # "done" /\ pc' # "done"
    BY <1>3 DEF Prints, Literal, OutRev, String, Other
  <2>2. PICK s \in Seq(Character) : Out(s)
    BY <1>3, Printed
  <2>3. out = "_out_buffer" => DOMAIN buffer' = 0..(Shorter(idx', maxlen') - 1)
    BY <1>1, <1>2, <2>1, <2>2, PrintedBuffer DEF CountRespected
  <2> QED
    BY <1>2, <2>1, <2>3 DEF CountRespected
<1>4. CASE Terminate
  BY <1>2, <1>4, TerminatedBuffer
<1>5. CASE (Parse \/ Convert) /\ ~Prints
  <2>1. pc # "done" /\ pc' # "done" /\ UNCHANGED <<idx, buffer>>
    BY <1>5 DEF Parse, Convert, Prints, output, Percent, Flags, Width, Precision, PrecisionValue,
                Length, Integer, Pointer, StartNumber, Digit, Pad, Hash, Sign
  <2> QED
    BY <1>2, <2>1 DEF CountRespected
<1>6. CASE UNCHANGED vars
  BY <1>2, <1>6 DEF vars, output, CountRespected
<1> QED
  BY <1>3, <1>4, <1>5, <1>6 DEF Next

\* snprintf leaves everything from `count' on alone, and what it leaves in front of
\* it is a string without gaps, for every format and all arguments (_out_buffer,
\* the termination at the end of _vsnprintf).
THEOREM CountsAreRespected == Spec => []CountRespected
<1>1. Init => CallOK /\ CountRespected
  <2> SUFFICES ASSUME Init PROVE CallOK /\ CountRespected
    OBVIOUS
  <2>1. CallOK /\ idx = 0 /\ pc = "scan" /\ DOMAIN buffer = {}
    BY DEF Init, CallOK
  <2>2. 0..(Shorter(idx, maxlen) - 1) = {}
    BY <2>1, LimitType, Sizes DEF Shorter
  <2> QED
    BY <2>1, <2>2 DEF CountRespected
<1>2. TypeOK /\ CallOK /\ CountRespected /\ [Next]_vars => CallOK' /\ CountRespected'
  BY NextBuffer
<1> QED
  BY <1>1, <1>2, TypeCorrect, PTL DEF Spec

-----------------------------------------------------------------------------
(***************************************************************************)
(* Numerals.                                                               *)
(***************************************************************************)
\* f holds the numerals of the numbers up to m.
NumeralStep(f, base, digits, n) ==
    IF n < base THEN <<digits[n + 1]>> ELSE Append(f[n \div base], digits[(n % base) + 1])
Numerals(f, base, digits, N) == f = [n \in N |-> NumeralStep(f, base, digits, n)]

LEMMA DivisionSmaller ==
    ASSUME NEW base \in {2, 8, 10, 16}, NEW n \in Nat, n >= base
    PROVE  n \div base \in 0..(n - 1) /\ n \div base \in Nat
  OBVIOUS

LEMMA NumeralsAgree ==
    ASSUME NEW base \in {2, 8, 10, 16}, NEW digits, NEW m \in Nat, NEW k \in Nat, NEW f, NEW g,
           Numerals(f, base, digits, 0..m), Numerals(g, base, digits, 0..k)
    PROVE  \A n \in Nat : n <= m /\ n <= k => f[n] = g[n]
<1> DEFINE S == {n \in Nat : \A j \in 0..n : j <= m /\ j <= k => f[j] = g[j]}
<1>1. ASSUME NEW j \in Nat, j <= m, j <= k, \A i \in 0..(j - 1) : f[i] = g[i]
      PROVE  f[j] = g[j]
  <2>1. f[j] = NumeralStep(f, base, digits, j) /\ g[j] = NumeralStep(g, base, digits, j)
    <3>1. j \in 0..m /\ j \in 0..k
      BY <1>1
    <3>2. \A n \in 0..m : f[n] = NumeralStep(f, base, digits, n)
      BY DEF Numerals
    <3>3. \A n \in 0..k : g[n] = NumeralStep(g, base, digits, n)
      BY DEF Numerals
    <3> QED
      BY <3>1, <3>2, <3>3
  <2>2. CASE j < base
    BY <2>1, <2>2 DEF NumeralStep
  <2>3. CASE ~(j < base)
    <3>1. j \div base \in 0..(j - 1)
      BY <1>1, <2>3, DivisionSmaller
    <3>2. f[j \div base] = g[j \div base]
      BY <1>1, <3>1
    <3> QED
      BY <2>1, <2>3, <3>2 DEF NumeralStep
  <2> QED
    BY <2>2, <2>3
<1>2. 0 \in S
  <2>1. f[0] = g[0]
    BY <1>1
  <2> QED
    BY <2>1
<1>3. ASSUME NEW n \in Nat, n \in S PROVE n + 1 \in S
  <2>1. \A i \in 0..n : i <= m /\ i <= k => f[i] = g[i]
    BY <1>3
  <2>2. n + 1 <= m /\ n + 1 <= k => f[n + 1] = g[n + 1]
    BY <1>1, <2>1
  <2>3. \A j \in 0..(n + 1) : j \in 0..n \/ j = n + 1
    OBVIOUS
  <2> QED
    BY <2>1, <2>2, <2>3
<1>4. Nat \subseteq S
  <2> HIDE DEF S
  <2> QED
    BY <1>2, <1>3, NatSetInduction
<1> QED
  BY <1>4

LEMMA NumeralsUpTo ==
    ASSUME NEW base \in {2, 8, 10, 16}, NEW digits
    PROVE  \A m \in Nat : \E f : Numerals(f, base, digits, 0..m)
<1> DEFINE S == {m \in Nat : \E f : Numerals(f, base, digits, 0..m)}
<1>1. 0 \in S
  <2> DEFINE f == [n \in 0..0 |-> <<digits[n + 1]>>]
  <2>1. \A n \in 0..0 : NumeralStep(f, base, digits, n) = <<digits[n + 1]>>
    BY DEF NumeralStep
  <2>2. Numerals(f, base, digits, 0..0)
    BY <2>1 DEF Numerals
  <2> QED
    BY <2>2
<1>2. ASSUME NEW m \in Nat, m \in S PROVE m + 1 \in S
  <2>1. PICK f : Numerals(f, base, digits, 0..m)
    BY <1>2
  <2> DEFINE new == NumeralStep(f, base, digits, m + 1)
             g == [n \in 0..(m + 1) |-> IF n = m + 1 THEN new ELSE f[n]]
  <2>2. \A n \in 0..m : f[n] = NumeralStep(f, base, digits, n)
    BY <2>1 DEF Numerals
  <2> HIDE DEF new
  <2>3. /\ g = [n \in 0..(m + 1) |-> g[n]] /\ g[m + 1] = new
        /\ \A n \in 0..m : g[n] = f[n]
    OBVIOUS
  <2> HIDE DEF g
  <2>4. ASSUME NEW n \in 0..(m + 1) PROVE NumeralStep(g, base, digits, n) = NumeralStep(f, base, digits, n)
    <3>1. CASE n < base
      BY <3>1 DEF NumeralStep
    <3>2. CASE ~(n < base)
      <4>1. n \div base \in 0..(n - 1)
        BY <3>2, DivisionSmaller
      <4>2. n \div base \in 0..m
        BY <4>1
      <4>3. g[n \div base] = f[n \div base]
        BY <2>3, <4>2
      <4> QED
        BY <3>2, <4>3 DEF NumeralStep
    <3> QED
      BY <3>1, <3>2
  <2>5. \A n \in 0..(m + 1) : g[n] = NumeralStep(g, base, digits, n)
    <3> SUFFICES ASSUME NEW n \in 0..(m + 1) PROVE g[n] = NumeralStep(f, base, digits, n)
      BY <2>4
    <3>1. CASE n = m + 1
      BY <2>3, <3>1 DEF new
    <3>2. CASE n \in 0..m
      BY <2>2, <2>3, <3>2
    <3> QED
      BY <3>1, <3>2
  <2>6. Numerals(g, base, digits, 0..(m + 1))
    BY <2>3, <2>5 DEF Numerals
  <2> QED
    BY <2>6
<1> HIDE DEF S
<1>3. Nat \subseteq S
  BY <1>1, <1>2, NatSetInduction
<1> QED
  BY <1>3 DEF S

\* The recursion of Numeral has a solution, and so it is what Numeral computes.
LEMMA NumeralsExist ==
    ASSUME NEW base \in {2, 8, 10, 16}, NEW digits PROVE \E f : Numerals(f, base, digits, Nat)
<1> DEFINE F(m) == CHOOSE f : Numerals(f, base, digits, 0..m)
           g == [n \in Nat |-> F(n)[n]]
<1>1. \A m \in Nat : Numerals(F(m), base, digits, 0..m)
  BY NumeralsUpTo
<1> HIDE DEF F
<1>2. \A n \in Nat : g[n] = F(n)[n]
  OBVIOUS
<1>3. g = [n \in Nat |-> g[n]]
  OBVIOUS
<1> HIDE DEF g
<1>4. ASSUME NEW n \in Nat PROVE g[n] = NumeralStep(g, base, digits, n)
  <2>1. F(n)[n] = NumeralStep(F(n), base, digits, n)
    <3>1. Numerals(F(n), base, digits, 0..n) /\ n \in 0..n
      BY <1>1
    <3>2. \A j \in 0..n : F(n)[j] = NumeralStep(F(n), base, digits, j)
      BY <3>1 DEF Numerals
    <3> QED
      BY <3>1, <3>2
  <2>2. CASE n < base
    BY <1>2, <2>1, <2>2 DEF NumeralStep
  <2>3. CASE ~(n < base)
    <3> DEFINE q == n \div base
    <3>1. q \in Nat /\ q <= n
      BY <2>3, DivisionSmaller
    <3>2. F(n)[q] = F(q)[q]
      <4> HIDE DEF q
      <4>1. Numerals(F(n), base, digits, 0..n) /\ Numerals(F(q), base, digits, 0..q)
        BY <1>1, <3>1
      <4>2. \A i \in Nat : i <= n /\ i <= q => F(n)[i] = F(q)[i]
        BY <3>1, <4>1, NumeralsAgree
      <4> QED
        BY <3>1, <4>2
    <3>3. g[q] = F(n)[q]
      BY <1>2, <3>1, <3>2
    <3> QED
      BY <1>2, <2>1, <2>3, <3>3 DEF NumeralStep
  <2> QED
    BY <2>2, <2>3
<1>5. Numerals(g, base, digits, Nat)
  BY <1>3, <1>4 DEF Numerals
<1> QED
  BY <1>5

\* What Numeral computes: its defining equation, for every number.
LEMMA NumeralIs ==
    ASSUME NEW base \in {2, 8, 10, 16}, NEW digits
    PROVE  \A n \in Nat : Numeral(n, base, digits) =
               IF n < base THEN <<digits[n + 1]>>
               ELSE Append(Numeral(n \div base, base, digits), digits[(n % base) + 1])
<1> DEFINE G == CHOOSE f : Numerals(f, base, digits, Nat)
<1>1. Numerals(G, base, digits, Nat)
  BY NumeralsExist
<1>2. \A n : Numeral(n, base, digits) = G[n]
  BY DEF Numeral, Numerals, NumeralStep
<1> HIDE DEF G
<1>3. \A n \in Nat : G[n] = NumeralStep(G, base, digits, n)
  BY <1>1 DEF Numerals
<1> QED
  BY <1>2, <1>3 DEF NumeralStep

\* A numeral consists of its digits.
LEMMA NumeralType ==
    ASSUME NEW base \in {2, 8, 10, 16}, NEW digits, NEW D, \A d \in 1..base : digits[d] \in D
    PROVE  \A n \in Nat : Numeral(n, base, digits) \in Seq(D)
<1> DEFINE S == {n \in Nat : \A j \in 0..n : Numeral(j, base, digits) \in Seq(D)}
<1>1. ASSUME NEW j \in Nat, \A i \in 0..(j - 1) : Numeral(i, base, digits) \in Seq(D)
      PROVE  Numeral(j, base, digits) \in Seq(D)
  <2>1. CASE j < base
    <3>1. j + 1 \in 1..base
      BY <2>1
    <3>2. <<digits[j + 1]>> \in Seq(D)
      BY <3>1
    <3> QED
      BY <2>1, <3>2, NumeralIs
  <2>2. CASE ~(j < base)
    <3>1. j \div base \in 0..(j - 1) /\ (j % base) + 1 \in 1..base
      BY <2>2, DivisionSmaller
    <3>2. Numeral(j \div base, base, digits) \in Seq(D) /\ digits[(j % base) + 1] \in D
      BY <1>1, <3>1
    <3>3. Append(Numeral(j \div base, base, digits), digits[(j % base) + 1]) \in Seq(D)
      BY <3>2, AppendProperties
    <3> QED
      BY <2>2, <3>3, NumeralIs
  <2> QED
    BY <2>1, <2>2
<1>2. 0 \in S
  <2>1. Numeral(0, base, digits) \in Seq(D)
    BY <1>1
  <2> QED
    BY <2>1
<1>3. ASSUME NEW n \in Nat, n \in S PROVE n + 1 \in S
  <2>1. \A i \in 0..n : Numeral(i, base, digits) \in Seq(D)
    BY <1>3
  <2>2. Numeral(n + 1, base, digits) \in Seq(D)
    BY <1>1, <2>1
  <2>3. \A j \in 0..(n + 1) : j \in 0..n \/ j = n + 1
    OBVIOUS
  <2> QED
    BY <2>1, <2>2, <2>3
<1>4. Nat \subseteq S
  <2> HIDE DEF S
  <2> QED
    BY <1>2, <1>3, NatSetInduction
<1> SUFFICES ASSUME NEW n \in Nat PROVE Numeral(n, base, digits) \in Seq(D)
  OBVIOUS
<1>5. n \in S /\ n \in 0..n
  BY <1>4
<1> QED
  BY <1>5

-----------------------------------------------------------------------------
(***************************************************************************)
(* The format is read inside its bounds.                                   *)
(***************************************************************************)
FlagCharacters == {"0", "-", "+", " ", "#"}
DigitCharacters == {"0", "1", "2", "3", "4", "5", "6", "7", "8", "9"}
LengthCharacters == {"h", "l", "j", "t", "z"}
LengthModifiers == {<<>>, <<"h">>, <<"h", "h">>, <<"l">>, <<"l", "l">>, <<"j">>, <<"t">>, <<"z">>}
Specifiers == Character \ (FlagCharacters \cup DigitCharacters \cup LengthCharacters
                             \cup {NUL, ".", "*"})
Symbol == Character \cup FlagCharacters \cup DigitCharacters \cup LengthCharacters
            \cup {"%", ".", "*"}

\* Items as a program writes them in its formats.
FieldOK(f) == f.form \in {"none", "star"} \/ (f.form = "digits" /\ f.n \in Nat)
DirectiveOK(item) ==
    /\ item.flags \in Seq(FlagCharacters)
    /\ FieldOK(item.width) /\ FieldOK(item.precision)
    /\ item.length \in LengthModifiers
    /\ item.spec \in Specifiers
ItemOK(item) ==
    \/ item.kind = "text" /\ item.spec \in Character \ {NUL, "%"}
    \/ item.kind = "directive" /\ DirectiveOK(item)

\* What may be left of a format of such items, before each part of a directive.
Joined(F, R) == {f \o r : f \in F, r \in R}
Items == {i \in UNION {{c.items[k] : k \in 1..Len(c.items)} : c \in Calls} : ItemOK(i)}
Formats == {Format(items) : items \in Seq(Items)}
AtSpecifier == Joined({<<c>> : c \in Specifiers}, Formats)
AtLength == Joined(LengthModifiers, AtSpecifier)
AtPrecisionDigits == Joined(Seq(DigitCharacters), AtLength)
AtPrecisionValue == AtPrecisionDigits \cup Joined({<<"*">>}, AtLength)
AtPrecision == AtLength \cup Joined({<<".">>}, AtPrecisionValue)
AtWidthDigits == Joined(Seq(DigitCharacters), AtPrecision)
AtWidth == AtWidthDigits \cup Joined({<<"*">>}, AtPrecision)
AtFlags == Joined(Seq(FlagCharacters), AtWidth)

LEMMA JoinedIs ==
    ASSUME NEW F, NEW R
    PROVE  /\ \A f \in F, r \in R : f \o r \in Joined(F, R)
           /\ \A x \in Joined(F, R) : \E f \in F, r \in R : x = f \o r
  BY DEF Joined

\* A sequence of such characters in front of something else is empty or begins
\* with one of them.
LEMMA InFront ==
    ASSUME NEW A, NEW D \in SUBSET A, NEW R \in SUBSET Seq(A), NEW x \in Joined(Seq(D), R)
    PROVE  x \in R \/ (x # <<>> /\ Head(x) \in D /\ Tail(x) \in Joined(Seq(D), R))
<1>1. PICK d \in Seq(D), r \in R : x = d \o r
  BY DEF Joined
<1>2. d \in Seq(A) /\ r \in Seq(A)
  BY SeqWider
<1>3. CASE d = <<>>
  BY <1>1, <1>2, <1>3, ConcatEmptySeq
<1>4. CASE d # <<>>
  <2> DEFINE h == Head(d)
             t == Tail(d)
             o == <<h>>
  <2>1. h \in D /\ t \in Seq(D) /\ t \in Seq(A)
    BY <1>2, <1>4, HeadTailProperties
  <2>2. d = o \o t /\ o \in Seq(A)
    BY <1>2, <1>4, <2>1, HeadInFront
  <2> HIDE DEF h, t, o
  <2>3. x = o \o (t \o r) /\ t \o r \in Seq(A)
    BY <1>1, <1>2, <2>1, <2>2, ConcatAssociative, ConcatProperties
  <2>4. t \o r \in Joined(Seq(D), R)
    BY <2>1, JoinedIs
  <2> DEFINE q == t \o r
  <2>5. h \in A /\ q \in Seq(A) /\ x = <<h>> \o q
    BY <2>1, <2>3 DEF o
  <2> HIDE DEF q
  <2>6. x # <<>> /\ Head(x) = h /\ Tail(x) = q
    BY <2>5, OneInFront
  <2> QED
    BY <2>1, <2>4, <2>6 DEF q
<1> QED
  BY <1>3, <1>4

LEMMA JoinedType ==
    ASSUME NEW A, NEW F \in SUBSET Seq(A), NEW R \in SUBSET Seq(A)
    PROVE  Joined(F, R) \in SUBSET Seq(A)
<1> SUFFICES ASSUME NEW x \in Joined(F, R) PROVE x \in Seq(A)
  OBVIOUS
<1>1. PICK f \in F, r \in R : x = f \o r
  BY DEF Joined
<1>2. f \in Seq(A) /\ r \in Seq(A)
  OBVIOUS
<1> QED
  BY <1>1, <1>2, ConcatProperties

LEMMA OneJoined ==
    ASSUME NEW A, NEW C \in SUBSET A, NEW R \in SUBSET Seq(A), NEW x \in Joined({<<c>> : c \in C}, R)
    PROVE  x # <<>> /\ Head(x) \in C /\ Tail(x) \in R
<1> DEFINE ones == {<<c>> : c \in C}
<1>1. PICK c \in C, r \in R : x = <<c>> \o r
  <2>1. PICK f \in ones, r \in R : x = f \o r
    <3>1. x \in Joined(ones, R)
      OBVIOUS
    <3> HIDE DEF ones
    <3> QED
      BY <3>1 DEF Joined
  <2> QED
    BY <2>1
<1>2. c \in A /\ r \in Seq(A)
  OBVIOUS
<1> QED
  BY <1>1, <1>2, OneInFront

LEMMA CharacterSets ==
    /\ DOMAIN FlagOf = FlagCharacters /\ DOMAIN DigitOf = DigitCharacters
    /\ \A d \in 1..10 : LowerDigits[d] \in DigitCharacters
<1>1. DOMAIN FlagOf = FlagCharacters
  BY DEF FlagOf, FlagCharacters
<1>2. \A d \in 1..10 : LowerDigits[d] \in DigitCharacters
  <2> SUFFICES ASSUME NEW d \in 1..10 PROVE LowerDigits[d] \in DigitCharacters
    OBVIOUS
  <2>1. d \in {1, 2, 3, 4, 5, 6, 7, 8, 9, 10}
    OBVIOUS
  <2> QED
    BY <2>1 DEF LowerDigits, DigitCharacters
<1>3. ASSUME NEW c \in DigitCharacters PROVE \E d \in 0..9 : LowerDigits[d + 1] = c
  <2>1. /\ LowerDigits[1] = "0" /\ LowerDigits[2] = "1" /\ LowerDigits[3] = "2" /\ LowerDigits[4] = "3"
        /\ LowerDigits[5] = "4" /\ LowerDigits[6] = "5" /\ LowerDigits[7] = "6" /\ LowerDigits[8] = "7"
        /\ LowerDigits[9] = "8" /\ LowerDigits[10] = "9"
    BY DEF LowerDigits
  <2>2. \E d \in 1..10 : LowerDigits[d] = c
    BY <2>1 DEF DigitCharacters
  <2>3. PICK d \in 1..10 : LowerDigits[d] = c
    BY <2>2
  <2>4. d - 1 \in 0..9 /\ (d - 1) + 1 = d
    OBVIOUS
  <2> QED
    BY <2>3, <2>4
<1>4. DOMAIN DigitOf = DigitCharacters
  <2>1. DOMAIN DigitOf = {LowerDigits[d + 1] : d \in 0..9}
    BY DEF DigitOf
  <2>2. \A d \in 0..9 : d + 1 \in 1..10
    OBVIOUS
  <2> QED
    BY <1>2, <1>3, <2>1, <2>2
<1> QED
  BY <1>1, <1>2, <1>4

\* The characters that begin the parts of a directive are told apart.
LEMMA Apart ==
    /\ FlagCharacters \in SUBSET Symbol /\ DigitCharacters \in SUBSET Symbol
    /\ LengthCharacters \in SUBSET Symbol /\ Specifiers \in SUBSET Symbol
    /\ "%" \in Symbol /\ "." \in Symbol /\ "*" \in Symbol
    /\ Specifiers \cap FlagCharacters = {} /\ Specifiers \cap DigitCharacters = {}
    /\ Specifiers \cap LengthCharacters = {} /\ Specifiers \cap {NUL, ".", "*"} = {}
    /\ LengthCharacters \cap (DigitCharacters \cup FlagCharacters \cup {NUL, ".", "*"}) = {}
    /\ DigitCharacters \cap {NUL, ".", "*"} = {} /\ FlagCharacters \cap {NUL, ".", "*"} = {}
    /\ NUL # "." /\ NUL # "*" /\ NUL # "%"
  BY DEF Symbol, FlagCharacters, DigitCharacters, LengthCharacters, Specifiers, NUL

-----------------------------------------------------------------------------
\* What an item looks like in a format.
FieldTexts == Seq(DigitCharacters) \cup {<<"*">>}
PrecisionTexts == {<<>>} \cup Joined({<<".">>}, FieldTexts)

LEMMA SpellsText == ASSUME NEW item, item.kind = "text" PROVE Spell(item) = <<item.spec>>
  BY DEF Spell

LEMMA SpellsDirective ==
    ASSUME NEW item, item.kind = "directive", DirectiveOK(item)
    PROVE  \E w \in FieldTexts, p \in PrecisionTexts :
               Spell(item) = ((((<<"%">> \o item.flags) \o w) \o p) \o item.length) \o <<item.spec>>
<1> DEFINE decimal(n) == Numeral(n, 10, LowerDigits)
           field(f) == CASE f.form = "none" -> <<>>
                         [] f.form = "digits" -> decimal(f.n)
                         [] f.form = "star" -> <<"*">>
           p == IF item.precision.form = "none" THEN <<>> ELSE <<".">> \o field(item.precision)
<1>1. \A n \in Nat : decimal(n) \in Seq(DigitCharacters)
  <2>1. \A d \in 1..10 : LowerDigits[d] \in DigitCharacters
    BY CharacterSets
  <2> HIDE DEF decimal
  <2>2. \A n \in Nat : Numeral(n, 10, LowerDigits) \in Seq(DigitCharacters)
    BY <2>1, NumeralType
  <2> QED
    BY <2>2 DEF decimal
<1>2. ASSUME NEW f, FieldOK(f) PROVE field(f) \in FieldTexts
  <2> HIDE DEF decimal
  <2>1. <<>> \in Seq(DigitCharacters)
    BY EmptySeq
  <2> QED
    BY <1>1, <1>2, <2>1 DEF FieldOK, FieldTexts
<1>3. field(item.width) \in FieldTexts /\ field(item.precision) \in FieldTexts
  BY <1>2 DEF DirectiveOK
<1>4. Spell(item) = ((((<<"%">> \o item.flags) \o field(item.width)) \o p) \o item.length) \o <<item.spec>>
  BY DEF Spell
<1> HIDE DEF field
<1>5. p \in PrecisionTexts
  BY <1>3 DEF PrecisionTexts, Joined
<1> QED
  BY <1>3, <1>4, <1>5

LEMMA ModifiersType == LengthModifiers \in SUBSET Seq(Symbol)
<1>1. "h" \in Symbol /\ "l" \in Symbol /\ "j" \in Symbol /\ "t" \in Symbol /\ "z" \in Symbol
  BY DEF Symbol, LengthCharacters
<1> HIDE DEF Symbol
<1>2. /\ <<>> \in Seq(Symbol) /\ <<"h">> \in Seq(Symbol) /\ <<"h", "h">> \in Seq(Symbol)
      /\ <<"l">> \in Seq(Symbol) /\ <<"l", "l">> \in Seq(Symbol) /\ <<"j">> \in Seq(Symbol)
      /\ <<"t">> \in Seq(Symbol) /\ <<"z">> \in Seq(Symbol)
  BY <1>1
<1> QED
  BY <1>2 DEF LengthModifiers

LEMMA TextsType == FieldTexts \in SUBSET Seq(Symbol) /\ PrecisionTexts \in SUBSET Seq(Symbol)
<1>1. <<"*">> \in Seq(Symbol) /\ <<".">> \in Seq(Symbol) /\ <<>> \in Seq(Symbol)
  BY Apart
<1>2. FieldTexts \in SUBSET Seq(Symbol)
  <2>1. Seq(DigitCharacters) \subseteq Seq(Symbol)
    BY Apart, SeqWider
  <2> QED
    BY <1>1, <2>1 DEF FieldTexts
<1>3. Joined({<<".">>}, FieldTexts) \in SUBSET Seq(Symbol)
  <2>1. {<<".">>} \in SUBSET Seq(Symbol)
    BY <1>1
  <2> QED
    BY <1>2, <2>1, JoinedType
<1> QED
  BY <1>1, <1>2, <1>3 DEF PrecisionTexts

LEMMA SpellType == ASSUME NEW item, ItemOK(item) PROVE Spell(item) \in Seq(Symbol)
<1>1. CASE item.kind = "text"
  <2>1. item.spec \in Symbol
    BY <1>1 DEF ItemOK, Symbol
  <2>2. <<item.spec>> \in Seq(Symbol)
    BY <2>1
  <2> QED
    BY <1>1, <2>2, SpellsText
<1>2. CASE item.kind = "directive"
  <2>1. DirectiveOK(item)
    BY <1>2 DEF ItemOK
  <2>2. PICK w \in FieldTexts, p \in PrecisionTexts :
            Spell(item) = ((((<<"%">> \o item.flags) \o w) \o p) \o item.length) \o <<item.spec>>
    BY <1>2, <2>1, SpellsDirective
  <2>3. w \in Seq(Symbol) /\ p \in Seq(Symbol) /\ item.length \in Seq(Symbol)
    BY <2>1, TextsType, ModifiersType DEF DirectiveOK
  <2>4. item.flags \in Seq(Symbol) /\ <<"%">> \in Seq(Symbol) /\ <<item.spec>> \in Seq(Symbol)
    <3>1. Seq(FlagCharacters) \subseteq Seq(Symbol) /\ item.spec \in Symbol /\ "%" \in Symbol
      BY <2>1, Apart, SeqWider DEF DirectiveOK
    <3> QED
      BY <2>1, <3>1 DEF DirectiveOK
  <2>5. <<"%">> \o item.flags \in Seq(Symbol)
    BY <2>4, ConcatProperties
  <2>6. (<<"%">> \o item.flags) \o w \in Seq(Symbol)
    BY <2>3, <2>5, ConcatProperties
  <2>7. ((<<"%">> \o item.flags) \o w) \o p \in Seq(Symbol)
    BY <2>3, <2>6, ConcatProperties
  <2>8. (((<<"%">> \o item.flags) \o w) \o p) \o item.length \in Seq(Symbol)
    BY <2>3, <2>7, ConcatProperties
  <2> DEFINE front == (((<<"%">> \o item.flags) \o w) \o p) \o item.length
             last == <<item.spec>>
  <2>9. front \in Seq(Symbol) /\ last \in Seq(Symbol) /\ Spell(item) = front \o last
    BY <2>2, <2>4, <2>8
  <2> HIDE DEF front, last
  <2>10. front \o last \in Seq(Symbol)
    BY <2>9, ConcatProperties
  <2> QED
    BY <2>9, <2>10
<1> QED
  BY <1>1, <1>2 DEF ItemOK

\* The spellings of some items, and their format.
Spellings(items) == [k \in 1..Len(items) |-> Spell(items[k])]

LEMMA SpellingsType ==
    ASSUME NEW items \in Seq(Items)
    PROVE  Spellings(items) \in Seq(Seq(Symbol)) /\ Format(items) = FlattenSeq(Spellings(items))
<1>1. Len(items) \in Nat /\ \A k \in 1..Len(items) : items[k] \in Items
  BY LenProperties, ElementOfSeq
<1>2. \A k \in 1..Len(items) : Spell(items[k]) \in Seq(Symbol)
  BY <1>1, SpellType DEF Items
<1>3. Spellings(items) \in Seq(Seq(Symbol))
  BY <1>1, <1>2 DEF Spellings
<1> QED
  BY <1>3 DEF Format, Spellings

LEMMA FormatsType == Formats \in SUBSET Seq(Symbol)
<1> SUFFICES ASSUME NEW items \in Seq(Items) PROVE Format(items) \in Seq(Symbol)
  BY DEF Formats
<1> QED
  BY SpellingsType, FlattenType

LEMMA FormatFirst ==
    ASSUME NEW items \in Seq(Items), items # <<>>
    PROVE  /\ Head(items) \in Items /\ Tail(items) \in Seq(Items)
           /\ Format(items) = Spell(Head(items)) \o Format(Tail(items))
<1> DEFINE i == Head(items)
           rest == Tail(items)
<1>1. i \in Items /\ rest \in Seq(Items) /\ items = <<i>> \o rest
  BY HeadTailProperties, HeadInFront
<1> HIDE DEF i, rest
<1>2. Spell(i) \in Seq(Symbol) /\ Spellings(rest) \in Seq(Seq(Symbol)) /\ Spellings(items) \in Seq(Seq(Symbol))
  BY <1>1, SpellType, SpellingsType DEF Items
<1>3. Spellings(items) = <<Spell(i)>> \o Spellings(rest)
  <2>1. <<Spell(i)>> \in Seq(Seq(Symbol)) /\ Len(<<Spell(i)>>) = 1 /\ <<Spell(i)>>[1] = Spell(i)
    BY <1>2
  <2>2. Len(rest) \in Nat /\ Len(items) = Len(rest) + 1 /\ items[1] = i
        /\ \A k \in 1..Len(rest) : items[k + 1] = rest[k]
    BY <1>1, LenProperties
  <2>3. Len(Spellings(rest)) = Len(rest) /\ Len(Spellings(items)) = Len(items)
    BY <2>2 DEF Spellings
  <2> DEFINE s == <<Spell(i)>>
  <2> HIDE DEF s
  <2>4. /\ s \o Spellings(rest) \in Seq(Seq(Symbol)) /\ Len(s \o Spellings(rest)) = 1 + Len(rest)
        /\ \A k \in 1..(1 + Len(rest)) :
              (s \o Spellings(rest))[k] = IF k <= 1 THEN s[k] ELSE Spellings(rest)[k - 1]
    BY <1>2, <2>1, <2>3, ConcatProperties DEF s
  <2>5. ASSUME NEW k \in 1..Len(items) PROVE Spellings(items)[k] = (s \o Spellings(rest))[k]
    <3>1. CASE k = 1
      BY <2>1, <2>2, <2>4, <3>1 DEF Spellings, s
    <3>2. CASE k # 1
      <4>1. k - 1 \in 1..Len(rest) /\ (k - 1) + 1 = k
        BY <2>2, <3>2
      <4>2. items[k] = rest[k - 1]
        BY <2>2, <4>1
      <4>3. (s \o Spellings(rest))[k] = Spellings(rest)[k - 1]
        BY <2>2, <2>4, <3>2
      <4> QED
        BY <4>1, <4>2, <4>3 DEF Spellings
    <3> QED
      BY <3>1, <3>2
  <2>6. Spellings(items) = s \o Spellings(rest)
    <3> DEFINE t == s \o Spellings(rest)
    <3>1. /\ t \in Seq(Seq(Symbol)) /\ Len(Spellings(items)) = Len(t)
          /\ \A k \in 1..Len(Spellings(items)) : Spellings(items)[k] = t[k]
      BY <2>2, <2>3, <2>4, <2>5
    <3> HIDE DEF t
    <3>2. Spellings(items) = t
      BY <1>2, <3>1, SeqEqual
    <3> QED
      BY <3>2 DEF t
  <2> QED
    BY <2>6 DEF s
<1>4. FlattenSeq(<<Spell(i)>> \o Spellings(rest)) = Spell(i) \o FlattenSeq(Spellings(rest))
  BY <1>2, FlattenFirst
<1>5. Format(items) = Spell(i) \o Format(rest)
  BY <1>1, <1>3, <1>4, SpellingsType
<1> QED
  BY <1>1, <1>5 DEF i, rest

-----------------------------------------------------------------------------
\* What may be left of a format, by its first character.
LEMMA SpecifierFirst ==
    /\ AtSpecifier \in SUBSET Seq(Symbol)
    /\ \A x \in AtSpecifier : x # <<>> /\ Head(x) \in Specifiers /\ Tail(x) \in Formats
<1>1. {<<c>> : c \in Specifiers} \in SUBSET Seq(Symbol)
  <2> SUFFICES ASSUME NEW c \in Specifiers PROVE <<c>> \in Seq(Symbol)
    OBVIOUS
  <2>1. c \in Symbol
    BY Apart
  <2> QED
    BY <2>1
<1>2. AtSpecifier \in SUBSET Seq(Symbol)
  BY <1>1, FormatsType, JoinedType DEF AtSpecifier
<1>3. ASSUME NEW x \in AtSpecifier PROVE x # <<>> /\ Head(x) \in Specifiers /\ Tail(x) \in Formats
  BY Apart, FormatsType, OneJoined DEF AtSpecifier
<1> QED
  BY <1>2, <1>3

LEMMA LengthFirst ==
    /\ AtLength \in SUBSET Seq(Symbol)
    /\ \A x \in AtLength : x # <<>> /\ Head(x) \in Specifiers \cup LengthCharacters
<1>1. AtLength \in SUBSET Seq(Symbol)
  BY ModifiersType, SpecifierFirst, JoinedType DEF AtLength
<1>2. ASSUME NEW x \in AtLength PROVE x # <<>> /\ Head(x) \in Specifiers \cup LengthCharacters
  <2>1. PICK l \in LengthModifiers, r \in AtSpecifier : x = l \o r
    BY DEF AtLength, Joined
  <2>2. l \in Seq(Symbol) /\ r \in Seq(Symbol)
    BY ModifiersType, SpecifierFirst
  <2>3. CASE l = <<>>
    <3>1. x = r
      BY <2>1, <2>2, <2>3, ConcatEmptySeq
    <3> QED
      BY <3>1, SpecifierFirst
  <2>4. CASE l # <<>>
    <3>1. Head(l) \in LengthCharacters
      BY <2>4 DEF LengthModifiers, LengthCharacters
    <3> DEFINE h == Head(l)
               t == Tail(l)
               q == t \o r
    <3>2. l = <<h>> \o t /\ h \in Symbol /\ t \in Seq(Symbol)
      BY <2>2, <2>4, HeadInFront, HeadTailProperties
    <3> HIDE DEF h, t
    <3>3. <<h>> \in Seq(Symbol)
      BY <3>2
    <3>4. x = <<h>> \o q /\ q \in Seq(Symbol)
      BY <2>1, <2>2, <3>2, <3>3, ConcatAssociative, ConcatProperties
    <3> HIDE DEF q
    <3>5. x # <<>> /\ Head(x) = h
      BY <3>2, <3>4, OneInFront
    <3> QED
      BY <3>1, <3>5 DEF h
  <2> QED
    BY <2>3, <2>4
<1> QED
  BY <1>1, <1>2

\* Digits, `*' or `.' in front of a sequence of symbols.
LEMMA DigitsFirst ==
    ASSUME NEW R \in SUBSET Seq(Symbol)
    PROVE  /\ Joined(Seq(DigitCharacters), R) \in SUBSET Seq(Symbol) /\ R \subseteq Joined(Seq(DigitCharacters), R)
           /\ \A x \in Joined(Seq(DigitCharacters), R) :
                 x \in R \/ (x # <<>> /\ Head(x) \in DigitCharacters /\ Tail(x) \in Joined(Seq(DigitCharacters), R))
<1>1. Seq(DigitCharacters) \in SUBSET Seq(Symbol)
  BY Apart, SeqWider
<1>2. Joined(Seq(DigitCharacters), R) \in SUBSET Seq(Symbol)
  BY <1>1, JoinedType
<1>3. ASSUME NEW r \in R PROVE r \in Joined(Seq(DigitCharacters), R)
  <2>1. <<>> \in Seq(DigitCharacters) /\ <<>> \o r = r
    BY EmptySeq, ConcatEmptySeq
  <2>2. <<>> \o r \in Joined(Seq(DigitCharacters), R)
    BY <2>1, JoinedIs
  <2> QED
    BY <2>1, <2>2
<1>4. ASSUME NEW x \in Joined(Seq(DigitCharacters), R)
      PROVE  x \in R \/ (x # <<>> /\ Head(x) \in DigitCharacters /\ Tail(x) \in Joined(Seq(DigitCharacters), R))
  BY Apart, InFront
<1> QED
  BY <1>2, <1>3, <1>4

LEMMA MarkFirst ==
    ASSUME NEW R \in SUBSET Seq(Symbol), NEW c \in {".", "*"}
    PROVE  /\ Joined({<<c>>}, R) \in SUBSET Seq(Symbol)
           /\ \A x \in Joined({<<c>>}, R) : x # <<>> /\ Head(x) = c /\ Tail(x) \in R
<1>1. c \in Symbol
  BY Apart
<1>2. {<<c>>} \in SUBSET Seq(Symbol)
  BY <1>1
<1>3. Joined({<<c>>}, R) \in SUBSET Seq(Symbol)
  BY <1>2, JoinedType
<1>4. ASSUME NEW x \in Joined({<<c>>}, R) PROVE x # <<>> /\ Head(x) = c /\ Tail(x) \in R
  <2>1. PICK r \in R : x = <<c>> \o r
    BY DEF Joined
  <2> QED
    BY <1>1, <2>1, OneInFront
<1> QED
  BY <1>3, <1>4

\* Behind the dot: digits, `*', or the length at once.
LEMMA PrecisionValueFirst ==
    /\ AtPrecisionDigits \in SUBSET Seq(Symbol) /\ AtPrecisionValue \in SUBSET Seq(Symbol)
    /\ \A x \in AtPrecisionDigits :
          x \in AtLength \/ (x # <<>> /\ Head(x) \in DigitCharacters /\ Tail(x) \in AtPrecisionDigits)
    /\ \A x \in AtPrecisionValue :
          x \in AtPrecisionDigits \/ (x # <<>> /\ Head(x) = "*" /\ Tail(x) \in AtLength)
<1>1. AtLength \in SUBSET Seq(Symbol)
  BY LengthFirst
<1>2. /\ AtPrecisionDigits \in SUBSET Seq(Symbol)
      /\ \A x \in AtPrecisionDigits :
            x \in AtLength \/ (x # <<>> /\ Head(x) \in DigitCharacters /\ Tail(x) \in AtPrecisionDigits)
  BY <1>1, DigitsFirst DEF AtPrecisionDigits
<1>3. /\ Joined({<<"*">>}, AtLength) \in SUBSET Seq(Symbol)
      /\ \A x \in Joined({<<"*">>}, AtLength) : x # <<>> /\ Head(x) = "*" /\ Tail(x) \in AtLength
  BY <1>1, MarkFirst
<1> QED
  BY <1>2, <1>3 DEF AtPrecisionValue

LEMMA PrecisionFirst ==
    /\ AtPrecision \in SUBSET Seq(Symbol)
    /\ \A x \in AtPrecision :
          x \in AtLength \/ (x # <<>> /\ Head(x) = "." /\ Tail(x) \in AtPrecisionValue)
<1>1. /\ Joined({<<".">>}, AtPrecisionValue) \in SUBSET Seq(Symbol)
      /\ \A x \in Joined({<<".">>}, AtPrecisionValue) : x # <<>> /\ Head(x) = "." /\ Tail(x) \in AtPrecisionValue
  BY PrecisionValueFirst, MarkFirst
<1> QED
  BY <1>1, LengthFirst DEF AtPrecision

LEMMA WidthFirst ==
    /\ AtWidthDigits \in SUBSET Seq(Symbol) /\ AtWidth \in SUBSET Seq(Symbol)
    /\ \A x \in AtWidthDigits :
          x \in AtPrecision \/ (x # <<>> /\ Head(x) \in DigitCharacters /\ Tail(x) \in AtWidthDigits)
    /\ \A x \in AtWidth :
          x \in AtWidthDigits \/ (x # <<>> /\ Head(x) = "*" /\ Tail(x) \in AtPrecision)
<1>1. AtPrecision \in SUBSET Seq(Symbol)
  BY PrecisionFirst
<1>2. /\ AtWidthDigits \in SUBSET Seq(Symbol)
      /\ \A x \in AtWidthDigits :
            x \in AtPrecision \/ (x # <<>> /\ Head(x) \in DigitCharacters /\ Tail(x) \in AtWidthDigits)
  BY <1>1, DigitsFirst DEF AtWidthDigits
<1>3. /\ Joined({<<"*">>}, AtPrecision) \in SUBSET Seq(Symbol)
      /\ \A x \in Joined({<<"*">>}, AtPrecision) : x # <<>> /\ Head(x) = "*" /\ Tail(x) \in AtPrecision
  BY <1>1, MarkFirst
<1> QED
  BY <1>2, <1>3 DEF AtWidth

\* A `0' of the width is taken for a flag, and the rest of the width follows it.
LEMMA FlagsFirst ==
    /\ AtFlags \in SUBSET Seq(Symbol)
    /\ \A x \in AtFlags : x \in AtWidth \/ (x # <<>> /\ Head(x) \in FlagCharacters /\ Tail(x) \in AtFlags)
    /\ AtWidth \subseteq AtFlags
<1>1. Seq(FlagCharacters) \in SUBSET Seq(Symbol)
  BY Apart, SeqWider
<1>2. AtFlags \in SUBSET Seq(Symbol)
  BY <1>1, WidthFirst, JoinedType DEF AtFlags
<1>3. ASSUME NEW x \in AtFlags
      PROVE  x \in AtWidth \/ (x # <<>> /\ Head(x) \in FlagCharacters /\ Tail(x) \in AtFlags)
  BY Apart, WidthFirst, InFront DEF AtFlags
<1>4. ASSUME NEW r \in AtWidth PROVE r \in AtFlags
  <2>1. <<>> \in Seq(FlagCharacters) /\ <<>> \o r = r
    BY EmptySeq, ConcatEmptySeq, WidthFirst
  <2>2. <<>> \o r \in AtFlags
    BY <2>1, JoinedIs DEF AtFlags
  <2> QED
    BY <2>1, <2>2
<1> QED
  BY <1>2, <1>3, <1>4

\* A directive leads to the flags of a rest, everything else to the rest.
LEMMA DirectiveLeads ==
    ASSUME NEW item, item.kind = "directive", DirectiveOK(item), NEW q \in Formats
    PROVE  \E y \in AtFlags : Spell(item) \o q = <<"%">> \o y
<1>1. PICK w \in FieldTexts, p \in PrecisionTexts :
          Spell(item) = ((((<<"%">> \o item.flags) \o w) \o p) \o item.length) \o <<item.spec>>
  BY SpellsDirective
<1> DEFINE s == <<item.spec>>
           l == item.length
           fl == item.flags
           pct == <<"%">>
<1>2. /\ s \in Seq(Symbol) /\ l \in Seq(Symbol) /\ p \in Seq(Symbol) /\ w \in Seq(Symbol)
      /\ fl \in Seq(Symbol) /\ pct \in Seq(Symbol) /\ q \in Seq(Symbol)
  <2>1. item.spec \in Symbol /\ "%" \in Symbol /\ Seq(FlagCharacters) \subseteq Seq(Symbol)
    BY Apart, SeqWider DEF DirectiveOK
  <2>2. s \in Seq(Symbol) /\ pct \in Seq(Symbol)
    BY <2>1
  <2> QED
    BY <2>1, <2>2, TextsType, ModifiersType, FormatsType DEF DirectiveOK
<1>3. s \in {<<c>> : c \in Specifiers} /\ l \in LengthModifiers /\ fl \in Seq(FlagCharacters)
  BY DEF DirectiveOK
<1>4. Spell(item) \o q = (((((pct \o fl) \o w) \o p) \o l) \o s) \o q
  BY <1>1
<1> HIDE DEF s, l, fl, pct
<1>5. FromLeft(pct, fl, w, p, l, s, q) = FromRight(pct, fl, w, p, l, s, q)
  <2>1. AllSequences(pct, fl, w, p, l, s, q, Symbol)
    BY <1>2 DEF AllSequences
  <2> QED
    BY <2>1, Regroup
<1> DEFINE sq == s \o q
           lsq == l \o sq
           plsq == p \o lsq
           wplsq == w \o plsq
           y == fl \o wplsq
<1>6. Spell(item) \o q = pct \o y
  BY <1>4, <1>5, Zenon DEF FromLeft, FromRight
<1>7. sq \in AtSpecifier
  BY <1>3, JoinedIs DEF AtSpecifier
<1> HIDE DEF sq
<1>8. lsq \in AtLength
  BY <1>3, <1>7, JoinedIs DEF AtLength
<1> HIDE DEF lsq
<1>9. plsq \in AtPrecision
  <2>1. lsq \in Seq(Symbol)
    BY <1>8, LengthFirst
  <2>2. CASE p = <<>>
    <3>1. plsq = lsq
      BY <2>1, <2>2, ConcatEmptySeq
    <3> QED
      BY <1>8, <3>1 DEF AtPrecision
  <2>3. CASE p # <<>>
    <3>1. p \in Joined({<<".">>}, FieldTexts)
      BY <2>3 DEF PrecisionTexts
    <3>2. PICK f \in FieldTexts : p = <<".">> \o f
      BY <3>1 DEF Joined
    <3> DEFINE dot == <<".">>
               rest == f \o lsq
    <3>3. dot \in Seq(Symbol) /\ f \in Seq(Symbol) /\ p = dot \o f
      BY <3>2, Apart, TextsType
    <3>4. rest \in AtPrecisionValue
      <4>1. f \in Seq(DigitCharacters) \/ f \in {<<"*">>}
        BY DEF FieldTexts
      <4> QED
        BY <1>8, <4>1, JoinedIs DEF AtPrecisionValue, AtPrecisionDigits
    <3>5. dot \in {<<".">>}
      OBVIOUS
    <3> HIDE DEF dot
    <3>6. plsq = dot \o rest
      BY <2>1, <3>3, ConcatAssociative
    <3> HIDE DEF rest, plsq
    <3> QED
      BY <3>4, <3>5, <3>6, JoinedIs DEF AtPrecision
  <2> QED
    BY <2>2, <2>3
<1> HIDE DEF plsq
<1>10. wplsq \in AtWidth
  <2>1. w \in Seq(DigitCharacters) \/ w \in {<<"*">>}
    BY DEF FieldTexts
  <2> QED
    BY <1>9, <2>1, JoinedIs DEF AtWidth, AtWidthDigits
<1> HIDE DEF wplsq
<1>11. y \in AtFlags
  BY <1>3, <1>10, JoinedIs DEF AtFlags
<1> HIDE DEF y
<1> QED
  BY <1>6, <1>11 DEF pct

\* The beginning of a format: nothing, a character that stands for itself, or a
\* directive.
LEMMA FormatCases ==
    ASSUME NEW x \in Formats
    PROVE  \/ x = <<>>
           \/ x # <<>> /\ Head(x) \notin {NUL, "%"} /\ Tail(x) \in Formats
           \/ x # <<>> /\ Head(x) = "%" /\ Tail(x) \in AtFlags
<1>1. PICK items \in Seq(Items) : x = Format(items)
  BY DEF Formats
<1>2. CASE items = <<>>
  <2>1. Format(<<>>) = FlattenSeq(<<>>)
    BY DEF Format
  <2> QED
    BY <1>1, <1>2, <2>1, FlattenEmpty
<1>3. CASE items # <<>>
  <2> DEFINE i == Head(items)
             q == Format(Tail(items))
  <2>1. i \in Items /\ q \in Formats /\ x = Spell(i) \o q
    BY <1>1, <1>3, FormatFirst DEF Formats
  <2> HIDE DEF i, q
  <2>2. q \in Seq(Symbol) /\ ItemOK(i)
    BY <2>1, FormatsType DEF Items
  <2>3. CASE i.kind = "text"
    <3>1. i.spec \notin {NUL, "%"} /\ i.spec \in Symbol /\ x = <<i.spec>> \o q
      BY <2>1, <2>2, <2>3, SpellsText DEF ItemOK, Symbol
    <3>2. x # <<>> /\ Head(x) = i.spec /\ Tail(x) = q
      BY <2>2, <3>1, OneInFront
    <3> QED
      BY <2>1, <3>1, <3>2
  <2>4. CASE i.kind = "directive"
    <3>1. DirectiveOK(i)
      BY <2>2, <2>4 DEF ItemOK
    <3>2. PICK y \in AtFlags : x = <<"%">> \o y
      BY <2>1, <2>4, <3>1, DirectiveLeads
    <3>3. x # <<>> /\ Head(x) = "%" /\ Tail(x) = y
      BY <3>2, Apart, FlagsFirst, OneInFront
    <3> QED
      BY <3>3
  <2> QED
    BY <2>2, <2>3, <2>4 DEF ItemOK
<1> QED
  BY <1>2, <1>3

-----------------------------------------------------------------------------
(***************************************************************************)
(* The parser keeps to the format.                                         *)
(***************************************************************************)
\* At each place of the parser what is left of the format begins with what the
\* place expects.
AtRest == pc \in {"scan", "digits", "pad", "hash", "sign", "out_rev"}
FormatKept ==
    /\ AtRest => format \in Formats
    /\ pc = "flags" => format \in AtFlags
    /\ pc = "width" => format \in AtWidth
    /\ pc = "width_digits" => format \in AtWidthDigits
    /\ pc = "precision" => format \in AtPrecision
    /\ pc = "precision_value" => format \in AtPrecisionValue
    /\ pc = "precision_digits" => format \in AtPrecisionDigits
    /\ pc = "length" => format \in AtLength
    /\ pc = "specifier" => format \in AtSpecifier
    /\ pc # "past"

LEMMA SkipOne ==
    ASSUME NEW A, format \in Seq(A), format # <<>>
    PROVE  Peek = Head(format) /\ (Skip(1) => format' = Tail(format))
<1>1. Tail(format) = SubSeq(format, 2, Len(format))
  BY TailIsSubSeq
<1> QED
  BY <1>1 DEF Peek, Skip

LEMMA SkipTwo ==
    ASSUME NEW A, NEW a \in A, NEW b \in A, NEW r \in Seq(A), format = <<a, b>> \o r, Skip(2)
    PROVE  format' = r
<1>1. Len(format) = Len(r) + 2 /\ \A i \in 1..Len(r) : format[i + 2] = r[i]
  OBVIOUS
<1>2. format' = SubSeq(format, 3, Len(format))
  BY DEF Skip
<1>3. \A i \in 3..Len(format) : format[i] \in A
  BY <1>1
<1>4. /\ format' \in Seq(A) /\ Len(format') = Len(r)
      /\ \A i \in 1..Len(r) : format'[i] = r[i]
  BY <1>1, <1>2, <1>3, SubSeqProperties
<1> QED
  BY <1>4, SeqEqual

LEMMA ScanKept == FormatKept /\ (Literal \/ Percent) => FormatKept'
<1> SUFFICES ASSUME FormatKept, Literal \/ Percent PROVE FormatKept'
  OBVIOUS
<1>1. format \in Formats /\ format \in Seq(Symbol)
  BY FormatsType DEF FormatKept, AtRest, Literal, Percent
<1>2. Peek = NUL \/ (format # <<>> /\ Peek = Head(format))
  BY DEF Peek
<1>3. CASE Literal
  <2>1. Peek \notin {NUL, "%"} /\ Skip(1) /\ pc' = "scan"
    BY <1>3 DEF Literal
  <2>2. format' \in Formats
    BY <1>1, <1>2, <2>1, FormatCases, SkipOne
  <2> QED
    BY <2>1, <2>2 DEF FormatKept, AtRest
<1>4. CASE Percent
  <2>1. Peek = "%" /\ Skip(1) /\ pc' = "flags"
    BY <1>4 DEF Percent
  <2>2. format' \in AtFlags
    BY <1>1, <1>2, <2>1, FormatCases, SkipOne, Apart
  <2> QED
    BY <2>1, <2>2 DEF FormatKept, AtRest
<1> QED
  BY <1>3, <1>4

LEMMA FlagsKept == FormatKept /\ Flags => FormatKept'
<1> SUFFICES ASSUME FormatKept, Flags PROVE FormatKept'
  OBVIOUS
<1>1. format \in AtFlags /\ format \in Seq(Symbol)
  BY FlagsFirst DEF FormatKept, Flags
<1>2. Peek = NUL \/ (format # <<>> /\ Peek = Head(format))
  BY DEF Peek
<1>3. CASE Peek \in DOMAIN FlagOf
  <2>1. Peek \in FlagCharacters /\ Skip(1) /\ pc' = "flags"
    BY <1>3, CharacterSets DEF Flags
  <2>2. format # <<>> /\ Head(format) \in FlagCharacters /\ format' = Tail(format)
    BY <1>1, <1>2, <2>1, SkipOne, Apart
  <2>3. ASSUME format \in AtWidth PROVE Tail(format) \in AtFlags
    <3>1. Head(format) \notin Specifiers \cup LengthCharacters \cup {".", "*"}
      BY <2>2, Apart
    <3>2. format \notin AtLength
      BY <3>1, LengthFirst
    <3>3. format \notin AtPrecision
      BY <3>1, <3>2, PrecisionFirst
    <3>4. Tail(format) \in AtWidthDigits
      BY <2>3, <3>1, <3>3, WidthFirst
    <3> QED
      BY <3>4, FlagsFirst DEF AtWidth
  <2>4. format' \in AtFlags
    BY <1>1, <2>2, <2>3, FlagsFirst
  <2> QED
    BY <2>1, <2>4 DEF FormatKept, AtRest
<1>4. CASE Peek \notin DOMAIN FlagOf
  <2>1. Peek \notin FlagCharacters /\ format' = format /\ pc' = "width"
    BY <1>4, CharacterSets DEF Flags
  <2>2. format' \in AtWidth
    BY <1>1, <2>1, FlagsFirst, SkipOne
  <2> QED
    BY <2>1, <2>2 DEF FormatKept, AtRest
<1> QED
  BY <1>3, <1>4

LEMMA WidthKept == FormatKept /\ Width => FormatKept'
<1> SUFFICES ASSUME FormatKept, Width PROVE FormatKept'
  OBVIOUS
<1>1. /\ format \in AtWidth /\ format \in Seq(Symbol)
      /\ pc = "width_digits" => format \in AtWidthDigits
  BY WidthFirst DEF FormatKept, Width, AtWidth
<1>2. Peek = NUL \/ (format # <<>> /\ Peek = Head(format))
  BY DEF Peek
<1>3. format \in AtPrecision => format # <<>> /\ Head(format) \in Specifiers \cup LengthCharacters \cup {"."}
  BY PrecisionFirst, LengthFirst
<1>4. CASE Peek \in DOMAIN DigitOf
  <2>1. Peek \in DigitCharacters /\ Skip(1) /\ pc' = "width_digits"
    <3>1. Peek # "*"
      BY <1>4, CharacterSets, Apart
    <3> QED
      BY <1>4, <3>1, CharacterSets DEF Width
  <2>2. format # <<>> /\ Head(format) \in DigitCharacters /\ format' = Tail(format)
    BY <1>1, <1>2, <2>1, SkipOne, Apart
  <2>3. format \notin AtPrecision /\ Head(format) # "*"
    BY <1>3, <2>2, Apart
  <2>4. format' \in AtWidthDigits
    BY <1>1, <2>2, <2>3, WidthFirst
  <2> QED
    BY <2>1, <2>4 DEF FormatKept, AtRest
<1>5. CASE pc = "width" /\ Peek = "*"
  <2>1. Skip(1) /\ pc' = "precision"
    BY <1>5, CharacterSets, Apart DEF Width
  <2>2. format # <<>> /\ Head(format) = "*" /\ format' = Tail(format)
    BY <1>1, <1>2, <1>5, <2>1, SkipOne, Apart
  <2>3. format \notin AtPrecision /\ Head(format) \notin DigitCharacters
    BY <1>3, <2>2, Apart
  <2>4. format' \in AtPrecision
    BY <1>1, <2>2, <2>3, WidthFirst
  <2> QED
    BY <2>1, <2>4 DEF FormatKept, AtRest
<1>6. CASE Peek \notin DOMAIN DigitOf /\ (pc = "width" => Peek # "*")
  <2>1. Peek \notin DigitCharacters /\ format' = format /\ pc' = "precision"
    BY <1>6, CharacterSets DEF Width
  <2>2. format \in AtWidthDigits
    <3>1. CASE pc = "width"
      BY <1>1, <1>6, <3>1, WidthFirst, SkipOne
    <3>2. CASE pc = "width_digits"
      BY <1>1, <3>2
    <3> QED
      BY <3>1, <3>2 DEF Width
  <2>3. format' \in AtPrecision
    BY <1>1, <2>1, <2>2, WidthFirst, SkipOne
  <2> QED
    BY <2>1, <2>3 DEF FormatKept, AtRest
<1> QED
  BY <1>4, <1>5, <1>6 DEF Width

LEMMA PrecisionKept == FormatKept /\ Precision => FormatKept'
<1> SUFFICES ASSUME FormatKept, Precision PROVE FormatKept'
  OBVIOUS
<1>1. format \in AtPrecision /\ format \in Seq(Symbol)
  BY PrecisionFirst DEF FormatKept, Precision
<1>2. Peek = NUL \/ (format # <<>> /\ Peek = Head(format))
  BY DEF Peek
<1>3. CASE Peek = "."
  <2>1. Skip(1) /\ pc' = "precision_value"
    BY <1>3 DEF Precision
  <2>2. format # <<>> /\ Head(format) = "." /\ format' = Tail(format)
    BY <1>1, <1>2, <1>3, <2>1, SkipOne, Apart
  <2>3. format \notin AtLength
    BY <2>2, LengthFirst, Apart
  <2>4. format' \in AtPrecisionValue
    BY <1>1, <2>2, <2>3, PrecisionFirst
  <2> QED
    BY <2>1, <2>4 DEF FormatKept, AtRest
<1>4. CASE Peek # "."
  <2>1. format' = format /\ pc' = "length"
    BY <1>4 DEF Precision
  <2>2. format' \in AtLength
    BY <1>1, <1>4, <2>1, PrecisionFirst, SkipOne
  <2> QED
    BY <2>1, <2>2 DEF FormatKept, AtRest
<1> QED
  BY <1>3, <1>4

LEMMA PrecisionValueKept == FormatKept /\ PrecisionValue => FormatKept'
<1> SUFFICES ASSUME FormatKept, PrecisionValue PROVE FormatKept'
  OBVIOUS
<1>1. /\ format \in AtPrecisionValue /\ format \in Seq(Symbol)
      /\ pc = "precision_digits" => format \in AtPrecisionDigits
  BY PrecisionValueFirst DEF FormatKept, PrecisionValue, AtPrecisionValue
<1>2. Peek = NUL \/ (format # <<>> /\ Peek = Head(format))
  BY DEF Peek
<1>3. format \in AtLength => format # <<>> /\ Head(format) \in Specifiers \cup LengthCharacters
  BY LengthFirst
<1>4. CASE Peek \in DOMAIN DigitOf
  <2>1. Peek \in DigitCharacters /\ Skip(1) /\ pc' = "precision_digits"
    <3>1. Peek # "*"
      BY <1>4, CharacterSets, Apart
    <3> QED
      BY <1>4, <3>1, CharacterSets DEF PrecisionValue
  <2>2. format # <<>> /\ Head(format) \in DigitCharacters /\ format' = Tail(format)
    BY <1>1, <1>2, <2>1, SkipOne, Apart
  <2>3. format \notin AtLength /\ Head(format) # "*"
    BY <1>3, <2>2, Apart
  <2>4. format' \in AtPrecisionDigits
    BY <1>1, <2>2, <2>3, PrecisionValueFirst
  <2> QED
    BY <2>1, <2>4 DEF FormatKept, AtRest
<1>5. CASE pc = "precision_value" /\ Peek = "*"
  <2>1. Skip(1) /\ pc' = "length"
    BY <1>5, CharacterSets, Apart DEF PrecisionValue
  <2>2. format # <<>> /\ Head(format) = "*" /\ format' = Tail(format)
    BY <1>1, <1>2, <1>5, <2>1, SkipOne, Apart
  <2>3. format \notin AtLength /\ Head(format) \notin DigitCharacters
    BY <1>3, <2>2, Apart
  <2>4. format' \in AtLength
    BY <1>1, <2>2, <2>3, PrecisionValueFirst
  <2> QED
    BY <2>1, <2>4 DEF FormatKept, AtRest
<1>6. CASE Peek \notin DOMAIN DigitOf /\ (pc = "precision_value" => Peek # "*")
  <2>1. Peek \notin DigitCharacters /\ format' = format /\ pc' = "length"
    BY <1>6, CharacterSets DEF PrecisionValue
  <2>2. format \in AtPrecisionDigits
    <3>1. CASE pc = "precision_value"
      BY <1>1, <1>6, <3>1, PrecisionValueFirst, SkipOne
    <3>2. CASE pc = "precision_digits"
      BY <1>1, <3>2
    <3> QED
      BY <3>1, <3>2 DEF PrecisionValue
  <2>3. format' \in AtLength
    BY <1>1, <2>1, <2>2, PrecisionValueFirst, SkipOne
  <2> QED
    BY <2>1, <2>3 DEF FormatKept, AtRest
<1> QED
  BY <1>4, <1>5, <1>6 DEF PrecisionValue

LEMMA LengthKept == FormatKept /\ Length => FormatKept'
<1> SUFFICES ASSUME FormatKept, Length PROVE FormatKept'
  OBVIOUS
<1>1. format \in AtLength /\ format \in Seq(Symbol) /\ pc' = "specifier"
  BY LengthFirst DEF FormatKept, Length
<1>2. PICK l \in LengthModifiers, r \in AtSpecifier : format = l \o r
  BY <1>1 DEF AtLength, Joined
<1>3. /\ r # <<>> /\ r \in Seq(Symbol) /\ Head(r) \in Symbol
      /\ Head(r) \notin LengthCharacters /\ r = <<Head(r)>> \o Tail(r) /\ Tail(r) \in Seq(Symbol)
  BY SpecifierFirst, HeadTailProperties, HeadInFront, Apart
<1>4. /\ "h" \in Symbol /\ "l" \in Symbol /\ "j" \in Symbol /\ "t" \in Symbol /\ "z" \in Symbol
      /\ "h" \in LengthCharacters /\ "l" \in LengthCharacters /\ "j" \in LengthCharacters
      /\ "t" \in LengthCharacters /\ "z" \in LengthCharacters
  BY DEF Symbol, LengthCharacters
<1>5. ASSUME l = <<>> PROVE format' \in AtSpecifier
  <2>1. format = r
    BY <1>2, <1>3, <1>5, ConcatEmptySeq
  <2>2. Peek \notin LengthCharacters
    BY <1>3, <2>1 DEF Peek
  <2>3. format' = format
    BY <1>4, <2>2 DEF Length
  <2> QED
    BY <2>1, <2>3
<1>6. ASSUME NEW c \in LengthCharacters, l = <<c>> PROVE Peek = c /\ ~Twice(c) /\ (Skip(1) => format' \in AtSpecifier)
  <2>1. c \in Symbol /\ format = <<c>> \o r
    BY <1>2, <1>6, Apart
  <2>2. format # <<>> /\ Head(format) = c /\ Tail(format) = r
    BY <1>3, <2>1, OneInFront
  <2>3. Peek = c /\ (Skip(1) => format' = r)
    BY <1>1, <2>2, SkipOne
  <2>4. format[2] = r[1] /\ r[1] = Head(r)
    BY <1>3, <2>1
  <2> QED
    BY <1>2, <1>3, <2>3, <2>4 DEF Twice
<1>7. ASSUME NEW c \in LengthCharacters, l = <<c, c>> PROVE Peek = c /\ Twice(c) /\ (Skip(2) => format' \in AtSpecifier)
  <2>1. c \in Symbol /\ format = <<c, c>> \o r
    BY <1>2, <1>7, Apart
  <2>2. format # <<>> /\ Head(format) = c /\ Len(format) > 1 /\ format[1] = c /\ format[2] = c
    BY <1>3, <2>1
  <2>3. Skip(2) => format' = r
    BY <1>3, <2>1, SkipTwo
  <2> QED
    BY <1>2, <2>2, <2>3 DEF Twice, Peek
<1>8. format' \in AtSpecifier
  <2>1. CASE l = <<>>
    BY <1>5, <2>1
  <2>2. ASSUME NEW c \in LengthCharacters, l = <<c>> PROVE format' \in AtSpecifier
    <3>1. Peek = c /\ ~Twice(c)
      BY <1>6, <2>2
    <3>2. Skip(1)
      BY <3>1 DEF Length, LengthCharacters
    <3> QED
      BY <1>6, <2>2, <3>2
  <2>3. ASSUME NEW c \in {"h", "l"}, l = <<c, c>> PROVE format' \in AtSpecifier
    <3>1. c \in LengthCharacters /\ Peek = c /\ Twice(c)
      BY <1>4, <1>7, <2>3
    <3>2. Skip(2)
      BY <3>1 DEF Length
    <3> QED
      BY <1>7, <2>3, <3>1, <3>2
  <2>4. l = <<>> \/ (\E c \in LengthCharacters : l = <<c>>) \/ (\E c \in {"h", "l"} : l = <<c, c>>)
    BY <1>2, <1>4 DEF LengthModifiers
  <2> QED
    BY <2>1, <2>2, <2>3, <2>4
<1> QED
  BY <1>1, <1>8 DEF FormatKept, AtRest

\* The specifier is there, and so the parser never leaves the format.
LEMMA ConvertKept == FormatKept /\ Convert => FormatKept'
<1> SUFFICES ASSUME FormatKept, Convert PROVE FormatKept'
  OBVIOUS
<1>1. CASE Integer \/ Pointer \/ String \/ Other
  <2>1. pc = "specifier" /\ Skip(1)
    BY <1>1 DEF Integer, Pointer, String, Other
  <2>2. format \in AtSpecifier /\ format \in Seq(Symbol) /\ format # <<>>
    BY <2>1, SpecifierFirst DEF FormatKept
  <2>3. format' \in Formats
    BY <2>1, <2>2, SkipOne, SpecifierFirst
  <2>4. pc' \in {"scan", "digits", "pad"}
    BY <1>1, <2>2 DEF Integer, Pointer, StartNumber, String, Other
  <2> QED
    BY <2>3, <2>4 DEF FormatKept, AtRest
<1>2. CASE Digit \/ Pad \/ Hash \/ Sign \/ OutRev
  <2>1. format' = format /\ AtRest
    BY <1>2 DEF Digit, Pad, Hash, Sign, OutRev, AtRest
  <2>2. pc' \in {"scan", "digits", "pad", "hash", "sign", "out_rev"}
    BY <1>2 DEF Digit, Pad, Hash, Sign, OutRev
  <2> QED
    BY <2>1, <2>2 DEF FormatKept, AtRest
<1> QED
  BY <1>1, <1>2 DEF Convert

LEMMA NextKept == FormatKept /\ [Next]_vars => FormatKept'
<1> SUFFICES ASSUME FormatKept, [Next]_vars PROVE FormatKept'
  OBVIOUS
<1>1. CASE Parse
  BY <1>1, ScanKept, FlagsKept, WidthKept, PrecisionKept, PrecisionValueKept, LengthKept DEF Parse
<1>2. CASE Convert
  BY <1>2, ConvertKept
<1>3. CASE Terminate
  BY <1>3 DEF Terminate, FormatKept, AtRest
<1>4. CASE UNCHANGED vars
  BY <1>4 DEF vars, FormatKept, AtRest
<1> QED
  BY <1>1, <1>2, <1>3, <1>4 DEF Next

\* The calls of a program: every item well formed, and cut short at most the last.
WellSpelt(c) ==
    /\ c.items \in Seq(UNION {{d.items[k] : k \in 1..Len(d.items)} : d \in Calls})
    /\ c.format = Format(c.items)
    /\ \A k \in 1..Len(c.items) : ItemOK(c.items[k]) \/ (k = Len(c.items) /\ c.items[k].kind = "cut")

NotCut == call.items = <<>> \/ call.items[Len(call.items)].kind # "cut"
CutOrKept == NotCut => FormatKept

\* No format of well-formed items is read beyond its end, whatever the flags, widths,
\* precisions, lengths and specifiers, and whatever stands between the directives,
\* unless the last one is cut short (_vsnprintf, _atoi, _strnlen_s of the format).
THEOREM FormatsAreReadInside ==
    ASSUME \A c \in Calls : WellSpelt(c)
    PROVE  Spec => []ReadsInsideFormat
<1>1. Init => CutOrKept
  <2> SUFFICES ASSUME Init, NotCut PROVE FormatKept
    BY DEF CutOrKept
  <2>1. call \in Calls /\ WellSpelt(call) /\ pc = "scan" /\ format = call.format
    BY DEF Init
  <2>2. Len(call.items) \in Nat /\ \A k \in 1..Len(call.items) : ItemOK(call.items[k]) /\ call.items[k] \in Items
    <3>1. Len(call.items) \in Nat
      BY <2>1, LenProperties DEF WellSpelt
    <3>2. ASSUME NEW k \in 1..Len(call.items) PROVE ItemOK(call.items[k])
      <4>1. call.items # <<>>
        BY <3>1
      <4> QED
        BY <2>1, <4>1 DEF WellSpelt, NotCut
    <3> QED
      BY <2>1, <3>1, <3>2 DEF Items
  <2>3. call.items \in Seq(Items)
    BY <2>1, <2>2 DEF WellSpelt
  <2>4. format \in Formats
    BY <2>1, <2>3 DEF Formats, WellSpelt
  <2> QED
    BY <2>1, <2>4 DEF FormatKept, AtRest
<1>2. CutOrKept /\ [Next]_vars => CutOrKept'
  <2> SUFFICES ASSUME CutOrKept, [Next]_vars PROVE CutOrKept'
    OBVIOUS
  <2>1. call' = call
    BY CallKept
  <2> QED
    BY <2>1, NextKept DEF CutOrKept, NotCut
<1>3. CutOrKept => ReadsInsideFormat
  BY DEF CutOrKept, NotCut, FormatKept, ReadsInsideFormat
<1> QED
  BY <1>1, <1>2, <1>3, PTL DEF Spec

-----------------------------------------------------------------------------
(***************************************************************************)
(* Numerals written and read.                                              *)
(***************************************************************************)
LEMMA NumeralLength ==
    ASSUME NEW base \in {2, 8, 10, 16}, NEW digits, NEW n \in Nat
    PROVE  /\ Numeral(n, base, digits) # <<>> /\ Len(Numeral(n, base, digits)) \in Nat \ {0}
           /\ n >= base => Len(Numeral(n, base, digits)) > 1
<1> DEFINE D == {digits[d] : d \in 1..base}
<1>1. \A d \in 1..base : digits[d] \in D
  OBVIOUS
<1> HIDE DEF D
<1>2. \A m \in Nat : Numeral(m, base, digits) \in Seq(D)
  BY <1>1, NumeralType
<1>3. CASE n < base
  <2>1. Numeral(n, base, digits) = <<digits[n + 1]>>
    BY <1>3, NumeralIs
  <2> QED
    BY <1>3, <2>1
<1>4. CASE ~(n < base)
  <2> DEFINE q == n \div base
             c == digits[(n % base) + 1]
  <2>1. q \in Nat /\ (n % base) + 1 \in 1..base
    BY <1>4, DivisionSmaller
  <2>2. Numeral(n, base, digits) = Append(Numeral(q, base, digits), c)
    BY <1>4, NumeralIs
  <2>3. Numeral(q, base, digits) \in Seq(D) /\ c \in D
    BY <1>1, <1>2, <2>1
  <2> HIDE DEF q, c
  <2>4. /\ Append(Numeral(q, base, digits), c) # <<>>
        /\ Len(Append(Numeral(q, base, digits), c)) = Len(Numeral(q, base, digits)) + 1
    BY <2>3, AppendProperties
  <2>5. Len(Numeral(q, base, digits)) \in Nat \ {0}
    <3>1. Numeral(q, base, digits) # <<>>
      <4>1. CASE q < base
        <5>1. Numeral(q, base, digits) = <<digits[q + 1]>>
          BY <2>1, <4>1, NumeralIs
        <5> QED
          BY <5>1
      <4>2. CASE ~(q < base)
        <5> DEFINE p == q \div base
                   e == digits[(q % base) + 1]
        <5>1. p \in Nat /\ (q % base) + 1 \in 1..base
          BY <2>1, <4>2, DivisionSmaller
        <5>2. Numeral(q, base, digits) = Append(Numeral(p, base, digits), e)
          BY <2>1, <4>2, NumeralIs
        <5>3. Numeral(p, base, digits) \in Seq(D) /\ e \in D
          BY <1>1, <1>2, <5>1
        <5> QED
          BY <5>2, <5>3, AppendProperties
      <4> QED
        BY <4>1, <4>2
    <3> QED
      BY <2>3, <3>1, EmptySeq
  <2> QED
    BY <2>2, <2>4, <2>5
<1> QED
  BY <1>3, <1>4

\* What the parser needs to know of the digits of a base: they are told apart.
Distinct(digits, base) == \A c, d \in 1..base : digits[c] = digits[d] => c = d

LEMMA DigitsDistinct == Distinct(LowerDigits, 10)
<1>1. \A c \in 1..10 : c \in {1, 2, 3, 4, 5, 6, 7, 8, 9, 10}
  OBVIOUS
<1> QED
  BY <1>1 DEF Distinct, LowerDigits

LEMMA NumeralInjective ==
    ASSUME NEW digits, Distinct(digits, 10)
    PROVE  \A m, n \in Nat : Numeral(m, 10, digits) = Numeral(n, 10, digits) => m = n
<1> DEFINE N(n) == Numeral(n, 10, digits)
           D == {digits[d] : d \in 1..10}
           S == {n \in Nat : \A m \in Nat : N(m) = N(n) => m = n}
<1>1. \A d \in 1..10 : digits[d] \in D
  OBVIOUS
<1> HIDE DEF D
<1>2. \A m \in Nat : N(m) \in Seq(D) /\ (m >= 10 => Len(N(m)) > 1)
  BY <1>1, NumeralType, NumeralLength
<1>3. \A m \in Nat : N(m) = IF m < 10 THEN <<digits[m + 1]>> ELSE Append(N(m \div 10), digits[(m % 10) + 1])
  BY NumeralIs
<1> HIDE DEF N
<1>4. ASSUME NEW n \in Nat, \A i \in 0..(n - 1) : i \in S, NEW m \in Nat, N(m) = N(n) PROVE m = n
  <2>1. CASE n < 10
    <3>1. Len(N(n)) = 1 /\ N(n)[1] = digits[n + 1]
      BY <1>3, <2>1
    <3>2. m < 10
      <4>1. m >= 10 => Len(N(m)) > 1
        BY <1>2
      <4>2. Len(N(m)) = 1
        BY <1>4, <3>1
      <4> QED
        BY <4>1, <4>2
    <3>3. N(m)[1] = digits[m + 1]
      BY <1>3, <3>2
    <3>4. m + 1 \in 1..10 /\ n + 1 \in 1..10
      BY <2>1, <3>2
    <3>5. m + 1 = n + 1
      BY <1>4, <3>1, <3>3, <3>4 DEF Distinct
    <3> QED
      BY <3>5
  <2>2. CASE ~(n < 10)
    <3>1. ~(m < 10)
      <4> SUFFICES ASSUME m < 10 PROVE FALSE
        OBVIOUS
      <4>1. Len(N(m)) = 1
        BY <1>3
      <4> QED
        BY <1>2, <1>4, <2>2, <4>1
    <3> DEFINE q == n \div 10
               p == m \div 10
               d == (n % 10) + 1
               e == (m % 10) + 1
    <3>2. /\ q \in 0..(n - 1) /\ q \in Nat /\ p \in Nat /\ d \in 1..10 /\ e \in 1..10
          /\ n = 10 * q + (d - 1) /\ m = 10 * p + (e - 1)
      BY <2>2, <3>1
    <3>3. N(n) = Append(N(q), digits[d]) /\ N(m) = Append(N(p), digits[e])
      BY <1>3, <2>2, <3>1
    <3> HIDE DEF q, p, d, e
    <3>4. N(q) \in Seq(D) /\ N(p) \in Seq(D) /\ digits[d] \in D /\ digits[e] \in D
      BY <1>1, <1>2, <3>2
    <3>5. N(q) = N(p) /\ digits[d] = digits[e]
      BY <1>4, <3>3, <3>4, AppendInjective
    <3>6. p = q
      BY <1>4, <3>2, <3>5
    <3>7. d = e
      BY <3>2, <3>5 DEF Distinct
    <3> QED
      BY <3>2, <3>6, <3>7
  <2> QED
    BY <2>1, <2>2
<1>5. Nat \subseteq S
  <2>1. \A n \in Nat : (\A i \in 0..(n - 1) : i \in S) => n \in S
    BY <1>4
  <2> HIDE DEF S
  <2> QED
    BY <2>1, NatStrongInduction
<1> QED
  BY <1>5 DEF N

\* A number without a leading zero, unless it is zero.
LEMMA NumeralLeads ==
    ASSUME NEW base \in {2, 8, 10, 16}, NEW digits, Distinct(digits, base)
    PROVE  \A n \in Nat \ {0} : Head(Numeral(n, base, digits)) # digits[1]
<1> DEFINE N(n) == Numeral(n, base, digits)
           D == {digits[d] : d \in 1..base}
           S == {n \in Nat : n # 0 => Head(N(n)) # digits[1]}
<1>1. \A d \in 1..base : digits[d] \in D
  OBVIOUS
<1> HIDE DEF D
<1>2. \A m \in Nat : N(m) \in Seq(D) /\ N(m) # <<>>
  BY <1>1, NumeralType, NumeralLength
<1>3. \A m \in Nat : N(m) = IF m < base THEN <<digits[m + 1]>> ELSE Append(N(m \div base), digits[(m % base) + 1])
  BY NumeralIs
<1> HIDE DEF N
<1>4. ASSUME NEW n \in Nat, \A i \in 0..(n - 1) : i \in S, n # 0 PROVE Head(N(n)) # digits[1]
  <2>1. CASE n < base
    <3>1. Head(N(n)) = digits[n + 1]
      BY <1>3, <2>1
    <3>2. n + 1 \in 1..base /\ 1 \in 1..base /\ n + 1 # 1
      BY <1>4, <2>1
    <3> QED
      BY <3>1, <3>2 DEF Distinct
  <2>2. CASE ~(n < base)
    <3> DEFINE q == n \div base
               c == digits[(n % base) + 1]
    <3>1. q \in 0..(n - 1) /\ q \in Nat /\ q # 0 /\ (n % base) + 1 \in 1..base
      BY <2>2, DivisionSmaller
    <3>2. N(n) = Append(N(q), c)
      BY <1>3, <2>2
    <3>3. Head(N(q)) # digits[1]
      BY <1>4, <3>1
    <3> HIDE DEF q, c
    <3>4. Head(Append(N(q), c)) = Head(N(q))
      BY <1>2, <3>1, HeadTailAppend
    <3> QED
      BY <3>2, <3>3, <3>4
  <2> QED
    BY <2>1, <2>2
<1>5. Nat \subseteq S
  <2>1. \A n \in Nat : (\A i \in 0..(n - 1) : i \in S) => n \in S
    BY <1>4
  <2> HIDE DEF S
  <2> QED
    BY <2>1, NatStrongInduction
<1> QED
  BY <1>5 DEF N

\* The decimal numerals: what Atoi reads is what Numeral writes.
Decimal(n) == Numeral(n, 10, LowerDigits)

LEMMA DecimalType ==
    /\ \A n \in Nat : Decimal(n) \in Seq(DigitCharacters) /\ Decimal(n) # <<>>
    /\ \A n \in Nat \ {0} : Head(Decimal(n)) # "0"
    /\ \A m, n \in Nat : Decimal(m) = Decimal(n) => m = n
<1>1. \A d \in 1..10 : LowerDigits[d] \in DigitCharacters
  BY CharacterSets
<1>2. \A n \in Nat : Numeral(n, 10, LowerDigits) \in Seq(DigitCharacters)
  BY <1>1, NumeralType
<1>3. \A n \in Nat : Numeral(n, 10, LowerDigits) # <<>>
  BY NumeralLength
<1>4. \A n \in Nat \ {0} : Head(Numeral(n, 10, LowerDigits)) # LowerDigits[1]
  BY DigitsDistinct, NumeralLeads
<1>5. \A m, n \in Nat : Numeral(m, 10, LowerDigits) = Numeral(n, 10, LowerDigits) => m = n
  BY DigitsDistinct, NumeralInjective
<1>6. LowerDigits[1] = "0"
  BY DEF LowerDigits
<1> QED
  BY <1>2, <1>3, <1>4, <1>5, <1>6 DEF Decimal

LEMMA DecimalInjective ==
    ASSUME NEW m \in Nat, NEW n \in Nat, Decimal(m) = Decimal(n)
    PROVE  m = n
  BY DecimalType

LEMMA DecimalIs ==
    \A n \in Nat : Decimal(n) = IF n < 10 THEN <<LowerDigits[n + 1]>>
                                ELSE Append(Decimal(n \div 10), LowerDigits[(n % 10) + 1])
  BY NumeralIs DEF Decimal

LEMMA AppendParts ==
    ASSUME NEW A
    PROVE  \A s, t \in Seq(A) : \A c, d \in A : Append(s, c) = Append(t, d) => s = t /\ c = d
  BY AppendInjective

\* A beginning of a decimal is the decimal of a smaller number.
LEMMA DecimalBegins ==
    \A n \in Nat : \A s, t \in Seq(DigitCharacters) :
        s # <<>> /\ Decimal(n) = s \o t => \E m \in 0..n : s = Decimal(m)
<1> DEFINE N(n) == Decimal(n)
           D == DigitCharacters
           digits == LowerDigits
           S == {n \in Nat : \A s, t \in Seq(D) : s # <<>> /\ N(n) = s \o t => \E m \in 0..n : s = N(m)}
<1>1. \A d \in 1..10 : digits[d] \in D
  BY CharacterSets
<1>2. \A m \in Nat : N(m) \in Seq(D) /\ N(m) # <<>>
  BY DecimalType
<1>3. \A m \in Nat : N(m) = IF m < 10 THEN <<digits[m + 1]>> ELSE Append(N(m \div 10), digits[(m % 10) + 1])
  BY DecimalIs
<1> HIDE DEF N, D, digits
<1>4. ASSUME NEW n \in Nat, \A i \in 0..(n - 1) : i \in S,
             NEW s \in Seq(D), NEW t \in Seq(D), s # <<>>, N(n) = s \o t
      PROVE  \E m \in 0..n : s = N(m)
  <2>1. CASE t = <<>>
    <3>1. s = N(n)
      BY <1>4, <2>1, ConcatEmptySeq
    <3> QED
      BY <3>1
  <2>2. CASE t # <<>>
    <3>1. PICK u \in Seq(D), c \in D : t = Append(u, c)
      BY <2>2, SequenceEmptyOrAppend
    <3> DEFINE w == s \o u
    <3>2. N(n) = Append(w, c) /\ w \in Seq(D)
      <4>1. t = u \o <<c>> /\ <<c>> \in Seq(D)
        BY <3>1, AppendIsConcat
      <4>2. s \o (u \o <<c>>) = (s \o u) \o <<c>> /\ s \o u \in Seq(D)
        BY <4>1, ConcatAssociative, ConcatProperties
      <4>3. Append(s \o u, c) = (s \o u) \o <<c>>
        BY <4>2, AppendIsConcat
      <4> QED
        BY <1>4, <4>1, <4>2, <4>3
    <3>3. w # <<>>
      BY <1>4, ConcatEqualIffEmpty
    <3>4. ~(n < 10)
      <4> HIDE DEF w
      <4>1. Len(w) \in Nat \ {0}
        BY <3>2, <3>3, EmptySeq
      <4>2. Len(Append(w, c)) = Len(w) + 1
        BY <3>2, AppendProperties
      <4>3. Len(Append(w, c)) # 1
        BY <4>1, <4>2
      <4>4. n < 10 => Len(N(n)) = 1
        BY <1>3
      <4> QED
        BY <3>2, <4>3, <4>4
    <3> DEFINE q == n \div 10
               d == digits[(n % 10) + 1]
    <3>5. q \in 0..(n - 1) /\ q \in Nat /\ (n % 10) + 1 \in 1..10
      BY <3>4
    <3>6. N(n) = Append(N(q), d) /\ d \in D
      BY <1>1, <1>3, <3>4, <3>5
    <3> HIDE DEF q, d, w
    <3>7. N(q) = w
      <4>1. Append(N(q), d) = Append(w, c) /\ N(q) \in Seq(D)
        BY <1>2, <3>2, <3>5, <3>6
      <4>2. \A x \in Seq(D) : Append(x, d) = Append(w, c) => x = w
        BY <3>2, <3>6, AppendParts
      <4> QED
        BY <4>1, <4>2
    <3>8. \E m \in 0..q : s = N(m)
      BY <1>4, <3>5, <3>7 DEF w
    <3> QED
      BY <3>5, <3>8
  <2> QED
    BY <2>1, <2>2
<1>5. Nat \subseteq S
  <2>1. \A n \in Nat : (\A i \in 0..(n - 1) : i \in S) => n \in S
    BY <1>4
  <2> HIDE DEF S
  <2> QED
    BY <2>1, NatStrongInduction
<1> QED
  BY <1>5 DEF N, D

LEMMA DigitOfIs == \A c \in DigitCharacters : DigitOf[c] \in 0..9 /\ LowerDigits[DigitOf[c] + 1] = c
<1> SUFFICES ASSUME NEW c \in DigitCharacters PROVE DigitOf[c] \in 0..9 /\ LowerDigits[DigitOf[c] + 1] = c
  OBVIOUS
<1>1. c \in {LowerDigits[d + 1] : d \in 0..9}
  BY CharacterSets DEF DigitOf
<1>2. DigitOf[c] = CHOOSE d \in 0..9 : LowerDigits[d + 1] = c
  BY <1>1 DEF DigitOf
<1> QED
  BY <1>1, <1>2

\* One round of _atoi over a numeral of which m is read and d is left: the number
\* read stays below the number written, and so fits an unsigned int.
ReadTo(n, m, d) == Decimal(n) = Decimal(m) \o d

LEMMA AtoiStarts ==
    ASSUME NEW n \in 0..SizeMax
    PROVE  LET d == Decimal(n) IN
               /\ Head(d) \in DigitCharacters /\ Tail(d) \in Seq(DigitCharacters)
               /\ ReadTo(n, (10 * 0 + DigitOf[Head(d)]) % 2^IntBits, Tail(d))
<1> DEFINE d == Decimal(n)
           h == Head(d)
           v == DigitOf[h]
<1>1. n \in Nat /\ SizeMax \in Nat /\ 2^IntBits = SizeMax + 1
  BY Sizes DEF SizeMax
<1>2. d \in Seq(DigitCharacters) /\ d # <<>>
  BY <1>1, DecimalType
<1>3. h \in DigitCharacters /\ Tail(d) \in Seq(DigitCharacters) /\ d = <<h>> \o Tail(d)
  BY <1>2, HeadTailProperties, HeadInFront
<1>4. v \in 0..9 /\ LowerDigits[v + 1] = h
  BY <1>3, DigitOfIs
<1>5. Decimal(v) = <<h>>
  <2>1. \A m \in Nat : m < 10 => Decimal(m) = <<LowerDigits[m + 1]>>
    BY NumeralIs DEF Decimal
  <2> HIDE DEF v
  <2> QED
    BY <1>4, <2>1
<1>6. v <= n
  <2>1. <<h>> \in Seq(DigitCharacters) /\ <<h>> # <<>>
    BY <1>3
  <2> DEFINE s == <<h>>
             t == Tail(d)
  <2>2. Decimal(n) = s \o t
    BY <1>3
  <2> HIDE DEF s, t, d, h, v
  <2>3. s \in Seq(DigitCharacters) /\ t \in Seq(DigitCharacters) /\ s # <<>>
    BY <1>3, <2>1 DEF s, t
  <2>4. \E m \in 0..n : s = Decimal(m)
    BY <1>1, <2>2, <2>3, DecimalBegins
  <2>5. PICK m \in 0..n : Decimal(v) = Decimal(m)
    BY <1>5, <2>4 DEF s
  <2>6. v \in Nat /\ m \in Nat
    BY <1>1, <1>4, <2>5
  <2>7. v = m
    BY <2>5, <2>6, DecimalInjective
  <2> QED
    BY <2>7
<1>7. (10 * 0 + v) % 2^IntBits = v
  <2> HIDE DEF v
  <2> QED
    BY <1>1, <1>4, <1>6
<1> QED
  BY <1>3, <1>5, <1>7 DEF ReadTo

LEMMA AtoiGoesOn ==
    ASSUME NEW n \in 0..SizeMax, NEW m \in Nat, NEW d \in Seq(DigitCharacters), d # <<>>, ReadTo(n, m, d)
    PROVE  /\ Head(d) \in DigitCharacters /\ Tail(d) \in Seq(DigitCharacters)
           /\ ReadTo(n, (10 * m + DigitOf[Head(d)]) % 2^IntBits, Tail(d))
<1> DEFINE h == Head(d)
           t == Tail(d)
           v == DigitOf[h]
           s == Append(Decimal(m), h)
<1>1. n \in Nat /\ SizeMax \in Nat /\ 2^IntBits = SizeMax + 1
  BY Sizes DEF SizeMax
<1>2. h \in DigitCharacters /\ t \in Seq(DigitCharacters) /\ d = <<h>> \o t
  BY HeadTailProperties, HeadInFront
<1>3. v \in 0..9 /\ LowerDigits[v + 1] = h
  BY <1>2, DigitOfIs
<1>4. Decimal(m) \in Seq(DigitCharacters) /\ Decimal(m) # <<>>
  BY DecimalType
<1> HIDE DEF h, t, v
<1>5. s \in Seq(DigitCharacters) /\ s # <<>> /\ s = Decimal(m) \o <<h>> /\ <<h>> \in Seq(DigitCharacters)
  BY <1>2, <1>4, AppendProperties, AppendIsConcat
<1>6. Decimal(n) = s \o t
  <2>1. Decimal(n) = Decimal(m) \o (<<h>> \o t)
    BY <1>2 DEF ReadTo
  <2>2. (Decimal(m) \o <<h>>) \o t = Decimal(m) \o (<<h>> \o t)
    BY <1>2, <1>4, <1>5, ConcatAssociative
  <2> QED
    BY <1>5, <2>1, <2>2
<1>7. PICK k \in 0..n : s = Decimal(k)
  <2> HIDE DEF s
  <2>1. Decimal(n) = s \o t
    BY <1>6
  <2>2. \E k \in 0..n : s = Decimal(k)
    BY <1>1, <1>2, <1>5, <2>1, DecimalBegins
  <2> QED
    BY <2>2
<1>8. k = 10 * m + v
  <2>1. \A j \in Nat : Decimal(j) = IF j < 10 THEN <<LowerDigits[j + 1]>>
                                    ELSE Append(Decimal(j \div 10), LowerDigits[(j % 10) + 1])
    BY NumeralIs DEF Decimal
  <2>2. k \in Nat /\ Len(s) > 1
    <3>1. Len(s) = Len(Decimal(m)) + 1 /\ Len(Decimal(m)) \in Nat \ {0}
      BY <1>2, <1>4, AppendProperties, EmptySeq
    <3> QED
      BY <1>1, <3>1
  <2>3. ~(k < 10)
    <3> SUFFICES ASSUME k < 10 PROVE FALSE
      OBVIOUS
    <3>1. Len(Decimal(k)) = 1
      BY <2>1, <2>2
    <3> QED
      BY <1>7, <2>2, <3>1
  <2> DEFINE q == k \div 10
             e == (k % 10) + 1
  <2>4. q \in Nat /\ e \in 1..10 /\ k = 10 * q + (e - 1)
    BY <2>2, <2>3
  <2>5. Decimal(k) = Append(Decimal(q), LowerDigits[e])
    BY <2>1, <2>2, <2>3
  <2> HIDE DEF q, e
  <2>6. Decimal(q) \in Seq(DigitCharacters) /\ LowerDigits[e] \in DigitCharacters
    BY <2>4, DecimalType, CharacterSets
  <2>7. Decimal(q) = Decimal(m) /\ LowerDigits[e] = h
    <3>1. Append(Decimal(q), LowerDigits[e]) = Append(Decimal(m), h)
      BY <1>7, <2>5
    <3> QED
      BY <1>2, <1>4, <2>6, <3>1, AppendParts
  <2>8. q = m
    BY <2>4, <2>7, DecimalInjective
  <2>9. e = v + 1
    <3>1. v + 1 \in 1..10
      BY <1>3
    <3> QED
      BY <1>3, <2>4, <2>7, <3>1, DigitsDistinct DEF Distinct
  <2> QED
    BY <1>3, <2>4, <2>8, <2>9
<1>9. (10 * m + v) % 2^IntBits = k
  BY <1>1, <1>8
<1>10. ReadTo(n, (10 * m + v) % 2^IntBits, t)
  BY <1>6, <1>7, <1>9 DEF ReadTo
<1> QED
  BY <1>2, <1>10 DEF h, t, v

\* Nothing left: the number is read.
LEMMA AtoiEnds == ASSUME NEW n \in Nat, NEW m \in Nat, ReadTo(n, m, <<>>) PROVE m = n
<1>1. Decimal(m) \o <<>> = Decimal(m)
  BY DecimalType, ConcatEmptySeq
<1> QED
  BY <1>1, DecimalType DEF ReadTo
-----------------------------------------------------------------------------
(***************************************************************************)
(* The text is what was asked for.                                         *)
(*                                                                         *)
(* The invariant says what is still to come: at each place of the parser   *)
(* the rest of the item in hand, of its arguments and of the items behind  *)
(* it, and, written in front, the part of the promise they do not cover.   *)
(***************************************************************************)
Printable == Character \ {NUL}

\* Widths are written without a leading zero, which would be a flag, and both fields
\* fit an unsigned int.
FieldIn(f, least) ==
    \/ f = NotGiven
    \/ \E n \in least..SizeMax : f = Given(n)
    \/ \E n \in (-SizeMax)..SizeMax : f = Starred(n)
ArgumentOK(item) ==
    item.kind = "directive" =>
        FieldIn(item.width, 1) /\ FieldIn(item.precision, 0) /\ item.arg \in Argument

\* The items of calls whose text is promised.
Asked == {i \in Items : Supported(i) /\ ArgumentOK(i)}

\* The parts of a directive and of its arguments.
Field(f) == CASE f.form = "none" -> <<>>
              [] f.form = "digits" -> Numeral(f.n, 10, LowerDigits)
              [] f.form = "star" -> <<"*">>
PrecisionText(item) == IF item.precision.form = "none" THEN <<>> ELSE <<".">> \o Field(item.precision)
Stars(f) == IF f.form = "star" THEN <<Num(f.n)>> ELSE <<>>
OwnArgument(item) == IF item.spec # "%" THEN <<item.arg>> ELSE <<>>

\* What is left of a format, r, and of the arguments, a, from each part on.
FromSpecifier(item, r) == <<item.spec>> \o r
FromLength(item, r) == item.length \o FromSpecifier(item, r)
FromPrecision(item, r) == PrecisionText(item) \o FromLength(item, r)
FromWidth(item, r) == Field(item.width) \o FromPrecision(item, r)
OwnOnwards(item, a) == OwnArgument(item) \o a
PrecisionOnwards(item, a) == Stars(item.precision) \o OwnOnwards(item, a)
WidthOnwards(item, a) == Stars(item.width) \o PrecisionOnwards(item, a)

\* The flags after each part.
FlagsOf(s) == {FlagOf[s[k]] : k \in 1..Len(s)}
WidthFlags(item) == FlagsOf(item.flags) \cup (IF item.width.n < 0 THEN {"LEFT"} ELSE {})
PrecisionFlags(item) ==
    WidthFlags(item) \cup (IF item.precision.form # "none" THEN {"PRECISION"} ELSE {})
LengthFlags(l) == CASE l = <<"h">> -> {"SHORT"}
                    [] l = <<"h", "h">> -> {"SHORT", "CHAR"}
                    [] l \in {<<"l">>, <<"t">>, <<"z">>} -> {"LONG"}
                    [] l = <<"l", "l">> -> {"LONG", "LONG_LONG"}
                    [] l = <<"j">> -> {"LONG_LONG"}
                    [] OTHER -> {}

\* The parser inside an item.
Parsing(item, r, a) ==
    \/ /\ pc = "flags" /\ width = 0 /\ precision = 0
       /\ va = WidthOnwards(item, a)
       /\ \E f \in Seq(FlagCharacters) :
             /\ format = f \o FromWidth(item, r)
             /\ flags \cup FlagsOf(f) = FlagsOf(item.flags)
    \/ /\ pc = "width" /\ width = 0 /\ precision = 0
       /\ flags = FlagsOf(item.flags)
       /\ format = FromWidth(item, r) /\ va = WidthOnwards(item, a)
    \/ /\ pc = "width_digits" /\ precision = 0
       /\ flags = FlagsOf(item.flags) /\ item.width.form = "digits"
       /\ \E d \in Seq(DigitCharacters) :
             /\ format = d \o FromPrecision(item, r)
             /\ Numeral(item.width.n, 10, LowerDigits) = Numeral(width, 10, LowerDigits) \o d
       /\ va = PrecisionOnwards(item, a)
    \/ /\ pc = "precision" /\ width = FieldWidth(item) /\ precision = 0
       /\ flags = WidthFlags(item)
       /\ format = FromPrecision(item, r) /\ va = PrecisionOnwards(item, a)
    \/ /\ pc = "precision_value" /\ width = FieldWidth(item) /\ precision = 0
       /\ flags = PrecisionFlags(item) /\ item.precision.form # "none"
       /\ format = Field(item.precision) \o FromLength(item, r) /\ va = PrecisionOnwards(item, a)
    \/ /\ pc = "precision_digits" /\ width = FieldWidth(item)
       /\ flags = PrecisionFlags(item) /\ item.precision.form = "digits"
       /\ \E d \in Seq(DigitCharacters) :
             /\ format = d \o FromLength(item, r)
             /\ Numeral(item.precision.n, 10, LowerDigits) = Numeral(precision, 10, LowerDigits) \o d
       /\ va = OwnOnwards(item, a)
    \/ /\ pc = "length" /\ width = FieldWidth(item) /\ precision = item.precision.n
       /\ flags = PrecisionFlags(item)
       /\ format = FromLength(item, r) /\ va = OwnOnwards(item, a)
    \/ /\ pc = "specifier" /\ width = FieldWidth(item) /\ precision = item.precision.n
       /\ flags = PrecisionFlags(item) \cup LengthFlags(item.length)
       /\ format = FromSpecifier(item, r) /\ va = OwnOnwards(item, a)

\* The flags of an integer and of a pointer, as they steer _ntoa_format.
Flagged(flag, condition) == flag \in flags <=> condition
IntegerFlags(item) ==
    /\ Flagged("LEFT", LeftAligned(item))
    /\ Flagged("ZEROPAD", Has(item, "0") /\ item.precision.form = "none")
    /\ Flagged("PRECISION", item.precision.form # "none")
    /\ Flagged("PLUS", Signed(item.spec) /\ Has(item, "+"))
    /\ Flagged("SPACE", Signed(item.spec) /\ Has(item, " "))
    /\ Flagged("HASH", Has(item, "#") /\ item.spec \in {"x", "X", "o", "b"} /\ Magnitude(item) # 0)
    /\ Flagged("UPPERCASE", item.spec = "X")
PointerFlags ==
    /\ {"ZEROPAD", "UPPERCASE"} \subseteq flags
    /\ flags \cap {"LEFT", "PRECISION", "PLUS", "SPACE", "HASH"} = {}

\* The text in the array after each stage of a conversion.
SignWidth(item) == IF Signed(item.spec) THEN Len(Prefix(item)) ELSE 0
PadWidth(item) == IF ZeroFilled(item) /\ FieldWidth(item) > 0 THEN FieldWidth(item) - SignWidth(item)
                                                             ELSE FieldWidth(item)
Digits(item) == IF item.precision.form # "none" /\ Magnitude(item) = 0 THEN <<>> ELSE NumeralOf(item)
Padded(item) ==
    IF LeftAligned(item) THEN Digits(item)
    ELSE IF ZeroFilled(item) THEN Repeat("0", PadWidth(item) - Len(Digits(item))) \o Digits(item)
    ELSE Precise(item)
Hashed(item) ==
    IF Signed(item.spec)
    THEN (IF ZeroFilled(item) THEN Repeat("0", PadWidth(item) - Len(Precise(item))) ELSE <<>>) \o Precise(item)
    ELSE NumberText(item)

\* The digits of v not yet in the array are those of what is left of it.
DigitsLeft(v) ==
    LET digits == IF "UPPERCASE" \in flags THEN UpperDigits ELSE LowerDigits
    IN  Numeral(v, number.base, digits) = Numeral(number.value, number.base, digits) \o Reverse(buf)

\* What the flags and the number say of the item in hand.
IntegerItem(item) == item \in Asked /\ item.kind = "directive" /\ item.spec \in IntegerSpecs
OfItem(item) ==
    /\ IntegerItem(item) /\ IntegerFlags(item)
    /\ number.base = BaseOf(item.spec) /\ number.negative = (Value(item) < 0)
    /\ precision = item.precision.n
OfPointer(item) ==
    /\ item.spec = "p" /\ PointerFlags
    /\ number.base = 16 /\ ~number.negative
    /\ width = IntBits \div 4 /\ precision = 0

\* The stages of the conversion.
IntegerStage(item) ==
    \/ pc = "digits" /\ width = FieldWidth(item) /\ DigitsLeft(Magnitude(item)) /\ Digits(item) # <<>>
    \/ pc = "pad" /\ width = FieldWidth(item) /\ Reverse(buf) = Digits(item)
    \/ pc = "hash" /\ width = PadWidth(item) /\ Reverse(buf) = Padded(item)
    \/ pc = "sign" /\ width = PadWidth(item) /\ Reverse(buf) = Hashed(item)
    \/ pc = "out_rev" /\ width = PadWidth(item) /\ Reverse(buf) = NumberText(item)
PointerStage(item) ==
    \/ pc = "digits" /\ DigitsLeft(AsUnsigned(item.arg.n, IntBits))
    \/ pc = "pad" /\ Reverse(buf) = Numeral(AsUnsigned(item.arg.n, IntBits), 16, UpperDigits)
    \/ pc \in {"hash", "sign", "out_rev"} /\ Reverse(buf) = PointerText(item)

Converting(item) ==
    \/ OfItem(item) /\ IntegerStage(item)
    \/ OfPointer(item) /\ PointerStage(item)

\* The output so far is t.
Output(t) ==
    /\ idx = Len(t)
    /\ out \in {"_out_char", "_out_fct"} => sent = t
    /\ out = "_out_buffer" => \A k \in DOMAIN buffer : k \in 0..(Len(t) - 1) /\ buffer[k] = t[k + 1]

\* All of the promise but r is written.
Written(r) == \E t \in Seq(Printable) : Promise(call.items) = t \o r /\ Output(t)

Between(rest) ==
    /\ pc = "scan"
    /\ format = Format(rest) /\ va = Passed(rest) /\ Written(Promise(rest))
Inside(item, rest) ==
    /\ item.kind = "directive"
    /\ \/ Parsing(item, Format(rest), Passed(rest))
       \/ Converting(item) /\ format = Format(rest) /\ va = Passed(rest)
    /\ Written(Meaning(item) \o Promise(rest))

SupportedCall == \A k \in 1..Len(call.items) : Supported(call.items[k])
TextKept ==
    SupportedCall =>
        \/ \E rest \in Seq(Asked) : Between(rest)
        \/ \E item \in Asked : \E rest \in Seq(Asked) : Inside(item, rest)
        \/ pc = "done" /\ TextAsAsked

-----------------------------------------------------------------------------
(***************************************************************************)
(* Items one after the other.                                              *)
(***************************************************************************)
Mapped(F, items) == FlattenSeq([k \in 1..Len(items) |-> F[items[k]]])

LEMMA MappedType ==
    ASSUME NEW A, NEW D, NEW F \in [D -> Seq(A)], NEW items \in Seq(D)
    PROVE  /\ [k \in 1..Len(items) |-> F[items[k]]] \in Seq(Seq(A))
           /\ Mapped(F, items) \in Seq(A)
<1>1. Len(items) \in Nat /\ \A k \in 1..Len(items) : items[k] \in D
  BY LenProperties, ElementOfSeq
<1>2. [k \in 1..Len(items) |-> F[items[k]]] \in Seq(Seq(A))
  BY <1>1
<1> QED
  BY <1>2, FlattenType DEF Mapped

LEMMA MappedFirst ==
    ASSUME NEW A, NEW D, NEW F \in [D -> Seq(A)], NEW items \in Seq(D), items # <<>>
    PROVE  /\ Head(items) \in D /\ Tail(items) \in Seq(D)
           /\ Mapped(F, items) = F[Head(items)] \o Mapped(F, Tail(items))
<1> DEFINE i == Head(items)
           rest == Tail(items)
           Texts(s) == [k \in 1..Len(s) |-> F[s[k]]]
           one == <<F[i]>>
           others == Texts(rest)
           all == one \o others
<1>1. /\ i \in D /\ rest \in Seq(D) /\ Len(rest) = Len(items) - 1 /\ Len(items) \in Nat \ {0}
      /\ \A k \in 1..Len(rest) : rest[k] = items[k + 1]
      /\ items[1] = i
  BY HeadTailProperties, EmptySeq
<1>2. F[i] \in Seq(A) /\ one \in Seq(Seq(A)) /\ Len(one) = 1 /\ one[1] = F[i]
  BY <1>1
<1>3. Texts(rest) \in Seq(Seq(A)) /\ Texts(items) \in Seq(Seq(A))
  BY <1>1, MappedType
<1> HIDE DEF i, rest, one
<1>4. /\ Len(Texts(rest)) = Len(rest) /\ \A k \in 1..Len(rest) : Texts(rest)[k] = F[rest[k]]
      /\ Len(Texts(items)) = Len(items) /\ \A k \in 1..Len(items) : Texts(items)[k] = F[items[k]]
  BY <1>1, LenProperties
<1> HIDE DEF Texts
<1>5. others \in Seq(Seq(A)) /\ Len(others) = Len(rest) /\ \A k \in 1..Len(rest) : others[k] = F[rest[k]]
  BY <1>3, <1>4 DEF others
<1> HIDE DEF others
<1>6. /\ all \in Seq(Seq(A)) /\ Len(all) = 1 + Len(others)
      /\ \A k \in 1..(1 + Len(others)) : all[k] = IF k <= 1 THEN one[k] ELSE others[k - 1]
  <2>1. \A s, t \in Seq(Seq(A)) :
           /\ s \o t \in Seq(Seq(A)) /\ Len(s \o t) = Len(s) + Len(t)
           /\ \A k \in 1..(Len(s) + Len(t)) : (s \o t)[k] = IF k <= Len(s) THEN s[k] ELSE t[k - Len(s)]
    BY ConcatProperties
  <2>2. /\ all \in Seq(Seq(A)) /\ Len(all) = Len(one) + Len(others)
        /\ \A k \in 1..(Len(one) + Len(others)) : all[k] = IF k <= Len(one) THEN one[k] ELSE others[k - Len(one)]
    BY <1>2, <1>5, <2>1 DEF all
  <2> QED
    BY <1>2, <2>2
<1> HIDE DEF all
<1>7. ASSUME NEW k \in 1..Len(items) PROVE Texts(items)[k] = all[k]
  <2>1. CASE k = 1
    BY <1>1, <1>2, <1>4, <1>5, <1>6, <2>1
  <2>2. CASE k # 1
    <3>1. k - 1 \in 1..Len(rest) /\ (k - 1) + 1 = k
      BY <1>1, <2>2
    <3>2. items[k] = rest[k - 1]
      BY <1>1, <3>1
    <3>3. all[k] = others[k - 1]
      BY <1>1, <1>5, <1>6, <2>2
    <3> QED
      BY <1>4, <1>5, <3>1, <3>2, <3>3
  <2> QED
    BY <2>1, <2>2
<1>8. Len(Texts(items)) = Len(all) /\ \A k \in 1..Len(Texts(items)) : Texts(items)[k] = all[k]
  BY <1>1, <1>4, <1>5, <1>6, <1>7
<1>9. Texts(items) = all
  BY <1>3, <1>6, <1>8, SeqEqual
<1>10. FlattenSeq(all) = F[i] \o FlattenSeq(others)
  BY <1>2, <1>5, FlattenFirst DEF one, all
<1> QED
  BY <1>1, <1>9, <1>10 DEF Mapped, Texts, i, rest, others

-----------------------------------------------------------------------------
(***************************************************************************)
(* What an item consists of.                                               *)
(***************************************************************************)
LEMMA FieldValue ==
    ASSUME NEW f, NEW least \in Nat, FieldIn(f, least)
    PROVE  /\ f.form \in {"none", "digits", "star"} /\ f.n \in Int
           /\ f.form = "none" => f.n = 0 /\ Field(f) = <<>>
           /\ f.form = "digits" => f.n \in least..SizeMax /\ Field(f) = Decimal(f.n) /\ f.n \in Nat
           /\ f.form = "star" => f.n \in (-SizeMax)..SizeMax /\ Field(f) = <<"*">>
           /\ FieldOK(f) /\ Field(f) \in FieldTexts
<1>1. SizeMax \in Nat
  BY Sizes
<1>2. CASE f = NotGiven
  <2>1. f.form = "none" /\ f.n = 0
    BY <1>2 DEF NotGiven
  <2>2. Field(f) = <<>> /\ <<>> \in Seq(DigitCharacters)
    BY <2>1, EmptySeq DEF Field
  <2> QED
    BY <2>1, <2>2 DEF FieldOK, FieldTexts
<1>3. ASSUME NEW n \in least..SizeMax, f = Given(n)
      PROVE  /\ f.form = "digits" /\ f.n = n /\ n \in Nat /\ Field(f) = Decimal(n)
             /\ FieldOK(f) /\ Field(f) \in FieldTexts
  <2>1. f.form = "digits" /\ f.n = n /\ n \in Nat
    BY <1>1, <1>3 DEF Given
  <2>2. Field(f) = Decimal(n)
    BY <2>1 DEF Field, Decimal
  <2> QED
    BY <2>1, <2>2, DecimalType DEF FieldOK, FieldTexts
<1>4. ASSUME NEW n \in (-SizeMax)..SizeMax, f = Starred(n)
      PROVE  /\ f.form = "star" /\ f.n = n /\ n \in Int /\ Field(f) = <<"*">>
             /\ FieldOK(f) /\ Field(f) \in FieldTexts
  <2>1. f.form = "star" /\ f.n = n /\ n \in Int
    BY <1>1, <1>4 DEF Starred
  <2>2. Field(f) = <<"*">>
    BY <2>1 DEF Field
  <2> QED
    BY <2>1, <2>2 DEF FieldOK, FieldTexts
<1> QED
  BY <1>2, <1>3, <1>4, <1>1 DEF FieldIn, NotGiven, Field, FieldOK, FieldTexts

\* A directive with what follows it.
Ready(item, r, a) ==
    /\ item \in Asked /\ item.kind = "directive"
    /\ r \in Formats /\ a \in Seq(Argument)

LEMMA ReadyIs ==
    ASSUME NEW item, NEW r, NEW a, Ready(item, r, a)
    PROVE  /\ DirectiveOK(item) /\ Supported(item) /\ item \in Items
           /\ FieldIn(item.width, 1) /\ FieldIn(item.precision, 0)
           /\ item.arg \in Argument /\ item.arg.n \in Int /\ item.arg.s \in Seq(Character)
           /\ item.flags \in Seq(FlagCharacters) /\ item.length \in LengthModifiers
           /\ item.spec \in Specifiers /\ item.spec \in Character
           /\ r \in Formats /\ r \in Seq(Symbol) /\ a \in Seq(Argument)
<1>1. /\ DirectiveOK(item) /\ Supported(item) /\ item \in Items
      /\ FieldIn(item.width, 1) /\ FieldIn(item.precision, 0) /\ item.arg \in Argument
  BY DEF Ready, Asked, Items, ItemOK, ArgumentOK
<1>2. item.arg.n \in Int /\ item.arg.s \in Seq(Character)
  BY <1>1 DEF Argument
<1>3. r \in Formats /\ r \in Seq(Symbol) /\ a \in Seq(Argument)
  BY FormatsType DEF Ready
<1> QED
  BY <1>1, <1>2, <1>3 DEF DirectiveOK, Specifiers

LEMMA PrecisionTextType ==
    ASSUME NEW item, FieldIn(item.precision, 0) PROVE PrecisionText(item) \in PrecisionTexts
<1>1. Field(item.precision) \in FieldTexts
  BY FieldValue
<1> QED
  BY <1>1, JoinedIs DEF PrecisionText, PrecisionTexts

\* What is left of a directive is what the parser expects.
LEMMA FromTypes ==
    ASSUME NEW item, NEW r, NEW a, Ready(item, r, a)
    PROVE  /\ FromSpecifier(item, r) \in AtSpecifier /\ FromSpecifier(item, r) \in Seq(Symbol)
           /\ FromLength(item, r) \in AtLength /\ FromLength(item, r) \in Seq(Symbol)
           /\ FromPrecision(item, r) \in AtPrecision /\ FromPrecision(item, r) \in Seq(Symbol)
           /\ FromWidth(item, r) \in Seq(Symbol)
<1>1. /\ item.length \in LengthModifiers /\ item.spec \in Specifiers /\ r \in Formats
      /\ FieldIn(item.width, 1) /\ FieldIn(item.precision, 0)
  BY ReadyIs
<1>2. FromSpecifier(item, r) \in AtSpecifier
  BY <1>1, JoinedIs DEF FromSpecifier, AtSpecifier
<1>3. FromLength(item, r) \in AtLength
  BY <1>1, <1>2, JoinedIs DEF FromLength, AtLength
<1> DEFINE l == FromLength(item, r)
<1>4. l \in AtLength /\ l \in Seq(Symbol)
  BY <1>3, LengthFirst
<1>5. FromPrecision(item, r) = PrecisionText(item) \o l
  BY DEF FromPrecision
<1> HIDE DEF l
<1>6. FromPrecision(item, r) \in AtPrecision
  <2>1. CASE item.precision.form = "none"
    <3>1. PrecisionText(item) \o l = l
      BY <1>4, <2>1, ConcatEmptySeq DEF PrecisionText
    <3> QED
      BY <1>4, <1>5, <3>1 DEF AtPrecision
  <2>2. CASE item.precision.form # "none"
    <3> DEFINE f == Field(item.precision)
               dot == <<".">>
               v == f \o l
    <3>1. f \in Seq(DigitCharacters) \/ f \in {<<"*">>}
      BY <1>1, FieldValue DEF FieldTexts
    <3>2. f \in Seq(Symbol) /\ dot \in Seq(Symbol) /\ dot \in {<<".">>}
      BY <1>1, FieldValue, TextsType, Apart
    <3>3. PrecisionText(item) = dot \o f
      BY <2>2 DEF PrecisionText
    <3> HIDE DEF f, dot
    <3>4. v \in AtPrecisionValue
      BY <1>4, <3>1, JoinedIs DEF AtPrecisionValue, AtPrecisionDigits
    <3>5. FromPrecision(item, r) = dot \o v
      BY <1>4, <1>5, <3>2, <3>3, ConcatAssociative
    <3> HIDE DEF v
    <3>6. dot \o v \in Joined({<<".">>}, AtPrecisionValue)
      BY <3>2, <3>4, JoinedIs
    <3> QED
      BY <3>5, <3>6 DEF AtPrecision
  <2> QED
    BY <2>1, <2>2
<1>7. FromPrecision(item, r) \in Seq(Symbol)
  BY <1>6, PrecisionFirst
<1>8. FromWidth(item, r) \in Seq(Symbol)
  <2>1. Field(item.width) \in Seq(Symbol)
    BY <1>1, FieldValue, TextsType
  <2> QED
    BY <1>7, <2>1, ConcatProperties DEF FromWidth
<1>9. FromSpecifier(item, r) \in Seq(Symbol)
  BY <1>2, SpecifierFirst
<1> QED
  BY <1>2, <1>3, <1>4, <1>6, <1>7, <1>8, <1>9 DEF l

\* A directive in front of a rest, and its arguments.
LEMMA DirectiveSpells ==
    ASSUME NEW item, NEW r, NEW a, Ready(item, r, a)
    PROVE  Spell(item) \o r = <<"%">> \o (item.flags \o FromWidth(item, r))
<1> DEFINE s == <<item.spec>>
           l == item.length
           p == PrecisionText(item)
           w == Field(item.width)
           fl == item.flags
           pct == <<"%">>
<1>1. /\ s \in Seq(Symbol) /\ l \in Seq(Symbol) /\ p \in Seq(Symbol) /\ w \in Seq(Symbol)
      /\ fl \in Seq(Symbol) /\ pct \in Seq(Symbol) /\ r \in Seq(Symbol)
  <2>1. /\ item.spec \in Symbol /\ "%" \in Symbol /\ Seq(FlagCharacters) \subseteq Seq(Symbol)
        /\ FieldIn(item.width, 1) /\ FieldIn(item.precision, 0)
        /\ item.length \in LengthModifiers /\ item.flags \in Seq(FlagCharacters) /\ r \in Seq(Symbol)
    BY ReadyIs, Apart, SeqWider
  <2>2. s \in Seq(Symbol) /\ pct \in Seq(Symbol)
    BY <2>1
  <2>3. w \in Seq(Symbol) /\ p \in Seq(Symbol)
    BY <2>1, FieldValue, TextsType, PrecisionTextType
  <2> QED
    BY <2>1, <2>2, <2>3, ModifiersType
<1>2. Spell(item) = ((((pct \o fl) \o w) \o p) \o l) \o s
  <2>1. item.kind = "directive"
    BY DEF Ready
  <2> QED
    BY <2>1 DEF Spell, Field, PrecisionText
<1>3. Spell(item) \o r = (((((pct \o fl) \o w) \o p) \o l) \o s) \o r
  BY <1>2
<1>4. pct \o (fl \o (w \o (p \o (l \o (s \o r))))) = pct \o (fl \o FromWidth(item, r))
  BY DEF FromWidth, FromPrecision, FromLength, FromSpecifier
<1> HIDE DEF s, l, p, w, fl, pct
<1>5. FromLeft(pct, fl, w, p, l, s, r) = FromRight(pct, fl, w, p, l, s, r)
  <2>1. AllSequences(pct, fl, w, p, l, s, r, Symbol)
    BY <1>1 DEF AllSequences
  <2> QED
    BY <2>1, Regroup
<1>6. Spell(item) \o r = pct \o (fl \o FromWidth(item, r))
  BY <1>3, <1>4, <1>5, Zenon DEF FromLeft, FromRight
<1> QED
  BY <1>6 DEF pct, fl

LEMMA OnwardsType ==
    ASSUME NEW item, NEW r, NEW a, Ready(item, r, a)
    PROVE  /\ OwnOnwards(item, a) \in Seq(Argument) /\ PrecisionOnwards(item, a) \in Seq(Argument)
           /\ WidthOnwards(item, a) \in Seq(Argument)
           /\ Arguments(item) \in Seq(Argument) /\ Arguments(item) \o a = WidthOnwards(item, a)
<1>1. ASSUME NEW f, NEW least \in Nat, FieldIn(f, least) PROVE Stars(f) \in Seq(Argument)
  <2>1. Num(f.n) \in Argument
    <3>1. f.n \in Int /\ <<>> \in Seq(Character)
      BY <1>1, FieldValue, EmptySeq
    <3> QED
      BY <3>1 DEF Num, Argument
  <2>2. <<Num(f.n)>> \in Seq(Argument) /\ <<>> \in Seq(Argument)
    BY <2>1, EmptySeq
  <2> QED
    BY <2>2 DEF Stars
<1>2. Stars(item.width) \in Seq(Argument) /\ Stars(item.precision) \in Seq(Argument)
  BY <1>1, ReadyIs
<1>3. OwnArgument(item) \in Seq(Argument) /\ a \in Seq(Argument)
  <2>1. item.arg \in Argument /\ a \in Seq(Argument)
    BY ReadyIs
  <2>2. <<item.arg>> \in Seq(Argument) /\ <<>> \in Seq(Argument)
    BY <2>1, EmptySeq
  <2> QED
    BY <2>1, <2>2 DEF OwnArgument
<1> DEFINE w == Stars(item.width)
           p == Stars(item.precision)
           o == OwnArgument(item)
<1>4. Arguments(item) = (w \o p) \o o
  <2>1. item.kind = "directive"
    BY DEF Ready
  <2> QED
    BY <2>1 DEF Arguments, Stars, OwnArgument
<1>5. WidthOnwards(item, a) = w \o (p \o (o \o a)) /\ PrecisionOnwards(item, a) = p \o (o \o a)
      /\ OwnOnwards(item, a) = o \o a
  BY DEF WidthOnwards, PrecisionOnwards, OwnOnwards
<1>6. w \in Seq(Argument) /\ p \in Seq(Argument) /\ o \in Seq(Argument)
  BY <1>2, <1>3
<1> HIDE DEF w, p, o
<1> DEFINE wp == Joint(w, p)
           oa == Joint(o, a)
           poa == Joint(p, oa)
<1>7. wp \in Seq(Argument) /\ oa \in Seq(Argument) /\ poa \in Seq(Argument) /\ Joint(w, poa) \in Seq(Argument)
      /\ Joint(wp, o) \in Seq(Argument)
  BY <1>3, <1>6, JointProperties
<1>8. Joint(Joint(wp, o), a) = Joint(wp, oa)
  BY <1>3, <1>6, <1>7, JointProperties
<1>9. Joint(Joint(w, p), oa) = Joint(w, poa)
  BY <1>6, <1>7, JointProperties
<1> QED
  BY <1>4, <1>5, <1>7, <1>8, <1>9 DEF Joint

-----------------------------------------------------------------------------
(***************************************************************************)
(* The parser reads a directive.                                           *)
(***************************************************************************)
LEMMA FlagsOfParts ==
    /\ FlagsOf(<<>>) = {}
    /\ \A f \in Seq(FlagCharacters) : f # <<>> =>
          /\ Head(f) \in FlagCharacters /\ Tail(f) \in Seq(FlagCharacters)
          /\ FlagsOf(f) = {FlagOf[Head(f)]} \cup FlagsOf(Tail(f))
<1>1. FlagsOf(<<>>) = {}
  BY DEF FlagsOf
<1>2. ASSUME NEW f \in Seq(FlagCharacters), f # <<>>
      PROVE  /\ Head(f) \in FlagCharacters /\ Tail(f) \in Seq(FlagCharacters)
             /\ FlagsOf(f) = {FlagOf[Head(f)]} \cup FlagsOf(Tail(f))
  <2> DEFINE t == Tail(f)
  <2>1. /\ Head(f) = f[1] /\ Head(f) \in FlagCharacters /\ t \in Seq(FlagCharacters)
        /\ Len(f) \in Nat \ {0} /\ Len(t) = Len(f) - 1 /\ \A k \in 1..Len(t) : t[k] = f[k + 1]
    BY <1>2, HeadTailProperties, EmptySeq
  <2> HIDE DEF t
  <2>2. ASSUME NEW k \in 1..Len(f) PROVE FlagOf[f[k]] \in {FlagOf[Head(f)]} \cup FlagsOf(t)
    <3>1. CASE k = 1
      BY <2>1, <3>1
    <3>2. CASE k # 1
      <4>1. k - 1 \in 1..Len(t) /\ t[k - 1] = f[k]
        BY <2>1, <3>2
      <4> QED
        BY <4>1 DEF FlagsOf
    <3> QED
      BY <3>1, <3>2
  <2>3. ASSUME NEW k \in 1..Len(t) PROVE FlagOf[t[k]] \in FlagsOf(f)
    <3>1. k + 1 \in 1..Len(f) /\ t[k] = f[k + 1]
      BY <2>1
    <3> QED
      BY <3>1 DEF FlagsOf
  <2>4. 1 \in 1..Len(f) /\ FlagOf[Head(f)] \in FlagsOf(f)
    BY <2>1 DEF FlagsOf
  <2>5. FlagsOf(f) \subseteq {FlagOf[Head(f)]} \cup FlagsOf(t)
    BY <2>2 DEF FlagsOf
  <2>6. FlagsOf(t) \subseteq FlagsOf(f)
    BY <2>3 DEF FlagsOf
  <2> QED
    BY <2>1, <2>4, <2>5, <2>6 DEF t
<1> QED
  BY <1>1, <1>2

\* What the next character tells about the field it begins.
LEMMA DigitsBegin ==
    \A d \in Seq(DigitCharacters) : \A r \in Seq(Symbol) : d # <<>> =>
        /\ d \o r \in Seq(Symbol) /\ d \o r # <<>>
        /\ Head(d) \in DigitCharacters /\ Tail(d) \in Seq(DigitCharacters)
        /\ Head(d \o r) = Head(d) /\ Tail(d \o r) = Tail(d) \o r
<1> SUFFICES ASSUME NEW d \in Seq(DigitCharacters), NEW r \in Seq(Symbol), d # <<>>
             PROVE  /\ d \o r \in Seq(Symbol) /\ d \o r # <<>>
                    /\ Head(d) \in DigitCharacters /\ Tail(d) \in Seq(DigitCharacters)
                    /\ Head(d \o r) = Head(d) /\ Tail(d \o r) = Tail(d) \o r
  OBVIOUS
<1>1. Head(d) \in DigitCharacters /\ Tail(d) \in Seq(DigitCharacters)
  BY HeadTailProperties
<1>2. d \in Seq(Symbol)
  BY SeqWider, Apart
<1> QED
  BY <1>1, <1>2, FirstOf, ConcatProperties

LEMMA StarBegins ==
    \A r \in Seq(Symbol) :
        /\ <<"*">> \o r \in Seq(Symbol) /\ <<"*">> \o r # <<>>
        /\ Head(<<"*">> \o r) = "*" /\ Tail(<<"*">> \o r) = r
  BY OneInFront, Apart

LEMMA FromHeads ==
    ASSUME NEW item, NEW r, NEW a, Ready(item, r, a)
    PROVE  /\ FromLength(item, r) # <<>> /\ Head(FromLength(item, r)) \in Specifiers \cup LengthCharacters
           /\ FromPrecision(item, r) # <<>>
           /\ item.precision.form = "none" => FromPrecision(item, r) = FromLength(item, r)
           /\ item.precision.form # "none" =>
                 /\ Head(FromPrecision(item, r)) = "."
                 /\ Tail(FromPrecision(item, r)) = Field(item.precision) \o FromLength(item, r)
           /\ FromWidth(item, r) # <<>> /\ Head(FromWidth(item, r)) \notin FlagCharacters
           /\ item.width.form = "none" => FromWidth(item, r) = FromPrecision(item, r)
<1> DEFINE l == FromLength(item, r)
           p == FromPrecision(item, r)
<1>1. FieldIn(item.width, 1) /\ FieldIn(item.precision, 0)
  BY ReadyIs
<1>2. l \in Seq(Symbol) /\ l # <<>> /\ Head(l) \in Specifiers \cup LengthCharacters
  BY FromTypes, LengthFirst
<1>3. item.precision.form = "none" => p = l
  <2>1. item.precision.form = "none" => p = <<>> \o l
    BY DEF FromPrecision, PrecisionText
  <2> HIDE DEF l, p
  <2> QED
    BY <1>2, <2>1, ConcatEmptySeq
<1>4. item.precision.form # "none" => p # <<>> /\ Head(p) = "." /\ Tail(p) = Field(item.precision) \o l
  <2> DEFINE f == Field(item.precision)
             dot == <<".">>
             v == f \o l
  <2>1. item.precision.form # "none" => p = (dot \o f) \o l
    BY DEF FromPrecision, PrecisionText
  <2>2. dot \in Seq(Symbol) /\ f \in Seq(Symbol)
    BY <1>1, FieldValue, TextsType, Apart
  <2> HIDE DEF l, p, f
  <2>3. v \in Seq(Symbol)
    BY <1>2, <2>2, ConcatProperties
  <2>4. (dot \o f) \o l = dot \o v
    <3> HIDE DEF dot
    <3> QED
      BY <1>2, <2>2, ConcatAssociative
  <2> HIDE DEF v
  <2>5. dot \o v # <<>> /\ Head(dot \o v) = "." /\ Tail(dot \o v) = v
    BY <2>3, OneInFront, Apart
  <2> QED
    BY <2>1, <2>4, <2>5 DEF v, f
<1>5. p \in Seq(Symbol) /\ p # <<>> /\ Head(p) \in Specifiers \cup LengthCharacters \cup {"."}
  <2>1. p \in Seq(Symbol)
    BY FromTypes
  <2> HIDE DEF l, p
  <2> QED
    BY <1>2, <1>3, <1>4, <2>1
<1>6. item.width.form = "none" => FromWidth(item, r) = p
  <2>1. item.width.form = "none" => FromWidth(item, r) = <<>> \o p
    BY DEF FromWidth, Field
  <2> HIDE DEF l, p
  <2> QED
    BY <1>5, <2>1, ConcatEmptySeq
<1>7. FromWidth(item, r) # <<>> /\ Head(FromWidth(item, r)) \notin FlagCharacters
  <2>1. FromWidth(item, r) = Field(item.width) \o p
    BY DEF FromWidth
  <2> HIDE DEF l, p
  <2>2. CASE item.width.form = "none"
    BY <1>5, <1>6, <2>2, Apart
  <2>3. CASE item.width.form = "digits"
    <3>1. item.width.n \in Nat \ {0} /\ Field(item.width) = Decimal(item.width.n)
      BY <1>1, <2>3, FieldValue
    <3> DEFINE d == Decimal(item.width.n)
    <3>2. d \in Seq(DigitCharacters) /\ d # <<>> /\ Head(d) # "0"
      BY <3>1, DecimalType
    <3>3. FromWidth(item, r) = d \o p
      BY <2>1, <3>1
    <3> HIDE DEF d
    <3>4. Head(d) \in DigitCharacters /\ d \o p # <<>> /\ Head(d \o p) = Head(d)
      BY <1>5, <3>2, DigitsBegin
    <3>5. Head(d) \notin FlagCharacters
      BY <3>2, <3>4 DEF DigitCharacters, FlagCharacters
    <3> QED
      BY <3>3, <3>4, <3>5
  <2>4. CASE item.width.form = "star"
    <3>1. Field(item.width) = <<"*">>
      BY <1>1, <2>4, FieldValue
    <3>2. <<"*">> \o p # <<>> /\ Head(<<"*">> \o p) = "*"
      BY <1>5, StarBegins
    <3> QED
      BY <2>1, <3>1, <3>2, Apart
  <2> QED
    BY <1>1, <2>2, <2>3, <2>4, FieldValue
<1> QED
  BY <1>2, <1>3, <1>4, <1>5, <1>6, <1>7

LEMMA ReadsPercent ==
    ASSUME NEW item, NEW r, NEW a, Ready(item, r, a),
           pc = "scan", format = Spell(item) \o r, va = WidthOnwards(item, a), Percent
    PROVE  Parsing(item, r, a)'
<1> DEFINE f == item.flags
           w == FromWidth(item, r)
           fw == f \o w
<1>1. f \in Seq(FlagCharacters) /\ f \in Seq(Symbol) /\ w \in Seq(Symbol)
  BY ReadyIs, FromTypes, SeqWider, Apart
<1>2. format = <<"%">> \o fw
  BY DirectiveSpells
<1>3. f \o w = f \o FromWidth(item, r)
  OBVIOUS
<1> HIDE DEF f, w
<1>4. fw \in Seq(Symbol)
  BY <1>1, ConcatProperties
<1> HIDE DEF fw
<1>5. format \in Seq(Symbol) /\ format # <<>> /\ Tail(format) = fw
  BY <1>2, <1>4, OneInFront, Apart
<1>6. format' = fw
  BY <1>5, SkipOne DEF Percent
<1>7. \E g \in Seq(FlagCharacters) :
          format' = g \o FromWidth(item, r) /\ flags' \cup FlagsOf(g) = FlagsOf(item.flags)
  <2>1. flags' = {}
    BY DEF Percent
  <2>2. f \in Seq(FlagCharacters) /\ format' = f \o FromWidth(item, r)
    BY <1>1, <1>6 DEF fw, w
  <2>3. flags' \cup FlagsOf(f) = FlagsOf(item.flags)
    BY <2>1 DEF f
  <2> QED
    BY <2>2, <2>3
<1>8. pc' = "flags" /\ width' = 0 /\ precision' = 0 /\ va' = WidthOnwards(item, a)
  BY DEF Percent
<1> QED
  BY <1>7, <1>8 DEF Parsing

LEMMA ReadsFlags ==
    ASSUME NEW item, NEW r, NEW a, Ready(item, r, a), Parsing(item, r, a), Flags
    PROVE  Parsing(item, r, a)'
<1> DEFINE w == FromWidth(item, r)
<1>1. w \in Seq(Symbol) /\ w # <<>> /\ Head(w) \notin FlagCharacters
  BY FromTypes, FromHeads
<1>2. pc = "flags" /\ width = 0 /\ precision = 0 /\ va = WidthOnwards(item, a)
      /\ width' = width /\ precision' = precision /\ va' = va
  BY DEF Parsing, Flags
<1>3. PICK f \in Seq(FlagCharacters) : format = f \o w /\ flags \cup FlagsOf(f) = FlagsOf(item.flags)
  BY <1>2 DEF Parsing
<1>4. CASE f = <<>>
  <2>1. format = w
    <3> HIDE DEF w
    <3> QED
      BY <1>1, <1>3, <1>4, ConcatEmptySeq
  <2>2. Peek \notin DOMAIN FlagOf
    BY <1>1, <2>1, SkipOne, CharacterSets
  <2>3. format' = w /\ flags' = flags /\ pc' = "width"
    BY <2>1, <2>2 DEF Flags
  <2>4. flags' = FlagsOf(item.flags)
    BY <1>3, <1>4, <2>3, FlagsOfParts
  <2> QED
    BY <1>2, <2>3, <2>4 DEF Parsing
<1>5. CASE f # <<>>
  <2> DEFINE t == Tail(f)
             c == Head(f)
  <2>1. c \in FlagCharacters /\ t \in Seq(FlagCharacters) /\ FlagsOf(f) = {FlagOf[c]} \cup FlagsOf(t)
    BY <1>5, FlagsOfParts
  <2>2. format \in Seq(Symbol) /\ format # <<>> /\ Head(format) = c /\ Tail(format) = t \o w
    <3>1. f \in Seq(Symbol)
      BY SeqWider, Apart
    <3> HIDE DEF w
    <3> QED
      BY <1>1, <1>3, <1>5, <3>1, FirstOf, ConcatProperties
  <2> HIDE DEF t, c
  <2>3. Peek = c /\ c \in DOMAIN FlagOf
    BY <2>1, <2>2, SkipOne, CharacterSets
  <2>4. Skip(1) /\ flags' = flags \cup {FlagOf[c]} /\ pc' = "flags"
    BY <1>2, <2>3 DEF Flags
  <2>5. format' = t \o w
    BY <2>2, <2>4, SkipOne
  <2>6. flags' \cup FlagsOf(t) = FlagsOf(item.flags)
    BY <1>3, <2>1, <2>4
  <2>7. \E g \in Seq(FlagCharacters) :
            format' = g \o FromWidth(item, r) /\ flags' \cup FlagsOf(g) = FlagsOf(item.flags)
    BY <2>1, <2>5, <2>6 DEF w
  <2> QED
    BY <1>2, <2>4, <2>7 DEF Parsing
<1> QED
  BY <1>4, <1>5

\* The value of a field given as an argument.
LEMMA StarValue ==
    ASSUME NEW n \in (-SizeMax)..SizeMax
    PROVE  /\ n >= 0 => n % 2^IntBits = n
           /\ n < 0 => (-n) % 2^IntBits = -n
<1>1. \A m \in 0..SizeMax : m % 2^IntBits = m
  <2>1. 2^IntBits \in Nat \ {0} /\ SizeMax = 2^IntBits - 1
    BY Sizes DEF SizeMax
  <2> DEFINE b == 2^IntBits
  <2> HIDE DEF b
  <2>2. \A m \in 0..(b - 1) : b \in Nat \ {0} => m % b = m
    OBVIOUS
  <2> QED
    BY <2>1, <2>2 DEF b
<1> QED
  BY <1>1, Sizes

LEMMA StarGiven ==
    ASSUME NEW n \in Int, NEW rest \in Seq(Argument)
    PROVE  /\ <<Num(n)>> \o rest # <<>>
           /\ Head(<<Num(n)>> \o rest).n = n /\ Tail(<<Num(n)>> \o rest) = rest
<1>1. Num(n) \in Argument /\ Num(n).n = n
  <2>1. <<>> \in Seq(Character)
    BY EmptySeq
  <2> QED
    BY <2>1 DEF Num, Argument
<1> QED
  BY <1>1, OneInFront

\* The arguments of a field.
LEMMA OnwardsIs ==
    ASSUME NEW item, NEW r, NEW a, Ready(item, r, a)
    PROVE  /\ item.width.form # "star" => WidthOnwards(item, a) = PrecisionOnwards(item, a)
           /\ item.width.form = "star" =>
                 /\ WidthOnwards(item, a) # <<>> /\ Head(WidthOnwards(item, a)).n = item.width.n
                 /\ Tail(WidthOnwards(item, a)) = PrecisionOnwards(item, a)
           /\ item.precision.form # "star" => PrecisionOnwards(item, a) = OwnOnwards(item, a)
           /\ item.precision.form = "star" =>
                 /\ PrecisionOnwards(item, a) # <<>> /\ Head(PrecisionOnwards(item, a)).n = item.precision.n
                 /\ Tail(PrecisionOnwards(item, a)) = OwnOnwards(item, a)
<1> DEFINE p == PrecisionOnwards(item, a)
           o == OwnOnwards(item, a)
<1>1. p \in Seq(Argument) /\ o \in Seq(Argument) /\ item.width.n \in Int /\ item.precision.n \in Int
  BY OnwardsType, ReadyIs, FieldValue
<1>2. /\ item.width.form # "star" => WidthOnwards(item, a) = <<>> \o p
      /\ item.width.form = "star" => WidthOnwards(item, a) = <<Num(item.width.n)>> \o p
      /\ item.precision.form # "star" => p = <<>> \o o
      /\ item.precision.form = "star" => p = <<Num(item.precision.n)>> \o o
  BY DEF WidthOnwards, PrecisionOnwards, Stars
<1> HIDE DEF p, o
<1>3. <<>> \o p = p /\ <<>> \o o = o
  BY <1>1, ConcatEmptySeq
<1>4. /\ <<Num(item.width.n)>> \o p # <<>> /\ Head(<<Num(item.width.n)>> \o p).n = item.width.n
      /\ Tail(<<Num(item.width.n)>> \o p) = p
      /\ <<Num(item.precision.n)>> \o o # <<>> /\ Head(<<Num(item.precision.n)>> \o o).n = item.precision.n
      /\ Tail(<<Num(item.precision.n)>> \o o) = o
  BY <1>1, StarGiven
<1> QED
  BY <1>2, <1>3, <1>4 DEF p, o

\* The head of a precision or of what comes behind it.
LEMMA NoMoreDigits ==
    ASSUME NEW item, NEW r, NEW a, Ready(item, r, a)
    PROVE  /\ format = FromPrecision(item, r) => Peek \notin DOMAIN DigitOf /\ Peek # "*"
           /\ format = FromLength(item, r) => Peek \notin DOMAIN DigitOf /\ Peek # "*" /\ Peek # "."
<1> DEFINE l == FromLength(item, r)
           p == FromPrecision(item, r)
<1>1. /\ l \in Seq(Symbol) /\ l # <<>> /\ Head(l) \in Specifiers \cup LengthCharacters
      /\ p \in Seq(Symbol) /\ p # <<>>
      /\ item.precision.form = "none" => p = l
      /\ item.precision.form # "none" => Head(p) = "."
  BY FromTypes, FromHeads
<1> HIDE DEF l, p
<1>2. format = p => Peek = Head(p)
  BY <1>1, SkipOne
<1>3. format = l => Peek = Head(l)
  BY <1>1, SkipOne
<1>4. \A c \in Specifiers \cup LengthCharacters : c \notin DigitCharacters /\ c # "*" /\ c # "."
  BY Apart
<1>5. "." \notin DigitCharacters /\ "." # "*"
  BY DEF DigitCharacters
<1> QED
  BY <1>1, <1>2, <1>3, <1>4, <1>5, CharacterSets DEF l, p

LEMMA ReadsWidth ==
    ASSUME NEW item, NEW r, NEW a, Ready(item, r, a), TypeOK, Parsing(item, r, a), Width
    PROVE  Parsing(item, r, a)'
<1> DEFINE p == FromPrecision(item, r)
           n == item.width.n
<1>1. p \in Seq(Symbol) /\ p # <<>> /\ FieldIn(item.width, 1) /\ n \in Int /\ SizeMax \in Nat
      /\ item.width.form \in {"none", "digits", "star"}
  BY FromTypes, FromHeads, ReadyIs, FieldValue, Sizes
<1>2. /\ item.width.form = "none" => n = 0
      /\ item.width.form = "digits" => n \in 0..SizeMax /\ n > 0 /\ Field(item.width) = Decimal(n)
      /\ item.width.form = "star" => n \in (-SizeMax)..SizeMax /\ Field(item.width) = <<"*">>
  BY <1>1, FieldValue
<1>3. precision = 0 /\ precision' = 0 /\ flags = FlagsOf(item.flags)
  BY DEF Width, Parsing
<1>4. ASSUME format = p, width = FieldWidth(item), va = PrecisionOnwards(item, a), item.width.form # "star"
      PROVE  Parsing(item, r, a)'
  <2>1. Peek \notin DOMAIN DigitOf /\ Peek # "*"
    BY <1>4, NoMoreDigits
  <2>2. pc' = "precision" /\ flags' = flags /\ width' = width /\ va' = va /\ format' = format
    BY <2>1 DEF Width
  <2>3. flags' = WidthFlags(item)
    BY <1>1, <1>2, <1>3, <1>4, <2>2 DEF WidthFlags
  <2> QED
    BY <1>3, <1>4, <2>2, <2>3 DEF Parsing
<1>5. ASSUME NEW d \in Seq(DigitCharacters), d # <<>>, format = d \o p, va = PrecisionOnwards(item, a),
             item.width.form = "digits", ReadTo(n, (10 * width + DigitOf[Head(d)]) % 2^IntBits, Tail(d))
      PROVE  Parsing(item, r, a)'
  <2>1. /\ format \in Seq(Symbol) /\ format # <<>> /\ Head(format) = Head(d) /\ Tail(format) = Tail(d) \o p
        /\ Head(d) \in DigitCharacters /\ Tail(d) \in Seq(DigitCharacters)
    <3> HIDE DEF p
    <3> QED
      BY <1>1, <1>5, DigitsBegin
  <2>2. Peek = Head(d) /\ Peek \in DOMAIN DigitOf /\ Peek # "*"
    BY <2>1, SkipOne, CharacterSets, Apart
  <2>3. width' = Atoi(width) /\ Skip(1) /\ pc' = "width_digits" /\ flags' = flags /\ va' = va
    BY <2>2 DEF Width
  <2>4. format' = Tail(d) \o p /\ va' = PrecisionOnwards(item, a)
    BY <1>5, <2>1, <2>3, SkipOne
  <2>5. ReadTo(n, width', Tail(d))
    BY <1>5, <2>2, <2>3 DEF Atoi
  <2>6. \E e \in Seq(DigitCharacters) :
            /\ format' = e \o FromPrecision(item, r)
            /\ Numeral(item.width.n, 10, LowerDigits) = Numeral(width', 10, LowerDigits) \o e
    BY <2>1, <2>4, <2>5 DEF ReadTo, Decimal
  <2> QED
    BY <1>3, <1>5, <2>3, <2>4, <2>6 DEF Parsing
<1>6. CASE pc = "width"
  <2>1. width = 0 /\ format = FromWidth(item, r) /\ va = WidthOnwards(item, a)
    BY <1>6 DEF Parsing
  <2>2. CASE item.width.form = "none"
    <3>1. format = p /\ va = PrecisionOnwards(item, a)
      BY <2>1, <2>2, FromHeads, OnwardsIs
    <3>2. FieldWidth(item) = 0
      BY <1>2, <2>2 DEF FieldWidth
    <3> QED
      BY <1>4, <2>1, <2>2, <3>1, <3>2
  <2>3. CASE item.width.form = "digits"
    <3> DEFINE d == Decimal(n)
    <3>1. va = PrecisionOnwards(item, a)
      BY <2>1, <2>3, OnwardsIs
    <3>2. d \in Seq(DigitCharacters) /\ d # <<>> /\ n \in 0..SizeMax
      <4>1. n \in 0..SizeMax /\ n \in Nat
        BY <1>1, <1>2, <2>3
      <4> QED
        BY <4>1, DecimalType
    <3>3. format = d \o p
      BY <1>2, <2>1, <2>3 DEF FromWidth
    <3>4. ReadTo(n, (10 * width + DigitOf[Head(d)]) % 2^IntBits, Tail(d))
      BY <2>1, <3>2, AtoiStarts
    <3> HIDE DEF d
    <3> QED
      BY <1>5, <2>3, <3>1, <3>2, <3>3, <3>4
  <2>4. CASE item.width.form = "star"
    <3>1. format = <<"*">> \o p
      BY <1>2, <2>1, <2>4 DEF FromWidth
    <3>2. format \in Seq(Symbol) /\ format # <<>> /\ Head(format) = "*" /\ Tail(format) = p
      <4> HIDE DEF p
      <4> QED
        BY <1>1, <3>1, StarBegins
    <3>3. Peek = "*" /\ Peek \notin DOMAIN DigitOf
      BY <3>2, SkipOne, CharacterSets, Apart
    <3>4. va # <<>> /\ Head(va).n = n /\ Tail(va) = PrecisionOnwards(item, a)
      BY <2>1, <2>4, OnwardsIs
    <3>5. /\ n < 0 => flags' = flags \cup {"LEFT"} /\ width' = (-n) % 2^IntBits
          /\ ~(n < 0) => flags' = flags /\ width' = n % 2^IntBits
          /\ va' = Tail(va) /\ Skip(1) /\ pc' = "precision"
      BY <1>6, <3>3, <3>4 DEF Width
    <3>6. width' = FieldWidth(item) /\ flags' = WidthFlags(item)
      BY <1>1, <1>2, <1>3, <2>4, <3>5, StarValue DEF FieldWidth, WidthFlags
    <3>7. format' = p
      BY <3>2, <3>5, SkipOne
    <3> QED
      BY <1>3, <3>4, <3>5, <3>6, <3>7 DEF Parsing
  <2> QED
    BY <1>1, <2>2, <2>3, <2>4
<1>7. CASE pc = "width_digits"
  <2>1. item.width.form = "digits" /\ va = PrecisionOnwards(item, a) /\ n \in 0..SizeMax
    BY <1>2, <1>7 DEF Parsing
  <2>2. PICK d \in Seq(DigitCharacters) : format = d \o p /\ ReadTo(n, width, d)
    BY <1>7 DEF Parsing, ReadTo, Decimal
  <2>3. width \in Nat
    BY <1>1 DEF TypeOK
  <2>4. CASE d = <<>>
    <3>1. format = p
      <4> HIDE DEF p
      <4> QED
        BY <1>1, <2>2, <2>4, ConcatEmptySeq
    <3>2. width = n
      BY <2>1, <2>2, <2>3, <2>4, AtoiEnds
    <3>3. FieldWidth(item) = n
      BY <2>1 DEF FieldWidth
    <3> QED
      BY <1>4, <2>1, <3>1, <3>2, <3>3
  <2>5. CASE d # <<>>
    <3>1. ReadTo(n, (10 * width + DigitOf[Head(d)]) % 2^IntBits, Tail(d))
      BY <2>1, <2>2, <2>3, <2>5, AtoiGoesOn
    <3> QED
      BY <1>5, <2>1, <2>2, <2>5, <3>1
  <2> QED
    BY <2>4, <2>5
<1> QED
  BY <1>6, <1>7 DEF Width

LEMMA ReadsPrecision ==
    ASSUME NEW item, NEW r, NEW a, Ready(item, r, a), Parsing(item, r, a), Precision
    PROVE  Parsing(item, r, a)'
<1>1. /\ pc = "precision" /\ width = FieldWidth(item) /\ precision = 0 /\ flags = WidthFlags(item)
      /\ format = FromPrecision(item, r) /\ va = PrecisionOnwards(item, a)
      /\ width' = width /\ precision' = precision /\ va' = va
  BY DEF Parsing, Precision
<1>2. CASE item.precision.form = "none"
  <2>1. format = FromLength(item, r)
    BY <1>1, <1>2, FromHeads
  <2>2. Peek # "."
    BY <2>1, NoMoreDigits
  <2>3. pc' = "length" /\ flags' = flags /\ format' = format
    BY <2>2 DEF Precision
  <2>4. item.precision.n = 0
    BY <1>2, ReadyIs, FieldValue
  <2>5. va' = OwnOnwards(item, a)
    BY <1>1, <1>2, OnwardsIs
  <2>6. flags' = PrecisionFlags(item)
    BY <1>1, <1>2, <2>3 DEF PrecisionFlags
  <2> QED
    BY <1>1, <2>1, <2>3, <2>4, <2>5, <2>6 DEF Parsing
<1>3. CASE item.precision.form # "none"
  <2>1. /\ format \in Seq(Symbol) /\ format # <<>> /\ Head(format) = "."
        /\ Tail(format) = Field(item.precision) \o FromLength(item, r)
    BY <1>1, <1>3, FromTypes, FromHeads
  <2>2. Peek = "."
    BY <2>1, SkipOne
  <2>3. flags' = flags \cup {"PRECISION"} /\ Skip(1) /\ pc' = "precision_value"
    BY <2>2 DEF Precision
  <2>4. format' = Field(item.precision) \o FromLength(item, r)
    BY <2>1, <2>3, SkipOne
  <2>5. flags' = PrecisionFlags(item)
    BY <1>1, <1>3, <2>3 DEF PrecisionFlags
  <2> QED
    BY <1>1, <1>3, <2>3, <2>4, <2>5 DEF Parsing
<1> QED
  BY <1>2, <1>3

LEMMA PrecisionNotNegative ==
    ASSUME NEW item, NEW r, NEW a, Ready(item, r, a)
    PROVE  item.precision.n \in Nat /\ item.precision.n <= SizeMax
<1>1. item.precision.n >= 0
  <2>1. item.kind = "directive" /\ Supported(item)
    BY ReadyIs DEF Ready
  <2>2. item.precision.form = "none" => item.precision.n = 0
    BY ReadyIs, FieldValue
  <2> QED
    BY <2>1, <2>2 DEF Supported
<1>2. SizeMax \in Nat
  BY Sizes
<1>3. item.precision.n \in Int /\ item.precision.n <= SizeMax
  BY <1>2, ReadyIs, FieldValue
<1> QED
  BY <1>1, <1>3

LEMMA ReadsPrecisionValue ==
    ASSUME NEW item, NEW r, NEW a, Ready(item, r, a), TypeOK, Parsing(item, r, a), PrecisionValue
    PROVE  Parsing(item, r, a)'
<1> DEFINE l == FromLength(item, r)
           n == item.precision.n
<1>1. l \in Seq(Symbol) /\ l # <<>> /\ FieldIn(item.precision, 0) /\ SizeMax \in Nat
  BY FromTypes, FromHeads, ReadyIs, Sizes
<1>2. /\ n \in 0..SizeMax /\ n \in Nat
      /\ item.precision.form = "digits" => Field(item.precision) = Decimal(n)
      /\ item.precision.form = "star" => Field(item.precision) = <<"*">>
  BY <1>1, FieldValue, PrecisionNotNegative
<1>3. /\ width = FieldWidth(item) /\ flags = PrecisionFlags(item) /\ width' = width /\ flags' = flags
      /\ item.precision.form \in {"digits", "star"}
  BY <1>1, FieldValue DEF PrecisionValue, Parsing
<1>4. ASSUME format = l, precision = n, va = OwnOnwards(item, a), pc = "precision_digits"
      PROVE  Parsing(item, r, a)'
  <2>1. Peek \notin DOMAIN DigitOf /\ Peek # "*"
    BY <1>4, NoMoreDigits
  <2>2. pc' = "length" /\ precision' = precision /\ va' = va /\ format' = format
    BY <2>1 DEF PrecisionValue
  <2> QED
    BY <1>3, <1>4, <2>2 DEF Parsing
<1>5. ASSUME NEW d \in Seq(DigitCharacters), d # <<>>, format = d \o l, va = OwnOnwards(item, a),
             item.precision.form = "digits", ReadTo(n, (10 * precision + DigitOf[Head(d)]) % 2^IntBits, Tail(d))
      PROVE  Parsing(item, r, a)'
  <2>1. /\ format \in Seq(Symbol) /\ format # <<>> /\ Head(format) = Head(d) /\ Tail(format) = Tail(d) \o l
        /\ Head(d) \in DigitCharacters /\ Tail(d) \in Seq(DigitCharacters)
    <3> HIDE DEF l
    <3> QED
      BY <1>1, <1>5, DigitsBegin
  <2>2. Peek = Head(d) /\ Peek \in DOMAIN DigitOf /\ Peek # "*"
    BY <2>1, SkipOne, CharacterSets, Apart
  <2>3. precision' = Atoi(precision) /\ Skip(1) /\ pc' = "precision_digits" /\ va' = va
    BY <2>2 DEF PrecisionValue
  <2>4. format' = Tail(d) \o l /\ va' = OwnOnwards(item, a)
    BY <1>5, <2>1, <2>3, SkipOne
  <2>5. ReadTo(n, precision', Tail(d))
    BY <1>5, <2>2, <2>3 DEF Atoi
  <2>6. \E e \in Seq(DigitCharacters) :
            /\ format' = e \o FromLength(item, r)
            /\ Numeral(item.precision.n, 10, LowerDigits) = Numeral(precision', 10, LowerDigits) \o e
    BY <2>1, <2>4, <2>5 DEF ReadTo, Decimal
  <2> QED
    BY <1>3, <1>5, <2>3, <2>4, <2>6 DEF Parsing
<1>6. CASE pc = "precision_value"
  <2>1. precision = 0 /\ format = Field(item.precision) \o l /\ va = PrecisionOnwards(item, a)
    BY <1>6 DEF Parsing
  <2>2. CASE item.precision.form = "digits"
    <3> DEFINE d == Decimal(n)
    <3>1. va = OwnOnwards(item, a)
      BY <2>1, <2>2, OnwardsIs
    <3>2. d \in Seq(DigitCharacters) /\ d # <<>> /\ n \in 0..SizeMax
      BY <1>2, DecimalType
    <3>3. format = d \o l
      BY <1>2, <2>1, <2>2
    <3>4. ReadTo(n, (10 * precision + DigitOf[Head(d)]) % 2^IntBits, Tail(d))
      BY <2>1, <3>2, AtoiStarts
    <3> HIDE DEF d
    <3> QED
      BY <1>5, <2>2, <3>1, <3>2, <3>3, <3>4
  <2>3. CASE item.precision.form = "star"
    <3>1. format = <<"*">> \o l
      BY <1>2, <2>1, <2>3
    <3>2. format \in Seq(Symbol) /\ format # <<>> /\ Head(format) = "*" /\ Tail(format) = l
      <4> HIDE DEF l
      <4> QED
        BY <1>1, <3>1, StarBegins
    <3>3. Peek = "*" /\ Peek \notin DOMAIN DigitOf
      BY <3>2, SkipOne, CharacterSets, Apart
    <3>4. va # <<>> /\ Head(va).n = n /\ Tail(va) = OwnOnwards(item, a)
      BY <2>1, <2>3, OnwardsIs
    <3>5. /\ precision' = IF n > 0 THEN n % 2^IntBits ELSE 0
          /\ va' = Tail(va) /\ Skip(1) /\ pc' = "length"
      BY <1>6, <3>3, <3>4 DEF PrecisionValue
    <3>6. precision' = n
      BY <1>1, <1>2, <3>5, StarValue
    <3>7. format' = l
      BY <3>2, <3>5, SkipOne
    <3> QED
      BY <1>3, <3>4, <3>5, <3>6, <3>7 DEF Parsing
  <2> QED
    BY <1>3, <2>2, <2>3
<1>7. CASE pc = "precision_digits"
  <2>1. item.precision.form = "digits" /\ va = OwnOnwards(item, a)
    BY <1>7 DEF Parsing
  <2>2. PICK d \in Seq(DigitCharacters) : format = d \o l /\ ReadTo(n, precision, d)
    BY <1>7 DEF Parsing, ReadTo, Decimal
  <2>3. precision \in Nat
    BY <1>1 DEF TypeOK
  <2>4. CASE d = <<>>
    <3>1. format = l
      <4> HIDE DEF l
      <4> QED
        BY <1>1, <2>2, <2>4, ConcatEmptySeq
    <3>2. precision = n
      BY <1>2, <2>2, <2>3, <2>4, AtoiEnds
    <3> QED
      BY <1>4, <1>7, <2>1, <3>1, <3>2
  <2>5. CASE d # <<>>
    <3>1. ReadTo(n, (10 * precision + DigitOf[Head(d)]) % 2^IntBits, Tail(d))
      BY <1>2, <2>2, <2>3, <2>5, AtoiGoesOn
    <3> QED
      BY <1>5, <2>1, <2>2, <2>5, <3>1
  <2> QED
    BY <2>4, <2>5
<1> QED
  BY <1>6, <1>7 DEF PrecisionValue

LEMMA ReadsLength ==
    ASSUME NEW item, NEW r, NEW a, Ready(item, r, a), Parsing(item, r, a), Length
    PROVE  Parsing(item, r, a)'
<1> DEFINE s == FromSpecifier(item, r)
           l == item.length
<1>1. /\ pc = "length" /\ width = FieldWidth(item) /\ precision = item.precision.n
      /\ flags = PrecisionFlags(item) /\ format = l \o s /\ va = OwnOnwards(item, a)
      /\ width' = width /\ precision' = precision /\ va' = va /\ pc' = "specifier"
  BY DEF Parsing, Length, FromLength
<1>2. l \in LengthModifiers /\ s \in AtSpecifier /\ s \in Seq(Symbol) /\ s # <<>> /\ Head(s) \in Specifiers
  BY ReadyIs, FromTypes, SpecifierFirst
<1>3. Head(s) \in Symbol /\ Head(s) \notin LengthCharacters /\ s = <<Head(s)>> \o Tail(s) /\ Tail(s) \in Seq(Symbol)
  BY <1>2, Apart, HeadTailProperties, HeadInFront
<1>4. SUFFICES format' = s /\ flags' = flags \cup LengthFlags(l)
  BY <1>1 DEF Parsing
<1> HIDE DEF s, l
<1>5. LengthCharacters \subseteq Symbol
  BY Apart
<1>6. CASE l = <<>>
  <2>1. format = s
    BY <1>1, <1>2, <1>6, ConcatEmptySeq
  <2>2. Peek \notin {"h", "l", "j", "t", "z"}
    BY <1>2, <1>3, <2>1, SkipOne DEF LengthCharacters
  <2>3. format' = format /\ flags' = flags
    BY <2>2 DEF Length
  <2>4. LengthFlags(l) = {}
    BY <1>6 DEF LengthFlags
  <2> QED
    BY <2>1, <2>3, <2>4
<1>7. ASSUME NEW c \in LengthCharacters, l = <<c>> PROVE Peek = c /\ ~Twice(c) /\ (Skip(1) => format' = s)
  <2>1. c \in Symbol /\ format = <<c>> \o s
    BY <1>1, <1>5, <1>7
  <2>2. format \in Seq(Symbol) /\ format # <<>> /\ Head(format) = c /\ Tail(format) = s
    BY <1>2, <2>1, OneInFront
  <2>3. Peek = c /\ (Skip(1) => format' = s)
    BY <2>2, SkipOne
  <2>4. format[2] = s[1] /\ s[1] = Head(s)
    BY <1>2, <2>1
  <2> QED
    BY <1>3, <1>7, <2>3, <2>4 DEF Twice
<1>8. ASSUME NEW c \in LengthCharacters, l = <<c, c>> PROVE Peek = c /\ Twice(c) /\ (Skip(2) => format' = s)
  <2>1. c \in Symbol /\ format = <<c, c>> \o s
    BY <1>1, <1>5, <1>8
  <2>2. format # <<>> /\ Head(format) = c /\ Len(format) > 1 /\ format[1] = c /\ format[2] = c
    BY <1>2, <2>1
  <2>3. Skip(2) => format' = s
    BY <1>2, <2>1, SkipTwo
  <2> QED
    BY <1>8, <2>2, <2>3 DEF Twice, Peek
<1>9. CASE l = <<"h">>
  <2>1. Peek = "h" /\ ~Twice("h") /\ (Skip(1) => format' = s)
    BY <1>7, <1>9 DEF LengthCharacters
  <2> QED
    BY <1>9, <2>1 DEF Length, LengthFlags
<1>10. CASE l = <<"l">>
  <2>1. Peek = "l" /\ ~Twice("l") /\ (Skip(1) => format' = s)
    BY <1>7, <1>10 DEF LengthCharacters
  <2> QED
    BY <1>10, <2>1 DEF Length, LengthFlags
<1>11. CASE l = <<"h", "h">>
  <2>1. Peek = "h" /\ Twice("h") /\ (Skip(2) => format' = s)
    BY <1>8, <1>11 DEF LengthCharacters
  <2> QED
    BY <1>11, <2>1 DEF Length, LengthFlags
<1>12. CASE l = <<"l", "l">>
  <2>1. Peek = "l" /\ Twice("l") /\ (Skip(2) => format' = s)
    BY <1>8, <1>12 DEF LengthCharacters
  <2> QED
    BY <1>12, <2>1 DEF Length, LengthFlags
<1>13. CASE l = <<"j">>
  <2>1. Peek = "j" /\ (Skip(1) => format' = s)
    BY <1>7, <1>13 DEF LengthCharacters
  <2> QED
    BY <1>13, <2>1 DEF Length, LengthFlags
<1>14. ASSUME NEW c \in {"t", "z"}, l = <<c>> PROVE format' = s /\ flags' = flags \cup LengthFlags(l)
  <2>1. Peek = c /\ (Skip(1) => format' = s)
    BY <1>7, <1>14 DEF LengthCharacters
  <2>2. Skip(1) /\ flags' = flags \cup {"LONG"}
    BY <2>1 DEF Length
  <2>3. LengthFlags(l) = {"LONG"}
    BY <1>14 DEF LengthFlags
  <2> QED
    BY <2>1, <2>2, <2>3
<1> QED
  BY <1>2, <1>6, <1>9, <1>10, <1>11, <1>12, <1>13, <1>14 DEF LengthModifiers

-----------------------------------------------------------------------------
(***************************************************************************)
(* What is promised.                                                       *)
(***************************************************************************)
LEMMA PrintableIs ==
    /\ Printable \subseteq Character
    /\ {"0", "-", "+", " ", "b", "x", "X"} \subseteq Printable
    /\ \A d \in 1..16 : UpperDigits[d] \in Printable /\ LowerDigits[d] \in Printable
<1>1. \A d \in 1..16 : UpperDigits[d] # NUL /\ LowerDigits[d] # NUL
  BY DEF UpperDigits, LowerDigits, NUL
<1> QED
  BY <1>1, Glyphs, CharacterTypes DEF Printable, NUL

LEMMA RepeatPrintable ==
    \A c \in Printable : \A n \in Int :
        Repeat(c, n) \in Seq(Printable) /\ Len(Repeat(c, n)) = IF n > 0 THEN n ELSE 0
<1> SUFFICES ASSUME NEW c \in Printable, NEW n \in Int
             PROVE  Repeat(c, n) \in Seq(Printable) /\ Len(Repeat(c, n)) = IF n > 0 THEN n ELSE 0
  OBVIOUS
<1>1. CASE n > 0
  <2>1. Repeat(c, n) = [k \in 1..n |-> c]
    BY <1>1 DEF Repeat
  <2> QED
    BY <1>1, <2>1
<1>2. CASE ~(n > 0)
  BY <1>2 DEF Repeat
<1> QED
  BY <1>1, <1>2

LEMMA JoinedPrintable == \A s, t \in Seq(Printable) : s \o t \in Seq(Printable) /\ Len(s \o t) = Len(s) + Len(t)
  BY ConcatProperties

\* The numbers behind an integer's text.
LEMMA SizesOfBits ==
    ASSUME NEW l
    PROVE  /\ Bits(l) \in {IntBits, ShortBits, CharBits, LongLongBits}
           /\ 2^Bits(l) \in Nat \ {0} /\ 2^(Bits(l) - 1) \in Nat
           /\ 2^Bits(l) = 2 * 2^(Bits(l) - 1)
<1>1. Bits(l) \in {IntBits, ShortBits, CharBits, LongLongBits}
  BY DEF Bits
<1> QED
  BY <1>1, BitsAssumption

LEMMA MagnitudeIs ==
    ASSUME NEW item, item.arg.n \in Int
    PROVE  /\ Value(item) \in Int /\ Magnitude(item) \in Nat /\ Magnitude(item) < 2^Bits(item.length)
           /\ ~Signed(item.spec) => Value(item) >= 0
           /\ Value(item) < 0 => Magnitude(item) = -Value(item)
           /\ Value(item) >= 0 => Magnitude(item) = Value(item)
<1> DEFINE full == 2^Bits(item.length)
           half == 2^(Bits(item.length) - 1)
           n == item.arg.n
<1>1. full \in Nat \ {0} /\ half \in Nat /\ full = 2 * half /\ n \in Int
  BY SizesOfBits
<1>2. Value(item) = IF Signed(item.spec) THEN ((n + half) % full) - half ELSE n % full
  BY DEF Value, AsSigned, AsUnsigned
<1> HIDE DEF full, half, n
<1>3. (n + half) % full \in 0..(full - 1) /\ n % full \in 0..(full - 1)
  BY <1>1, Remainder
<1>4. Value(item) \in Int /\ (Value(item) < 0 => Signed(item.spec) /\ Value(item) >= -half) /\ Value(item) < full
  BY <1>1, <1>2, <1>3
<1> QED
  BY <1>1, <1>4 DEF Magnitude, full

LEMMA NumeralPrintable ==
    ASSUME NEW base \in {2, 8, 10, 16}, NEW n \in Nat, NEW digits \in {UpperDigits, LowerDigits}
    PROVE  Numeral(n, base, digits) \in Seq(Printable) /\ Numeral(n, base, digits) # <<>>
<1>1. \A d \in 1..base : digits[d] \in Printable
  <2>1. \A d \in 1..base : d \in 1..16
    OBVIOUS
  <2>2. \A d \in 1..16 : digits[d] \in Printable
    BY PrintableIs
  <2> QED
    BY <2>1, <2>2
<1> QED
  BY <1>1, NumeralType, NumeralLength

LEMMA NumberTypes ==
    ASSUME NEW item, item.arg.n \in Int, item.spec \in IntegerSpecs, item.precision.n \in Int,
           item.width.n \in Int
    PROVE  /\ NumeralOf(item) \in Seq(Printable) /\ Precise(item) \in Seq(Printable)
           /\ Prefix(item) \in Seq(Printable) /\ NumberText(item) \in Seq(Printable)
           /\ FieldWidth(item) \in Nat
           /\ Len(NumeralOf(item)) \in Nat /\ Len(Prefix(item)) \in Nat
           /\ Len(Precise(item)) = IF item.precision.n > Len(NumeralOf(item)) THEN item.precision.n
                                   ELSE Len(NumeralOf(item))
<1>1. /\ "0" \in Printable /\ "-" \in Printable /\ "+" \in Printable /\ " " \in Printable
      /\ "b" \in Printable /\ "x" \in Printable /\ "X" \in Printable
  BY PrintableIs
<1>2. NumeralOf(item) \in Seq(Printable)
  <2>1. BaseOf(item.spec) \in {2, 8, 10, 16} /\ Magnitude(item) \in Nat
    BY BaseType, MagnitudeIs
  <2>2. \A d \in {UpperDigits, LowerDigits} : Numeral(Magnitude(item), BaseOf(item.spec), d) \in Seq(Printable)
    BY <2>1, NumeralPrintable
  <2>3. <<>> \in Seq(Printable)
    BY EmptySeq
  <2> QED
    BY <2>2, <2>3 DEF NumeralOf
<1> DEFINE n == NumeralOf(item)
           p == item.precision.n
           k == p - Len(n)
           zeros == Repeat("0", k)
<1>3. Len(n) \in Nat /\ p \in Int
  BY <1>2, LenProperties
<1>4. k \in Int
  <2> HIDE DEF n, p
  <2> QED
    BY <1>3
<1> HIDE DEF k
<1>5. zeros \in Seq(Printable) /\ Len(zeros) = IF k > 0 THEN k ELSE 0
  BY <1>1, <1>4, RepeatPrintable
<1>6. Precise(item) = zeros \o n
  BY DEF Precise, k
<1>7. n \in Seq(Printable)
  BY <1>2
<1> HIDE DEF n, zeros, p
<1>8. Precise(item) \in Seq(Printable) /\ Len(Precise(item)) = IF p > Len(n) THEN p ELSE Len(n)
  <2>1. Precise(item) \in Seq(Printable) /\ Len(Precise(item)) = Len(zeros) + Len(n)
    BY <1>7, <1>5, <1>6, JoinedPrintable
  <2> QED
    BY <1>3, <1>4, <1>5, <2>1 DEF k
<1>9. Prefix(item) \in Seq(Printable) /\ Len(Prefix(item)) \in Nat
  <2>1. /\ <<"-">> \in Seq(Printable) /\ <<"+">> \in Seq(Printable) /\ <<" ">> \in Seq(Printable)
        /\ <<"0">> \in Seq(Printable) /\ <<>> \in Seq(Printable)
    <3>1. \A c \in Printable : <<c>> \in Seq(Printable)
      OBVIOUS
    <3> QED
      BY <1>1, <3>1, EmptySeq
  <2>2. item.spec \in {"x", "X", "b"} => <<"0", item.spec>> \in Seq(Printable)
    <3>1. \A c, d \in Printable : <<c, d>> \in Seq(Printable)
      OBVIOUS
    <3>2. item.spec \in {"x", "X", "b"} => item.spec \in Printable
      BY <1>1
    <3> QED
      BY <1>1, <3>1, <3>2
  <2>3. Prefix(item) \in Seq(Printable)
    BY <2>1, <2>2 DEF Prefix
  <2> QED
    BY <2>3, LenProperties
<1>10. FieldWidth(item) \in Nat
  BY DEF FieldWidth
<1>11. NumberText(item) \in Seq(Printable)
  <2> DEFINE used == Len(Prefix(item)) + Len(Precise(item))
             fill == IF ZeroFilled(item) THEN Repeat("0", FieldWidth(item) - used) ELSE <<>>
             prefix == Prefix(item)
             precise == Precise(item)
  <2>1. used \in Nat
    BY <1>8, <1>9, LenProperties
  <2>2. FieldWidth(item) - used \in Int
    BY <1>10, <2>1
  <2>3. fill \in Seq(Printable)
    BY <1>1, <2>2, RepeatPrintable, EmptySeq
  <2>4. NumberText(item) = prefix \o fill \o precise
    BY DEF NumberText
  <2>5. prefix \in Seq(Printable) /\ precise \in Seq(Printable)
    BY <1>8, <1>9
  <2> HIDE DEF fill, prefix, precise
  <2>6. prefix \o fill \in Seq(Printable)
    BY <2>3, <2>5, JoinedPrintable
  <2> QED
    BY <2>4, <2>5, <2>6, JoinedPrintable
<1> QED
  BY <1>2, <1>3, <1>8, <1>9, <1>10, <1>11 DEF n, p

LEMMA PointerTypes ==
    ASSUME NEW item, item.arg.n \in Int
    PROVE  /\ AsUnsigned(item.arg.n, IntBits) \in 0..SizeMax /\ AsUnsigned(item.arg.n, IntBits) \in Nat
           /\ PointerText(item) \in Seq(Printable)
<1> DEFINE v == AsUnsigned(item.arg.n, IntBits)
           n == Numeral(v, 16, UpperDigits)
<1>1. v \in 0..SizeMax /\ v \in Nat
  <2>1. 2^IntBits \in Nat \ {0} /\ SizeMax = 2^IntBits - 1
    BY Sizes DEF SizeMax
  <2> DEFINE b == 2^IntBits
  <2>2. item.arg.n % b \in 0..(b - 1)
    BY <2>1, Remainder
  <2> QED
    BY <2>1, <2>2 DEF AsUnsigned
<1>2. n \in Seq(Printable)
  BY <1>1, NumeralPrintable
<1>3. PointerText(item) = Repeat("0", (IntBits \div 4) - Len(n)) \o n
  BY DEF PointerText
<1> HIDE DEF v, n
<1>4. (IntBits \div 4) - Len(n) \in Int
  BY <1>2, BitsAssumption, Sizes, LenProperties
<1>5. Repeat("0", (IntBits \div 4) - Len(n)) \in Seq(Printable)
  BY <1>4, RepeatPrintable, PrintableIs
<1> QED
  BY <1>1, <1>2, <1>3, <1>5, JoinedPrintable DEF v

LEMMA StringTypes ==
    ASSUME NEW item, item.arg.s \in Seq(Character), item.precision.n \in Nat, NUL \notin Range(item.arg.s)
    PROVE  item.arg.s \in Seq(Printable) /\ StringText(item) \in Seq(Printable)
<1> DEFINE s == item.arg.s
           p == item.precision.n
<1>1. s \in Seq(Character) /\ Len(s) \in Nat /\ p \in Nat /\ \A k \in 1..Len(s) : s[k] \in Character
  BY LenProperties, ElementOfSeq
<1>2. \A k \in 1..Len(s) : s[k] # NUL
  <2>1. DOMAIN s = 1..Len(s)
    BY <1>1, LenProperties
  <2> QED
    BY <2>1 DEF Range
<1>3. s \in Seq(Printable)
  <2>1. \A k \in 1..Len(s) : s[k] \in Printable
    BY <1>1, <1>2 DEF Printable
  <2>2. s = [k \in 1..Len(s) |-> s[k]]
    BY <1>1
  <2> QED
    BY <1>1, <2>1, <2>2
<1>4. p < Len(s) => SubSeq(s, 1, p) \in Seq(Printable)
  <2> HIDE DEF s, p
  <2> QED
    BY <1>1, <1>3
<1> QED
  BY <1>3, <1>4 DEF StringText

LEMMA SupportedKinds ==
    ASSUME NEW item, item.kind = "directive", Supported(item)
    PROVE  \/ item.spec \in {"%", "p"} /\ item.flags = <<>> /\ item.width.form = "none" /\ item.precision.form = "none"
           \/ item.spec \in {"c", "s"} /\ NUL \notin Range(item.arg.s)
           \/ item.spec \in IntegerSpecs /\ Len(NumberText(item)) <= PRINTF_NTOA_BUFFER_SIZE
  BY DEF Supported

LEMMA JustifiedType ==
    \A s \in Seq(Printable) : \A n \in Int : \A left : Justified(s, n, left) \in Seq(Printable)
<1> SUFFICES ASSUME NEW s \in Seq(Printable), NEW n \in Int, NEW left
             PROVE  Justified(s, n, left) \in Seq(Printable)
  OBVIOUS
<1> DEFINE spaces == Repeat(" ", n - Len(s))
<1>1. n - Len(s) \in Int
  BY LenProperties
<1>2. spaces \in Seq(Printable)
  BY <1>1, RepeatPrintable, PrintableIs
<1>3. Justified(s, n, left) = IF left THEN s \o spaces ELSE spaces \o s
  BY DEF Justified
<1> HIDE DEF spaces
<1> QED
  BY <1>2, <1>3, JoinedPrintable

LEMMA MeaningType ==
    ASSUME NEW item \in Asked
    PROVE  Meaning(item) \in Seq(Printable) /\ Normal(item) = item
<1>1. ItemOK(item) /\ Supported(item) /\ ArgumentOK(item)
  BY DEF Asked, Items
<1>2. CASE item.kind = "text"
  <2>1. Meaning(item) = <<item.spec>> /\ Normal(item) = item
    BY <1>2 DEF Meaning, Normal
  <2>2. item.spec \in Printable
    BY <1>1, <1>2 DEF ItemOK, Printable
  <2> QED
    BY <2>1, <2>2
<1>3. CASE item.kind = "directive"
  <2>1. Ready(item, Format(<<>>), <<>>)
    <3>1. <<>> \in Seq(Items) /\ <<>> \in Seq(Argument)
      BY EmptySeq
    <3> QED
      BY <1>3, <3>1 DEF Ready, Formats
  <2>2. /\ FieldIn(item.width, 1) /\ FieldIn(item.precision, 0) /\ item.spec \in Specifiers
        /\ item.arg.n \in Int /\ item.arg.s \in Seq(Character) /\ item.spec \in Character /\ item.spec # NUL
    BY <2>1, ReadyIs DEF Specifiers
  <2>3. item.precision.n \in Nat /\ item.precision.n \in Int /\ item.width.n \in Int
    BY <2>1, <2>2, PrecisionNotNegative, FieldValue
  <2>4. FieldWidth(item) \in Int
    BY <2>3 DEF FieldWidth
  <2>5. Normal(item) = item
    BY <2>3 DEF Normal
  <2>6. CASE item.spec = "%"
    <3>1. Meaning(item) = <<item.spec>> /\ item.spec \in Printable
      BY <1>3, <2>2, <2>6 DEF Meaning, Printable
    <3> QED
      BY <2>5, <3>1
  <2>7. CASE item.spec # "%"
    <3>1. Body(item) \in Seq(Printable)
      <4>1. CASE item.spec = "p"
        BY <2>2, <4>1, PointerTypes DEF Body, IntegerSpecs
      <4>2. CASE item.spec \in {"c", "s"} /\ NUL \notin Range(item.arg.s)
        BY <2>2, <2>3, <4>2, StringTypes DEF Body, IntegerSpecs
      <4>3. CASE item.spec \in IntegerSpecs
        <5>1. Body(item) = NumberText(item)
          BY <4>3 DEF Body, IntegerSpecs
        <5> QED
          BY <2>2, <2>3, <4>3, <5>1, NumberTypes
      <4> QED
        BY <1>1, <1>3, <2>7, <4>1, <4>2, <4>3, SupportedKinds
    <3>2. Meaning(item) = Justified(Body(item), FieldWidth(item), LeftAligned(item))
      BY <1>3, <2>7 DEF Meaning
    <3> QED
      BY <2>4, <2>5, <3>1, <3>2, JustifiedType
  <2> QED
    BY <2>6, <2>7
<1> QED
  BY <1>1, <1>2, <1>3 DEF ItemOK

-----------------------------------------------------------------------------
(***************************************************************************)
(* The items still to come.                                                *)
(***************************************************************************)
LEMMA ArgumentsType == ASSUME NEW item \in Asked PROVE Arguments(item) \in Seq(Argument)
<1>1. CASE item.kind = "text"
  BY <1>1, EmptySeq DEF Arguments
<1>2. CASE item.kind = "directive"
  <2>1. Ready(item, Format(<<>>), <<>>)
    <3>1. <<>> \in Seq(Items) /\ <<>> \in Seq(Argument)
      BY EmptySeq
    <3> QED
      BY <1>2, <3>1 DEF Ready, Formats
  <2> QED
    BY <2>1, OnwardsType
<1> QED
  BY <1>1, <1>2 DEF Asked, Items, ItemOK

MeaningsOf == [i \in Asked |-> Meaning(Normal(i))]
ArgumentsOf == [i \in Asked |-> Arguments(i)]

LEMMA MappedItems ==
    ASSUME NEW items \in Seq(Asked)
    PROVE  Promise(items) = Mapped(MeaningsOf, items) /\ Passed(items) = Mapped(ArgumentsOf, items)
<1>1. \A k \in 1..Len(items) : items[k] \in Asked
  BY ElementOfSeq
<1>2. [k \in 1..Len(items) |-> Meaning(Normal(items[k]))] = [k \in 1..Len(items) |-> MeaningsOf[items[k]]]
  BY <1>1 DEF MeaningsOf
<1>3. [k \in 1..Len(items) |-> Arguments(items[k])] = [k \in 1..Len(items) |-> ArgumentsOf[items[k]]]
  BY <1>1 DEF ArgumentsOf
<1> QED
  BY <1>2, <1>3 DEF Promise, Passed, Mapped

LEMMA RestTypes ==
    ASSUME NEW rest \in Seq(Asked)
    PROVE  /\ rest \in Seq(Items) /\ Format(rest) \in Formats /\ Format(rest) \in Seq(Symbol)
           /\ Passed(rest) \in Seq(Argument) /\ Promise(rest) \in Seq(Printable)
<1>1. rest \in Seq(Items)
  <2>1. Asked \in SUBSET Items
    BY DEF Asked
  <2> QED
    BY <2>1, SeqWider
<1>2. MeaningsOf \in [Asked -> Seq(Printable)] /\ ArgumentsOf \in [Asked -> Seq(Argument)]
  BY MeaningType, ArgumentsType DEF MeaningsOf, ArgumentsOf
<1>3. Mapped(MeaningsOf, rest) \in Seq(Printable) /\ Mapped(ArgumentsOf, rest) \in Seq(Argument)
  BY <1>2, MappedType
<1> QED
  BY <1>1, <1>3, MappedItems, FormatsType DEF Formats

LEMMA RestFirst ==
    ASSUME NEW rest \in Seq(Asked), rest # <<>>
    PROVE  /\ Head(rest) \in Asked /\ Tail(rest) \in Seq(Asked)
           /\ Format(rest) = Spell(Head(rest)) \o Format(Tail(rest))
           /\ Passed(rest) = Arguments(Head(rest)) \o Passed(Tail(rest))
           /\ Promise(rest) = Meaning(Head(rest)) \o Promise(Tail(rest))
<1>1. MeaningsOf \in [Asked -> Seq(Printable)] /\ ArgumentsOf \in [Asked -> Seq(Argument)]
  BY MeaningType, ArgumentsType DEF MeaningsOf, ArgumentsOf
<1>2. /\ Head(rest) \in Asked /\ Tail(rest) \in Seq(Asked)
      /\ Mapped(MeaningsOf, rest) = MeaningsOf[Head(rest)] \o Mapped(MeaningsOf, Tail(rest))
      /\ Mapped(ArgumentsOf, rest) = ArgumentsOf[Head(rest)] \o Mapped(ArgumentsOf, Tail(rest))
  <2>1. ASSUME NEW A, NEW F \in [Asked -> Seq(A)]
        PROVE  Mapped(F, rest) = F[Head(rest)] \o Mapped(F, Tail(rest))
    BY MappedFirst
  <2>2. Head(rest) \in Asked /\ Tail(rest) \in Seq(Asked)
    BY HeadTailProperties
  <2> QED
    BY <1>1, <2>1, <2>2
<1>3. MeaningsOf[Head(rest)] = Meaning(Head(rest)) /\ ArgumentsOf[Head(rest)] = Arguments(Head(rest))
  BY <1>2, MeaningType DEF MeaningsOf, ArgumentsOf
<1>4. Format(rest) = Spell(Head(rest)) \o Format(Tail(rest))
  BY RestTypes, FormatFirst
<1> QED
  BY <1>2, <1>3, <1>4, MappedItems

\* Nothing is written and nothing is passed for no items.
LEMMA NoItems == Format(<<>>) = <<>> /\ Passed(<<>>) = <<>> /\ Promise(<<>>) = <<>>
<1>1. ASSUME NEW F(_) PROVE FlattenSeq([k \in 1..Len(<<>>) |-> F(k)]) = <<>>
  <2>1. [k \in 1..Len(<<>>) |-> F(k)] = <<>>
    OBVIOUS
  <2> QED
    BY <2>1, FlattenEmpty
<1> QED
  BY <1>1 DEF Format, Passed, Promise

-----------------------------------------------------------------------------
(***************************************************************************)
(* The output.                                                             *)
(***************************************************************************)
LEMMA HeardIs == \A s \in Seq(Printable) : Heard(s) = s
<1> DEFINE P == {s \in Seq(Printable) : Heard(s) = s}
           Parts(s) == [k \in 1..Len(s) |-> IF s[k] = NUL THEN <<>> ELSE <<s[k]>>]
<1>1. \A s : Heard(s) = FlattenSeq(Parts(s))
  BY DEF Heard
<1>2. <<>> \in P
  <2>1. Parts(<<>>) = <<>>
    OBVIOUS
  <2> HIDE DEF Parts
  <2> QED
    BY <1>1, <2>1, FlattenEmpty, EmptySeq
<1>3. ASSUME NEW s \in Seq(Printable), NEW c \in Printable, s \in P PROVE Append(s, c) \in P
  <2> DEFINE sc == Append(s, c)
             ps == Parts(s)
  <2>1. /\ sc \in Seq(Printable) /\ Len(sc) = Len(s) + 1 /\ Len(s) \in Nat
        /\ \A k \in 1..Len(s) : sc[k] = s[k] /\ s[k] \in Printable
        /\ sc[Len(s) + 1] = c
    BY AppendProperties, LenProperties, ElementOfSeq
  <2>2. c # NUL
    BY DEF Printable
  <2>3. ps \in Seq(Seq(Printable)) /\ Len(ps) = Len(s) /\ \A k \in 1..Len(s) : ps[k] = <<s[k]>>
    <3>1. \A k \in 1..Len(s) : (IF s[k] = NUL THEN <<>> ELSE <<s[k]>>) = <<s[k]>> /\ <<s[k]>> \in Seq(Printable)
      BY <2>1 DEF Printable
    <3> QED
      BY <2>1, <3>1
  <2>4. <<c>> \in Seq(Printable)
    OBVIOUS
  <2> DEFINE all == Append(ps, <<c>>)
  <2>5. Parts(sc) = all
    <3> HIDE DEF ps, sc, P
    <3>1. /\ all \in Seq(Seq(Printable)) /\ Len(all) = Len(s) + 1
          /\ \A k \in 1..Len(s) : all[k] = <<s[k]>>
          /\ all[Len(s) + 1] = <<c>>
      <4>1. \A pp \in Seq(Seq(Printable)) : \A p \in Seq(Printable) :
               /\ Append(pp, p) \in Seq(Seq(Printable)) /\ Len(Append(pp, p)) = Len(pp) + 1
               /\ \A k \in 1..Len(pp) : Append(pp, p)[k] = pp[k]
               /\ Append(pp, p)[Len(pp) + 1] = p
        BY AppendProperties
      <4> QED
        BY <2>3, <2>4, <4>1
    <3> HIDE DEF all
    <3>2. \A k \in 1..(Len(s) + 1) : k \in 1..Len(s) \/ k = Len(s) + 1
      BY <2>1
    <3>3. \A k \in 1..Len(sc) : all[k] = IF sc[k] = NUL THEN <<>> ELSE <<sc[k]>>
      BY <2>1, <2>2, <3>1, <3>2 DEF Printable
    <3>4. all = [k \in 1..Len(all) |-> all[k]]
      BY <3>1
    <3> QED
      BY <2>1, <3>1, <3>3, <3>4
  <2>6. FlattenSeq(all) = FlattenSeq(ps) \o <<c>>
    <3> HIDE DEF ps
    <3> QED
      BY <2>3, <2>4, FlattenLast
  <2>7. FlattenSeq(ps) = s
    BY <1>1, <1>3
  <2>8. s \o <<c>> = sc
    OBVIOUS
  <2> HIDE DEF sc, ps, all
  <2>9. Heard(sc) = sc
    BY <1>1, <2>5, <2>6, <2>7, <2>8
  <2> QED
    BY <2>1, <2>9 DEF sc
<1> HIDE DEF P
<1>4. Seq(Printable) \subseteq P
  BY <1>2, <1>3, SeqSetInduction
<1> QED
  BY <1>4 DEF P

LEMMA OutputGrows ==
    ASSUME NEW t \in Seq(Printable), NEW s \in Seq(Printable), Output(t), Out(s), call' = call
    PROVE  Output(t \o s)'
<1> DEFINE ts == t \o s
<1>1. /\ ts \in Seq(Printable) /\ Len(ts) = Len(t) + Len(s) /\ Len(t) \in Nat /\ Len(s) \in Nat
      /\ \A k \in 1..(Len(t) + Len(s)) : ts[k] = IF k <= Len(t) THEN t[k] ELSE s[k - Len(t)]
  BY ConcatProperties, LenProperties
<1>2. ts = t \o s
  OBVIOUS
<1> HIDE DEF ts
<1>3. out' = out
  BY DEF out
<1>4. idx = Len(t) /\ idx' = Len(ts)
  BY <1>1 DEF Output, Out
<1>5. out \in {"_out_char", "_out_fct"} => sent' = ts
  BY <1>2, HeardIs DEF Output, Out
<1>6. ASSUME out = "_out_buffer", NEW k \in DOMAIN buffer' PROVE k \in 0..(Len(ts) - 1) /\ buffer'[k] = ts[k + 1]
  <2>1. buffer' = out_buffer(s, idx)
    BY <1>6 DEF Out
  <2> DEFINE hit == {j \in idx..(idx + Len(s) - 1) : j < maxlen}
  <2>2. buffer' = [j \in DOMAIN buffer \cup hit |-> IF j \in hit THEN s[j - idx + 1] ELSE buffer[j]]
    BY <2>1 DEF out_buffer
  <2>3. CASE k \in hit
    <3>1. k \in idx..(idx + Len(s) - 1) /\ buffer'[k] = s[k - idx + 1]
      BY <2>2, <2>3
    <3> HIDE DEF hit
    <3> QED
      BY <1>1, <1>4, <3>1
  <2>4. CASE k \notin hit
    <3>1. k \in DOMAIN buffer /\ buffer'[k] = buffer[k]
      BY <1>6, <2>2, <2>4
    <3>2. k \in 0..(Len(t) - 1) /\ buffer[k] = t[k + 1]
      BY <1>6, <3>1 DEF Output
    <3> HIDE DEF hit
    <3> QED
      BY <1>1, <3>1, <3>2
  <2> QED
    BY <2>3, <2>4
<1> QED
  BY <1>3, <1>4, <1>5, <1>6 DEF Output, ts

LEMMA WrittenGrows ==
    ASSUME NEW s \in Seq(Printable), NEW r \in Seq(Printable), Written(s \o r), Out(s), call' = call
    PROVE  Written(r)'
<1>1. PICK t \in Seq(Printable) : Promise(call.items) = t \o (s \o r) /\ Output(t)
  BY DEF Written
<1>2. t \o s \in Seq(Printable) /\ Promise(call.items) = (t \o s) \o r
  BY <1>1, ConcatAssociative, JoinedPrintable
<1>3. Output(t \o s)'
  BY <1>1, OutputGrows
<1>4. Promise(call.items)' = (t \o s) \o r
  BY <1>2
<1> QED
  BY <1>2, <1>3, <1>4 DEF Written

LEMMA WrittenStays ==
    ASSUME NEW r, Written(r), UNCHANGED <<call, idx, sent, buffer>>
    PROVE  Written(r)'
<1>1. PICK t \in Seq(Printable) : Promise(call.items) = t \o r /\ Output(t)
  BY DEF Written
<1>2. Output(t)'
  <2>1. out' = out
    BY DEF out
  <2> QED
    BY <1>1, <2>1 DEF Output
<1> QED
  BY <1>1, <1>2 DEF Written

LEMMA WrittenInit == call.items \in Seq(Asked) /\ Init => Written(Promise(call.items))
<1> SUFFICES ASSUME call.items \in Seq(Asked), Init PROVE Written(Promise(call.items))
  OBVIOUS
<1> DEFINE p == Promise(call.items)
<1>1. p \in Seq(Printable)
  BY RestTypes
<1>2. Output(<<>>)
  BY DEF Init, Output
<1>3. p = <<>> \o p /\ <<>> \in Seq(Printable)
  <2> HIDE DEF p
  <2> QED
    BY <1>1, ConcatEmptySeq, EmptySeq
<1> QED
  BY <1>2, <1>3 DEF Written

LEMMA WrittenEnds ==
    ASSUME CallOK, Written(<<>>), Terminate, va = <<>>
    PROVE  TextAsAsked'
<1>1. PICK t \in Seq(Printable) : Promise(call.items) = t \o <<>> /\ Output(t)
  BY DEF Written
<1>2. Promise(call.items) = t
  BY <1>1, ConcatEmptySeq
<1>3. call' = call /\ idx' = idx /\ sent' = sent /\ va' = va /\ out' = out /\ maxlen' = maxlen
  BY DEF Terminate, out, maxlen
<1>4. maxlen \in Nat /\ Len(t) \in Nat /\ idx = Len(t) /\ (out \in {"_out_char", "_out_fct"} => sent = t)
  BY <1>1, LimitType, Sizes, LenProperties DEF Output
<1>5. ASSUME out = "_out_buffer", NEW k \in DOMAIN buffer', k # Shorter(idx, maxlen - 1)
      PROVE  buffer'[k] = t[k + 1]
  <2> DEFINE at == IF idx < maxlen THEN idx ELSE BeforeEnd
             hit == {j \in at..(at + Len(<<NUL>>) - 1) : j < maxlen}
  <2>1. buffer' = [j \in DOMAIN buffer \cup hit |-> IF j \in hit THEN <<NUL>>[j - at + 1] ELSE buffer[j]]
    BY <1>5 DEF Terminate, out_buffer
  <2>2. at \in Nat /\ Len(<<NUL>>) = 1
    BY <1>4, Sizes DEF BeforeEnd
  <2>3. k \notin hit
    <3>1. ASSUME k \in hit PROVE k = at /\ at < maxlen
      BY <2>2, <3>1
    <3>2. at < maxlen => at = Shorter(idx, maxlen - 1)
      BY <1>4, Sizes DEF BeforeEnd, Shorter
    <3> QED
      BY <1>5, <3>1, <3>2
  <2>4. k \in DOMAIN buffer /\ buffer'[k] = buffer[k]
    BY <1>5, <2>1, <2>3
  <2> QED
    BY <1>1, <1>5, <2>4 DEF Output
<1>6. Promise(call.items)' = t
  BY <1>2, <1>3
<1> QED
  BY <1>3, <1>4, <1>5, <1>6 DEF TextAsAsked

-----------------------------------------------------------------------------
(***************************************************************************)
(* The array, which is read from its end.                                  *)
(***************************************************************************)
LEMMA ReverseIs ==
    ASSUME NEW s \in Seq(Character)
    PROVE  /\ Reverse(s) \in Seq(Character) /\ Len(Reverse(s)) = Len(s) /\ Len(s) \in Nat
           /\ \A k \in 1..Len(s) : Reverse(s)[k] = s[(Len(s) - k) + 1]
  BY ReverseType, LenProperties DEF Reverse

LEMMA CharacterConcat ==
    \A s, t \in Seq(Character) :
        /\ s \o t \in Seq(Character) /\ Len(s \o t) = Len(s) + Len(t)
        /\ \A k \in 1..(Len(s) + Len(t)) : (s \o t)[k] = IF k <= Len(s) THEN s[k] ELSE t[k - Len(s)]
  BY ConcatProperties

LEMMA CharacterJoint ==
    ASSUME NEW s \in Seq(Character), NEW t \in Seq(Character), NEW u \in Seq(Character)
    PROVE  (s \o t) \o u = s \o (t \o u)
  BY ConcatAssociative

LEMMA ReverseAppend ==
    \A s \in Seq(Character) : \A c \in Character : Reverse(Append(s, c)) = <<c>> \o Reverse(s)
<1> SUFFICES ASSUME NEW s \in Seq(Character), NEW c \in Character
             PROVE  Reverse(Append(s, c)) = <<c>> \o Reverse(s)
  OBVIOUS
<1> DEFINE sc == Append(s, c)
           r == Reverse(s)
           one == <<c>>
<1>1. /\ sc \in Seq(Character) /\ Len(sc) = Len(s) + 1 /\ Len(s) \in Nat
      /\ \A k \in 1..Len(s) : sc[k] = s[k]
      /\ sc[Len(s) + 1] = c
  BY AppendProperties, LenProperties
<1>2. r \in Seq(Character) /\ Len(r) = Len(s) /\ \A k \in 1..Len(s) : r[k] = s[(Len(s) - k) + 1]
  BY ReverseIs
<1>3. one \in Seq(Character) /\ Len(one) = 1 /\ one[1] = c
  OBVIOUS
<1> HIDE DEF sc, r, one
<1> DEFINE all == one \o r
<1>4. /\ all \in Seq(Character) /\ Len(all) = 1 + Len(s)
      /\ \A k \in 1..(1 + Len(s)) : all[k] = IF k <= 1 THEN one[k] ELSE r[k - 1]
  <2>1. /\ all \in Seq(Character) /\ Len(all) = Len(one) + Len(r)
        /\ \A k \in 1..(Len(one) + Len(r)) : all[k] = IF k <= Len(one) THEN one[k] ELSE r[k - Len(one)]
    BY <1>2, <1>3, CharacterConcat
  <2> HIDE DEF all
  <2> QED
    BY <1>2, <1>3, <2>1
<1>5. /\ Reverse(sc) \in Seq(Character) /\ Len(Reverse(sc)) = Len(s) + 1
      /\ \A k \in 1..(Len(s) + 1) : Reverse(sc)[k] = sc[((Len(s) + 1) - k) + 1]
  BY <1>1, ReverseIs
<1> HIDE DEF all
<1>6. ASSUME NEW k \in 1..(Len(s) + 1) PROVE Reverse(sc)[k] = all[k]
  <2>1. CASE k = 1
    BY <1>1, <1>3, <1>4, <1>5, <2>1
  <2>2. CASE k # 1
    <3>1. k - 1 \in 1..Len(s) /\ (Len(s) - (k - 1)) + 1 = ((Len(s) + 1) - k) + 1
          /\ ((Len(s) + 1) - k) + 1 \in 1..Len(s)
      BY <1>1, <2>2
    <3>2. Reverse(sc)[k] = s[((Len(s) + 1) - k) + 1]
      BY <1>1, <1>5, <3>1
    <3>3. all[k] = r[k - 1] /\ r[k - 1] = s[(Len(s) - (k - 1)) + 1]
      BY <1>1, <1>2, <1>4, <2>2, <3>1
    <3> QED
      BY <3>1, <3>2, <3>3
  <2> QED
    BY <2>1, <2>2
<1>7. Reverse(sc) = all
  <2>1. Len(Reverse(sc)) = Len(all) /\ \A k \in 1..Len(Reverse(sc)) : Reverse(sc)[k] = all[k]
    BY <1>1, <1>4, <1>5, <1>6
  <2>2. \A p, q \in Seq(Character) : Len(p) = Len(q) /\ (\A k \in 1..Len(p) : p[k] = q[k]) => p = q
    BY SeqEqual
  <2> QED
    BY <1>4, <1>5, <2>1, <2>2
<1> QED
  BY <1>7 DEF all, sc, r, one

LEMMA RepeatIs ==
    ASSUME NEW c \in Character, NEW n \in Int
    PROVE  /\ n > 0 => /\ Repeat(c, n) \in Seq(Character) /\ Len(Repeat(c, n)) = n
                       /\ \A k \in 1..n : Repeat(c, n)[k] = c
           /\ ~(n > 0) => Repeat(c, n) = <<>>
<1>1. CASE n > 0
  <2>1. Repeat(c, n) = [k \in 1..n |-> c]
    BY <1>1 DEF Repeat
  <2> QED
    BY <1>1, <2>1
<1>2. CASE ~(n > 0)
  BY <1>2 DEF Repeat
<1> QED
  BY <1>1, <1>2

\* Zeros behind the digits are zeros in front of the number.
LEMMA ReversePadded ==
    \A s \in Seq(Character) : \A c \in Character : \A n \in Int :
        Reverse(s \o Repeat(c, n)) = Repeat(c, n) \o Reverse(s)
<1> SUFFICES ASSUME NEW s \in Seq(Character), NEW c \in Character, NEW n \in Int
             PROVE  Reverse(s \o Repeat(c, n)) = Repeat(c, n) \o Reverse(s)
  OBVIOUS
<1> DEFINE z == Repeat(c, n)
           r == Reverse(s)
<1>1. r \in Seq(Character) /\ Len(r) = Len(s) /\ Len(s) \in Nat
      /\ \A k \in 1..Len(s) : r[k] = s[(Len(s) - k) + 1]
  BY ReverseIs
<1>2. CASE n > 0
  <2>1. z \in Seq(Character) /\ Len(z) = n /\ \A k \in 1..n : z[k] = c
    BY <1>2, RepeatIs
  <2>2. r \in Seq(Character) /\ Len(r) = Len(s) /\ Len(s) \in Nat
        /\ \A k \in 1..Len(s) : r[k] = s[(Len(s) - k) + 1]
    BY <1>1
  <2> HIDE DEF z, r
  <2> DEFINE sz == s \o z
             zr == z \o r
  <2>3. /\ sz \in Seq(Character) /\ Len(sz) = Len(s) + n
        /\ \A k \in 1..(Len(s) + n) : sz[k] = IF k <= Len(s) THEN s[k] ELSE z[k - Len(s)]
    BY <2>1, CharacterConcat
  <2>4. /\ zr \in Seq(Character) /\ Len(zr) = n + Len(s)
        /\ \A k \in 1..(n + Len(s)) : zr[k] = IF k <= n THEN z[k] ELSE r[k - n]
    <3>1. /\ zr \in Seq(Character) /\ Len(zr) = Len(z) + Len(r)
          /\ \A k \in 1..(Len(z) + Len(r)) : zr[k] = IF k <= Len(z) THEN z[k] ELSE r[k - Len(z)]
      BY <2>2, <2>1, CharacterConcat
    <3> HIDE DEF zr
    <3> QED
      BY <2>2, <2>1, <3>1
  <2> HIDE DEF sz, zr
  <2>5. n \in Nat \ {0}
    BY <1>2
  <2>6. /\ Reverse(sz) \in Seq(Character) /\ Len(Reverse(sz)) = Len(s) + n
        /\ \A k \in 1..(Len(s) + n) : Reverse(sz)[k] = sz[((Len(s) + n) - k) + 1]
    BY <2>3, ReverseIs
  <2>7. ASSUME NEW k \in 1..(Len(s) + n) PROVE Reverse(sz)[k] = zr[k]
    <3> DEFINE j == ((Len(s) + n) - k) + 1
    <3>1. j \in 1..(Len(s) + n)
      BY <2>2, <2>5
    <3>2. CASE k <= n
      <4>1. ~(j <= Len(s)) /\ j - Len(s) \in 1..n /\ k \in 1..n
        BY <2>2, <2>5, <3>2
      <4>2. sz[j] = z[j - Len(s)] /\ z[j - Len(s)] = c
        BY <2>1, <2>3, <3>1, <4>1
      <4>3. zr[k] = z[k] /\ z[k] = c
        <5>1. k \in 1..(n + Len(s))
          BY <2>2, <2>5, <4>1
        <5> QED
          BY <2>1, <2>4, <3>2, <4>1, <5>1
      <4> QED
        BY <2>6, <4>2, <4>3
    <3>3. CASE ~(k <= n)
      <4>1. j <= Len(s) /\ k - n \in 1..Len(s) /\ (Len(s) - (k - n)) + 1 = j
        BY <2>2, <2>5, <3>3
      <4>2. sz[j] = s[j]
        BY <2>3, <3>1, <4>1
      <4>3. zr[k] = r[k - n] /\ r[k - n] = s[(Len(s) - (k - n)) + 1]
        <5>1. k \in 1..(n + Len(s))
          BY <2>2, <2>5
        <5> QED
          BY <2>2, <2>4, <3>3, <4>1, <5>1
      <4> QED
        BY <2>6, <4>1, <4>2, <4>3
    <3> QED
      BY <3>2, <3>3
  <2>8. Reverse(sz) = zr
    <3>1. Len(Reverse(sz)) = Len(zr) /\ Len(zr) = Len(s) + n
      BY <2>2, <2>5, <2>4, <2>6
    <3> QED
      BY <2>4, <2>6, <2>7, <3>1, SeqEqual
  <2> QED
    BY <2>8 DEF sz, zr, z, r
<1>3. CASE ~(n > 0)
  <2>1. z = <<>>
    BY <1>3, RepeatIs
  <2> HIDE DEF z, r
  <2>2. s \o <<>> = s /\ <<>> \o r = r
    BY <1>1, ConcatEmptySeq
  <2> QED
    BY <2>1, <2>2 DEF z, r
<1> QED
  BY <1>2, <1>3

LEMMA RepeatAt ==
    \A c \in Character : \A n \in Nat :
        Repeat(c, n) \in Seq(Character) /\ Len(Repeat(c, n)) = n /\ \A k \in 1..n : Repeat(c, n)[k] = c
<1> SUFFICES ASSUME NEW c \in Character, NEW n \in Nat
             PROVE  Repeat(c, n) \in Seq(Character) /\ Len(Repeat(c, n)) = n /\ \A k \in 1..n : Repeat(c, n)[k] = c
  OBVIOUS
<1>1. CASE n > 0
  BY <1>1, RepeatIs
<1>2. CASE n = 0
  <2>1. Repeat(c, n) = <<>>
    BY <1>2, RepeatIs
  <2>2. <<>> \in Seq(Character) /\ Len(<<>>) = 0
    BY EmptySeq
  <2>3. \A k \in 1..n : FALSE
    BY <1>2
  <2> QED
    BY <1>2, <2>1, <2>2, <2>3
<1> QED
  BY <1>1, <1>2

\* s holds d and in front of it, that is behind it, n zeros.
Filled(s, c, n, d) == Reverse(s) = Repeat(c, n) \o d

\* Taking off the last j of the zeros.
LEMMA ReverseShortened ==
    ASSUME NEW s \in Seq(Character), NEW d \in Seq(Character), NEW c \in Character,
           NEW n \in Nat, NEW j \in 0..n, Filled(s, c, n, d)
    PROVE  /\ Len(s) = n + Len(d)
           /\ SubSeq(s, 1, Len(s) - j) \in Seq(Character) /\ Len(SubSeq(s, 1, Len(s) - j)) = Len(s) - j
           /\ Filled(SubSeq(s, 1, Len(s) - j), c, n - j, d)
<1> DEFINE z == Repeat(c, n)
           y == Repeat(c, n - j)
           r == Reverse(s)
           t == SubSeq(s, 1, Len(s) - j)
<1>1. Len(s) \in Nat /\ Len(d) \in Nat /\ Len(r) = Len(s) /\ \A k \in 1..Len(s) : r[k] = s[(Len(s) - k) + 1]
  BY ReverseIs, LenProperties
<1>2. z \in Seq(Character) /\ Len(z) = n /\ \A k \in 1..n : z[k] = c
  BY RepeatAt
<1>3. y \in Seq(Character) /\ Len(y) = n - j /\ n - j \in Nat /\ \A k \in 1..(n - j) : y[k] = c
  <2>1. n - j \in Nat
    OBVIOUS
  <2> QED
    BY <2>1, RepeatAt
<1>4. r = z \o d
  BY DEF Filled
<1> HIDE DEF z, y, r
<1> DEFINE zd == z \o d
           yd == y \o d
<1>5. /\ Len(zd) = n + Len(d)
      /\ \A k \in 1..(n + Len(d)) : zd[k] = IF k <= n THEN z[k] ELSE d[k - n]
  BY <1>2, CharacterConcat
<1>6. /\ yd \in Seq(Character) /\ Len(yd) = (n - j) + Len(d)
      /\ \A k \in 1..((n - j) + Len(d)) : yd[k] = IF k <= n - j THEN y[k] ELSE d[k - (n - j)]
  <2>1. /\ yd \in Seq(Character) /\ Len(yd) = Len(y) + Len(d)
        /\ \A k \in 1..(Len(y) + Len(d)) : yd[k] = IF k <= Len(y) THEN y[k] ELSE d[k - Len(y)]
    BY <1>3, CharacterConcat
  <2> HIDE DEF yd
  <2> QED
    BY <1>3, <2>1
<1>7. r = zd
  BY <1>4
<1> HIDE DEF zd, yd
<1>8. Len(s) = n + Len(d) /\ Len(s) - j \in 0..Len(s)
  BY <1>7, <1>1, <1>5
<1>9. t \in Seq(Character) /\ Len(t) = Len(s) - j /\ \A k \in 1..(Len(s) - j) : t[k] = s[k]
  BY <1>1, <1>8
<1> HIDE DEF t
<1>10. /\ Reverse(t) \in Seq(Character) /\ Len(Reverse(t)) = Len(s) - j
      /\ \A k \in 1..(Len(s) - j) : Reverse(t)[k] = t[((Len(s) - j) - k) + 1]
  <2>1. /\ Reverse(t) \in Seq(Character) /\ Len(Reverse(t)) = Len(t)
        /\ \A k \in 1..Len(t) : Reverse(t)[k] = t[(Len(t) - k) + 1]
    BY <1>9, ReverseIs
  <2> QED
    BY <1>9, <2>1
<1>11. ASSUME NEW k \in 1..(Len(s) - j) PROVE Reverse(t)[k] = yd[k]
  <2> DEFINE m == ((Len(s) - j) - k) + 1
             i == k + j
  <2>1. m \in 1..(Len(s) - j) /\ i \in 1..Len(s) /\ (Len(s) - i) + 1 = m
    BY <1>1, <1>8
  <2>2. Reverse(t)[k] = s[m] /\ s[m] = r[i] /\ r[i] = zd[i]
    BY <1>7, <1>1, <1>9, <1>10, <2>1
  <2>3. CASE k <= n - j
    <3>1. i <= n /\ i \in 1..n /\ k \in 1..(n - j) /\ k \in 1..((n - j) + Len(d)) /\ i \in 1..(n + Len(d))
      BY <1>1, <1>3, <1>8, <2>3
    <3>2. zd[i] = z[i] /\ z[i] = c /\ yd[k] = y[k] /\ y[k] = c
      BY <1>2, <1>3, <1>5, <1>6, <2>3, <3>1
    <3> QED
      BY <2>2, <3>2
  <2>4. CASE ~(k <= n - j)
    <3>1. ~(i <= n) /\ k \in 1..((n - j) + Len(d)) /\ i \in 1..(n + Len(d)) /\ i - n = k - (n - j)
      BY <1>1, <1>3, <1>8, <2>4
    <3>2. zd[i] = d[i - n] /\ yd[k] = d[k - (n - j)]
      BY <1>5, <1>6, <2>4, <3>1
    <3> QED
      BY <2>2, <3>1, <3>2
  <2> QED
    BY <2>3, <2>4
<1>12. Reverse(t) = yd
  <2>1. Len(Reverse(t)) = Len(yd)
    BY <1>1, <1>3, <1>6, <1>8, <1>10
  <2> QED
    BY <1>6, <1>10, <1>11, <2>1, SeqEqual
<1> QED
  BY <1>8, <1>9, <1>12 DEF t, yd, y, Filled

-----------------------------------------------------------------------------
(***************************************************************************)
(* From the specifier into the conversion.                                 *)
(***************************************************************************)
LEMMA AtItsSpecifier ==
    ASSUME NEW item, NEW r, NEW a, Ready(item, r, a), Parsing(item, r, a), pc = "specifier"
    PROVE  /\ width = FieldWidth(item) /\ precision = item.precision.n
           /\ flags = PrecisionFlags(item) \cup LengthFlags(item.length)
           /\ format # <<>> /\ Peek = item.spec /\ (Skip(1) => format' = r)
           /\ item.spec # "%" => va # <<>> /\ Head(va) = item.arg /\ Tail(va) = a
           /\ item.spec = "%" => va = a
<1>1. /\ width = FieldWidth(item) /\ precision = item.precision.n
      /\ flags = PrecisionFlags(item) \cup LengthFlags(item.length)
      /\ format = <<item.spec>> \o r /\ va = OwnArgument(item) \o a
  BY DEF Parsing, FromSpecifier, OwnOnwards
<1>2. item.spec \in Symbol /\ r \in Seq(Symbol) /\ item.arg \in Argument /\ a \in Seq(Argument)
  BY ReadyIs, Apart
<1>3. format \in Seq(Symbol) /\ format # <<>> /\ Head(format) = item.spec /\ Tail(format) = r
  BY <1>1, <1>2, OneInFront
<1>4. Peek = item.spec /\ (Skip(1) => format' = r)
  BY <1>3, SkipOne
<1>5. item.spec # "%" => va # <<>> /\ Head(va) = item.arg /\ Tail(va) = a
  <2>1. item.spec # "%" => va = <<item.arg>> \o a
    BY <1>1 DEF OwnArgument
  <2> QED
    BY <1>2, <2>1, OneInFront
<1>6. item.spec = "%" => va = a
  <2>1. item.spec = "%" => va = <<>> \o a
    BY <1>1 DEF OwnArgument
  <2> QED
    BY <1>2, <2>1, ConcatEmptySeq
<1> QED
  BY <1>1, <1>3, <1>4, <1>5, <1>6

ItsFlags(item) == PrecisionFlags(item) \cup LengthFlags(item.length)

LEMMA LengthFlagsAre ==
    ASSUME NEW l \in LengthModifiers
    PROVE  /\ LengthFlags(l) \subseteq {"SHORT", "CHAR", "LONG", "LONG_LONG"}
           /\ "LONG_LONG" \in LengthFlags(l) <=> Bits(l) = LongLongBits /\ l \in {<<"l", "l">>, <<"j">>}
           /\ "LONG" \in LengthFlags(l) <=> l \in {<<"l">>, <<"l", "l">>, <<"t">>, <<"z">>}
           /\ "CHAR" \in LengthFlags(l) <=> l = <<"h", "h">>
           /\ "SHORT" \in LengthFlags(l) <=> l \in {<<"h">>, <<"h", "h">>}
  BY DEF LengthModifiers, LengthFlags, Bits

LEMMA FlagsOfItem ==
    ASSUME NEW item, item.flags \in Seq(FlagCharacters), item.length \in LengthModifiers
    PROVE  /\ "ZEROPAD" \in ItsFlags(item) <=> Has(item, "0")
           /\ "LEFT" \in ItsFlags(item) <=> LeftAligned(item)
           /\ "PLUS" \in ItsFlags(item) <=> Has(item, "+")
           /\ "SPACE" \in ItsFlags(item) <=> Has(item, " ")
           /\ "HASH" \in ItsFlags(item) <=> Has(item, "#")
           /\ "PRECISION" \in ItsFlags(item) <=> item.precision.form # "none"
           /\ "UPPERCASE" \notin ItsFlags(item)
           /\ \A f \in {"SHORT", "CHAR", "LONG", "LONG_LONG"} : f \in ItsFlags(item) <=> f \in LengthFlags(item.length)
<1> DEFINE s == item.flags
<1>1. \A k \in 1..Len(s) : s[k] \in FlagCharacters
  BY ElementOfSeq
<1>2. \A c \in FlagCharacters : Has(item, c) <=> \E k \in 1..Len(s) : s[k] = c
  BY DEF Has, Contains
<1>3. /\ FlagOf["0"] = "ZEROPAD" /\ FlagOf["-"] = "LEFT" /\ FlagOf["+"] = "PLUS"
      /\ FlagOf[" "] = "SPACE" /\ FlagOf["#"] = "HASH"
  BY DEF FlagOf
<1>4. ASSUME NEW c \in FlagCharacters PROVE FlagOf[c] \in FlagsOf(s) <=> Has(item, c)
  <2>1. \A d \in FlagCharacters : FlagOf[d] = FlagOf[c] => d = c
    BY <1>3 DEF FlagCharacters
  <2>2. FlagOf[c] \in FlagsOf(s) <=> \E k \in 1..Len(s) : FlagOf[s[k]] = FlagOf[c]
    BY DEF FlagsOf
  <2> QED
    BY <1>1, <1>2, <2>1, <2>2
<1>5. FlagsOf(s) \subseteq {"ZEROPAD", "LEFT", "PLUS", "SPACE", "HASH"}
  BY <1>1, <1>3 DEF FlagsOf, FlagCharacters
<1>6. /\ "ZEROPAD" \in FlagsOf(s) <=> Has(item, "0")
      /\ "LEFT" \in FlagsOf(s) <=> Has(item, "-")
      /\ "PLUS" \in FlagsOf(s) <=> Has(item, "+")
      /\ "SPACE" \in FlagsOf(s) <=> Has(item, " ")
      /\ "HASH" \in FlagsOf(s) <=> Has(item, "#")
  <2>1. "0" \in FlagCharacters /\ "-" \in FlagCharacters /\ "+" \in FlagCharacters
        /\ " " \in FlagCharacters /\ "#" \in FlagCharacters
    BY DEF FlagCharacters
  <2> QED
    BY <1>3, <1>4, <2>1
<1> DEFINE own == FlagsOf(s)
           long == LengthFlags(item.length)
<1>7. long \subseteq {"SHORT", "CHAR", "LONG", "LONG_LONG"}
  BY LengthFlagsAre
<1>8. ItsFlags(item) = ((own \cup (IF item.width.n < 0 THEN {"LEFT"} ELSE {}))
                        \cup (IF item.precision.form # "none" THEN {"PRECISION"} ELSE {})) \cup long
  BY DEF ItsFlags, PrecisionFlags, WidthFlags
<1>9. LeftAligned(item) <=> Has(item, "-") \/ item.width.n < 0
  BY DEF LeftAligned
<1> DEFINE its == ItsFlags(item)
<1> HIDE DEF own, long, its
<1>10. \A f : f \in its <=> \/ f \in own
                            \/ f = "LEFT" /\ item.width.n < 0
                            \/ f = "PRECISION" /\ item.precision.form # "none"
                            \/ f \in long
  BY <1>8 DEF its
<1>11. own \subseteq {"ZEROPAD", "LEFT", "PLUS", "SPACE", "HASH"}
  BY <1>5 DEF own
<1>12. /\ "ZEROPAD" \in its <=> "ZEROPAD" \in own
       /\ "LEFT" \in its <=> "LEFT" \in own \/ item.width.n < 0
       /\ "PLUS" \in its <=> "PLUS" \in own
       /\ "SPACE" \in its <=> "SPACE" \in own
       /\ "HASH" \in its <=> "HASH" \in own
       /\ "PRECISION" \in its <=> item.precision.form # "none"
       /\ "UPPERCASE" \notin its
       /\ \A f \in {"SHORT", "CHAR", "LONG", "LONG_LONG"} : f \in its <=> f \in long
  BY <1>7, <1>10, <1>11
<1>13. /\ "ZEROPAD" \in own <=> Has(item, "0")
       /\ "LEFT" \in own <=> Has(item, "-")
       /\ "PLUS" \in own <=> Has(item, "+")
       /\ "SPACE" \in own <=> Has(item, " ")
       /\ "HASH" \in own <=> Has(item, "#")
  BY <1>6 DEF own
<1>14. "LEFT" \in its <=> LeftAligned(item)
  BY <1>9, <1>12, <1>13, Zenon
<1>15. /\ "ZEROPAD" \in its <=> Has(item, "0")
       /\ "PLUS" \in its <=> Has(item, "+")
       /\ "SPACE" \in its <=> Has(item, " ")
       /\ "HASH" \in its <=> Has(item, "#")
  BY <1>12, <1>13, Zenon
<1> QED
  BY <1>12, <1>14, <1>15 DEF its, long

LEMMA ValueBitsIs ==
    ASSUME NEW item, item.flags \in Seq(FlagCharacters), item.length \in LengthModifiers, flags = ItsFlags(item)
    PROVE  ValueBits = Bits(item.length)
<1> DEFINE l == item.length
<1>1. \A f \in {"SHORT", "CHAR", "LONG", "LONG_LONG"} : f \in flags <=> f \in LengthFlags(l)
  BY FlagsOfItem
<1>2. /\ "LONG_LONG" \in flags <=> l \in {<<"l", "l">>, <<"j">>}
      /\ "LONG" \in flags <=> l \in {<<"l">>, <<"l", "l">>, <<"t">>, <<"z">>}
      /\ "CHAR" \in flags <=> l = <<"h", "h">>
      /\ "SHORT" \in flags <=> l \in {<<"h">>, <<"h", "h">>}
  <2>1. l \in {<<"l", "l">>, <<"j">>} => Bits(l) = LongLongBits
    BY DEF Bits
  <2> QED
    BY <1>1, <2>1, LengthFlagsAre
<1>3. l \in LengthModifiers
  OBVIOUS
<1> HIDE DEF l
<1>4. CASE l \in {<<"l", "l">>, <<"j">>}
  BY <1>2, <1>4 DEF ValueBits, Bits, l
<1>5. CASE l \in {<<"l">>, <<"t">>, <<"z">>}
  <2>1. "LONG" \in flags /\ "LONG_LONG" \notin flags
    BY <1>2, <1>5
  <2>2. ValueBits = IntBits
    BY <2>1 DEF ValueBits
  <2> QED
    BY <1>5, <2>2 DEF Bits, l
<1>6. CASE l = <<"h", "h">>
  <2>1. "LONG" \notin flags /\ "LONG_LONG" \notin flags /\ "CHAR" \in flags
    BY <1>2, <1>6
  <2>2. ValueBits = CharBits
    BY <2>1 DEF ValueBits
  <2> QED
    BY <1>6, <2>2 DEF Bits, l
<1>7. CASE l = <<"h">>
  <2>1. "LONG" \notin flags /\ "LONG_LONG" \notin flags /\ "CHAR" \notin flags /\ "SHORT" \in flags
    BY <1>2, <1>7
  <2>2. ValueBits = ShortBits
    BY <2>1 DEF ValueBits
  <2> QED
    BY <1>7, <2>2 DEF Bits, l
<1>8. CASE l = <<>>
  <2>1. "LONG" \notin flags /\ "LONG_LONG" \notin flags /\ "CHAR" \notin flags /\ "SHORT" \notin flags
    BY <1>2, <1>8
  <2>2. ValueBits = IntBits
    BY <2>1 DEF ValueBits
  <2> QED
    BY <1>8, <2>2 DEF Bits, l
<1> QED
  BY <1>3, <1>4, <1>5, <1>6, <1>7, <1>8 DEF LengthModifiers

LEMMA EntersInteger ==
    ASSUME NEW item, NEW r, NEW a, Ready(item, r, a), Parsing(item, r, a), Integer
    PROVE  Converting(item)' /\ format' = r /\ va' = a
<1>1. /\ width = FieldWidth(item) /\ precision = item.precision.n /\ flags = ItsFlags(item)
      /\ Peek = item.spec /\ (Skip(1) => format' = r)
      /\ item.spec # "%" => va # <<>> /\ Head(va) = item.arg /\ Tail(va) = a
  BY AtItsSpecifier DEF Integer, ItsFlags
<1>2. item.spec \in IntegerSpecs /\ item.spec # "%"
  BY <1>1 DEF Integer, IntegerSpecs
<1>3. item.arg.n \in Int /\ item.flags \in Seq(FlagCharacters) /\ item.length \in LengthModifiers
  BY ReadyIs
<1> DEFINE base == BaseOf(item.spec)
           spec == item.spec
           its == ItsFlags(item)
           f == (IF spec = "X" THEN its \cup {"UPPERCASE"} ELSE its)
                \ ((IF base = 10 THEN {"HASH"} ELSE {})
                   \cup (IF Signed(spec) THEN {} ELSE {"PLUS", "SPACE"})
                   \cup (IF "PRECISION" \in its THEN {"ZEROPAD"} ELSE {}))
           b == Bits(item.length)
           value == Value(item)
           left == IF value > 0 THEN value ELSE 0 - value
           m == Magnitude(item)
<1>4. ValueBits = b
  BY <1>1, <1>3, ValueBitsIs
<1>5. (IF Signed(Peek) THEN AsSigned(Head(va).n, ValueBits) ELSE AsUnsigned(Head(va).n, ValueBits)) = value
  BY <1>1, <1>2, <1>4 DEF Value
<1>6. left % 2^b = m
  <2>1. value \in Int /\ m \in Nat /\ m < 2^b /\ left = m
    BY <1>3, MagnitudeIs
  <2> DEFINE full == 2^b
  <2>2. full \in Nat \ {0}
    BY SizesOfBits
  <2> HIDE DEF full
  <2>3. \A k \in Nat : k < full => k % full = k
    BY <2>2
  <2> QED
    BY <2>1, <2>3 DEF full
<1>7. StartNumber(base, value < 0, left % 2^b, f) /\ va' = Tail(va) /\ Skip(1)
      /\ width' = width /\ precision' = precision
  <2>1. /\ StartNumber(BaseOf(Peek), value < 0, (IF value > 0 THEN value ELSE 0 - value) % 2^ValueBits,
               (IF Peek = "X" THEN flags \cup {"UPPERCASE"} ELSE flags)
               \ ((IF BaseOf(Peek) = 10 THEN {"HASH"} ELSE {})
                  \cup (IF Signed(Peek) THEN {} ELSE {"PLUS", "SPACE"})
                  \cup (IF "PRECISION" \in flags THEN {"ZEROPAD"} ELSE {})))
        /\ va' = Tail(va) /\ Skip(1) /\ width' = width /\ precision' = precision
    <3> HIDE DEF value
    <3> QED
      BY <1>5 DEF Integer
  <2> QED
    BY <1>1, <1>4, <2>1
<1> HIDE DEF its, value, m, b
<1>8. /\ number' = [base |-> base, negative |-> value < 0, value |-> m]
      /\ buf' = <<>>
      /\ flags' = IF m = 0 THEN f \ {"HASH"} ELSE f
      /\ pc' = IF "PRECISION" \in f /\ m = 0 THEN "pad" ELSE "digits"
  BY <1>6, <1>7 DEF StartNumber
<1>9. /\ "ZEROPAD" \in its <=> Has(item, "0")
      /\ "LEFT" \in its <=> LeftAligned(item)
      /\ "PLUS" \in its <=> Has(item, "+")
      /\ "SPACE" \in its <=> Has(item, " ")
      /\ "HASH" \in its <=> Has(item, "#")
      /\ "PRECISION" \in its <=> item.precision.form # "none"
      /\ "UPPERCASE" \notin its
  BY <1>3, FlagsOfItem DEF its
<1>10. base = 10 <=> item.spec \in {"d", "i", "u"}
  BY <1>2 DEF BaseOf, IntegerSpecs
<1>11. Signed(spec) <=> spec \in {"d", "i"}
  BY DEF Signed
<1> HIDE DEF base
<1>12. /\ "LEFT" \in f <=> "LEFT" \in its
       /\ "ZEROPAD" \in f <=> "ZEROPAD" \in its /\ ~("PRECISION" \in its)
       /\ "PRECISION" \in f <=> "PRECISION" \in its
       /\ "PLUS" \in f <=> Signed(spec) /\ "PLUS" \in its
       /\ "SPACE" \in f <=> Signed(spec) /\ "SPACE" \in its
       /\ "HASH" \in f <=> "HASH" \in its /\ base # 10
       /\ "UPPERCASE" \in f <=> spec = "X"
  BY <1>9, <1>11
<1> HIDE DEF f
<1>13. \A x : x # "HASH" => (x \in flags' <=> x \in f)
  BY <1>8
<1>14. "HASH" \in flags' <=> "HASH" \in f /\ m # 0
  BY <1>8
<1>15. IntegerFlags(item)'
  <2>1. Flagged("LEFT", LeftAligned(item))'
    BY <1>9, <1>12, <1>13, Zenon DEF Flagged
  <2>2. Flagged("ZEROPAD", Has(item, "0") /\ item.precision.form = "none")'
    BY <1>9, <1>12, <1>13, Zenon DEF Flagged
  <2>3. Flagged("PRECISION", item.precision.form # "none")'
    BY <1>9, <1>12, <1>13, Zenon DEF Flagged
  <2>4. Flagged("PLUS", Signed(item.spec) /\ Has(item, "+"))'
    BY <1>9, <1>12, <1>13, Zenon DEF Flagged, spec
  <2>5. Flagged("SPACE", Signed(item.spec) /\ Has(item, " "))'
    BY <1>9, <1>12, <1>13, Zenon DEF Flagged, spec
  <2>6. Flagged("HASH", Has(item, "#") /\ item.spec \in {"x", "X", "o", "b"} /\ Magnitude(item) # 0)'
    <3>1. base # 10 <=> item.spec \in {"x", "X", "o", "b"}
      BY <1>2, <1>10 DEF IntegerSpecs
    <3> QED
      BY <1>9, <1>12, <1>14, <3>1, Zenon DEF Flagged, m
  <2>7. Flagged("UPPERCASE", item.spec = "X")'
    BY <1>9, <1>12, <1>13, Zenon DEF Flagged, spec
  <2> QED
    BY <2>1, <2>2, <2>3, <2>4, <2>5, <2>6, <2>7 DEF IntegerFlags
<1>16. /\ number'.base = BaseOf(item.spec) /\ number'.negative = (Value(item) < 0)
       /\ number'.value = m
       /\ precision' = item.precision.n /\ width' = FieldWidth(item)
  BY <1>1, <1>7, <1>8 DEF base, value
<1>17. Reverse(buf') = <<>>
  BY <1>8 DEF Reverse
<1>18. IntegerStage(item)'
  <2>1. CASE item.precision.form # "none" /\ m = 0
    <3>1. pc' = "pad"
      BY <1>8, <1>9, <1>12, <2>1
    <3>2. Digits(item) = <<>>
      BY <2>1 DEF Digits, m
    <3> QED
      BY <1>16, <1>17, <3>1, <3>2 DEF IntegerStage
  <2>2. CASE ~(item.precision.form # "none" /\ m = 0)
    <3>1. pc' = "digits"
      BY <1>8, <1>9, <1>12, <2>2
    <3> DEFINE digits == IF "UPPERCASE" \in flags' THEN UpperDigits ELSE LowerDigits
               n == Numeral(m, base, digits)
    <3>2. m \in Nat /\ base \in {2, 8, 10, 16} /\ digits \in {UpperDigits, LowerDigits}
      BY <1>3, MagnitudeIs, BaseType DEF m, base
    <3>3. n \in Seq(Printable) /\ n # <<>>
      <4> HIDE DEF digits
      <4> QED
        BY <3>2, NumeralPrintable
    <3>4. Digits(item) # <<>>
      <4>1. NumeralOf(item) # <<>>
        <5>1. \A d \in {UpperDigits, LowerDigits} : Numeral(m, base, d) # <<>>
          BY <3>2, NumeralPrintable
        <5> QED
          BY <2>2, <5>1 DEF NumeralOf, m, base
      <4> QED
        BY <2>2, <4>1 DEF Digits, m
    <3>5. DigitsLeft(Magnitude(item))'
      <4>1. n = n \o <<>>
        <5> HIDE DEF n
        <5> QED
          BY <3>3, ConcatEmptySeq
      <4>2. Numeral(m, number'.base, digits) = Numeral(number'.value, number'.base, digits) \o Reverse(buf')
        BY <1>16, <1>17, <4>1 DEF base
      <4> QED
        BY <4>2 DEF DigitsLeft, m
    <3> QED
      BY <1>16, <3>1, <3>4, <3>5 DEF IntegerStage
  <2> QED
    BY <2>1, <2>2
<1>19. OfItem(item)'
  BY <1>2, <1>15, <1>16 DEF OfItem, IntegerItem, Ready
<1> QED
  BY <1>1, <1>2, <1>7, <1>18, <1>19 DEF Converting

LEMMA PlainPointer ==
    ASSUME NEW item, NEW r, NEW a, Ready(item, r, a), item.spec \in {"%", "p"}
    PROVE  /\ item.flags = <<>> /\ item.width.n = 0 /\ item.precision.n = 0 /\ item.precision.form = "none"
           /\ FieldWidth(item) = 0 /\ ~LeftAligned(item) /\ \A c : ~Has(item, c)
<1>1. item.kind = "directive" /\ Supported(item) /\ FieldIn(item.width, 1) /\ FieldIn(item.precision, 0)
  BY ReadyIs DEF Ready
<1>2. item.flags = <<>> /\ item.width.form = "none" /\ item.precision.form = "none"
  BY <1>1, SupportedKinds DEF IntegerSpecs
<1>3. item.width.n = 0 /\ item.precision.n = 0
  BY <1>1, <1>2, FieldValue
<1>4. \A c : ~Has(item, c)
  BY <1>2 DEF Has, Contains
<1>5. ~LeftAligned(item) /\ FieldWidth(item) = 0
  BY <1>3, <1>4 DEF LeftAligned, FieldWidth
<1> QED
  BY <1>2, <1>3, <1>4, <1>5

LEMMA EntersPointer ==
    ASSUME NEW item, NEW r, NEW a, Ready(item, r, a), Parsing(item, r, a), Pointer
    PROVE  Converting(item)' /\ format' = r /\ va' = a
<1>1. /\ precision = item.precision.n /\ flags = ItsFlags(item)
      /\ Peek = item.spec /\ (Skip(1) => format' = r)
      /\ item.spec # "%" => va # <<>> /\ Head(va) = item.arg /\ Tail(va) = a
  BY AtItsSpecifier DEF Pointer, ItsFlags
<1>2. item.spec = "p"
  BY <1>1 DEF Pointer
<1>3. item.arg.n \in Int /\ item.flags \in Seq(FlagCharacters) /\ item.length \in LengthModifiers
  BY ReadyIs
<1>4. item.precision.n = 0 /\ item.precision.form = "none" /\ ~LeftAligned(item) /\ \A c : ~Has(item, c)
  BY <1>2, PlainPointer
<1> DEFINE v == AsUnsigned(item.arg.n, IntBits)
           f == flags \cup {"ZEROPAD", "UPPERCASE"}
           n == Numeral(v, 16, UpperDigits)
<1>5. StartNumber(16, FALSE, v, f) /\ va' = Tail(va) /\ Skip(1) /\ width' = IntBits \div 4 /\ precision' = precision
  BY <1>1, <1>2 DEF Pointer
<1>6. flags \cap {"LEFT", "PRECISION", "PLUS", "SPACE", "HASH"} = {}
  <2>1. /\ "LEFT" \notin flags /\ "PRECISION" \notin flags /\ "PLUS" \notin flags /\ "SPACE" \notin flags
        /\ "HASH" \notin flags
    BY <1>1, <1>3, <1>4, FlagsOfItem
  <2> QED
    BY <2>1
<1>7. v \in Nat
  BY <1>3, PointerTypes
<1>8. n \in Seq(Printable)
  <2> HIDE DEF v
  <2> QED
    BY <1>7, NumeralPrintable
<1>9. n = n \o <<>>
  <2> HIDE DEF n
  <2> QED
    BY <1>8, ConcatEmptySeq
<1> HIDE DEF v
<1>10. /\ number' = [base |-> 16, negative |-> FALSE, value |-> v] /\ buf' = <<>>
       /\ flags' = (IF v = 0 THEN f \ {"HASH"} ELSE f) /\ pc' = "digits"
  <2>1. "PRECISION" \notin f
    BY <1>6
  <2> QED
    BY <1>5, <2>1 DEF StartNumber
<1>11. PointerFlags'
  BY <1>6, <1>10 DEF PointerFlags
<1>12. DigitsLeft(AsUnsigned(item.arg.n, IntBits))'
  <2>1. "UPPERCASE" \in flags' /\ Reverse(buf') = <<>>
    BY <1>10, <1>11 DEF PointerFlags, Reverse
  <2>2. Numeral(v, number'.base, UpperDigits) = Numeral(number'.value, number'.base, UpperDigits) \o Reverse(buf')
    BY <1>9, <1>10, <2>1
  <2> QED
    BY <2>1, <2>2 DEF DigitsLeft, v
<1>13. number'.base = 16 /\ ~number'.negative /\ precision' = 0 /\ width' = IntBits \div 4
  BY <1>1, <1>4, <1>5, <1>10
<1> QED
  BY <1>1, <1>2, <1>5, <1>10, <1>11, <1>12, <1>13 DEF Converting, OfPointer, PointerStage

\* One round of the do loop takes a digit from what is left to the array.
LEMMA DigitMoves ==
    ASSUME NEW v \in Nat, TypeOK, DigitsLeft(v), Digit,
           LET digits == IF "UPPERCASE" \in flags THEN UpperDigits ELSE LowerDigits
           IN  Len(Numeral(v, number.base, digits)) <= PRINTF_NTOA_BUFFER_SIZE
    PROVE  LET digits == IF "UPPERCASE" \in flags THEN UpperDigits ELSE LowerDigits
           IN  \/ pc' = "digits" /\ DigitsLeft(v)'
               \/ pc' = "pad" /\ Reverse(buf') = Numeral(v, number.base, digits)
<1> DEFINE digits == IF "UPPERCASE" \in flags THEN UpperDigits ELSE LowerDigits
           base == number.base
           m == number.value
           d == digits[(m % base) + 1]
           next == m \div base
           back == Reverse(buf)
           all == Numeral(v, base, digits)
<1>1. digits \in {UpperDigits, LowerDigits} /\ base \in {2, 8, 10, 16} /\ m \in Nat
  BY DEF TypeOK
<1>2. buf \in Seq(Character) /\ PRINTF_NTOA_BUFFER_SIZE \in Nat
  BY SizeAssumption DEF TypeOK
<1>3. all = Numeral(m, base, digits) \o back /\ Len(all) <= PRINTF_NTOA_BUFFER_SIZE
  BY DEF DigitsLeft
<1>4. /\ buf' = Append(buf, d) /\ number'.base = base /\ number'.value = next
      /\ pc' = (IF next # 0 /\ Len(buf') < PRINTF_NTOA_BUFFER_SIZE THEN "digits" ELSE "pad") /\ flags' = flags
  BY DEF Digit, TypeOK, directive
<1>5. (m % base) + 1 \in 1..16 /\ next \in Nat
  BY <1>1, DivisionType
<1>6. d \in Character
  BY <1>1, <1>5, CharacterTypes
<1>7. back \in Seq(Character) /\ Len(back) = Len(buf) /\ Len(buf) \in Nat
  BY <1>2, ReverseIs
<1>8. Reverse(buf') = <<d>> \o back /\ Len(buf') = Len(buf) + 1
  <2> HIDE DEF d
  <2> QED
    BY <1>2, <1>4, <1>6, ReverseAppend, AppendProperties DEF back
<1>9. Numeral(m, base, digits) = IF m < base THEN <<digits[m + 1]>> ELSE Append(Numeral(next, base, digits), d)
  <2> HIDE DEF digits, base, m
  <2> QED
    BY <1>1, NumeralIs
<1>10. CASE m < base
  <2>1. m % base = m /\ next = 0
    BY <1>1, <1>10
  <2>2. all = Reverse(buf') /\ pc' = "pad"
    BY <1>3, <1>4, <1>8, <1>9, <1>10, <2>1
  <2> QED
    BY <2>2
<1>11. CASE ~(m < base)
  <2> DEFINE n == Numeral(next, base, digits)
             one == <<d>>
  <2>1. next # 0
    BY <1>1, <1>11
  <2>2. n \in Seq(Character) /\ n # <<>>
    <3>1. n \in Seq(Printable) /\ n # <<>>
      <4> HIDE DEF digits, base, m, next
      <4> QED
        BY <1>1, <1>5, NumeralPrintable
    <3>2. Seq(Printable) \subseteq Seq(Character)
      BY PrintableIs, SeqWider
    <3> QED
      BY <3>1, <3>2
  <2>3. all = Append(n, d) \o back
    BY <1>3, <1>9, <1>11
  <2> HIDE DEF n, all, back, digits, base, m, d, next
  <2>4. Append(n, d) = n \o one /\ one \in Seq(Character) /\ Len(one) = 1
    BY <1>6, <2>2
  <2> HIDE DEF one
  <2>5. all = n \o (one \o back)
    <3>1. all = (n \o one) \o back
      BY <2>3, <2>4
    <3>2. (n \o one) \o back = n \o (one \o back)
      BY <1>7, <2>2, <2>4, CharacterJoint
    <3> QED
      BY <3>1, <3>2
  <2>6. one \o back \in Seq(Character) /\ Len(one \o back) = 1 + Len(buf)
    <3>1. one \o back \in Seq(Character) /\ Len(one \o back) = Len(one) + Len(back)
      BY <1>7, <2>4, CharacterConcat
    <3> QED
      BY <1>7, <2>4, <3>1
  <2>7. Len(all) > Len(buf')
    <3>1. Len(all) = Len(n) + Len(one \o back)
      BY <2>2, <2>5, <2>6, CharacterConcat
    <3>2. Len(n) \in Nat \ {0}
      BY <2>2, EmptySeq, LenProperties
    <3> QED
      BY <1>7, <1>8, <2>6, <3>1, <3>2
  <2>8. pc' = "digits"
    <3>1. Len(all) \in Nat /\ Len(buf') \in Nat
      BY <1>7, <1>8, <2>2, <2>5, <2>6, CharacterConcat, LenProperties
    <3> QED
      BY <1>2, <1>3, <1>4, <2>1, <2>7, <3>1
  <2>9. Reverse(buf') = one \o back
    BY <1>8 DEF one
  <2>10. DigitsLeft(v)'
    BY <1>4, <2>5, <2>9 DEF DigitsLeft, n, all, base, digits
  <2> QED
    BY <2>8, <2>10
<1> QED
  BY <1>10, <1>11

-----------------------------------------------------------------------------
(***************************************************************************)
(* The text of an integer and its parts.                                   *)
(***************************************************************************)
LEMMA IntegerItemIs ==
    ASSUME NEW item, IntegerItem(item)
    PROVE  /\ item.arg.n \in Int /\ item.precision.n \in Nat /\ item.width.n \in Int /\ FieldWidth(item) \in Nat
           /\ item.precision.form = "none" => item.precision.n = 0
           /\ Supported(item) /\ Len(NumberText(item)) <= PRINTF_NTOA_BUFFER_SIZE
           /\ PRINTF_NTOA_BUFFER_SIZE \in Nat
           /\ NumeralOf(item) \in Seq(Printable) /\ Precise(item) \in Seq(Printable)
           /\ Prefix(item) \in Seq(Printable) /\ NumberText(item) \in Seq(Printable)
           /\ Value(item) \in Int /\ Magnitude(item) \in Nat
           /\ BaseOf(item.spec) \in {2, 8, 10, 16}
<1>1. Ready(item, Format(<<>>), <<>>)
  <2>1. <<>> \in Seq(Items) /\ <<>> \in Seq(Argument)
    BY EmptySeq
  <2> QED
    BY <2>1 DEF IntegerItem, Ready, Formats
<1>2. /\ FieldIn(item.width, 1) /\ FieldIn(item.precision, 0) /\ item.arg.n \in Int /\ Supported(item)
      /\ item.precision.n \in Nat
  BY <1>1, ReadyIs, PrecisionNotNegative
<1>3. item.width.n \in Int /\ item.precision.n \in Int /\ (item.precision.form = "none" => item.precision.n = 0)
  BY <1>2, FieldValue
<1>4. Len(NumberText(item)) <= PRINTF_NTOA_BUFFER_SIZE
  BY <1>2, SupportedKinds DEF IntegerItem, IntegerSpecs
<1>5. item.spec \in IntegerSpecs
  BY DEF IntegerItem
<1> QED
  BY <1>2, <1>3, <1>4, <1>5, NumberTypes, MagnitudeIs, BaseType, SizeAssumption

Fill(item) == IF ZeroFilled(item) THEN Repeat("0", FieldWidth(item) - (Len(Prefix(item)) + Len(Precise(item))))
                                  ELSE <<>>

LEMMA NumberParts ==
    ASSUME NEW item, IntegerItem(item)
    PROVE  /\ Fill(item) \in Seq(Printable)
           /\ NumberText(item) = (Prefix(item) \o Fill(item)) \o Precise(item)
           /\ Len(Prefix(item)) \in Nat /\ Len(Precise(item)) \in Nat /\ Len(Fill(item)) \in Nat
           /\ Len(NumberText(item)) = (Len(Prefix(item)) + Len(Fill(item))) + Len(Precise(item))
           /\ ZeroFilled(item) => Len(NumberText(item)) >= FieldWidth(item)
<1> DEFINE used == Len(Prefix(item)) + Len(Precise(item))
           k == FieldWidth(item) - used
           p == Prefix(item)
           q == Precise(item)
           f == Fill(item)
<1>1. p \in Seq(Printable) /\ q \in Seq(Printable) /\ Len(p) \in Nat /\ Len(q) \in Nat /\ FieldWidth(item) \in Nat
  BY IntegerItemIs, LenProperties
<1>2. k \in Int
  BY <1>1
<1>3. f = IF ZeroFilled(item) THEN Repeat("0", k) ELSE <<>>
  BY DEF Fill
<1>4. NumberText(item) = (p \o f) \o q
  BY DEF NumberText, Fill
<1>5. Repeat("0", k) \in Seq(Printable) /\ Len(Repeat("0", k)) = IF k > 0 THEN k ELSE 0
  <2> HIDE DEF k
  <2> QED
    BY <1>2, RepeatPrintable, PrintableIs
<1>6. f \in Seq(Printable) /\ Len(f) \in Nat /\ (ZeroFilled(item) => Len(f) = IF k > 0 THEN k ELSE 0)
  BY <1>3, <1>5, EmptySeq, LenProperties
<1> HIDE DEF f, p, q
<1>7. Len((p \o f) \o q) = (Len(p) + Len(f)) + Len(q)
  <2>1. p \o f \in Seq(Printable) /\ Len(p \o f) = Len(p) + Len(f)
    BY <1>1, <1>6, JoinedPrintable
  <2> QED
    BY <1>1, <2>1, JoinedPrintable
<1>8. ZeroFilled(item) => (Len(p) + Len(f)) + Len(q) >= FieldWidth(item)
  <2>1. used = Len(p) + Len(q) /\ k = FieldWidth(item) - used
    BY DEF p, q
  <2> HIDE DEF used, k
  <2> QED
    BY <1>1, <1>6, <2>1
<1> QED
  BY <1>1, <1>4, <1>6, <1>7, <1>8 DEF f, p, q

LEMMA RepeatOneMore == \A n \in Nat : Repeat("0", n) \o <<"0">> = Repeat("0", n + 1)
<1> SUFFICES ASSUME NEW n \in Nat PROVE Repeat("0", n) \o <<"0">> = Repeat("0", n + 1)
  OBVIOUS
<1> DEFINE s == Repeat("0", n)
           one == <<"0">>
           all == s \o one
           t == Repeat("0", n + 1)
<1>1. "0" \in Character
  BY Glyphs
<1>2. s \in Seq(Character) /\ Len(s) = n /\ \A k \in 1..n : s[k] = "0"
  BY <1>1, RepeatAt
<1>3. t \in Seq(Character) /\ Len(t) = n + 1 /\ \A k \in 1..(n + 1) : t[k] = "0"
  <2>1. n + 1 \in Nat
    OBVIOUS
  <2> QED
    BY <1>1, <2>1, RepeatAt
<1>4. one \in Seq(Character) /\ Len(one) = 1 /\ one[1] = "0"
  BY <1>1
<1> HIDE DEF s, one, t
<1>5. /\ all \in Seq(Character) /\ Len(all) = n + 1
      /\ \A k \in 1..(n + 1) : all[k] = IF k <= n THEN s[k] ELSE one[k - n]
  <2>1. /\ all \in Seq(Character) /\ Len(all) = Len(s) + Len(one)
        /\ \A k \in 1..(Len(s) + Len(one)) : all[k] = IF k <= Len(s) THEN s[k] ELSE one[k - Len(s)]
    BY <1>2, <1>4, CharacterConcat
  <2> HIDE DEF all
  <2> QED
    BY <1>2, <1>4, <2>1
<1> HIDE DEF all
<1>6. ASSUME NEW k \in 1..(n + 1) PROVE all[k] = t[k]
  <2>1. CASE k <= n
    BY <1>2, <1>3, <1>5, <2>1
  <2>2. CASE k = n + 1
    <3>1. ~(k <= n) /\ k - n = 1
      BY <2>2
    <3> QED
      BY <1>3, <1>4, <1>5, <3>1
  <2> QED
    BY <2>1, <2>2
<1>7. all = t
  BY <1>3, <1>5, <1>6, SeqEqual
<1> QED
  BY <1>7 DEF all, s, one, t

\* The digits the code begins with, and the zeros of the precision.
LEMMA PreciseIs ==
    ASSUME NEW item, IntegerItem(item)
    PROVE  /\ Digits(item) \in Seq(Printable) /\ Len(Digits(item)) \in Nat
           /\ Precise(item) = Repeat("0", item.precision.n - Len(Digits(item))) \o Digits(item)
           /\ LeftAligned(item) \/ item.precision.form = "none" => Precise(item) = Digits(item)
           /\ item.precision.form = "none" \/ Magnitude(item) # 0 => Digits(item) = NumeralOf(item)
<1> DEFINE p == item.precision.n
           d == Digits(item)
           n == NumeralOf(item)
           m == Magnitude(item)
<1>1. n \in Seq(Printable) /\ p \in Nat /\ (item.precision.form = "none" => p = 0) /\ m \in Nat
  BY IntegerItemIs
<1>2. d = IF item.precision.form # "none" /\ m = 0 THEN <<>> ELSE n
  BY DEF Digits
<1>3. d \in Seq(Printable) /\ Len(d) \in Nat
  BY <1>1, <1>2, EmptySeq, LenProperties
<1>4. Precise(item) = Repeat("0", p - Len(n)) \o n
  BY DEF Precise
<1>5. Precise(item) = Repeat("0", p - Len(d)) \o d
  <2>1. CASE d = n
    BY <1>4, <2>1
  <2>2. CASE d # n
    <3>1. d = <<>> /\ item.precision.form # "none" /\ m = 0
      BY <1>2, <2>2
    <3>2. p # 0
      BY <2>2, <3>1 DEF NumeralOf
    <3>3. n = <<"0">>
      <4> DEFINE digits == IF item.spec \in {"X", "p"} THEN UpperDigits ELSE LowerDigits
                 base == BaseOf(item.spec)
      <4>1. n = Numeral(0, base, digits)
        BY <3>1, <3>2 DEF NumeralOf
      <4>2. digits[1] = "0" /\ base \in {2, 8, 10, 16}
        BY IntegerItemIs DEF UpperDigits, LowerDigits
      <4> HIDE DEF digits, base, n
      <4>3. Numeral(0, base, digits) = <<digits[0 + 1]>>
        BY <4>2, NumeralIs
      <4> QED
        BY <4>1, <4>2, <4>3
    <3> HIDE DEF n, p, d
    <3>4. Len(n) = 1 /\ Len(d) = 0 /\ p - 1 \in Nat /\ (p - 1) + 1 = p
      BY <1>1, <3>1, <3>2, <3>3
    <3>5. Precise(item) = Repeat("0", p - 1) \o <<"0">>
      BY <1>4, <3>3, <3>4
    <3>6. Precise(item) = Repeat("0", p)
      BY <3>4, <3>5, RepeatOneMore
    <3>7. Repeat("0", p) \o <<>> = Repeat("0", p)
      <4>1. Repeat("0", p) \in Seq(Character)
        BY <1>1, Glyphs, RepeatAt
      <4> QED
        BY <4>1, ConcatEmptySeq
    <3>8. p - Len(d) = p
      BY <1>1, <3>4
    <3> QED
      BY <3>1, <3>6, <3>7, <3>8
  <2> QED
    BY <2>1, <2>2
<1>6. ASSUME LeftAligned(item) \/ item.precision.form = "none" PROVE p <= Len(d)
  <2>1. LeftAligned(item) => p <= (IF m # 0 THEN Len(n) ELSE 0)
    BY IntegerItemIs DEF IntegerItem, Supported, IntegerSpecs
  <2>2. Len(n) \in Nat
    BY <1>1, LenProperties
  <2> HIDE DEF p, n, d, m
  <2> QED
    BY <1>1, <1>2, <1>3, <1>6, <2>1, <2>2
<1>7. p <= Len(d) => Repeat("0", p - Len(d)) \o d = d
  <2> HIDE DEF p, d
  <2>1. p <= Len(d) => Repeat("0", p - Len(d)) = <<>>
    BY <1>1, <1>3 DEF Repeat
  <2> QED
    BY <1>3, <2>1, ConcatEmptySeq
<1> QED
  BY <1>2, <1>3, <1>5, <1>6, <1>7

\* None of it is beyond the array.
LEMMA WithinTheArray ==
    ASSUME NEW item, IntegerItem(item)
    PROVE  /\ item.precision.n <= PRINTF_NTOA_BUFFER_SIZE
           /\ ZeroFilled(item) => FieldWidth(item) <= PRINTF_NTOA_BUFFER_SIZE
           /\ Len(Prefix(item)) + Len(Precise(item)) <= PRINTF_NTOA_BUFFER_SIZE
           /\ Len(NumeralOf(item)) <= PRINTF_NTOA_BUFFER_SIZE
<1> DEFINE p == item.precision.n
           n == NumeralOf(item)
           q == Precise(item)
           size == PRINTF_NTOA_BUFFER_SIZE
           len == Len(NumberText(item))
<1>1. p \in Nat /\ size \in Nat /\ len <= size /\ FieldWidth(item) \in Nat /\ Len(n) \in Nat /\ n \in Seq(Printable)
  BY IntegerItemIs, LenProperties
<1>2. /\ Len(Prefix(item)) \in Nat /\ Len(q) \in Nat /\ Len(Fill(item)) \in Nat
      /\ len = (Len(Prefix(item)) + Len(Fill(item))) + Len(q)
      /\ ZeroFilled(item) => len >= FieldWidth(item)
  BY NumberParts
<1>3. Len(q) >= p /\ Len(q) >= Len(n)
  <2> DEFINE k == p - Len(n)
             z == Repeat("0", k)
  <2>1. k \in Int
    BY <1>1
  <2> HIDE DEF k
  <2>2. z \in Seq(Printable) /\ Len(z) = IF k > 0 THEN k ELSE 0
    BY <2>1, RepeatPrintable, PrintableIs
  <2>3. q = z \o n
    BY DEF Precise, k
  <2> HIDE DEF z, n, q, p
  <2>4. Len(q) = Len(z) + Len(n)
    BY <1>1, <2>2, <2>3, JoinedPrintable
  <2> QED
    BY <1>1, <2>2, <2>4 DEF k
<1> HIDE DEF p, n, q, size, len
<1>4. p <= size /\ (ZeroFilled(item) => FieldWidth(item) <= size) /\ Len(Prefix(item)) + Len(q) <= size /\ Len(n) <= size
  BY <1>1, <1>2, <1>3
<1> QED
  BY <1>4 DEF p, n, q, size

LEMMA SignIs ==
    ASSUME NEW item, OfItem(item), TypeOK
    PROVE  /\ HasSign <=> SignWidth(item) = 1
           /\ SignWidth(item) \in {0, 1}
           /\ Signed(item.spec) =>
                 /\ SignWidth(item) = Len(Prefix(item))
                 /\ number.negative => Prefix(item) = <<"-">>
                 /\ ~number.negative /\ "PLUS" \in flags => Prefix(item) = <<"+">>
                 /\ ~number.negative /\ "PLUS" \notin flags /\ "SPACE" \in flags => Prefix(item) = <<" ">>
                 /\ ~number.negative /\ "PLUS" \notin flags /\ "SPACE" \notin flags => Prefix(item) = <<>>
           /\ ~Signed(item.spec) => ~number.negative /\ "PLUS" \notin flags /\ "SPACE" \notin flags
<1>1. /\ "PLUS" \in flags <=> Signed(item.spec) /\ Has(item, "+")
      /\ "SPACE" \in flags <=> Signed(item.spec) /\ Has(item, " ")
  BY DEF OfItem, IntegerFlags, Flagged
<1>2. number.negative <=> Value(item) < 0
  BY DEF OfItem
<1>3. Value(item) \in Int /\ (~Signed(item.spec) => Value(item) >= 0)
  BY IntegerItemIs, MagnitudeIs DEF OfItem
<1>4. HasSign <=> number.negative \/ "PLUS" \in flags \/ "SPACE" \in flags
  BY Zenon DEF HasSign
<1>5. Value(item) >= 0 <=> ~(Value(item) < 0)
  BY <1>3
<1>6. ASSUME Signed(item.spec)
      PROVE  /\ Value(item) < 0 => Prefix(item) = <<"-">>
             /\ Value(item) >= 0 /\ Has(item, "+") => Prefix(item) = <<"+">>
             /\ Value(item) >= 0 /\ ~Has(item, "+") /\ Has(item, " ") => Prefix(item) = <<" ">>
             /\ Value(item) >= 0 /\ ~Has(item, "+") /\ ~Has(item, " ") => Prefix(item) = <<>>
  <2> DEFINE own == CASE Value(item) < 0 -> <<"-">>
                      [] Value(item) >= 0 /\ Has(item, "+") -> <<"+">>
                      [] Value(item) >= 0 /\ ~Has(item, "+") /\ Has(item, " ") -> <<" ">>
                      [] OTHER -> <<>>
  <2>1. item.spec \notin {"x", "X", "b", "o"}
    BY <1>6 DEF Signed
  <2>2. Prefix(item) = own
    BY <1>6, <2>1 DEF Prefix
  <2>3. Value(item) < 0 => own = <<"-">>
    BY <1>5, Zenon
  <2>4. Value(item) >= 0 /\ Has(item, "+") => own = <<"+">>
    BY <1>5, Zenon
  <2>5. Value(item) >= 0 /\ ~Has(item, "+") /\ Has(item, " ") => own = <<" ">>
    BY <1>5, Zenon
  <2>6. Value(item) >= 0 /\ ~Has(item, "+") /\ ~Has(item, " ") => own = <<>>
    BY <1>5, Zenon
  <2> HIDE DEF own
  <2> QED
    BY <2>2, <2>3, <2>4, <2>5, <2>6, Zenon
<1>7. ASSUME Signed(item.spec)
      PROVE  /\ number.negative => Prefix(item) = <<"-">>
             /\ ~number.negative /\ "PLUS" \in flags => Prefix(item) = <<"+">>
             /\ ~number.negative /\ "PLUS" \notin flags /\ "SPACE" \in flags => Prefix(item) = <<" ">>
             /\ ~number.negative /\ "PLUS" \notin flags /\ "SPACE" \notin flags => Prefix(item) = <<>>
  BY <1>1, <1>2, <1>6, <1>5, <1>7, Zenon
<1>8. Len(<<"-">>) = 1 /\ Len(<<"+">>) = 1 /\ Len(<<" ">>) = 1 /\ Len(<<>>) = 0
  OBVIOUS
<1>9. ~Signed(item.spec) => ~number.negative /\ "PLUS" \notin flags /\ "SPACE" \notin flags
  BY <1>1, <1>2, <1>3, <1>5, Zenon
<1>10. Signed(item.spec) =>
         /\ SignWidth(item) = Len(Prefix(item))
         /\ number.negative \/ "PLUS" \in flags \/ "SPACE" \in flags => Len(Prefix(item)) = 1
         /\ ~(number.negative \/ "PLUS" \in flags \/ "SPACE" \in flags) => Len(Prefix(item)) = 0
  BY <1>7, <1>8, Zenon DEF SignWidth
<1>11. ~Signed(item.spec) => SignWidth(item) = 0
  BY DEF SignWidth
<1>12. (HasSign /\ SignWidth(item) = 1) \/ (~HasSign /\ SignWidth(item) = 0)
  BY <1>4, <1>9, <1>10, <1>11, Zenon
<1>13. 0 # 1
  OBVIOUS
<1>14. (HasSign <=> SignWidth(item) = 1) /\ SignWidth(item) \in {0, 1}
  BY <1>12, <1>13, Zenon
<1> QED
  BY <1>7, <1>9, <1>10, <1>14, Zenon

LEMMA ReverseZeros ==
    ASSUME NEW s \in Seq(Character), NEW n \in Nat, n <= PRINTF_NTOA_BUFFER_SIZE
    PROVE  /\ Reverse(ZerosTo(s, n)) = Repeat("0", n - Len(s)) \o Reverse(s)
           /\ ZerosTo(s, n) \in Seq(Character)
<1> DEFINE k == n - Len(s)
<1>1. k \in Int /\ "0" \in Character
  <2>1. Len(s) \in Nat
    BY LenProperties
  <2>2. "0" \in Character
    BY Glyphs
  <2> QED
    BY <2>1, <2>2
<1>2. (IF n < PRINTF_NTOA_BUFFER_SIZE THEN n ELSE PRINTF_NTOA_BUFFER_SIZE) = n
  BY SizeAssumption
<1>3. ZerosTo(s, n) = s \o Repeat("0", k)
  BY <1>2 DEF ZerosTo
<1> HIDE DEF k
<1>4. Repeat("0", k) \in Seq(Character)
  BY <1>1, RepeatType
<1> QED
  BY <1>1, <1>3, <1>4, ReversePadded, CharacterConcat DEF k

LEMMA ReversedLength ==
    ASSUME NEW d, buf \in Seq(Character), Reverse(buf) = d
    PROVE  Len(buf) = Len(d) /\ d \in Seq(Character) /\ Len(d) \in Nat
  BY ReverseIs

LEMMA PadsInteger ==
    ASSUME NEW item, OfItem(item), TypeOK, Pad, width = FieldWidth(item), Reverse(buf) = Digits(item)
    PROVE  width' = PadWidth(item) /\ Reverse(buf') = Padded(item)
<1> DEFINE d == Digits(item)
           w == FieldWidth(item)
           p == item.precision.n
<1>1. IntegerItem(item) /\ precision = p
  BY DEF OfItem
<1>2. p \in Nat /\ w \in Nat /\ p <= PRINTF_NTOA_BUFFER_SIZE /\ (ZeroFilled(item) => w <= PRINTF_NTOA_BUFFER_SIZE)
      /\ (item.precision.form = "none" => p = 0) /\ PRINTF_NTOA_BUFFER_SIZE \in Nat
  BY <1>1, IntegerItemIs, WithinTheArray
<1>3. /\ "LEFT" \in flags <=> LeftAligned(item)
      /\ "ZEROPAD" \in flags <=> Has(item, "0") /\ item.precision.form = "none"
  BY DEF OfItem, IntegerFlags, Flagged
<1>4. ZeroFilled(item) <=> ("ZEROPAD" \in flags /\ "LEFT" \notin flags)
  BY <1>3, Zenon DEF ZeroFilled
<1>5. Len(buf) = Len(d) /\ d \in Seq(Character) /\ Len(d) \in Nat /\ buf \in Seq(Character)
  BY ReversedLength DEF TypeOK
<1>6. HasSign <=> SignWidth(item) = 1
  BY SignIs
<1>7. SignWidth(item) \in {0, 1}
  BY SignIs
<1>8. CASE LeftAligned(item)
  <2>1. "LEFT" \in flags /\ ~ZeroFilled(item)
    BY <1>3, <1>8 DEF ZeroFilled
  <2>2. width' = width /\ buf' = buf
    BY <2>1 DEF Pad
  <2>3. PadWidth(item) = w /\ Padded(item) = d
    BY <1>8, <2>1 DEF PadWidth, Padded
  <2> QED
    BY <2>2, <2>3
<1>9. CASE ~LeftAligned(item) /\ ZeroFilled(item)
  <2>1. "LEFT" \notin flags /\ "ZEROPAD" \in flags /\ item.precision.form = "none" /\ p = 0
    BY <1>2, <1>3, <1>4, <1>9
  <2>2. width' = IF width > 0 /\ HasSign THEN width - 1 ELSE width
    BY <2>1 DEF Pad
  <2>3. width' = PadWidth(item)
    BY <1>2, <1>6, <1>7, <1>9, <2>2 DEF PadWidth
  <2>4. width' \in Nat /\ width' <= PRINTF_NTOA_BUFFER_SIZE
    <3> HIDE DEF w
    <3>1. width = w
      BY DEF w
    <3> QED
      BY <1>2, <1>9, <2>2, <3>1
  <2> DEFINE precise == ZerosTo(buf, precision)
  <2>5. buf' = ZerosTo(precise, width')
    BY <2>1 DEF Pad
  <2>6. precise = buf
    <3>1. 0 - Len(buf) <= 0
      BY <1>5
    <3>2. Repeat("0", 0 - Len(buf)) = <<>>
      BY <3>1 DEF Repeat
    <3>3. (IF 0 < PRINTF_NTOA_BUFFER_SIZE THEN 0 ELSE PRINTF_NTOA_BUFFER_SIZE) = 0
      BY <1>2
    <3>4. precise = buf \o Repeat("0", 0 - Len(buf))
      BY <1>1, <2>1, <3>3 DEF ZerosTo
    <3> QED
      BY <1>5, <3>2, <3>4, ConcatEmptySeq
  <2> HIDE DEF precise
  <2>7. Reverse(buf') = Repeat("0", width' - Len(buf)) \o Reverse(buf)
    BY <1>5, <2>4, <2>5, <2>6, ReverseZeros
  <2>8. Padded(item) = Repeat("0", PadWidth(item) - Len(d)) \o d
    BY <1>9 DEF Padded
  <2> QED
    BY <1>5, <2>3, <2>7, <2>8
<1>10. CASE ~LeftAligned(item) /\ ~ZeroFilled(item)
  <2>1. "LEFT" \notin flags /\ "ZEROPAD" \notin flags
    BY <1>3, <1>4, <1>10
  <2>2. width' = width /\ buf' = ZerosTo(buf, precision)
    BY <2>1 DEF Pad
  <2>3. Reverse(buf') = Repeat("0", p - Len(d)) \o d
    BY <1>1, <1>2, <1>5, <2>2, ReverseZeros
  <2>4. Padded(item) = Precise(item) /\ PadWidth(item) = w
    BY <1>10 DEF Padded, PadWidth
  <2> QED
    BY <1>1, <2>2, <2>3, <2>4, PreciseIs
<1> QED
  BY <1>8, <1>9, <1>10

-----------------------------------------------------------------------------
(***************************************************************************)
(* The prefix.                                                             *)
(***************************************************************************)
LEMMA PaddedIs ==
    ASSUME NEW item, IntegerItem(item)
    PROVE  Padded(item) = (IF ZeroFilled(item) THEN Repeat("0", PadWidth(item) - Len(Precise(item))) ELSE <<>>)
                          \o Precise(item)
<1> DEFINE q == Precise(item)
           z == Repeat("0", PadWidth(item) - Len(q))
<1>1. q \in Seq(Printable)
  BY IntegerItemIs
<1>2. LeftAligned(item) \/ item.precision.form = "none" => q = Digits(item)
  BY PreciseIs
<1>3. CASE LeftAligned(item)
  <2>1. ~ZeroFilled(item) /\ Padded(item) = q
    BY <1>2, <1>3 DEF ZeroFilled, Padded
  <2> HIDE DEF q, z
  <2>2. <<>> \o q = q
    BY <1>1, ConcatEmptySeq
  <2> QED
    BY <2>1, <2>2 DEF q, z
<1>4. CASE ~LeftAligned(item) /\ ZeroFilled(item)
  <2>1. q = Digits(item)
    BY <1>2, <1>4 DEF ZeroFilled
  <2> QED
    BY <1>4, <2>1 DEF Padded
<1>5. CASE ~LeftAligned(item) /\ ~ZeroFilled(item)
  <2>1. Padded(item) = q
    BY <1>5 DEF Padded
  <2> HIDE DEF q, z
  <2>2. <<>> \o q = q
    BY <1>1, ConcatEmptySeq
  <2> QED
    BY <1>5, <2>1, <2>2 DEF q, z
<1> QED
  BY <1>3, <1>4, <1>5

\* What the prefix of an unsigned integer is.
Hashes(item) == Has(item, "#") /\ item.spec \in {"x", "X", "o", "b"} /\ Magnitude(item) # 0

LEMMA NumeralOfZero ==
    ASSUME NEW item, IntegerItem(item), item.precision.form = "none", Magnitude(item) = 0
    PROVE  Precise(item) = <<"0">>
<1> DEFINE digits == IF item.spec \in {"X", "p"} THEN UpperDigits ELSE LowerDigits
           base == BaseOf(item.spec)
           n == NumeralOf(item)
<1>1. n = Numeral(0, base, digits)
  BY DEF NumeralOf
<1>2. digits[1] = "0" /\ base \in {2, 8, 10, 16}
  BY IntegerItemIs DEF UpperDigits, LowerDigits
<1>3. Precise(item) = n
  BY PreciseIs
<1> HIDE DEF digits, base, n
<1>4. Numeral(0, base, digits) = <<digits[0 + 1]>>
  BY <1>2, NumeralIs
<1> QED
  BY <1>1, <1>2, <1>3, <1>4

LEMMA LowerDistinct == Distinct(LowerDigits, 8)
  BY DEF Distinct, LowerDigits

LEMMA OctalPrecise ==
    ASSUME NEW item, IntegerItem(item), Hashes(item), item.spec = "o"
    PROVE  Precise(item) # <<>> /\ Head(Precise(item)) # "0"
<1> DEFINE n == NumeralOf(item)
           m == Magnitude(item)
           p == item.precision.n
<1>1. m # 0 /\ m \in Nat /\ Digits(item) = n /\ n \in Seq(Printable) /\ p \in Nat /\ Supported(item)
  BY IntegerItemIs, PreciseIs DEF Hashes
<1>2. n = Numeral(m, 8, LowerDigits)
  BY <1>1 DEF NumeralOf, BaseOf
<1>3. item.precision.form # "none" => p <= Len(n)
  BY <1>1 DEF Supported, IntegerItem, Hashes, IntegerSpecs
<1>4. Precise(item) = Repeat("0", p - Len(n)) \o n
  BY <1>1, PreciseIs
<1>5. item.precision.form = "none" => Precise(item) = n
  BY <1>1, PreciseIs
<1> HIDE DEF n, m, p
<1>6. Len(n) \in Nat
  BY <1>1, LenProperties
<1>7. Precise(item) = n
  <2>1. CASE item.precision.form = "none"
    BY <1>5, <2>1
  <2>2. CASE item.precision.form # "none"
    <3>1. Repeat("0", p - Len(n)) = <<>>
      BY <1>1, <1>3, <1>6, <2>2 DEF Repeat
    <3> QED
      BY <1>1, <1>4, <3>1, ConcatEmptySeq
  <2> QED
    BY <2>1, <2>2
<1>8. LowerDigits[1] = "0"
  BY DEF LowerDigits
<1>9. n # <<>>
  BY <1>1, <1>2, NumeralLength
<1>10. Head(n) # "0"
  BY <1>1, <1>2, <1>8, LowerDistinct, NumeralLeads
<1> QED
  BY <1>7, <1>9, <1>10

LEMMA PrefixIs ==
    ASSUME NEW item, IntegerItem(item), ~Signed(item.spec)
    PROVE  /\ ~Hashes(item) => Prefix(item) = <<>>
           /\ Hashes(item) /\ item.spec \in {"x", "X", "b"} => Prefix(item) = <<"0", item.spec>>
           /\ Hashes(item) /\ item.spec = "o" => Prefix(item) = <<"0">>
<1>1. item.spec \notin {"d", "i"} /\ item.spec \in IntegerSpecs /\ Supported(item)
  BY IntegerItemIs DEF Signed, IntegerItem
<1>2. ASSUME Hashes(item), item.spec \in {"x", "X", "b"} PROVE Prefix(item) = <<"0", item.spec>>
  <2>1. Has(item, "#") /\ Magnitude(item) # 0 /\ item.spec # "o"
    BY <1>2 DEF Hashes
  <2> QED
    BY <1>1, <1>2, <2>1, Zenon DEF Prefix
<1>3. ASSUME Hashes(item), item.spec = "o" PROVE Prefix(item) = <<"0">>
  <2>1. Head(Precise(item)) # "0" /\ item.spec \notin {"x", "X", "b"}
    BY <1>3, OctalPrecise
  <2>2. Has(item, "#")
    BY <1>3 DEF Hashes
  <2> QED
    BY <1>3, <2>1, <2>2, Zenon DEF Prefix
<1>4. ASSUME ~Hashes(item) PROVE Prefix(item) = <<>>
  <2>1. CASE item.spec = "o"
    <3>1. item.spec \notin {"x", "X", "b"}
      BY <2>1
    <3>2. Has(item, "#") => Magnitude(item) = 0
      BY <1>4, <2>1, Zenon DEF Hashes
    <3>3. Has(item, "#") => item.precision.form = "none"
      <4>1. item.kind = "directive"
        BY DEF IntegerItem
      <4>2. Has(item, "#") /\ item.precision.form # "none" => Magnitude(item) # 0
        BY <1>1, <2>1, <4>1 DEF Supported, IntegerSpecs, Has, Contains
      <4> QED
        BY <3>2, <4>2, Zenon
    <3>4. Has(item, "#") => Precise(item) = <<"0">>
      BY <3>2, <3>3, NumeralOfZero
    <3>5. <<"0">> # <<>> /\ Head(<<"0">>) = "0"
      OBVIOUS
    <3>6. ~(Has(item, "#") /\ (Precise(item) = <<>> \/ Head(Precise(item)) # "0"))
      BY <3>4, <3>5
    <3> QED
      BY <2>1, <3>1, <3>6, Zenon DEF Prefix
  <2>2. CASE item.spec # "o"
    <3>1. ~(item.spec \in {"x", "X", "b"} /\ Has(item, "#") /\ Magnitude(item) # 0)
      BY <1>4, Zenon DEF Hashes
    <3> QED
      BY <2>2, <3>1, Zenon DEF Prefix
  <2> QED
    BY <2>1, <2>2
<1> QED
  BY <1>2, <1>3, <1>4

\* The room the width leaves the prefix.
LEMMA HashRoom ==
    ASSUME NEW item, IntegerItem(item), Hashes(item), item.precision.form = "none"
    PROVE  LET n == Len(NumeralOf(item)) IN
           /\ FieldWidth(item) # n
           /\ ZeroFilled(item) /\ item.spec \in {"x", "X"} => FieldWidth(item) # n + 1
           /\ ZeroFilled(item) /\ item.spec = "b" => FieldWidth(item) <= n + 1
<1> DEFINE n == Len(NumeralOf(item))
           w == FieldWidth(item)
           zf == ZeroFilled(item)
           room == CASE item.spec \in {"x", "X"} -> w # n + 1 [] item.spec = "b" -> w <= n + 1 [] OTHER -> TRUE
<1>1. item.kind = "directive" /\ item.spec \in {"x", "X", "o", "b"} /\ Supported(item)
  BY IntegerItemIs DEF IntegerItem, Hashes
<1>2. w # n /\ (zf => room)
  <2>1. item.spec \notin {"%", "p"} /\ item.spec \notin {"c", "s"} /\ item.kind # "text"
    BY <1>1
  <2>2. Has(item, "#") /\ Magnitude(item) # 0 /\ ~(item.precision.form # "none")
    BY Zenon DEF Hashes
  <2> QED
    BY <1>1, <2>1, <2>2, Zenon DEF Supported
<1>3. item.spec \in {"x", "X"} => (room <=> w # n + 1)
  BY DEF room
<1>4. item.spec = "b" => (room <=> w <= n + 1)
  BY DEF room
<1> HIDE DEF room, zf, w, n
<1>5. /\ w # n
      /\ zf /\ item.spec \in {"x", "X"} => w # n + 1
      /\ zf /\ item.spec = "b" => w <= n + 1
  BY <1>2, <1>3, <1>4, Zenon
<1> QED
  BY <1>5, Zenon DEF zf, w, n

\* The digits the prefix is put in front of.
HashBody ==
    LET n == Len(buf)
        fills == "PRECISION" \notin flags /\ n > 0 /\ n \in {precision, width}
        kept == IF ~fills THEN n ELSE IF number.base = 16 /\ n > 1 THEN n - 2 ELSE n - 1
    IN  SubSeq(buf, 1, kept)

\* The zeros in the array, and those of them the prefix leaves.
ZerosIn(item) == IF ZeroFilled(item) /\ FieldWidth(item) > Len(Precise(item))
                 THEN FieldWidth(item) - Len(Precise(item)) ELSE 0
ZerosKept(item) == IF ZerosIn(item) > Len(Prefix(item)) THEN ZerosIn(item) - Len(Prefix(item)) ELSE 0

LEMMA ZerosAre ==
    ASSUME NEW item, IntegerItem(item), ~Signed(item.spec)
    PROVE  /\ PadWidth(item) = FieldWidth(item)
           /\ ZerosIn(item) \in Nat /\ ZerosKept(item) \in Nat
           /\ Padded(item) = Repeat("0", ZerosIn(item)) \o Precise(item)
           /\ Fill(item) = Repeat("0", ZerosKept(item))
<1> DEFINE w == FieldWidth(item)
           n == Len(Precise(item))
           l == Len(Prefix(item))
           zf == ZeroFilled(item)
           z == ZerosIn(item)
           k == ZerosKept(item)
<1>1. w \in Nat /\ n \in Nat /\ l \in Nat
  BY IntegerItemIs, LenProperties
<1>2. PadWidth(item) = w
  <2>1. SignWidth(item) = 0
    BY DEF SignWidth
  <2> HIDE DEF w
  <2> QED
    BY <1>1, <2>1 DEF PadWidth, w
<1>3. z = (IF zf /\ w > n THEN w - n ELSE 0) /\ k = (IF z > l THEN z - l ELSE 0)
  BY DEF ZerosIn, ZerosKept
<1>4. Padded(item) = (IF zf THEN Repeat("0", w - n) ELSE <<>>) \o Precise(item)
  BY <1>2, PaddedIs
<1>5. Fill(item) = IF zf THEN Repeat("0", w - (l + n)) ELSE <<>>
  BY DEF Fill
<1> HIDE DEF w, n, l, zf, z, k
<1>6. z \in Nat /\ k \in Nat
  BY <1>1, <1>3
<1>7. (IF zf THEN Repeat("0", w - n) ELSE <<>>) = Repeat("0", z)
  BY <1>1, <1>3 DEF Repeat
<1>8. Fill(item) = Repeat("0", k)
  <2>1. CASE zf /\ w - (l + n) > 0
    <3>1. w > n /\ k = w - (l + n)
      BY <1>1, <1>3, <2>1
    <3> QED
      BY <1>5, <2>1, <3>1
  <2>2. CASE zf /\ ~(w - (l + n) > 0)
    <3>1. k = 0
      BY <1>1, <1>3, <2>2
    <3> QED
      BY <1>1, <1>5, <2>2, <3>1 DEF Repeat
  <2>3. CASE ~zf
    <3>1. k = 0
      BY <1>1, <1>3, <2>3
    <3> QED
      BY <1>5, <2>3, <3>1 DEF Repeat
  <2> QED
    BY <2>1, <2>2, <2>3
<1>9. Padded(item) = Repeat("0", z) \o Precise(item)
  BY <1>4, <1>7, Zenon
<1> QED
  BY <1>2, <1>6, <1>8, <1>9 DEF w, z, k

LEMMA HashBodyIs ==
    ASSUME NEW item, OfItem(item), TypeOK, Hashes(item), ~Signed(item.spec),
           width = PadWidth(item), Reverse(buf) = Padded(item)
    PROVE  HashBody \in Seq(Character) /\ Reverse(HashBody) = Fill(item) \o Precise(item)
<1> DEFINE q == Precise(item)
           z == ZerosIn(item)
           k == ZerosKept(item)
           w == FieldWidth(item)
           n == Len(q)
           l == Len(Prefix(item))
           zf == ZeroFilled(item)
           none == item.precision.form = "none"
           len == Len(buf)
           fills == "PRECISION" \notin flags /\ len > 0 /\ len \in {precision, width}
           j == IF ~fills THEN 0 ELSE IF number.base = 16 /\ len > 1 THEN 2 ELSE 1
<1>1. IntegerItem(item) /\ (number.base = BaseOf(item.spec)) /\ precision = item.precision.n
  BY DEF OfItem
<1>2. /\ width = w /\ z \in Nat /\ k \in Nat /\ Reverse(buf) = Repeat("0", z) \o q
      /\ Fill(item) = Repeat("0", k)
  BY <1>1, ZerosAre
<1>3. q \in Seq(Character) /\ w \in Nat /\ l \in Nat /\ n \in Nat /\ "0" \in Character /\ buf \in Seq(Character) /\ len \in Nat
  <2>1. q \in Seq(Printable) /\ w \in Nat /\ l \in Nat /\ Prefix(item) \in Seq(Printable)
    BY <1>1, IntegerItemIs, LenProperties
  <2>2. q \in Seq(Character)
    BY <2>1, PrintableIs, SeqWider
  <2> QED
    BY <2>1, <2>2, Glyphs, LenProperties DEF TypeOK
<1>4. "PRECISION" \in flags <=> ~none
  BY Zenon DEF OfItem, IntegerFlags, Flagged
<1>5. z = (IF zf /\ w > n THEN w - n ELSE 0) /\ k = (IF z > l THEN z - l ELSE 0)
  BY DEF ZerosIn, ZerosKept
<1>6. zf => none
  BY DEF ZeroFilled
<1>7. none => precision = 0 /\ q = NumeralOf(item)
  <2>1. none => item.precision.n = 0
    BY <1>1, IntegerItemIs
  <2>2. none => q = NumeralOf(item)
    BY <1>1, PreciseIs
  <2> QED
    BY <1>1, <2>1, <2>2
<1>8. none => /\ w # n
              /\ zf /\ item.spec \in {"x", "X"} => w # n + 1
              /\ zf /\ item.spec = "b" => w <= n + 1
  BY <1>1, <1>7, HashRoom
<1>9. n > 0
  <2>1. Digits(item) = NumeralOf(item) /\ Magnitude(item) \in Nat
    BY <1>1, IntegerItemIs, PreciseIs DEF Hashes
  <2>2. NumeralOf(item) # <<>>
    <3> DEFINE digits == IF item.spec \in {"X", "p"} THEN UpperDigits ELSE LowerDigits
    <3>1. NumeralOf(item) = Numeral(Magnitude(item), BaseOf(item.spec), digits)
      BY DEF NumeralOf, Hashes
    <3> HIDE DEF digits
    <3> QED
      BY <2>1, <3>1, BaseType, NumeralLength
  <2>3. NumeralOf(item) \in Seq(Printable)
    BY <1>1, IntegerItemIs
  <2>4. Len(NumeralOf(item)) > 0 /\ Len(NumeralOf(item)) \in Nat
    BY <2>2, <2>3, EmptySeq, LenProperties
  <2>5. n >= Len(NumeralOf(item))
    <3>1. n = IF item.precision.n > Len(NumeralOf(item)) THEN item.precision.n ELSE Len(NumeralOf(item))
      <4>1. item.arg.n \in Int /\ item.precision.n \in Int /\ item.width.n \in Int /\ item.spec \in IntegerSpecs
        BY <1>1, IntegerItemIs DEF IntegerItem
      <4> QED
        BY <4>1, NumberTypes
    <3>2. item.precision.n \in Nat
      BY <1>1, IntegerItemIs
    <3> HIDE DEF n
    <3> QED
      BY <2>4, <3>1, <3>2
  <2> QED
    BY <1>3, <2>4, <2>5
<1>10. /\ item.spec \in {"x", "X"} => number.base = 16 /\ l = 2
       /\ item.spec = "b" => number.base = 2 /\ l = 2
       /\ item.spec = "o" => number.base = 8 /\ l = 1
       /\ item.spec \in {"x", "X", "b", "o"}
  <2>1. /\ item.spec \in {"x", "X"} => number.base = 16
        /\ item.spec = "b" => number.base = 2
        /\ item.spec = "o" => number.base = 8
        /\ item.spec \in {"x", "X", "b", "o"}
    BY <1>1 DEF BaseOf, Hashes
  <2>2. item.spec \in {"x", "X", "b"} => Prefix(item) = <<"0", item.spec>>
    BY <1>1, PrefixIs
  <2>3. item.spec = "o" => Prefix(item) = <<"0">>
    BY <1>1, PrefixIs
  <2>4. Len(<<"0", item.spec>>) = 2 /\ Len(<<"0">>) = 1
    OBVIOUS
  <2> QED
    BY <2>1, <2>2, <2>3, <2>4
<1>11. Filled(buf, "0", z, q)
  BY <1>2 DEF Filled
<1>12. HashBody = SubSeq(buf, 1, len - j)
  BY <1>3 DEF HashBody
<1> HIDE DEF q, z, k, w, l, zf, none, n
<1>13. len = z + n
  BY <1>2, <1>3, <1>11, ReverseShortened DEF n
<1> HIDE DEF len
<1>14. j \in 0..z /\ z - j = k
  <2>1. CASE ~none
    <3>1. ~fills /\ z = 0 /\ k = 0
      BY <1>3, <1>4, <1>5, <1>6, <2>1
    <3>2. j = 0
      BY <3>1, Zenon
    <3> HIDE DEF j
    <3> QED
      BY <3>1, <3>2
  <2>2. CASE none /\ ~(zf /\ w > n)
    <3>1. z = 0 /\ k = 0 /\ len = n
      BY <1>3, <1>5, <1>13, <2>2
    <3>2. ~fills
      BY <1>2, <1>3, <1>7, <1>8, <1>9, <2>2, <3>1
    <3>3. j = 0
      BY <3>2, Zenon
    <3> HIDE DEF j
    <3> QED
      BY <3>1, <3>3
  <2>3. CASE none /\ zf /\ w > n
    <3>1. z = w - n /\ len = w /\ len > 0
      BY <1>3, <1>5, <1>9, <1>13, <2>3
    <3>2. fills
      BY <1>2, <1>4, <2>3, <3>1
    <3>3. k = IF z > l THEN z - l ELSE 0
      BY <1>5
    <3>4. CASE item.spec \in {"x", "X"}
      <4>1. j = 2 /\ w >= n + 2 /\ l = 2
        BY <1>3, <1>8, <1>9, <1>10, <2>3, <3>1, <3>2, <3>4
      <4> HIDE DEF j
      <4> QED
        BY <1>3, <3>1, <3>3, <4>1
    <3>5. CASE item.spec \in {"b", "o"}
      <4>1. j = 1
        BY <1>10, <3>2, <3>5
      <4>2. item.spec = "b" => w = n + 1 /\ l = 2
        BY <1>3, <1>8, <1>10, <2>3
      <4>3. item.spec = "o" => l = 1
        BY <1>10
      <4> HIDE DEF j
      <4>4. z >= 1 /\ z = w - n
        BY <1>3, <2>3, <3>1
      <4> QED
        BY <1>3, <3>5, <3>3, <4>1, <4>2, <4>3, <4>4
    <3> QED
      BY <1>10, <3>4, <3>5
  <2> QED
    BY <2>1, <2>2, <2>3
<1> HIDE DEF j
<1>15. HashBody \in Seq(Character) /\ Filled(HashBody, "0", z - j, q)
  BY <1>2, <1>3, <1>11, <1>12, <1>14, ReverseShortened DEF len
<1> QED
  BY <1>2, <1>14, <1>15 DEF Filled, q, k

LEMMA PushFits ==
    \A s \in Seq(Character) : \A c \in Character : Len(s) + 1 <= PRINTF_NTOA_BUFFER_SIZE =>
        /\ Push(s, c) \in Seq(Character) /\ Len(Push(s, c)) = Len(s) + 1
        /\ Reverse(Push(s, c)) = <<c>> \o Reverse(s)
<1> SUFFICES ASSUME NEW s \in Seq(Character), NEW c \in Character, Len(s) + 1 <= PRINTF_NTOA_BUFFER_SIZE
             PROVE  /\ Push(s, c) \in Seq(Character) /\ Len(Push(s, c)) = Len(s) + 1
                    /\ Reverse(Push(s, c)) = <<c>> \o Reverse(s)
  OBVIOUS
<1>1. Len(s) \in Nat /\ PRINTF_NTOA_BUFFER_SIZE \in Nat
  BY LenProperties, SizeAssumption
<1>2. Push(s, c) = Append(s, c)
  BY <1>1 DEF Push
<1> QED
  BY <1>2, AppendProperties, ReverseAppend

\* A prefix of one character, or of two, in front of zeros and digits.
LEMMA PrefixJoins ==
    ASSUME NEW f \in Seq(Character), NEW q \in Seq(Character), NEW c \in Character
    PROVE  /\ (<<c>> \o f) \o q = <<c>> \o (f \o q)
           /\ (<<"0", c>> \o f) \o q = <<"0">> \o (<<c>> \o (f \o q))
           /\ (<<>> \o f) \o q = f \o q
<1>1. <<c>> \in Seq(Character) /\ <<"0">> \in Seq(Character)
  <2>1. "0" \in Character
    BY Glyphs
  <2> QED
    BY <2>1
<1>2. <<"0", c>> = <<"0">> \o <<c>>
  OBVIOUS
<1>3. ASSUME NEW one \in Seq(Character) PROVE (one \o f) \o q = one \o (f \o q)
  BY CharacterJoint
<1>4. ASSUME NEW one \in Seq(Character), NEW zero \in Seq(Character)
      PROVE  ((zero \o one) \o f) \o q = zero \o (one \o (f \o q))
  <2>1. one \o f \in Seq(Character)
    BY CharacterConcat
  <2>2. (zero \o one) \o f = zero \o (one \o f)
    BY CharacterJoint
  <2>3. (zero \o (one \o f)) \o q = zero \o ((one \o f) \o q)
    BY <2>1, CharacterJoint
  <2> QED
    BY <1>3, <2>2, <2>3
<1>5. <<>> \o f = f
  BY ConcatEmptySeq
<1> QED
  BY <1>1, <1>2, <1>3, <1>4, <1>5

LEMMA HashesInteger ==
    ASSUME NEW item, OfItem(item), TypeOK, Hash, width = PadWidth(item), Reverse(buf) = Padded(item)
    PROVE  Reverse(buf') = Hashed(item)
<1> DEFINE f == Fill(item)
           q == Precise(item)
<1>1. IntegerItem(item) /\ number.base = BaseOf(item.spec)
  BY DEF OfItem
<1>2. "HASH" \in flags <=> Hashes(item)
  BY Zenon DEF OfItem, IntegerFlags, Flagged, Hashes
<1>3. "UPPERCASE" \in flags <=> item.spec = "X"
  BY DEF OfItem, IntegerFlags, Flagged
<1>4. f \in Seq(Character) /\ q \in Seq(Character)
  <2>1. f \in Seq(Printable) /\ q \in Seq(Printable)
    BY <1>1, NumberParts, IntegerItemIs
  <2> QED
    BY <2>1, PrintableIs, SeqWider
<1>5. NumberText(item) = (Prefix(item) \o f) \o q
  BY <1>1, NumberParts
<1>6. CASE Signed(item.spec)
  <2>1. item.spec \notin {"x", "X", "o", "b"}
    BY <1>6 DEF Signed
  <2>2. "HASH" \notin flags
    BY <1>2, <2>1 DEF Hashes
  <2>3. buf' = buf
    BY <2>2 DEF Hash
  <2>4. Hashed(item) = Padded(item)
    BY <1>1, <1>6, PaddedIs DEF Hashed
  <2> QED
    BY <2>3, <2>4
<1>7. CASE ~Signed(item.spec) /\ ~Hashes(item)
  <2>1. buf' = buf
    BY <1>2, <1>7 DEF Hash
  <2>2. Prefix(item) = <<>>
    BY <1>1, <1>7, PrefixIs
  <2>3. ZerosKept(item) = ZerosIn(item)
    <3>1. Len(<<>>) = 0 /\ ZerosIn(item) \in Nat
      BY <1>1, <1>7, ZerosAre
    <3>2. ZerosKept(item) = IF ZerosIn(item) > 0 THEN ZerosIn(item) - 0 ELSE 0
      BY <2>2, <3>1 DEF ZerosKept
    <3> QED
      BY <3>1, <3>2
  <2>4. Padded(item) = f \o q
    BY <1>1, <1>7, <2>3, ZerosAre
  <2>5. "0" \in Character
    BY Glyphs
  <2> HIDE DEF f, q
  <2>6. (<<>> \o f) \o q = f \o q
    BY <1>4, <2>5, PrefixJoins
  <2>7. Hashed(item) = NumberText(item)
    BY <1>7 DEF Hashed
  <2> QED
    BY <1>5, <2>1, <2>2, <2>4, <2>6, <2>7
<1>8. CASE Hashes(item)
  <2> DEFINE body == HashBody
             letter == CASE number.base = 16 -> Push(body, IF "UPPERCASE" \in flags THEN "X" ELSE "x")
                         [] number.base = 2 -> Push(body, "b")
                         [] OTHER -> body
  <2>1. ~Signed(item.spec)
    BY <1>8 DEF Hashes, Signed
  <2>2. body \in Seq(Character) /\ Reverse(body) = f \o q
    BY <1>8, <2>1, HashBodyIs
  <2>3. buf' = Push(letter, "0")
    BY <1>2, <1>8, Zenon DEF Hash, HashBody
  <2>4. Hashed(item) = NumberText(item)
    BY <2>1 DEF Hashed
  <2>5. Len(body) = Len(f) + Len(q)
    <3> HIDE DEF f, q, body
    <3>1. Len(f \o q) = Len(f) + Len(q)
      BY <1>4, CharacterConcat
    <3>2. Len(Reverse(body)) = Len(body)
      BY <2>2, ReverseIs
    <3> QED
      BY <2>2, <3>1, <3>2
  <2>6. /\ Len(Prefix(item)) \in Nat /\ Len(f) \in Nat /\ Len(q) \in Nat
        /\ (Len(Prefix(item)) + Len(f)) + Len(q) <= PRINTF_NTOA_BUFFER_SIZE
        /\ PRINTF_NTOA_BUFFER_SIZE \in Nat
    BY <1>1, NumberParts, IntegerItemIs
  <2>7. {"0", "b", "x", "X"} \subseteq Character
    BY Glyphs
  <2>8. CASE item.spec \in {"x", "X", "b"}
    <3>1. letter = Push(body, item.spec)
      <4>1. /\ item.spec \in {"x", "X"} => number.base = 16
            /\ item.spec = "b" => number.base = 2
        BY <1>1 DEF BaseOf
      <4>2. item.spec \in {"x", "X"} => item.spec = IF "UPPERCASE" \in flags THEN "X" ELSE "x"
        BY <1>3
      <4> HIDE DEF body
      <4> QED
        BY <2>8, <4>1, <4>2
    <3>2. Prefix(item) = <<"0", item.spec>> /\ Len(<<"0", item.spec>>) = 2 /\ item.spec \in Character
      BY <1>1, <1>8, <2>1, <2>7, <2>8, PrefixIs
    <3> HIDE DEF letter, body, f, q
    <3>3. Len(body) + 2 <= PRINTF_NTOA_BUFFER_SIZE /\ Len(body) \in Nat
      BY <2>5, <2>6, <3>2
    <3>4. /\ letter \in Seq(Character) /\ Len(letter) = Len(body) + 1
          /\ Reverse(letter) = <<item.spec>> \o (f \o q)
      <4>1. Len(body) + 1 <= PRINTF_NTOA_BUFFER_SIZE
        BY <2>6, <3>3
      <4> QED
        BY <2>2, <3>1, <3>2, <4>1, PushFits
    <3>5. Reverse(buf') = <<"0">> \o Reverse(letter)
      <4>1. Len(letter) + 1 <= PRINTF_NTOA_BUFFER_SIZE /\ "0" \in Character
        BY <2>6, <2>7, <3>3, <3>4
      <4> QED
        BY <2>3, <3>4, <4>1, PushFits
    <3>6. (<<"0", item.spec>> \o f) \o q = <<"0">> \o (<<item.spec>> \o (f \o q))
      BY <1>4, <3>2, PrefixJoins
    <3> QED
      BY <1>5, <2>4, <3>2, <3>4, <3>5, <3>6
  <2>9. CASE item.spec = "o"
    <3>1. letter = body
      <4>1. number.base = 8
        BY <1>1, <2>9 DEF BaseOf
      <4> HIDE DEF body
      <4> QED
        BY <4>1
    <3>2. Prefix(item) = <<"0">> /\ Len(<<"0">>) = 1
      BY <1>1, <1>8, <2>1, <2>9, PrefixIs
    <3> HIDE DEF letter, body, f, q
    <3>3. Len(body) + 1 <= PRINTF_NTOA_BUFFER_SIZE /\ "0" \in Character
      BY <2>5, <2>6, <2>7, <3>2
    <3>4. Reverse(buf') = <<"0">> \o (f \o q)
      BY <2>2, <2>3, <3>1, <3>3, PushFits
    <3>5. (<<"0">> \o f) \o q = <<"0">> \o (f \o q)
      BY <1>4, <3>3, PrefixJoins
    <3> QED
      BY <1>5, <2>4, <3>2, <3>4, <3>5
  <2> QED
    BY <1>8, <2>8, <2>9 DEF Hashes
<1> QED
  BY <1>6, <1>7, <1>8

-----------------------------------------------------------------------------
(***************************************************************************)
(* The sign, the field, and the other conversions.                         *)
(***************************************************************************)
LEMMA SignedFill ==
    ASSUME NEW item, IntegerItem(item), Signed(item.spec), SignWidth(item) = Len(Prefix(item))
    PROVE  Hashed(item) = Fill(item) \o Precise(item)
<1> DEFINE w == FieldWidth(item)
           l == Len(Prefix(item))
           n == Len(Precise(item))
           p == PadWidth(item)
<1>1. w \in Nat /\ l \in Nat /\ n \in Nat
  BY IntegerItemIs, NumberParts
<1>2. ZeroFilled(item) => p = IF w > 0 THEN w - l ELSE w
  BY DEF PadWidth
<1>3. Hashed(item) = (IF ZeroFilled(item) THEN Repeat("0", p - n) ELSE <<>>) \o Precise(item)
  BY DEF Hashed
<1>4. Fill(item) = IF ZeroFilled(item) THEN Repeat("0", w - (l + n)) ELSE <<>>
  BY DEF Fill
<1> HIDE DEF w, l, n, p
<1>5. CASE ZeroFilled(item)
  <2>1. Repeat("0", p - n) = Repeat("0", w - (l + n))
    <3>1. CASE w > 0
      <4>1. p - n = w - (l + n)
        BY <1>1, <1>2, <1>5, <3>1
      <4> QED
        BY <4>1
    <3>2. CASE ~(w > 0)
      <4>1. ~(p - n > 0) /\ ~(w - (l + n) > 0)
        BY <1>1, <1>2, <1>5, <3>2
      <4> QED
        BY <4>1 DEF Repeat
    <3> QED
      BY <3>1, <3>2
  <2> QED
    BY <1>3, <1>4, <1>5, <2>1
<1>6. CASE ~ZeroFilled(item)
  BY <1>3, <1>4, <1>6
<1> QED
  BY <1>5, <1>6

LEMMA SignsInteger ==
    ASSUME NEW item, OfItem(item), TypeOK, Sign, Reverse(buf) = Hashed(item)
    PROVE  Reverse(buf') = NumberText(item)
<1> DEFINE f == Fill(item)
           q == Precise(item)
<1>1. IntegerItem(item)
  BY DEF OfItem
<1>2. f \in Seq(Character) /\ q \in Seq(Character) /\ f \o q \in Seq(Character)
  <2>1. f \in Seq(Printable) /\ q \in Seq(Printable)
    BY <1>1, NumberParts, IntegerItemIs
  <2>2. f \in Seq(Character) /\ q \in Seq(Character)
    BY <2>1, PrintableIs, SeqWider
  <2> HIDE DEF f, q
  <2> QED
    BY <2>2, CharacterConcat
<1>3. NumberText(item) = (Prefix(item) \o f) \o q
  BY <1>1, NumberParts
<1>4. buf \in Seq(Character)
  BY DEF TypeOK
<1>5. CASE ~Signed(item.spec)
  <2>1. ~number.negative /\ "PLUS" \notin flags /\ "SPACE" \notin flags
    BY <1>5, SignIs
  <2>2. flags \cap {"PLUS", "SPACE"} # {"SPACE"}
    BY <2>1
  <2>3. buf' = buf
    BY <2>1, <2>2, Zenon DEF Sign
  <2> QED
    BY <1>5, <2>3 DEF Hashed
<1>6. CASE Signed(item.spec)
  <2>1. /\ SignWidth(item) = Len(Prefix(item))
        /\ number.negative => Prefix(item) = <<"-">>
        /\ ~number.negative /\ "PLUS" \in flags => Prefix(item) = <<"+">>
        /\ ~number.negative /\ "PLUS" \notin flags /\ "SPACE" \in flags => Prefix(item) = <<" ">>
        /\ ~number.negative /\ "PLUS" \notin flags /\ "SPACE" \notin flags => Prefix(item) = <<>>
    BY <1>6, SignIs
  <2>2. Reverse(buf) = f \o q
    BY <1>1, <1>6, <2>1, SignedFill
  <2>3. Len(buf) = Len(f) + Len(q)
    <3> HIDE DEF f, q
    <3>1. Len(f \o q) = Len(f) + Len(q)
      BY <1>2, CharacterConcat
    <3>2. Len(Reverse(buf)) = Len(buf)
      BY <1>4, ReverseIs
    <3> QED
      BY <2>2, <3>1, <3>2
  <2>4. /\ Len(Prefix(item)) \in Nat /\ Len(f) \in Nat /\ Len(q) \in Nat
        /\ (Len(Prefix(item)) + Len(f)) + Len(q) <= PRINTF_NTOA_BUFFER_SIZE
        /\ PRINTF_NTOA_BUFFER_SIZE \in Nat
    BY <1>1, NumberParts, IntegerItemIs
  <2>5. ASSUME NEW c \in Character, Prefix(item) = <<c>>, buf' = Push(buf, c)
        PROVE  Reverse(buf') = NumberText(item)
    <3>1. Len(<<c>>) = 1
      OBVIOUS
    <3> HIDE DEF f, q
    <3>2. Len(buf) + 1 <= PRINTF_NTOA_BUFFER_SIZE
      BY <2>3, <2>4, <2>5, <3>1
    <3>3. Reverse(buf') = <<c>> \o (f \o q)
      BY <1>4, <2>2, <2>5, <3>2, PushFits
    <3>4. (<<c>> \o f) \o q = <<c>> \o (f \o q)
      BY <1>2, PrefixJoins
    <3> QED
      BY <1>3, <2>5, <3>3, <3>4
  <2>6. "-" \in Character /\ "+" \in Character /\ " " \in Character
    BY Glyphs
  <2>7. CASE number.negative
    <3>1. buf' = Push(buf, "-")
      BY <2>7, Zenon DEF Sign
    <3> QED
      BY <2>1, <2>5, <2>6, <2>7, <3>1
  <2>8. CASE ~number.negative /\ "PLUS" \in flags
    <3>1. flags \cap {"PLUS", "SPACE"} # {"SPACE"}
      BY <2>8
    <3>2. buf' = Push(buf, "+")
      BY <2>8, <3>1, Zenon DEF Sign
    <3> QED
      BY <2>1, <2>5, <2>6, <2>8, <3>2
  <2>9. CASE ~number.negative /\ "PLUS" \notin flags /\ "SPACE" \in flags
    <3>1. flags \cap {"PLUS", "SPACE"} = {"SPACE"}
      BY <2>9
    <3>2. buf' = Push(buf, " ")
      BY <2>9, <3>1, Zenon DEF Sign
    <3> QED
      BY <2>1, <2>5, <2>6, <2>9, <3>2
  <2>10. CASE ~number.negative /\ "PLUS" \notin flags /\ "SPACE" \notin flags
    <3>1. flags \cap {"PLUS", "SPACE"} # {"SPACE"}
      BY <2>10
    <3>2. buf' = buf
      BY <2>10, <3>1, Zenon DEF Sign
    <3>3. Prefix(item) = <<>>
      BY <2>1, <2>10
    <3> HIDE DEF f, q
    <3>4. (<<>> \o f) \o q = f \o q
      BY <1>2, <2>6, PrefixJoins
    <3> QED
      BY <1>3, <2>2, <3>2, <3>3, <3>4
  <2> QED
    BY <2>7, <2>8, <2>9, <2>10
<1> QED
  BY <1>5, <1>6

\* A text as wide as its field.
LEMMA JustifiedIs ==
    /\ \A s : \A w : \A left : InField(s) = Justified(s, width, "LEFT" \in flags)
    /\ \A s \in Seq(Character) : \A w \in Int : w <= Len(s) => Justified(s, w, FALSE) = s
<1>1. \A s : InField(s) = Justified(s, width, "LEFT" \in flags)
  BY DEF InField, Justified, Spaces
<1>2. ASSUME NEW s \in Seq(Character), NEW w \in Int, w <= Len(s) PROVE Justified(s, w, FALSE) = s
  <2>1. Len(s) \in Nat
    BY LenProperties
  <2>2. Repeat(" ", w - Len(s)) = <<>>
    <3>1. ~(w - Len(s) > 0)
      BY <1>2, <2>1
    <3> QED
      BY <3>1, Zenon DEF Repeat
  <2>3. Justified(s, w, FALSE) = Repeat(" ", w - Len(s)) \o s
    BY DEF Justified
  <2> QED
    BY <2>2, <2>3, ConcatEmptySeq
<1> QED
  BY <1>1, <1>2

LEMMA OutsInteger ==
    ASSUME NEW item, OfItem(item), TypeOK, OutRev, width = PadWidth(item), Reverse(buf) = NumberText(item)
    PROVE  Out(Meaning(item))
<1> DEFINE t == NumberText(item)
           w == FieldWidth(item)
           left == LeftAligned(item)
<1>1. IntegerItem(item)
  BY DEF OfItem
<1>2. item.kind # "text" /\ item.spec # "%"
  BY <1>1 DEF IntegerItem, IntegerSpecs
<1>3. Body(item) = t
  BY <1>1 DEF Body, IntegerItem, IntegerSpecs
<1>4. Meaning(item) = Justified(t, w, left)
  BY <1>2, <1>3 DEF Meaning
<1>5. t \in Seq(Character) /\ w \in Nat
  BY <1>1, IntegerItemIs, PrintableIs, SeqWider
<1>6. /\ "LEFT" \in flags <=> left
      /\ ZeroFilled(item) <=> ("ZEROPAD" \in flags /\ "LEFT" \notin flags)
  <2>1. /\ "LEFT" \in flags <=> LeftAligned(item)
        /\ "ZEROPAD" \in flags <=> Has(item, "0") /\ item.precision.form = "none"
    BY DEF OfItem, IntegerFlags, Flagged
  <2> QED
    BY <2>1, Zenon DEF ZeroFilled
<1>7. CASE ZeroFilled(item)
  <2>1. Out(t)
    BY <1>6, <1>7 DEF OutRev
  <2>2. left = FALSE
    <3>1. ~left
      BY <1>7, Zenon DEF ZeroFilled
    <3>2. left \in BOOLEAN
      BY DEF LeftAligned, Has, Contains
    <3> QED
      BY <3>1, <3>2
  <2>3. Len(t) >= w /\ Len(t) \in Nat
    BY <1>1, <1>5, <1>7, NumberParts, LenProperties
  <2> HIDE DEF t, w, left
  <2>4. w <= Len(t) /\ w \in Int
    BY <1>5, <2>3
  <2>5. Justified(t, w, FALSE) = t
    BY <1>5, <2>4, JustifiedIs
  <2> QED
    BY <1>4, <2>1, <2>2, <2>5
<1>8. CASE ~ZeroFilled(item)
  <2>1. Out(InField(t))
    BY <1>6, <1>8 DEF OutRev
  <2>2. width = w
    BY <1>8 DEF PadWidth
  <2>3. ("LEFT" \in flags) = left
    <3>1. left \in BOOLEAN
      BY DEF LeftAligned, Has, Contains
    <3> QED
      BY <1>6, <3>1
  <2>4. InField(t) = Justified(t, width, "LEFT" \in flags)
    BY JustifiedIs
  <2> HIDE DEF t, w, left
  <2> QED
    BY <1>4, <2>1, <2>2, <2>3, <2>4
<1> QED
  BY <1>7, <1>8

LEMMA NoZeros == \A s \in Seq(Character) : ZerosTo(s, 0) = s
<1> SUFFICES ASSUME NEW s \in Seq(Character) PROVE ZerosTo(s, 0) = s
  OBVIOUS
<1>1. Len(s) \in Nat /\ PRINTF_NTOA_BUFFER_SIZE \in Nat
  BY LenProperties, SizeAssumption
<1>2. Repeat("0", 0 - Len(s)) = <<>>
  BY <1>1 DEF Repeat
<1>3. (IF 0 < PRINTF_NTOA_BUFFER_SIZE THEN 0 ELSE PRINTF_NTOA_BUFFER_SIZE) = 0
  BY <1>1
<1>4. ZerosTo(s, 0) = s \o Repeat("0", 0 - Len(s))
  BY <1>3 DEF ZerosTo
<1> QED
  BY <1>2, <1>4, ConcatEmptySeq

LEMMA PadsPointer ==
    ASSUME NEW item, item.arg.n \in Int, OfPointer(item), TypeOK, Pad,
           Reverse(buf) = Numeral(AsUnsigned(item.arg.n, IntBits), 16, UpperDigits)
    PROVE  Reverse(buf') = PointerText(item) /\ width' = width
<1> DEFINE n == Numeral(AsUnsigned(item.arg.n, IntBits), 16, UpperDigits)
           w == IntBits \div 4
<1>1. "LEFT" \notin flags /\ "ZEROPAD" \in flags /\ "PLUS" \notin flags /\ "SPACE" \notin flags
  BY DEF OfPointer, PointerFlags
<1>2. ~HasSign
  <2>1. flags \cap {"PLUS", "SPACE"} = {}
    BY <1>1
  <2> QED
    BY <2>1, Zenon DEF HasSign, OfPointer
<1>3. width' = width /\ buf' = ZerosTo(ZerosTo(buf, precision), width')
  BY <1>1, <1>2, Zenon DEF Pad
<1>4. buf \in Seq(Character) /\ width = w /\ precision = 0
  BY DEF TypeOK, OfPointer
<1>5. buf' = ZerosTo(buf, w)
  BY <1>3, <1>4, NoZeros
<1>6. w \in Nat /\ w <= PRINTF_NTOA_BUFFER_SIZE
  BY BitsAssumption, PointerAssumption
<1>7. Len(buf) = Len(n)
  BY <1>4, ReversedLength
<1>8. PointerText(item) = Repeat("0", w - Len(n)) \o n
  BY DEF PointerText
<1> HIDE DEF n, w
<1>9. Reverse(buf') = Repeat("0", w - Len(buf)) \o Reverse(buf)
  BY <1>4, <1>5, <1>6, ReverseZeros
<1> QED
  BY <1>3, <1>7, <1>8, <1>9 DEF n

LEMMA PointerAsItIs ==
    ASSUME NEW item, OfPointer(item)
    PROVE  Hash \/ Sign => buf' = buf
<1>1. "HASH" \notin flags /\ "PLUS" \notin flags /\ ~number.negative
  BY DEF OfPointer, PointerFlags
<1>2. flags \cap {"PLUS", "SPACE"} # {"SPACE"}
  BY DEF OfPointer, PointerFlags
<1>3. Hash => buf' = buf
  BY <1>1 DEF Hash
<1>4. Sign => buf' = buf
  BY <1>1, <1>2, Zenon DEF Sign
<1> QED
  BY <1>3, <1>4

LEMMA OutsPointer ==
    ASSUME NEW item, NEW r, NEW a, Ready(item, r, a), OfPointer(item), OutRev, Reverse(buf) = PointerText(item)
    PROVE  Out(Meaning(item))
<1> DEFINE t == PointerText(item)
<1>1. item.spec = "p" /\ item.kind # "text"
  BY DEF OfPointer, Ready
<1>2. FieldWidth(item) = 0 /\ ~LeftAligned(item) /\ item.arg.n \in Int
  BY <1>1, PlainPointer, ReadyIs
<1>3. t \in Seq(Character)
  BY <1>2, PointerTypes, PrintableIs, SeqWider
<1>4. Body(item) = t
  BY <1>1 DEF Body, IntegerSpecs
<1>5. LeftAligned(item) = FALSE
  <2>1. LeftAligned(item) \in BOOLEAN
    BY DEF LeftAligned, Has, Contains
  <2> QED
    BY <1>2, <2>1
<1>6. Meaning(item) = Justified(t, 0, FALSE)
  BY <1>1, <1>2, <1>4, <1>5 DEF Meaning
<1>7. Out(t)
  <2>1. "ZEROPAD" \in flags /\ "LEFT" \notin flags
    BY DEF OfPointer, PointerFlags
  <2> QED
    BY <2>1 DEF OutRev
<1> HIDE DEF t
<1>8. 0 <= Len(t)
  BY <1>3, LenProperties
<1>9. Justified(t, 0, FALSE) = t
  <2>1. 0 \in Int
    OBVIOUS
  <2> QED
    BY <1>3, <1>8, <2>1, JustifiedIs, Zenon
<1> QED
  BY <1>6, <1>7, <1>9

-----------------------------------------------------------------------------
(***************************************************************************)
(* Every stage of _ntoa_format on its way to the text.                     *)
(***************************************************************************)
NumberMoves == Digit \/ Pad \/ Hash \/ Sign

LEMMA MovesKeep ==
    ASSUME TypeOK, NumberMoves
    PROVE  /\ UNCHANGED <<call, format, va, flags, precision, idx, sent, buffer>>
           /\ number'.base = number.base /\ number'.negative = number.negative
<1>1. number \in [base : {2, 8, 10, 16}, negative : BOOLEAN, value : Nat]
  BY DEF TypeOK
<1>2. CASE Digit
  BY <1>1, <1>2 DEF Digit, directive, output
<1>3. CASE Pad
  BY <1>3 DEF Pad, output
<1>4. CASE Hash
  BY <1>4 DEF Hash, directive, output
<1>5. CASE Sign
  BY <1>5 DEF Sign, directive, output
<1> QED
  BY <1>2, <1>3, <1>4, <1>5 DEF NumberMoves

LEMMA OfKept ==
    ASSUME NEW item, TypeOK, NumberMoves
    PROVE  /\ OfItem(item) => OfItem(item)'
           /\ OfPointer(item) /\ width' = width => OfPointer(item)'
<1>1. flags' = flags /\ precision' = precision /\ number'.base = number.base /\ number'.negative = number.negative
  BY MovesKeep
<1>2. OfItem(item) => OfItem(item)'
  BY <1>1 DEF OfItem, IntegerFlags, Flagged
<1>3. OfPointer(item) /\ width' = width => OfPointer(item)'
  BY <1>1 DEF OfPointer, PointerFlags
<1> QED
  BY <1>2, <1>3

LEMMA IntegerDigits ==
    ASSUME NEW item, OfItem(item), TypeOK, IntegerStage(item), Digit
    PROVE  IntegerStage(item)'
<1> DEFINE m == Magnitude(item)
           digits == IF "UPPERCASE" \in flags THEN UpperDigits ELSE LowerDigits
           n == Numeral(m, number.base, digits)
<1>1. IntegerItem(item) /\ number.base = BaseOf(item.spec)
  BY DEF OfItem
<1>2. width = FieldWidth(item) /\ DigitsLeft(m) /\ Digits(item) # <<>>
  BY DEF IntegerStage, Digit
<1>3. width' = width
  BY DEF Digit, directive
<1>4. NumeralOf(item) # <<>> /\ Digits(item) = NumeralOf(item)
  BY <1>2 DEF Digits
<1>5. NumeralOf(item) = n
  <2>1. "UPPERCASE" \in flags <=> item.spec = "X"
    BY DEF OfItem, IntegerFlags, Flagged
  <2>2. item.spec \in {"X", "p"} <=> item.spec = "X"
    BY <1>1 DEF IntegerItem, IntegerSpecs
  <2>3. digits = IF item.spec \in {"X", "p"} THEN UpperDigits ELSE LowerDigits
    BY <2>1, <2>2
  <2> HIDE DEF digits
  <2> QED
    BY <1>1, <1>4, <2>3 DEF NumeralOf
<1>6. Len(n) <= PRINTF_NTOA_BUFFER_SIZE /\ m \in Nat
  BY <1>1, <1>5, WithinTheArray, IntegerItemIs
<1>7. \/ pc' = "digits" /\ DigitsLeft(m)'
      \/ pc' = "pad" /\ Reverse(buf') = n
  <2> HIDE DEF m
  <2> QED
    BY <1>2, <1>6, DigitMoves
<1> QED
  BY <1>2, <1>3, <1>4, <1>5, <1>7 DEF IntegerStage

LEMMA PointerDigits ==
    ASSUME NEW item, item.arg.n \in Int, OfPointer(item), TypeOK, PointerStage(item), Digit
    PROVE  PointerStage(item)'
<1> DEFINE v == AsUnsigned(item.arg.n, IntBits)
           digits == IF "UPPERCASE" \in flags THEN UpperDigits ELSE LowerDigits
<1>1. DigitsLeft(v)
  BY DEF PointerStage, Digit
<1>2. digits = UpperDigits /\ number.base = 16
  BY DEF OfPointer, PointerFlags
<1>3. v \in 0..SizeMax /\ v \in Nat
  BY PointerTypes
<1>4. Len(Numeral(v, 16, UpperDigits)) <= PRINTF_NTOA_BUFFER_SIZE
  <2> HIDE DEF v
  <2> QED
    BY <1>3, PointerAssumption DEF SizeMax
<1>5. \/ pc' = "digits" /\ DigitsLeft(v)'
      \/ pc' = "pad" /\ Reverse(buf') = Numeral(v, 16, UpperDigits)
  <2> HIDE DEF v
  <2> QED
    BY <1>1, <1>2, <1>3, <1>4, DigitMoves
<1> QED
  BY <1>5 DEF PointerStage

LEMMA ConvertsOn ==
    ASSUME NEW item, NEW r, NEW a, Ready(item, r, a), TypeOK, Converting(item), NumberMoves
    PROVE  Converting(item)'
<1>1. item.arg.n \in Int
  BY ReadyIs
<1>2. CASE OfItem(item) /\ IntegerStage(item)
  <2>1. OfItem(item)'
    BY <1>2, OfKept
  <2>2. IntegerStage(item)'
    <3>1. CASE Digit
      BY <1>2, <3>1, IntegerDigits
    <3>2. CASE Pad
      <4>1. width = FieldWidth(item) /\ Reverse(buf) = Digits(item) /\ pc' = "hash"
        BY <1>2, <3>2 DEF IntegerStage, Pad
      <4>2. width' = PadWidth(item) /\ Reverse(buf') = Padded(item)
        BY <1>2, <3>2, <4>1, PadsInteger
      <4> QED
        BY <4>1, <4>2 DEF IntegerStage
    <3>3. CASE Hash
      <4>1. width = PadWidth(item) /\ Reverse(buf) = Padded(item) /\ pc' = "sign" /\ width' = width
        BY <1>2, <3>3 DEF IntegerStage, Hash, directive
      <4>2. Reverse(buf') = Hashed(item)
        BY <1>2, <3>3, <4>1, HashesInteger
      <4> QED
        BY <4>1, <4>2 DEF IntegerStage
    <3>4. CASE Sign
      <4>1. width = PadWidth(item) /\ Reverse(buf) = Hashed(item) /\ pc' = "out_rev" /\ width' = width
        BY <1>2, <3>4 DEF IntegerStage, Sign, directive
      <4>2. Reverse(buf') = NumberText(item)
        BY <1>2, <3>4, <4>1, SignsInteger
      <4> QED
        BY <4>1, <4>2 DEF IntegerStage
    <3> QED
      BY <3>1, <3>2, <3>3, <3>4 DEF NumberMoves
  <2> QED
    BY <2>1, <2>2 DEF Converting
<1>3. CASE OfPointer(item) /\ PointerStage(item)
  <2>1. width' = width /\ PointerStage(item)'
    <3>1. CASE Digit
      <4>1. width' = width
        BY <3>1 DEF Digit, directive
      <4> QED
        BY <1>1, <1>3, <3>1, <4>1, PointerDigits
    <3>2. CASE Pad
      <4>1. Reverse(buf) = Numeral(AsUnsigned(item.arg.n, IntBits), 16, UpperDigits) /\ pc' = "hash"
        BY <1>3, <3>2 DEF PointerStage, Pad
      <4>2. Reverse(buf') = PointerText(item) /\ width' = width
        BY <1>1, <1>3, <3>2, <4>1, PadsPointer
      <4> QED
        BY <4>1, <4>2 DEF PointerStage
    <3>3. CASE Hash \/ Sign
      <4>1. buf' = buf
        BY <1>3, <3>3, PointerAsItIs
      <4>2. Reverse(buf) = PointerText(item) /\ pc' \in {"sign", "out_rev"} /\ width' = width
        BY <1>3, <3>3 DEF PointerStage, Hash, Sign, directive
      <4> QED
        BY <4>1, <4>2 DEF PointerStage
    <3> QED
      BY <3>1, <3>2, <3>3 DEF NumberMoves
  <2>2. OfPointer(item)'
    BY <1>3, <2>1, OfKept
  <2> QED
    BY <2>1, <2>2 DEF Converting
<1> QED
  BY <1>2, <1>3 DEF Converting

LEMMA OutsConverted ==
    ASSUME NEW item, NEW r, NEW a, Ready(item, r, a), TypeOK, Converting(item), OutRev
    PROVE  Out(Meaning(item))
<1>1. pc = "out_rev"
  BY DEF OutRev
<1>2. CASE OfItem(item) /\ IntegerStage(item)
  <2>1. width = PadWidth(item) /\ Reverse(buf) = NumberText(item)
    BY <1>1, <1>2 DEF IntegerStage
  <2> QED
    BY <1>2, <2>1, OutsInteger
<1>3. CASE OfPointer(item) /\ PointerStage(item)
  <2>1. Reverse(buf) = PointerText(item)
    BY <1>1, <1>3 DEF PointerStage
  <2> QED
    BY <1>3, <2>1, OutsPointer
<1> QED
  BY <1>2, <1>3 DEF Converting

-----------------------------------------------------------------------------
(***************************************************************************)
(* Strings, `%', and the characters between the directives.                *)
(***************************************************************************)
LEMMA OutsString ==
    ASSUME NEW item, NEW r, NEW a, Ready(item, r, a), Parsing(item, r, a), String
    PROVE  Out(Meaning(item)) /\ pc' = "scan" /\ format' = r /\ va' = a
<1> DEFINE p == item.arg.s
           given == item.precision.form # "none"
           cut == item.spec = "s" /\ "PRECISION" \in flags /\ precision < Len(p)
           t == IF cut THEN SubSeq(p, 1, precision) ELSE p
<1>1. pc = "specifier" /\ pc' = "scan" /\ Peek \in {"c", "s"} /\ va # <<>> /\ va' = Tail(va) /\ Skip(1)
  BY DEF String
<1>2. /\ width = FieldWidth(item) /\ precision = item.precision.n /\ flags = ItsFlags(item)
      /\ Peek = item.spec /\ (Skip(1) => format' = r)
      /\ item.spec # "%" => va # <<>> /\ Head(va) = item.arg /\ Tail(va) = a
  BY <1>1, AtItsSpecifier DEF ItsFlags
<1>3. item.spec \in {"c", "s"} /\ Head(va) = item.arg /\ Tail(va) = a
  BY <1>1, <1>2
<1>4. /\ "LEFT" \in flags <=> LeftAligned(item)
      /\ "PRECISION" \in flags <=> given
  BY <1>2, ReadyIs, FlagsOfItem
<1>5. Out(InField(t))
  <2>1. Head(va).s = p /\ Peek = item.spec
    BY <1>2, <1>3
  <2> QED
    BY <2>1, Zenon DEF String
<1>6. t = Body(item)
  <2>1. CASE item.spec = "c"
    <3>1. ~cut
      BY <2>1
    <3>2. Body(item) = p
      BY <2>1 DEF Body, IntegerSpecs
    <3> QED
      BY <3>1, <3>2
  <2>2. CASE item.spec = "s"
    <3>1. Body(item) = StringText(item)
      BY <2>2 DEF Body, IntegerSpecs
    <3>2. cut <=> given /\ item.precision.n < Len(p)
      BY <1>2, <1>4, <2>2
    <3>3. StringText(item) = IF given /\ item.precision.n < Len(p) THEN SubSeq(p, 1, item.precision.n) ELSE p
      BY DEF StringText
    <3> HIDE DEF cut, given, p
    <3> QED
      BY <1>2, <3>1, <3>2, <3>3 DEF t
  <2> QED
    BY <1>3, <2>1, <2>2
<1>7. Meaning(item) = Justified(Body(item), FieldWidth(item), LeftAligned(item))
  <2>1. item.kind # "text" /\ item.spec # "%"
    BY <1>3 DEF Ready
  <2> QED
    BY <2>1 DEF Meaning
<1>8. ("LEFT" \in flags) = LeftAligned(item)
  <2>1. LeftAligned(item) \in BOOLEAN
    BY DEF LeftAligned, Has, Contains
  <2> QED
    BY <1>4, <2>1
<1>9. InField(t) = Justified(t, width, "LEFT" \in flags)
  BY JustifiedIs
<1> HIDE DEF t
<1>10. Out(Meaning(item))
  BY <1>2, <1>5, <1>6, <1>7, <1>8, <1>9
<1> QED
  BY <1>1, <1>2, <1>3, <1>10

LEMMA OutsPercent ==
    ASSUME NEW item, NEW r, NEW a, Ready(item, r, a), Parsing(item, r, a), Other
    PROVE  Out(Meaning(item)) /\ pc' = "scan" /\ format' = r /\ va' = a
<1>1. pc = "specifier" /\ Peek \notin IntegerSpecs \cup {"p", "c", "s"} /\ Out(<<Peek>>) /\ Skip(1) /\ va' = va
  BY DEF Other
<1>2. format # <<>> /\ Peek = item.spec /\ (Skip(1) => format' = r) /\ (item.spec = "%" => va = a)
  BY <1>1, AtItsSpecifier
<1>3. item.spec = "%"
  BY <1>1, <1>2, SupportedKinds, ReadyIs DEF Ready
<1>4. Meaning(item) = <<"%">>
  BY <1>3 DEF Meaning, Ready
<1>5. pc' = "scan"
  BY <1>2 DEF Other
<1> QED
  BY <1>1, <1>2, <1>3, <1>4, <1>5

InParser == {"flags", "width", "width_digits", "precision", "precision_value", "precision_digits",
             "length", "specifier"}
InNumber == {"digits", "pad", "hash", "sign", "out_rev"}

LEMMA InsideIs ==
    ASSUME NEW item \in Asked, NEW rest \in Seq(Asked), Inside(item, rest)
    PROVE  /\ Ready(item, Format(rest), Passed(rest))
           /\ \/ Parsing(item, Format(rest), Passed(rest)) /\ pc \in InParser
              \/ /\ Converting(item) /\ format = Format(rest) /\ va = Passed(rest)
                 /\ pc \in InNumber
           /\ Written(Meaning(item) \o Promise(rest))
           /\ Meaning(item) \in Seq(Printable) /\ Promise(rest) \in Seq(Printable)
<1>1. Ready(item, Format(rest), Passed(rest))
  BY RestTypes DEF Ready, Inside
<1>2. Parsing(item, Format(rest), Passed(rest)) => pc \in InParser
  BY DEF Parsing, InParser
<1>3. Converting(item) => pc \in InNumber
  BY DEF Converting, IntegerStage, PointerStage, InNumber
<1>4. Meaning(item) \in Seq(Printable) /\ Promise(rest) \in Seq(Printable)
  BY MeaningType, RestTypes
<1> QED
  BY <1>1, <1>2, <1>3, <1>4, Zenon DEF Inside

ParserMoves == Flags \/ Width \/ Precision \/ PrecisionValue \/ Length

LEMMA ParsesOn ==
    ASSUME NEW item, NEW r, NEW a, Ready(item, r, a), TypeOK, Parsing(item, r, a), ParserMoves
    PROVE  Parsing(item, r, a)' /\ UNCHANGED <<call, idx, sent, buffer>>
<1>1. Parsing(item, r, a)'
  BY ReadsFlags, ReadsWidth, ReadsPrecision, ReadsPrecisionValue, ReadsLength DEF ParserMoves
<1>2. UNCHANGED <<call, idx, sent, buffer>>
  BY DEF ParserMoves, Flags, Width, Precision, PrecisionValue, Length, output
<1> QED
  BY <1>1, <1>2

LEMMA PlacesOfMoves ==
    /\ Literal \/ Percent \/ Terminate => pc = "scan"
    /\ ParserMoves \/ Integer \/ Pointer \/ String \/ Other => pc \in InParser
    /\ NumberMoves \/ OutRev => pc \in InNumber
    /\ InParser \cap InNumber = {} /\ "scan" \notin InParser /\ "scan" \notin InNumber
    /\ "done" \notin InParser /\ "done" \notin InNumber
<1>1. Literal \/ Percent \/ Terminate => pc = "scan"
  BY DEF Literal, Percent, Terminate
<1>2. ParserMoves => pc \in InParser
  BY DEF ParserMoves, Flags, Width, Precision, PrecisionValue, Length, InParser
<1>3. Integer \/ Pointer \/ String \/ Other => pc \in InParser
  BY DEF Integer, Pointer, String, Other, InParser
<1>4. NumberMoves \/ OutRev => pc \in InNumber
  BY DEF NumberMoves, Digit, Pad, Hash, Sign, OutRev, InNumber
<1>5. /\ InParser \cap InNumber = {} /\ "scan" \notin InParser /\ "scan" \notin InNumber
      /\ "done" \notin InParser /\ "done" \notin InNumber
  BY DEF InParser, InNumber
<1> QED
  BY <1>1, <1>2, <1>3, <1>4, <1>5

LEMMA InsideMoves ==
    ASSUME NEW item \in Asked, NEW rest \in Seq(Asked), Inside(item, rest), TypeOK, Next
    PROVE  Inside(item, rest)' \/ Between(rest)'
<1> DEFINE r == Format(rest)
           a == Passed(rest)
           m == Meaning(item)
           p == Promise(rest)
<1>1. /\ Ready(item, r, a) /\ Written(m \o p) /\ m \in Seq(Printable) /\ p \in Seq(Printable)
      /\ item.kind = "directive"
      /\ \/ Parsing(item, r, a) /\ pc \in InParser
         \/ Converting(item) /\ format = r /\ va = a /\ pc \in InNumber
  BY InsideIs DEF Ready
<1>2. ASSUME Out(m), call' = call PROVE Written(p)'
  <2> HIDE DEF m, p
  <2> QED
    BY <1>1, <1>2, WrittenGrows
<1>3. ASSUME UNCHANGED <<call, idx, sent, buffer>> PROVE Written(m \o p)'
  <2> DEFINE x == m \o p
  <2>1. Written(x)
    BY <1>1
  <2> HIDE DEF x
  <2>2. Written(x)'
    BY <1>3, <2>1, WrittenStays
  <2> QED
    BY <2>2 DEF x
<1>4. CASE Parsing(item, r, a) /\ pc \in InParser
  <2>1. ParserMoves \/ Integer \/ Pointer \/ String \/ Other
    BY <1>4, PlacesOfMoves DEF Next, Parse, Convert, ParserMoves, NumberMoves
  <2>2. CASE ParserMoves
    <3>1. Parsing(item, r, a)' /\ UNCHANGED <<call, idx, sent, buffer>>
      BY <1>1, <1>4, <2>2, ParsesOn
    <3>2. Written(m \o p)'
      BY <1>3, <3>1
    <3> QED
      BY <1>1, <3>1, <3>2 DEF Inside
  <2>3. CASE Integer \/ Pointer
    <3>1. Converting(item)' /\ format' = r /\ va' = a
      BY <1>1, <1>4, <2>3, EntersInteger, EntersPointer
    <3>2. UNCHANGED <<call, idx, sent, buffer>>
      BY <2>3 DEF Integer, Pointer, output
    <3>3. Written(m \o p)'
      BY <1>3, <3>2
    <3> QED
      BY <1>1, <3>1, <3>3 DEF Inside
  <2>4. CASE String \/ Other
    <3>1. Out(m) /\ pc' = "scan" /\ format' = r /\ va' = a
      BY <1>1, <1>4, <2>4, OutsString, OutsPercent
    <3>2. call' = call
      BY <2>4 DEF String, Other
    <3>3. Written(p)'
      BY <1>2, <3>1, <3>2
    <3> QED
      BY <3>1, <3>3 DEF Between
  <2> QED
    BY <2>1, <2>2, <2>3, <2>4
<1>5. CASE Converting(item) /\ format = r /\ va = a /\ pc \in InNumber
  <2>1. NumberMoves \/ OutRev
    BY <1>5, PlacesOfMoves DEF Next, Parse, Convert, ParserMoves, NumberMoves
  <2>2. CASE NumberMoves
    <3>1. Converting(item)'
      BY <1>1, <1>5, <2>2, ConvertsOn
    <3>2. UNCHANGED <<call, format, va, idx, sent, buffer>>
      BY <2>2, MovesKeep
    <3>3. Written(m \o p)'
      BY <1>3, <3>2
    <3> QED
      BY <1>1, <1>5, <3>1, <3>2, <3>3 DEF Inside
  <2>3. CASE OutRev
    <3>1. Out(m)
      BY <1>1, <1>5, <2>3, OutsConverted
    <3>2. pc' = "scan" /\ UNCHANGED <<call, format, va>>
      BY <2>3 DEF OutRev
    <3>3. Written(p)'
      BY <1>2, <3>1, <3>2
    <3> QED
      BY <1>5, <3>2, <3>3 DEF Between
  <2> QED
    BY <2>1, <2>2, <2>3
<1> QED
  BY <1>1, <1>4, <1>5

LEMMA BetweenMoves ==
    ASSUME NEW rest \in Seq(Asked), Between(rest), CallOK, TypeOK, Next
    PROVE  \/ rest # <<>> /\ Tail(rest) \in Seq(Asked) /\ Between(Tail(rest))'
           \/ /\ rest # <<>> /\ Head(rest) \in Asked /\ Tail(rest) \in Seq(Asked)
              /\ Inside(Head(rest), Tail(rest))'
           \/ pc' = "done" /\ TextAsAsked'
<1>1. pc = "scan" /\ format = Format(rest) /\ va = Passed(rest) /\ Written(Promise(rest))
  BY DEF Between
<1>2. Literal \/ Percent \/ Terminate
  BY <1>1, PlacesOfMoves DEF Next, Parse, Convert, ParserMoves, NumberMoves
<1>3. CASE rest = <<>>
  <2>1. format = <<>> /\ va = <<>> /\ Written(<<>>)
    BY <1>1, <1>3, NoItems
  <2>2. Peek = NUL
    BY <2>1 DEF Peek
  <2>3. ~Literal /\ ~Percent
    BY <2>2 DEF Literal, Percent, NUL
  <2>4. Terminate
    BY <1>2, <2>3
  <2>5. TextAsAsked'
    BY <2>1, <2>4, WrittenEnds
  <2>6. pc' = "done"
    BY <2>4 DEF Terminate
  <2> QED
    BY <2>5, <2>6
<1>4. CASE rest # <<>>
  <2> DEFINE item == Head(rest)
             tail == Tail(rest)
             r == Format(tail)
             a == Passed(tail)
             m == Meaning(item)
             p == Promise(tail)
  <2>1. /\ item \in Asked /\ tail \in Seq(Asked)
        /\ Format(rest) = Spell(item) \o r /\ Passed(rest) = Arguments(item) \o a
        /\ Promise(rest) = m \o p
    BY <1>4, RestFirst
  <2>2. /\ r \in Formats /\ r \in Seq(Symbol) /\ a \in Seq(Argument) /\ p \in Seq(Printable)
        /\ m \in Seq(Printable)
    BY <2>1, RestTypes, MeaningType
  <2>3. Written(m \o p)
    BY <1>1, <2>1
  <2>4. format = Spell(item) \o r /\ va = Arguments(item) \o a
    BY <1>1, <2>1
  <2>5. ItemOK(item)
    BY <2>1 DEF Asked, Items
  <2>6. CASE item.kind = "text"
    <3> DEFINE c == item.spec
    <3>1. c \in Character \ {NUL, "%"}
      BY <2>5, <2>6 DEF ItemOK
    <3>2. Spell(item) = <<c>> /\ m = <<c>> /\ Arguments(item) = <<>>
      BY <2>6 DEF Spell, Meaning, Arguments
    <3>3. c \in Symbol
      BY <3>1 DEF Symbol
    <3> HIDE DEF r, a, c, m, p
    <3>4. format = <<c>> \o r /\ va = a
      BY <2>2, <2>4, <3>2, ConcatEmptySeq
    <3>5. format # <<>> /\ Head(format) = c /\ Tail(format) = r /\ format \in Seq(Symbol)
      BY <2>2, <3>3, <3>4, OneInFront
    <3>6. Peek = c /\ (Skip(1) => format' = r)
      BY <3>5, SkipOne
    <3>7. ~Percent /\ ~Terminate
      BY <3>1, <3>5, <3>6 DEF Percent, Terminate
    <3>8. Literal
      BY <1>2, <3>7
    <3>9. Out(<<c>>) /\ format' = r /\ pc' = "scan" /\ va' = a /\ call' = call
      BY <1>1, <3>4, <3>6, <3>8 DEF Literal
    <3>10. Written(p)'
      BY <2>2, <2>3, <3>2, <3>9, WrittenGrows
    <3>11. Between(tail)'
      BY <3>9, <3>10 DEF Between, r, a, p
    <3> QED
      BY <1>4, <2>1, <3>11
  <2>7. CASE item.kind = "directive"
    <3>1. Ready(item, r, a)
      BY <2>1, <2>2, <2>7 DEF Ready
    <3> DEFINE y == item.flags \o FromWidth(item, r)
    <3>2. Spell(item) \o r = <<"%">> \o y
      BY <3>1, DirectiveSpells
    <3>3. y \in Seq(Symbol)
      <4>1. item.flags \in Seq(FlagCharacters) /\ FromWidth(item, r) \in Seq(Symbol)
        BY <3>1, ReadyIs, FromTypes
      <4>2. item.flags \in Seq(Symbol)
        BY <4>1, Apart, SeqWider
      <4> QED
        BY <4>1, <4>2, ConcatProperties
    <3>4. va = WidthOnwards(item, a)
      BY <2>4, <3>1, OnwardsType
    <3> HIDE DEF y, r, a, m, p
    <3>5. format = <<"%">> \o y /\ "%" \in Symbol
      BY <2>4, <3>2, Apart
    <3>6. format # <<>> /\ Head(format) = "%" /\ format \in Seq(Symbol)
      BY <3>3, <3>5, OneInFront
    <3>7. Peek = "%"
      BY <3>6, SkipOne
    <3>8. ~Literal /\ ~Terminate
      BY <3>6, <3>7 DEF Literal, Terminate
    <3>9. Percent
      BY <1>2, <3>8
    <3>10. Parsing(item, r, a)'
      BY <1>1, <2>4, <3>1, <3>4, <3>9, ReadsPercent
    <3>11. UNCHANGED <<call, idx, sent, buffer>>
      BY <3>9 DEF Percent, output
    <3>12. Written(m \o p)'
      <4> DEFINE x == m \o p
      <4>1. Written(x)
        BY <2>3
      <4> HIDE DEF x
      <4>2. Written(x)'
        BY <3>11, <4>1, WrittenStays
      <4> QED
        BY <4>2 DEF x
    <3>13. Inside(item, tail)'
      BY <2>7, <3>10, <3>12 DEF Inside, r, a, m, p
    <3> QED
      BY <1>4, <2>1, <3>13
  <2> QED
    BY <2>5, <2>6, <2>7 DEF ItemOK
<1> QED
  BY <1>3, <1>4

\* A call returns once.
LEMMA DoneRests == pc = "done" => ~Next
  BY PlacesOfMoves DEF Next, Parse, Convert, ParserMoves, NumberMoves

\* The places of a call do not depend on the step.
LEMMA NextText ==
    ASSUME TypeOK, CallOK, TextKept, [Next]_vars
    PROVE  TextKept'
<1>1. SUFFICES ASSUME SupportedCall'
               PROVE  \/ \E rest \in Seq(Asked) : Between(rest)'
                      \/ \E item \in Asked : \E rest \in Seq(Asked) : Inside(item, rest)'
                      \/ pc' = "done" /\ TextAsAsked'
  BY DEF TextKept
<1>2. call' = call
  BY CallKept
<1>3. SupportedCall
  BY <1>1, <1>2 DEF SupportedCall
<1>4. \/ \E rest \in Seq(Asked) : Between(rest)
      \/ \E item \in Asked : \E rest \in Seq(Asked) : Inside(item, rest)
      \/ pc = "done" /\ TextAsAsked
  BY <1>3 DEF TextKept
<1>5. CASE Next
  <2>1. ASSUME NEW rest \in Seq(Asked), Between(rest)
        PROVE  \/ \E t \in Seq(Asked) : Between(t)'
               \/ \E item \in Asked : \E t \in Seq(Asked) : Inside(item, t)'
               \/ pc' = "done" /\ TextAsAsked'
    BY <1>5, <2>1, BetweenMoves
  <2>2. ASSUME NEW item \in Asked, NEW rest \in Seq(Asked), Inside(item, rest)
        PROVE  \/ \E t \in Seq(Asked) : Between(t)'
               \/ \E i \in Asked : \E t \in Seq(Asked) : Inside(i, t)'
    BY <1>5, <2>2, InsideMoves
  <2>3. pc # "done"
    BY <1>5, DoneRests
  <2> QED
    BY <1>4, <2>1, <2>2, <2>3
<1>6. CASE UNCHANGED vars
  <2>1. UNCHANGED <<call, pc, format, va, flags, width, precision, number, buf, idx, sent, buffer>>
    BY <1>6 DEF vars, directive, conversion, output
  <2>2. ASSUME NEW r PROVE Written(r) => Written(r)'
    BY <2>1, WrittenStays
  <2>3. ASSUME NEW rest \in Seq(Asked), Between(rest) PROVE Between(rest)'
    BY <2>1, <2>2, <2>3 DEF Between
  <2>4. ASSUME NEW item, NEW r, NEW a PROVE Parsing(item, r, a) => Parsing(item, r, a)'
    BY <2>1 DEF Parsing
  <2>5. ASSUME NEW item PROVE Converting(item) => Converting(item)'
    <3>1. /\ OfItem(item) => OfItem(item)'
          /\ IntegerStage(item) => IntegerStage(item)'
          /\ OfPointer(item) => OfPointer(item)'
          /\ PointerStage(item) => PointerStage(item)'
      BY <2>1 DEF OfItem, IntegerFlags, Flagged, IntegerStage, OfPointer, PointerFlags, PointerStage, DigitsLeft
    <3> QED
      BY <3>1 DEF Converting
  <2>6. ASSUME NEW item \in Asked, NEW rest \in Seq(Asked), Inside(item, rest) PROVE Inside(item, rest)'
    BY <2>1, <2>2, <2>4, <2>5, <2>6 DEF Inside
  <2>7. pc = "done" /\ TextAsAsked => pc' = "done" /\ TextAsAsked'
    BY <2>1 DEF TextAsAsked, out, maxlen
  <2> QED
    BY <1>4, <2>3, <2>6, <2>7
<1> QED
  BY <1>5, <1>6

-----------------------------------------------------------------------------
\* Calls whose formats are well spelt and whose arguments are those the format names.
WellCalled(c) ==
    /\ WellSpelt(c) /\ c.args = Passed(c.items)
    /\ \A k \in 1..Len(c.items) : ArgumentOK(c.items[k])

LEMMA ItemsAsked ==
    ASSUME NEW c \in Calls, WellCalled(c), \A k \in 1..Len(c.items) : Supported(c.items[k])
    PROVE  c.items \in Seq(Asked)
<1> DEFINE items == c.items
           All == UNION {{d.items[k] : k \in 1..Len(d.items)} : d \in Calls}
<1>1. items \in Seq(All)
  BY DEF WellCalled, WellSpelt
<1>2. ASSUME NEW k \in 1..Len(items) PROVE items[k] \in Asked
  <2>1. items[k] \in All
    <3> HIDE DEF items, All
    <3> QED
      BY <1>1, <1>2, ElementOfSeq
  <2>2. Supported(items[k]) /\ ArgumentOK(items[k])
    BY <1>2 DEF WellCalled
  <2>3. ItemOK(items[k]) \/ items[k].kind = "cut"
    BY <1>2 DEF WellCalled, WellSpelt
  <2>4. items[k].kind # "cut"
    BY <2>2 DEF Supported
  <2> QED
    BY <2>1, <2>2, <2>3, <2>4 DEF Asked, Items
<1> HIDE DEF items, All
<1>3. items \in Seq(Asked)
  BY <1>1, <1>2
<1> QED
  BY <1>3 DEF items

LEMMA InitText ==
    ASSUME \A c \in Calls : WellCalled(c)
    PROVE  Init => TextKept
<1> SUFFICES ASSUME Init, SupportedCall PROVE \E rest \in Seq(Asked) : Between(rest)
  BY DEF TextKept
<1>1. call \in Calls /\ pc = "scan" /\ format = call.format /\ va = call.args
  BY DEF Init
<1>2. WellCalled(call)
  BY <1>1
<1>3. call.items \in Seq(Asked)
  BY <1>1, <1>2, ItemsAsked DEF SupportedCall
<1>4. format = Format(call.items) /\ va = Passed(call.items)
  BY <1>1, <1>2 DEF WellCalled, WellSpelt
<1>5. Written(Promise(call.items))
  BY <1>3, WrittenInit
<1> QED
  BY <1>1, <1>3, <1>4, <1>5 DEF Between

\* TextAsAsked, for every set of calls whose formats are well spelt and whose arguments
\* are those the formats name, of any number of items: flags, widths, precisions and
\* lengths in any order and of any value, given in the format or as arguments, every
\* value of every width of integer, and the three functions that take the output
\* (_vsnprintf, _atoi, _ntoa_long, _ntoa_format, _out_rev).
THEOREM TextsAreAsAsked ==
    ASSUME \A c \in Calls : WellCalled(c)
    PROVE  Spec => []TextAsAsked
<1>1. Init => CallOK /\ TypeOK /\ TextKept
  BY InitType, InitText
<1>2. CallOK /\ TypeOK /\ TextKept /\ [Next]_vars => (CallOK /\ TypeOK /\ TextKept)'
  <2>1. CallOK /\ [Next]_vars => CallOK'
    BY CallKept DEF CallOK
  <2> QED
    BY <2>1, NextType, NextText
<1>3. TextKept => TextAsAsked
  <2>1. SUFFICES ASSUME TextKept, pc = "done", SupportedCall PROVE TextAsAsked
    BY DEF TextAsAsked, SupportedCall
  <2>2. \A rest \in Seq(Asked) : ~Between(rest)
    BY <2>1 DEF Between
  <2>3. \A item \in Asked : \A rest \in Seq(Asked) : ~Inside(item, rest)
    BY <2>1, InsideIs, PlacesOfMoves
  <2> QED
    BY <2>1, <2>2, <2>3 DEF TextKept
<1> QED
  BY <1>1, <1>2, <1>3, PTL DEF Spec
=============================================================================
