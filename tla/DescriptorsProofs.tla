------------------------- MODULE DescriptorsProofs -------------------------
(***************************************************************************)
(* For every base, limit, type and flags, every offset, selector and       *)
(* level: what the processor reads is what the code was asked to write.    *)
(***************************************************************************)
EXTENDS Descriptors, TLAPS

Asked == [base : Word, limit : Word, type : SUBSET (0..3), flags : SUBSET FlagBits]
AskedOfGate == [offset : Word, cs : HalfWord, dpl : HalfWord]

-----------------------------------------------------------------------------
(***************************************************************************)
(* The words of a segment descriptor, bit by bit.                          *)
(***************************************************************************)
LEMMA SegmentHigh ==
    ASSUME NEW s \in Asked
    PROVE  \A b \in 0..31 : b \in SegmentWords(s).high <=>
              \/ b \in 24..31 /\ b \in s.base
              \/ b \in 0..7 /\ b + 16 \in s.base
              \/ b \in s.flags
              \/ b \in 16..19 /\ b \in s.limit
              \/ b \in 8..11 /\ b - 8 \in s.type
BY DEF SegmentWords, Up, Down

LEMMA SegmentLow ==
    ASSUME NEW s \in Asked
    PROVE  \A b \in 0..31 : b \in SegmentWords(s).low <=>
              \/ b \in 0..15 /\ b \in s.limit
              \/ b \in 16..31 /\ b - 16 \in s.base
BY DEF SegmentWords, Up

LEMMA SegmentWordsType ==
    ASSUME NEW s \in Asked
    PROVE  SegmentWords(s) \in [high : Word, low : Word]
BY DEF SegmentWords, Asked, Word, Up, Down, FlagBits

LEMMA BaseReadBack ==
    ASSUME NEW s \in Asked
    PROVE  Base(SegmentWords(s)) = s.base
<1> DEFINE d == SegmentWords(s)
<1>1. s.base \subseteq 0..31 /\ s.flags \subseteq (12..15) \cup (20..23)
  BY DEF Asked, Word, FlagBits
<1>2. Base(d) \subseteq 0..31
  BY DEF Base, Field, Up
<1>3. ASSUME NEW b \in 0..31 PROVE b \in Base(d) <=> b \in s.base
  <2>1. b \in Base(d) <=> \/ b \in 0..15 /\ b + 16 \in d.low
                          \/ b \in 16..23 /\ b - 16 \in d.high
                          \/ b \in 24..31 /\ b \in d.high
    BY DEF Base, Field, Up
  <2>2. CASE b \in 0..15
    BY <2>1, <2>2, SegmentLow DEF d
  <2>3. CASE b \in 16..23
    BY <2>1, <2>3, <1>1, SegmentHigh DEF d
  <2>4. CASE b \in 24..31
    BY <2>1, <2>4, <1>1, SegmentHigh DEF d
  <2>5. QED BY <2>2, <2>3, <2>4
<1>4. QED BY <1>1, <1>2, <1>3

LEMMA LimitReadBack ==
    ASSUME NEW s \in Asked
    PROVE  Limit(SegmentWords(s)) = s.limit \cap (0..19)
<1> DEFINE d == SegmentWords(s)
<1>1. s.limit \subseteq 0..31 /\ s.flags \subseteq (12..15) \cup (20..23)
  BY DEF Asked, Word, FlagBits
<1>2. ASSUME NEW b PROVE b \in Limit(d) <=> \/ b \in 0..15 /\ b \in d.low
                                            \/ b \in 16..19 /\ b \in d.high
  BY DEF Limit, Field, Up
<1>3. ASSUME NEW b PROVE b \in Limit(d) <=> b \in s.limit \cap (0..19)
  <2>1. CASE b \in 0..15
    BY <1>2, <2>1, SegmentLow DEF d
  <2>2. CASE b \in 16..19
    BY <1>1, <1>2, <2>2, SegmentHigh DEF d
  <2>3. CASE b \notin 0..19
    BY <1>2, <2>3
  <2>4. QED BY <2>1, <2>2, <2>3
<1>4. QED BY <1>3

LEMMA TypeReadBack ==
    ASSUME NEW s \in Asked
    PROVE  /\ Field(SegmentWords(s).high, 8, 4) = s.type
           /\ SegmentWords(s).high \cap FlagBits = s.flags
<1> DEFINE d == SegmentWords(s)
<1>1. s.flags \subseteq (12..15) \cup (20..23) /\ s.type \subseteq 0..3
  BY DEF Asked, FlagBits
<1>2. ASSUME NEW b PROVE b \in Field(d.high, 8, 4) <=> b \in s.type
  <2>1. b \in Field(d.high, 8, 4) <=> b \in 0..3 /\ b + 8 \in d.high
    BY DEF Field
  <2>2. CASE b \in 0..3
    <3>1. b + 8 \in 8..11 /\ (b + 8) - 8 = b
      BY <2>2
    <3>2. QED BY <1>1, <2>1, <2>2, <3>1, SegmentHigh DEF d
  <2>3. CASE b \notin 0..3
    BY <1>1, <2>1, <2>3
  <2>4. QED BY <2>2, <2>3
<1>3. ASSUME NEW b PROVE b \in d.high \cap FlagBits <=> b \in s.flags
  BY <1>1, SegmentHigh DEF d, FlagBits
<1>4. QED BY <1>2, <1>3

\* The processor reads back what init_segment_descriptor was asked for.
LEMMA SegmentRoundTrip ==
    ASSUME NEW s \in Asked
    PROVE  SegmentRead(SegmentWords(s)) = [s EXCEPT !.limit = @ \cap (0..19)]
<1> DEFINE d == SegmentWords(s)
<1>1. Base(d) = s.base
  BY BaseReadBack
<1>2. Limit(d) = s.limit \cap (0..19)
  BY LimitReadBack
<1>3. Field(d.high, 8, 4) = s.type /\ d.high \cap FlagBits = s.flags
  BY TypeReadBack
<1> HIDE DEF d
<1>4. SegmentRead(d) = Segment(s.base, s.limit \cap (0..19), s.type, s.flags)
  BY <1>1, <1>2, <1>3 DEF SegmentRead
<1>5. [s EXCEPT !.limit = @ \cap (0..19)] = Segment(s.base, s.limit \cap (0..19), s.type, s.flags)
  BY DEF Segment, Asked
<1> QED
  BY <1>4, <1>5 DEF d

-----------------------------------------------------------------------------
(***************************************************************************)
(* A gate.                                                                 *)
(***************************************************************************)
LEMMA GateWordsType ==
    ASSUME NEW g \in AskedOfGate
    PROVE  GateWords(g) \in [offset_0_15 : HalfWord, cs : HalfWord,
                             flags : HalfWord, offset_16_31 : HalfWord]
<1>1. Up(g.dpl \cap (0..1), 13) \subseteq 0..15
  BY DEF Up
<1>2. QED BY <1>1 DEF GateWords, AskedOfGate, HalfWord

LEMMA OffsetReadBack ==
    ASSUME NEW g \in AskedOfGate
    PROVE  (g.offset \cap (0..15)) \cup Up(Down(g.offset, 16) \cap (0..15), 16) = g.offset
<1>1. g.offset \subseteq 0..31
  BY DEF AskedOfGate, Word
<1>2. ASSUME NEW b PROVE b \in Up(Down(g.offset, 16) \cap (0..15), 16)
                         <=> b \in 16..31 /\ b \in g.offset
  BY DEF Up, Down
<1>3. QED BY <1>1, <1>2

LEMMA LevelReadBack ==
    ASSUME NEW g \in AskedOfGate
    PROVE  /\ Field(GateWords(g).flags, 13, 2) = g.dpl \cap (0..1)
           /\ PresentGate32(GateWords(g))
<1> DEFINE f == GateWords(g).flags
<1>1. \A b : b \in f <=> b \in {15, 9, 10, 11} \/ (b \in 13..14 /\ b - 13 \in g.dpl)
  BY DEF GateWords, Up
<1>2. ASSUME NEW b PROVE b \in Field(f, 13, 2) <=> b \in g.dpl \cap (0..1)
  <2>1. b \in Field(f, 13, 2) <=> b \in 0..1 /\ b + 13 \in f
    BY DEF Field
  <2>2. CASE b \in 0..1
    BY <1>1, <2>1, <2>2
  <2>3. CASE b \notin 0..1
    BY <2>1, <2>3
  <2>4. QED BY <2>2, <2>3
<1>3. Field(f, 8, 4) = SEGMENT_GATE_INT_32
  BY <1>1 DEF Field, SEGMENT_GATE_INT_32
<1>4. QED BY <1>1, <1>2, <1>3 DEF PresentGate32

\* The processor reads back what idt_init_interrupt_gate was asked for.
LEMMA GateRoundTrip ==
    ASSUME NEW g \in AskedOfGate
    PROVE  /\ GateRead(GateWords(g)) = [g EXCEPT !.dpl = @ \cap (0..1)]
           /\ PresentGate32(GateWords(g))
<1>1. GateWords(g).offset_0_15 \cup Up(GateWords(g).offset_16_31, 16) = g.offset
  BY OffsetReadBack DEF GateWords
<1>2. GateWords(g).cs = g.cs
  BY DEF GateWords
<1>3. QED BY <1>1, <1>2, LevelReadBack DEF GateRead, Gate, AskedOfGate

-----------------------------------------------------------------------------
(***************************************************************************)
(* The tables.                                                             *)
(***************************************************************************)
LEMMA RequestTypes ==
    /\ Nothing \in Asked
    /\ Flat(SEGMENT_CODE_TYPE_EXRD) \in Asked /\ Flat(SEGMENT_DATA_TYPE_RDWR) \in Asked
    /\ \A b \in Bases, l \in Limits, t \in Types, f \in Flags : Segment(b, l, t, f) \in Asked
    /\ \A o \in Offsets, c \in Selectors, d \in Levels : Gate(o, c, d) \in AskedOfGate
<1>1. \A t \in SUBSET (0..3) : Flat(t) \in Asked
  BY DEF Flat, FlatFlags, Segment, Asked, Word, FlagBits
<1>2. SEGMENT_CODE_TYPE_EXRD \in SUBSET (0..3) /\ SEGMENT_DATA_TYPE_RDWR \in SUBSET (0..3)
  BY DEF SEGMENT_CODE_TYPE_EXRD, SEGMENT_DATA_TYPE_RDWR
<1>3. Nothing \in Asked
  BY DEF Nothing, Segment, Asked, Word, FlagBits
<1>4. \A b \in Bases, l \in Limits, t \in Types, f \in Flags : Segment(b, l, t, f) \in Asked
  BY InputAssumption DEF Segment, Asked
<1>5. \A o \in Offsets, c \in Selectors, d \in Levels : Gate(o, c, d) \in AskedOfGate
  BY InputAssumption DEF Gate, AskedOfGate
<1>6. QED BY <1>1, <1>2, <1>3, <1>4, <1>5

\* The tables hold the words of what was last asked for.
Tables ==
    /\ \A k \in Index : gdt[k] = SegmentWords(askedSegment[k])
    /\ \A v \in DOMAIN askedGate : idt[v] = GateWords(askedGate[v])

LEMMA EmptyWords == SegmentWords(Nothing) = [high |-> {}, low |-> {}]
<1>1. \A n : Up({}, n) = {} /\ Down({}, n) = {}
  BY DEF Up, Down
<1>2. QED BY <1>1 DEF SegmentWords, Nothing, Segment

LEMMA InitTables == Init => TypeOK /\ Tables
<1> SUFFICES ASSUME Init PROVE TypeOK /\ Tables
  OBVIOUS
<1>1. gdt \in [Index -> [high : Word, low : Word]]
  BY DEF Init, Word
<1>2. idt \in [Gates -> [offset_0_15 : HalfWord, cs : HalfWord,
                          flags : HalfWord, offset_16_31 : HalfWord]]
  BY DEF Init, HalfWord
<1>3. askedSegment \in [Index -> Asked]
  BY RequestTypes DEF Init
<1>4. Tables
  BY EmptyWords DEF Init, Tables
<1>5. DOMAIN askedGate = {} /\ calls \in 0..MaxCalls
  BY InputAssumption DEF Init
<1>6. QED BY <1>1, <1>2, <1>3, <1>4, <1>5 DEF TypeOK, Asked

LEMMA NextTables == TypeOK /\ Tables /\ [Next]_vars => TypeOK' /\ Tables'
<1> SUFFICES ASSUME TypeOK, Tables, [Next]_vars PROVE TypeOK' /\ Tables'
  OBVIOUS
<1>0. askedSegment \in [Index -> Asked]
      /\ \A v \in DOMAIN askedGate : askedGate[v] \in AskedOfGate
  BY DEF TypeOK, Asked, AskedOfGate
<1>1. CASE gdt_init
  <2>1. /\ askedSegment' \in [Index -> Asked]
        /\ \A k \in Index : gdt'[k] = SegmentWords(askedSegment'[k])
    BY <1>0, <1>1, RequestTypes
       DEF gdt_init, TypeOK, Tables, Index, SEGMENT_GDT_NUM_ENTRIES,
           GDT_INDEX_KERNEL_CODE, GDT_INDEX_KERNEL_DATA
  <2>2. gdt' \in [Index -> [high : Word, low : Word]]
    BY <1>1, RequestTypes, SegmentWordsType DEF gdt_init, TypeOK
  <2>3. UNCHANGED <<idt, askedGate, calls>>
    BY <1>1 DEF gdt_init
  <2>4. QED BY <2>1, <2>2, <2>3 DEF TypeOK, Tables, Asked
<1>2. ASSUME NEW k \in Index, NEW s \in Asked, init_segment_descriptor(k, s)
      PROVE  TypeOK' /\ Tables'
  <2>1. /\ askedSegment' \in [Index -> Asked]
        /\ \A j \in Index : gdt'[j] = SegmentWords(askedSegment'[j])
    BY <1>0, <1>2 DEF init_segment_descriptor, TypeOK, Tables
  <2>2. gdt' \in [Index -> [high : Word, low : Word]]
    BY <1>2, SegmentWordsType DEF init_segment_descriptor, TypeOK
  <2>3. UNCHANGED <<idt, askedGate>> /\ calls' \in 0..MaxCalls
    BY <1>2, InputAssumption DEF init_segment_descriptor, Calling, TypeOK
  <2>4. QED BY <2>1, <2>2, <2>3 DEF TypeOK, Tables, Asked
<1>3. ASSUME NEW v \in Gates, NEW g \in AskedOfGate, idt_init_interrupt_gate(v, g)
      PROVE  TypeOK' /\ Tables'
  <2>1. /\ DOMAIN askedGate' = DOMAIN askedGate \cup {v}
        /\ \A w \in DOMAIN askedGate' : askedGate'[w] = IF w = v THEN g ELSE askedGate[w]
        /\ idt' = [idt EXCEPT ![v] = GateWords(g)]
        /\ UNCHANGED <<gdt, askedSegment>> /\ calls' \in 0..MaxCalls
    BY <1>3, InputAssumption DEF idt_init_interrupt_gate, Calling, TypeOK
  <2>2. idt' \in [Gates -> [offset_0_15 : HalfWord, cs : HalfWord,
                             flags : HalfWord, offset_16_31 : HalfWord]]
    BY <2>1, GateWordsType DEF TypeOK
  <2>3. DOMAIN askedGate' \subseteq Gates
        /\ \A w \in DOMAIN askedGate' : askedGate'[w] \in AskedOfGate
    BY <1>0, <2>1 DEF TypeOK
  <2>4. \A w \in DOMAIN askedGate' : idt'[w] = GateWords(askedGate'[w])
    BY <2>1 DEF Tables, TypeOK
  <2>5. QED BY <2>1, <2>2, <2>3, <2>4 DEF TypeOK, Tables, AskedOfGate
<1>4. CASE UNCHANGED vars
  BY <1>4 DEF vars, TypeOK, Tables
<1>5. QED BY <1>1, <1>2, <1>3, <1>4, RequestTypes DEF Next

LEMMA Invariance == Spec => [](TypeOK /\ Tables)
BY InitTables, NextTables, PTL DEF Spec

\* Words keep their width, whatever is asked for (the masks and shifts of
\* init_segment_descriptor and idt_init_interrupt_gate).
THEOREM TypeCorrect == Spec => []TypeOK
BY Invariance, PTL

LEMMA TablesRead == TypeOK /\ Tables => SegmentsReadBack /\ GatesReadBack
BY SegmentRoundTrip, GateRoundTrip
   DEF TypeOK, Tables, SegmentsReadBack, GatesReadBack, Asked, AskedOfGate

\* The processor reads every segment as it was asked for, the limit cut to its
\* 20 bits (init_segment_descriptor).
THEOREM SegmentsAsAsked == Spec => []SegmentsReadBack
BY Invariance, TablesRead, PTL

\* Every gate made is a present 32-bit interrupt gate to the function and the
\* segment it was asked for (idt_init_interrupt_gate).
THEOREM GatesAsAsked == Spec => []GatesReadBack
BY Invariance, TablesRead, PTL

LEMMA TablesFlat == TypeOK /\ Tables => FlatModel
<1> SUFFICES ASSUME TypeOK, Tables, NEW k \in Index,
                    NEW t \in {SEGMENT_CODE_TYPE_EXRD, SEGMENT_DATA_TYPE_RDWR},
                    askedSegment[k] = Flat(t)
             PROVE  /\ Base(gdt[k]) = {} /\ LastByte(gdt[k]) = 0..31
                    /\ Field(gdt[k].high, 13, 2) = {} /\ {12, 15, 22} \subseteq gdt[k].high
  BY DEF FlatModel
<1>1. Flat(t) \in Asked /\ gdt[k] = SegmentWords(Flat(t))
  BY RequestTypes DEF Tables
<1>2. /\ Base(gdt[k]) = {} /\ Limit(gdt[k]) = 0..19
      /\ gdt[k].high \cap FlagBits = {22, 15, 12, 23}
  BY <1>1, BaseReadBack, LimitReadBack, TypeReadBack DEF Flat, FlatFlags, Segment
<1>3. 13 \notin gdt[k].high /\ 14 \notin gdt[k].high /\ {12, 15, 22, 23} \subseteq gdt[k].high
  BY <1>2 DEF FlagBits
<1>4. Field(gdt[k].high, 13, 2) = {}
  BY <1>3 DEF Field
<1>5. LastByte(gdt[k]) = 0..31
  BY <1>2, <1>3 DEF LastByte, Up
<1>6. QED BY <1>2, <1>3, <1>4, <1>5

\* The segments of gdt_init cover all of memory for the kernel.
THEOREM FlatSegments == Spec => []FlatModel
BY Invariance, TablesFlat, PTL
=============================================================================
