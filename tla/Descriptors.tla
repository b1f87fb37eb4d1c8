---------------------------- MODULE Descriptors ----------------------------
(***************************************************************************)
(* The bit layout of the two descriptor tables: init_segment_descriptor    *)
(* and gdt_init of segment.c, idt_init_interrupt_gate of interrupt.c.  The *)
(* code puts a descriptor together from two words with masks and shifts;   *)
(* the processor takes it apart again along the fields of segment.h.       *)
(*                                                                         *)
(* A word is the set of its one bits: masks and shifts are set operations, *)
(* and a shift drops what leaves the word.                                 *)
(***************************************************************************)
EXTENDS Integers

CONSTANTS
    Bases, Limits, Types, Flags,   \* what segments are asked for
    Offsets, Selectors, Levels,    \* what gates are asked for
    Gates,                         \* the vectors gates are made for
    MaxCalls                       \* bound: descriptors made by others than gdt_init

Word == SUBSET (0..31)
HalfWord == SUBSET (0..15)

\* The bits the SEGMENT_DESCR_* macros can set: avl, l, db, g; dtype, dpl, present.
FlagBits == (12..15) \cup (20..23)

ASSUME InputAssumption ==
    /\ Bases \subseteq Word /\ Limits \subseteq Word /\ Offsets \subseteq Word
    /\ Types \subseteq SUBSET (0..3) /\ Flags \subseteq SUBSET FlagBits
    /\ Selectors \subseteq HalfWord /\ Levels \subseteq HalfWord
    /\ MaxCalls \in Nat

VARIABLES
    gdt,          \* the segment descriptors, two words each
    idt,          \* the gates, four half words each
    askedSegment, \* what each segment descriptor was last made from (history)
    askedGate,    \* what each gate was last made from (history)
    calls         \* descriptors made by others than gdt_init

vars == <<gdt, idt, askedSegment, askedGate, calls>>

SEGMENT_GDT_NUM_ENTRIES == 8
GDT_INDEX_KERNEL_CODE == 1
GDT_INDEX_KERNEL_DATA == 2
SEGMENT_CODE_TYPE_EXRD == {1, 3}
SEGMENT_DATA_TYPE_RDWR == {1}
SEGMENT_GATE_INT_32 == {1, 2, 3}
Index == 0..(SEGMENT_GDT_NUM_ENTRIES - 1)

Up(w, n) == {b \in 0..31 : b - n \in w}      \* w << n
Down(w, n) == {b \in 0..31 : b + n \in w}    \* w >> n

Segment(base, limit, type, flags) ==
    [base |-> base, limit |-> limit, type |-> type, flags |-> flags]
Gate(offset, cs, dpl) == [offset |-> offset, cs |-> cs, dpl |-> dpl]
Nothing == Segment({}, {}, {}, {})

-----------------------------------------------------------------------------
\* Mutant: the middle byte of the base is not moved down.
SegmentWordsUnshifted(s) ==
    [high |-> (s.base \cap (24..31)) \cup (s.base \cap (16..23)) \cup s.flags
              \cup (s.limit \cap (16..19)) \cup (Up(s.type, 8) \cap (8..11)),
     low |-> (s.limit \cap (0..15)) \cup (Up(s.base, 16) \cap (16..31))]

\* init_segment_descriptor, one mask of the code per term.
SegmentWords(s) ==
    [high |-> (s.base \cap (24..31)) \cup Down(s.base \cap (16..23), 16) \cup s.flags
              \cup (s.limit \cap (16..19)) \cup (Up(s.type, 8) \cap (8..11)),
     low |-> (s.limit \cap (0..15)) \cup (Up(s.base, 16) \cap (16..31))]

\* Mutant: the offset's low half goes into both halves.
GateWordsLowTwice(g) ==
    [offset_0_15 |-> g.offset \cap (0..15), cs |-> g.cs,
     flags |-> Up(g.dpl \cap (0..1), 13) \cup {15, 9, 10, 11},
     offset_16_31 |-> g.offset \cap (0..15)]

\* idt_init_interrupt_gate.
GateWords(g) ==
    [offset_0_15 |-> g.offset \cap (0..15), cs |-> g.cs,
     flags |-> Up(g.dpl \cap (0..1), 13) \cup {15, 9, 10, 11},
     offset_16_31 |-> Down(g.offset, 16) \cap (0..15)]

Init ==
    /\ gdt = [k \in Index |-> [high |-> {}, low |-> {}]]
    /\ askedSegment = [k \in Index |-> Nothing]
    /\ idt = [v \in Gates |-> [offset_0_15 |-> {}, cs |-> {}, flags |-> {}, offset_16_31 |-> {}]]
    /\ askedGate = [v \in {} |-> {}]
    /\ calls = 0

Calling == calls < MaxCalls /\ calls' = calls + 1

init_segment_descriptor(k, s) ==
    /\ Calling
    /\ gdt' = [gdt EXCEPT ![k] = SegmentWords(s)]
    /\ askedSegment' = [askedSegment EXCEPT ![k] = s]
    /\ UNCHANGED <<idt, askedGate>>

\* Mutant: the granularity flag is missing.
FlatFlagsBytes == {22, 15, 12}

\* SEGMENT_DESCR_SIZE, _PRES, _DTYP and _GRAN.
FlatFlags == {22, 15, 12, 23}
Flat(type) == Segment({}, 0..19, type, FlatFlags)

gdt_init ==
    /\ askedSegment' = [askedSegment EXCEPT ![0] = Nothing,
                            ![GDT_INDEX_KERNEL_CODE] = Flat(SEGMENT_CODE_TYPE_EXRD),
                            ![GDT_INDEX_KERNEL_DATA] = Flat(SEGMENT_DATA_TYPE_RDWR)]
    /\ gdt' = [gdt EXCEPT ![0] = SegmentWords(Nothing),
                          ![GDT_INDEX_KERNEL_CODE] = SegmentWords(Flat(SEGMENT_CODE_TYPE_EXRD)),
                          ![GDT_INDEX_KERNEL_DATA] = SegmentWords(Flat(SEGMENT_DATA_TYPE_RDWR))]
    /\ UNCHANGED <<idt, askedGate, calls>>

idt_init_interrupt_gate(v, g) ==
    /\ Calling
    /\ idt' = [idt EXCEPT ![v] = GateWords(g)]
    /\ askedGate' = [w \in DOMAIN askedGate \cup {v} |-> IF w = v THEN g ELSE askedGate[w]]
    /\ UNCHANGED <<gdt, askedSegment>>

Next ==
    \/ gdt_init
    \/ \E k \in Index, b \in Bases, l \in Limits, t \in Types, f \in Flags :
          init_segment_descriptor(k, Segment(b, l, t, f))
    \/ \E v \in Gates, o \in Offsets, c \in Selectors, d \in Levels :
          idt_init_interrupt_gate(v, Gate(o, c, d))

Spec == Init /\ [][Next]_vars

-----------------------------------------------------------------------------
(***************************************************************************)
(* How the processor reads them: the fields of segment_descriptor and      *)
(* idt_descriptor_t.                                                       *)
(***************************************************************************)
\* The `width' bits of a word from bit `first' on.
Field(w, first, width) == {b \in 0..(width - 1) : b + first \in w}

Base(d) == Field(d.low, 16, 16) \cup Up(Field(d.high, 0, 8), 16) \cup Up(Field(d.high, 24, 8), 24)
Limit(d) == Field(d.low, 0, 16) \cup Up(Field(d.high, 16, 4), 16)
SegmentRead(d) == Segment(Base(d), Limit(d), Field(d.high, 8, 4), d.high \cap FlagBits)

GateRead(d) == Gate(d.offset_0_15 \cup Up(d.offset_16_31, 16), d.cs, Field(d.flags, 13, 2))
PresentGate32(d) == 15 \in d.flags /\ 12 \notin d.flags /\ Field(d.flags, 8, 4) = SEGMENT_GATE_INT_32

\* The last byte a segment reaches, its limit counting bytes or pages of 4096.
LastByte(d) == IF 23 \in d.high THEN Up(Limit(d), 12) \cup (0..11) ELSE Limit(d)

-----------------------------------------------------------------------------
(***************************************************************************)
(* Properties.                                                             *)
(***************************************************************************)
\* Type invariant: words keep their width.
TypeOK ==
    /\ gdt \in [Index -> [high : Word, low : Word]]
    /\ idt \in [Gates -> [offset_0_15 : HalfWord, cs : HalfWord,
                          flags : HalfWord, offset_16_31 : HalfWord]]
    /\ askedSegment \in [Index -> [base : Word, limit : Word,
                                   type : SUBSET (0..3), flags : SUBSET FlagBits]]
    /\ DOMAIN askedGate \subseteq Gates
    /\ \A v \in DOMAIN askedGate :
          askedGate[v] \in [offset : Word, cs : HalfWord, dpl : HalfWord]
    /\ calls \in 0..MaxCalls

\* Whatever a descriptor was before, the processor reads what the last call asked
\* for, no field disturbing another; only the limit is cut to its 20 bits (the
\* masks and shifts of init_segment_descriptor against the fields of segment.h).
SegmentsReadBack ==
    \A k \in Index : SegmentRead(gdt[k])
                   = [askedSegment[k] EXCEPT !.limit = @ \cap (0..19)]

\* A gate made by idt_init_interrupt_gate is a present 32-bit interrupt gate that
\* leads to exactly the function and segment asked for, its level cut to two bits.
GatesReadBack ==
    \A v \in DOMAIN askedGate :
        /\ PresentGate32(idt[v])
        /\ GateRead(idt[v]) = [askedGate[v] EXCEPT !.dpl = @ \cap (0..1)]

\* The segments of gdt_init are the flat model its comments name: all of memory,
\* 32 bit, present, for the kernel's privilege level.
FlatModel ==
    \A k \in Index, t \in {SEGMENT_CODE_TYPE_EXRD, SEGMENT_DATA_TYPE_RDWR} :
        askedSegment[k] = Flat(t) =>
            /\ Base(gdt[k]) = {} /\ LastByte(gdt[k]) = 0..31
            /\ Field(gdt[k].high, 13, 2) = {} /\ {12, 15, 22} \subseteq gdt[k].high
=============================================================================
