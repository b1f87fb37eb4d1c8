---------------------------- MODULE MemCopyProofs ----------------------------
(***************************************************************************)
(* libc/string.c implements MemSpec, for every size of memory, every set   *)
(* of byte values and every width of int that can count the memory.        *)
(***************************************************************************)
EXTENDS MemCopy, TLAPS

-----------------------------------------------------------------------------
(***************************************************************************)
(* Type correctness.                                                       *)
(***************************************************************************)
LEMMA LastIndexValue == \A len \in 0..Size : LastIndex(len) = len - 1
  BY WidthAssumption DEF LastIndex, AsInt

LEMMA InitType == Init => TypeOK
  BY WidthAssumption DEF Init, TypeOK

LEMMA CallType == TypeOK /\ Call => TypeOK'
<1> SUFFICES ASSUME TypeOK, Call PROVE TypeOK'
  OBVIOUS
<1> USE WidthAssumption DEF TypeOK, Block
<1>1. ASSUME NEW dst \in 0..Size, NEW src \in 0..Size, NEW len \in 0..Size,
             Memmove(dst, src, len)
      PROVE  TypeOK'
  BY <1>1, LastIndexValue DEF Memmove
<1>2. ASSUME NEW dst \in 0..Size, NEW len \in 0..Size, NEW byte \in Value,
             Memset(dst, byte, len)
      PROVE  TypeOK'
  BY <1>2 DEF Memset
<1> QED
  BY <1>1, <1>2 DEF Call, Memcpy

\* Every byte a loop touches lies in memory.
LEMMA LoopAddresses ==
    ASSUME TypeOK
    PROVE  /\ pc = "backward" /\ i >= 0 => to + i \in Addr /\ from + i \in Addr
           /\ pc = "forward" /\ i < n => to + i \in Addr /\ from + i \in Addr
           /\ pc = "fill" /\ i < n => to + i \in Addr
  BY WidthAssumption DEF TypeOK, Addr, Block

LEMMA LoopType == TypeOK /\ Loop => TypeOK'
<1> SUFFICES ASSUME TypeOK, Loop PROVE TypeOK'
  OBVIOUS
<1> USE WidthAssumption DEF TypeOK, Block
<1>1. CASE CopyBackward
  <2>1. mem' \in [Addr -> Value]
    BY <1>1, LoopAddresses DEF CopyBackward, Store
  <2> QED
    BY <1>1, <2>1 DEF CopyBackward, Store
<1>2. CASE CopyForward
  <2>1. mem' \in [Addr -> Value]
    BY <1>2, LoopAddresses DEF CopyForward, Store
  <2> QED
    BY <1>2, <2>1 DEF CopyForward, Store
<1>3. CASE FillForward
  <2>1. mem' \in [Addr -> Value]
    BY <1>3, LoopAddresses DEF FillForward, Store
  <2> QED
    BY <1>3, <2>1 DEF FillForward, Store
<1>4. CASE Return
  BY <1>4 DEF Return
<1> QED
  BY <1>1, <1>2, <1>3, <1>4 DEF Loop

\* The loops stay inside both blocks and inside memory (memmove, memset).
THEOREM TypeCorrect == Spec => []TypeOK
<1>1. TypeOK /\ [Next]_vars => TypeOK'
  <2>1. TypeOK /\ UNCHANGED vars => TypeOK'
    BY DEF TypeOK, vars, Block
  <2> QED
    BY <2>1, CallType, LoopType DEF Next
<1> QED
  BY <1>1, InitType, PTL DEF Spec

-----------------------------------------------------------------------------
(***************************************************************************)
(* The loops never overwrite what they have still to read.                 *)
(***************************************************************************)
LEMMA CallCopies == TypeOK /\ Call => CopyInv'
<1> SUFFICES ASSUME TypeOK, Call PROVE CopyInv'
  OBVIOUS
<1>1. ASSUME NEW dst \in 0..Size, NEW src \in 0..Size, NEW len \in 0..Size,
             Memmove(dst, src, len)
      PROVE  CopyInv'
  <2>1. mem' = mem /\ old' = mem /\ to' = dst /\ from' = src /\ n' = len
    BY <1>1 DEF Memmove
  <2>2. CASE Reverse(dst, src, len)
    <3>1. pc' = "backward" /\ i' = len - 1
      BY <1>1, <2>2, LastIndexValue DEF Memmove
    <3>2. \A a \in Addr : ~Written(a)'
      BY <2>1, <3>1, WidthAssumption DEF Written, Addr
    <3> QED
      BY <2>1, <2>2, <3>1, <3>2 DEF CopyInv, Reverse
  <2>3. CASE ~Reverse(dst, src, len)
    <3>1. pc' = "forward" /\ i' = 0
      BY <1>1, <2>3 DEF Memmove
    <3>2. \A a \in Addr : ~Written(a)'
      BY <2>1, <3>1, WidthAssumption DEF Written, Addr
    <3> QED
      BY <2>1, <2>3, <3>1, <3>2 DEF CopyInv
  <2> QED
    BY <2>2, <2>3
<1>2. ASSUME NEW dst \in 0..Size, NEW len \in 0..Size, NEW byte \in Value,
             Memset(dst, byte, len)
      PROVE  CopyInv'
  <2>1. /\ mem' = mem /\ old' = mem /\ to' = dst /\ n' = len
        /\ pc' = "fill" /\ i' = 0
    BY <1>2 DEF Memset
  <2>2. \A a \in Addr : ~Written(a)'
    BY <2>1, WidthAssumption DEF Written, Addr
  <2> QED
    BY <2>1, <2>2 DEF CopyInv
<1> QED
  BY <1>1, <1>2 DEF Call, Memcpy

LEMMA LoopCopies == TypeOK /\ CopyInv /\ Loop => CopyInv'
<1> SUFFICES ASSUME TypeOK, CopyInv, Loop PROVE CopyInv'
  OBVIOUS
<1> USE WidthAssumption
<1>1. CASE CopyBackward
  <2>1. /\ pc = "backward" /\ i >= 0 /\ i' = i - 1
        /\ mem' = [mem EXCEPT ![to + i] = mem[from + i]]
        /\ UNCHANGED <<pc, to, from, n, c, old>>
    BY <1>1 DEF CopyBackward, Store
  <2>2. to + i \in Addr /\ from + i \in Addr
    BY <2>1, LoopAddresses
  <2>3. mem[from + i] = old[from + i]
    <3>1. from < to
      BY <2>1 DEF CopyInv
    <3>2. ~Written(from + i)
      BY <2>1, <3>1 DEF Written, TypeOK
    <3> QED
      BY <2>1, <2>2, <3>2 DEF CopyInv
  <2>4. \A a \in Addr : Written(a)' <=> Written(a) \/ a = to + i
    BY <2>1 DEF Written, TypeOK, Addr
  <2>5. \A a \in Addr : mem'[a] = IF Written(a)' THEN old[a - to + from] ELSE old[a]
    <3> TAKE a \in Addr
    <3>1. CASE a = to + i
      <4>1. mem'[a] = old[from + i] /\ Written(a)'
        BY <2>1, <2>2, <2>3, <2>4, <3>1 DEF TypeOK
      <4>2. a - to + from = from + i
        BY <3>1 DEF TypeOK
      <4> QED
        BY <4>1, <4>2
    <3>2. CASE a # to + i
      BY <2>1, <2>2, <2>4, <3>2 DEF TypeOK, CopyInv
    <3> QED
      BY <3>1, <3>2
  <2> QED
    BY <2>1, <2>5 DEF CopyInv
<1>2. CASE CopyForward
  <2>1. /\ pc = "forward" /\ i < n /\ i' = i + 1
        /\ mem' = [mem EXCEPT ![to + i] = mem[from + i]]
        /\ UNCHANGED <<pc, to, from, n, c, old>>
    BY <1>2 DEF CopyForward, Store
  <2>2. to + i \in Addr /\ from + i \in Addr
    BY <2>1, LoopAddresses
  <2>3. mem[from + i] = old[from + i]
    <3>1. ~(from < to) \/ ~(from + n >= to)
      BY <2>1 DEF CopyInv, Reverse
    <3>2. ~Written(from + i)
      BY <2>1, <3>1 DEF Written, TypeOK
    <3> QED
      BY <2>1, <2>2, <3>2 DEF CopyInv
  <2>4. \A a \in Addr : Written(a)' <=> Written(a) \/ a = to + i
    BY <2>1 DEF Written, TypeOK, Addr
  <2>5. \A a \in Addr : mem'[a] = IF Written(a)' THEN old[a - to + from] ELSE old[a]
    <3> TAKE a \in Addr
    <3>1. CASE a = to + i
      <4>1. mem'[a] = old[from + i] /\ Written(a)'
        BY <2>1, <2>2, <2>3, <2>4, <3>1 DEF TypeOK
      <4>2. a - to + from = from + i
        BY <3>1 DEF TypeOK
      <4> QED
        BY <4>1, <4>2
    <3>2. CASE a # to + i
      BY <2>1, <2>2, <2>4, <3>2 DEF TypeOK, CopyInv
    <3> QED
      BY <3>1, <3>2
  <2> QED
    BY <2>1, <2>5 DEF CopyInv, Reverse
<1>3. CASE FillForward
  <2>1. /\ pc = "fill" /\ i < n /\ i' = i + 1
        /\ mem' = [mem EXCEPT ![to + i] = c]
        /\ UNCHANGED <<pc, to, from, n, c, old>>
    BY <1>3 DEF FillForward, Store
  <2>2. to + i \in Addr
    BY <2>1, LoopAddresses
  <2>3. \A a \in Addr : Written(a)' <=> Written(a) \/ a = to + i
    BY <2>1 DEF Written, TypeOK, Addr
  <2>4. \A a \in Addr : mem'[a] = IF Written(a)' THEN c ELSE old[a]
    BY <2>1, <2>2, <2>3 DEF TypeOK, CopyInv
  <2> QED
    BY <2>1, <2>4 DEF CopyInv
<1>4. CASE Return
  BY <1>4 DEF Return, CopyInv
<1> QED
  BY <1>1, <1>2, <1>3, <1>4 DEF Loop

\* At every step of every loop the destination holds what it is owed up to the
\* index and the source bytes still to come are intact: the direction memmove
\* picks is the right one for every overlap.
THEOREM CopyCorrect == Spec => []CopyInv
<1>1. Init => CopyInv
  BY DEF Init, CopyInv
<1>2. TypeOK /\ CopyInv /\ [Next]_vars => CopyInv'
  <2>1. CopyInv /\ UNCHANGED vars => CopyInv'
    BY DEF CopyInv, vars, Written, Reverse
  <2> QED
    BY <2>1, CallCopies, LoopCopies DEF Next
<1> QED
  BY <1>1, <1>2, TypeCorrect, PTL DEF Spec
-----------------------------------------------------------------------------
(***************************************************************************)
(* string.c implements MemSpec.                                            *)
(***************************************************************************)
Seen == IF pc = "idle" THEN mem ELSE old

LEMMA PromiseDefs ==
    /\ Promise!Init <=> Seen \in [Addr -> Value]
    /\ Promise!Move <=> \E dst, src, len \in 0..Size :
           /\ Promise!Block(dst, len) /\ Promise!Block(src, len)
           /\ Seen' = Promise!Moved(Seen, dst, src, len)
    /\ Promise!Fill <=> \E dst, len \in 0..Size : \E byte \in Value :
           /\ Promise!Block(dst, len)
           /\ Seen' = Promise!Filled(Seen, dst, byte, len)
  BY DEF Promise!Init, Promise!Move, Promise!Fill, Seen, Promise!Addr, Addr

LEMMA ReturnImplements ==
    ASSUME TypeOK, CopyInv, Return PROVE Promise!Next
<1>1. Seen = old /\ Seen' = mem /\ pc # "idle"
  BY DEF Seen, Return
<1>2. mem \in [Addr -> Value] /\ to \in 0..Size /\ n \in 0..Size /\ Promise!Block(to, n)
  BY <1>1 DEF TypeOK, Block, Promise!Block
<1>3. \A a \in Addr : Written(a) <=> Promise!Within(a, to, n)
  BY WidthAssumption DEF Written, Promise!Within, Return, TypeOK, Addr
<1>4. CASE pc \in {"backward", "forward"}
  <2>1. from \in 0..Size /\ Promise!Block(from, n)
    BY <1>4 DEF TypeOK, Block, Promise!Block
  <2>2. mem = [a \in Addr |-> IF Promise!Within(a, to, n) THEN old[a - to + from] ELSE old[a]]
    BY <1>2, <1>3, <1>4 DEF CopyInv
  <2>3. Seen' = Promise!Moved(Seen, to, from, n)
    BY <1>1, <2>2 DEF Promise!Moved, Promise!Addr, Addr
  <2> QED
    BY <1>2, <2>1, <2>3, PromiseDefs DEF Promise!Next
<1>5. CASE pc = "fill"
  <2>1. mem = [a \in Addr |-> IF Promise!Within(a, to, n) THEN c ELSE old[a]]
    BY <1>2, <1>3, <1>5 DEF CopyInv
  <2>2. Seen' = Promise!Filled(Seen, to, c, n) /\ c \in Value
    BY <1>1, <2>1 DEF Promise!Filled, Promise!Addr, Addr, TypeOK
  <2> QED
    BY <1>2, <2>2, PromiseDefs DEF Promise!Next
<1> QED
  BY <1>4, <1>5 DEF Return

\* Every call of memmove, memcpy and memset changes memory as MemSpec says, in
\* one step as its caller sees it: the step in which it returns.
THEOREM Implements == Spec => PromiseSpec
<1>1. Init => Promise!Init
  BY PromiseDefs DEF Init, Seen
<1>2. TypeOK /\ CopyInv /\ [Next]_vars => [Promise!Next]_Seen
  <2> SUFFICES ASSUME TypeOK, CopyInv, [Next]_vars PROVE [Promise!Next]_Seen
    OBVIOUS
  <2>1. CASE Call
    BY <2>1 DEF Call, Memmove, Memcpy, Memset, Seen
  <2>2. CASE CopyBackward \/ CopyForward \/ FillForward
    BY <2>2 DEF CopyBackward, CopyForward, FillForward, Store, Seen
  <2>3. CASE Return
    BY <2>3, ReturnImplements
  <2>4. CASE UNCHANGED vars
    BY <2>4 DEF vars, Seen
  <2> QED
    BY <2>1, <2>2, <2>3, <2>4 DEF Next, Loop
<1> QED
  BY <1>1, <1>2, TypeCorrect, CopyCorrect, PTL DEF Spec, PromiseSpec, Promise!Spec, Seen
=============================================================================
