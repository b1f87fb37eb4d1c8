------------------------------- MODULE MemCopy -------------------------------
(***************************************************************************)
(* libc/string.c: memmove, memcpy and memset, one byte per step.  memmove  *)
(* picks the direction of its loop from the two addresses, so that a block *)
(* that overlaps its destination is not overwritten before it is read.     *)
(***************************************************************************)
EXTENDS Integers

CONSTANTS
    Size,     \* bytes of memory
    Value,    \* what a byte can hold
    IntMax    \* the largest int; addresses and sizes are twice as wide

\* No block of the kernel is larger than an int can count (the largest is the
\* 4000 bytes of the text screen), so memory may be taken to be that small.
ASSUME WidthAssumption ==
    /\ Size \in Nat \ {0}
    /\ IntMax \in Nat
    /\ Size <= IntMax + 1

VARIABLES
    mem,    \* the memory
    pc,     \* "idle", or the loop that is running
    to,     \* dst, as bytes
    from,   \* src, as bytes
    n,      \* how many bytes
    c,      \* memset's byte
    i,      \* the loop's index
    old     \* the memory when the call began (a history variable)

vars == <<mem, pc, to, from, n, c, i, old>>

Addr == 0..(Size - 1)
Block(a, len) == a + len <= Size

\* A size converted to int: values past IntMax come out negative.
AsInt(x) == IF x > IntMax THEN x - 2 * (IntMax + 1) ELSE x

Init ==
    /\ mem \in [Addr -> Value]
    /\ old = mem
    /\ pc = "idle"
    /\ to = 0 /\ from = 0 /\ n = 0 /\ i = 0
    /\ c \in Value

\* Mutant: the direction is never reversed.
ReverseNever(dst, src, len) == FALSE
\* Mutant: the loop runs in reverse when dst lies before src.
ReverseSwapped(dst, src, len) == dst < src /\ dst + len >= src

Reverse(dst, src, len) == src < dst /\ src + len >= dst

\* Mutant: the reverse loop starts one byte past the block.
LastIndexPast(len) == AsInt(len)

LastIndex(len) == AsInt(len - 1)

Memmove(dst, src, len) ==
    /\ pc = "idle"
    /\ Block(dst, len) /\ Block(src, len)
    /\ to' = dst /\ from' = src /\ n' = len
    /\ old' = mem
    /\ \/ Reverse(dst, src, len) /\ pc' = "backward" /\ i' = LastIndex(len)
       \/ ~Reverse(dst, src, len) /\ pc' = "forward" /\ i' = 0
    /\ UNCHANGED <<mem, c>>

Memcpy(dst, src, len) == Memmove(dst, src, len)

Memset(dst, byte, len) ==
    /\ pc = "idle"
    /\ Block(dst, len)
    /\ to' = dst /\ n' = len /\ c' = byte
    /\ old' = mem
    /\ pc' = "fill" /\ i' = 0
    /\ UNCHANGED <<mem, from>>

Store(a, v) == mem' = [mem EXCEPT ![a] = v] /\ UNCHANGED <<pc, to, from, n, c, old>>

\* Mutant: the index stands still.
CopyBackwardStuck ==
    /\ pc = "backward" /\ i >= 0
    /\ Store(to + i, mem[from + i])
    /\ i' = i

CopyBackward ==
    /\ pc = "backward" /\ i >= 0
    /\ Store(to + i, mem[from + i])
    /\ i' = i - 1

CopyForward ==
    /\ pc = "forward" /\ i < n
    /\ Store(to + i, mem[from + i])
    /\ i' = i + 1

FillForward ==
    /\ pc = "fill" /\ i < n
    /\ Store(to + i, c)
    /\ i' = i + 1

Return ==
    /\ \/ pc = "backward" /\ i < 0
       \/ pc \in {"forward", "fill"} /\ i >= n
    /\ pc' = "idle"
    /\ UNCHANGED <<mem, to, from, n, c, i, old>>

Call ==
    \/ \E dst, src, len \in 0..Size : Memmove(dst, src, len) \/ Memcpy(dst, src, len)
    \/ \E dst, len \in 0..Size : \E byte \in Value : Memset(dst, byte, len)

Loop == CopyBackward \/ CopyForward \/ FillForward \/ Return

Next == Call \/ Loop

Spec == Init /\ [][Next]_vars

\* A loop that can run does; callers need not call again.
FairSpec == Spec /\ WF_vars(Loop)

-----------------------------------------------------------------------------
(***************************************************************************)
(* Properties.                                                             *)
(***************************************************************************)
\* Type invariant: the memory, and the locals of the running function.
TypeOK ==
    /\ mem \in [Addr -> Value] /\ old \in [Addr -> Value]
    /\ pc \in {"idle", "backward", "forward", "fill"}
    /\ to \in 0..Size /\ from \in 0..Size /\ n \in 0..Size
    /\ c \in Value
    /\ i \in -1..Size
    /\ pc = "backward" => i \in -1..(n - 1)
    /\ pc \in {"forward", "fill"} => i \in 0..n
    /\ pc # "idle" => Block(to, n)
    /\ pc \in {"backward", "forward"} => Block(from, n)

\* The byte of the destination the address a is, has been written already.
Written(a) ==
    /\ to <= a /\ a < to + n
    /\ IF pc = "backward" THEN a > to + i ELSE a < to + i

\* Half-way through a call every byte already written has the value the call
\* owes it, and every other byte, the part of the source still to be read
\* included, is as it was before the call (the loops of memmove and memset).
CopyInv ==
    /\ pc \in {"backward", "forward"} =>
         \A a \in Addr : mem[a] = IF Written(a) THEN old[a - to + from] ELSE old[a]
    /\ pc = "fill" =>
         \A a \in Addr : mem[a] = IF Written(a) THEN c ELSE old[a]
    /\ pc = "backward" => from < to
    /\ pc = "forward" => ~Reverse(to, from, n)

\* The functions implement MemSpec: seen from outside, a call changes memory
\* once, when it returns.
Promise == INSTANCE MemSpec WITH mem <- IF pc = "idle" THEN mem ELSE old
PromiseSpec == Promise!Spec

\* Every call returns, an empty one included (n - 1 is -1 as an int).
CallsReturn == pc # "idle" ~> pc = "idle"
=============================================================================
