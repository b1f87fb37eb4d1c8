------------------------------- MODULE MemSpec -------------------------------
(***************************************************************************)
(* What the memory functions of libc/string.c promise: the destination     *)
(* block takes, in one step, the contents the source block had before the  *)
(* call, or the fill byte, and nothing outside the destination changes.    *)
(***************************************************************************)
EXTENDS Integers

CONSTANTS
    Size,   \* bytes of memory
    Value   \* what a byte can hold

Addr == 0..(Size - 1)
Block(a, n) == a \in Nat /\ n \in Nat /\ a + n <= Size

Within(a, start, n) == start <= a /\ a < start + n

Moved(m, dst, src, n) ==
    [a \in Addr |-> IF Within(a, dst, n) THEN m[a - dst + src] ELSE m[a]]
Filled(m, dst, c, n) ==
    [a \in Addr |-> IF Within(a, dst, n) THEN c ELSE m[a]]

VARIABLE mem

Init == mem \in [Addr -> Value]

Move == \E dst, src, n \in 0..Size : /\ Block(dst, n) /\ Block(src, n)
                                     /\ mem' = Moved(mem, dst, src, n)

Fill == \E dst, n \in 0..Size : \E c \in Value : /\ Block(dst, n)
                                                 /\ mem' = Filled(mem, dst, c, n)

Next == Move \/ Fill

Spec == Init /\ [][Next]_mem
=============================================================================
