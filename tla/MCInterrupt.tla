----------------------------- MODULE MCInterrupt -----------------------------
(***************************************************************************)
(* Six calls are enough for three interrupts inside one another, with      *)
(* registrations before, between and after them.                           *)
(***************************************************************************)
EXTENDS Interrupt

\* A breakpoint, the vectors of kernel_main, the last the table holds and the next.
MCVectors == {3, 32, 33, 254, 255}
LastVector == {32, 255}
MCHandlers == {"test_handler", "other"}
=============================================================================
