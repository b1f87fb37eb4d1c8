------------------------------- MODULE MCPs2 --------------------------------
(***************************************************************************)
(* The machines the PS/2 driver is checked on.                             *)
(***************************************************************************)
EXTENDS Ps2

\* What qemu-system-i386 (run-qemu.sh) offers: two working channels, a
\* keyboard that sends no device id and a standard mouse.
Qemu == [present |-> TRUE, dual |-> TRUE, prompt |-> TRUE, quick |-> TRUE,
         noisy |-> FALSE, selftest |-> B55,
         porttest |-> [p \in Port |-> B00],
         answer |-> <<<<BFA, BAA>>, <<BFA, BAA, B00>>>>,
         bios |-> {0, 1, 2, 6}]

Mute == <<>>
Failing == <<BFC>>
Silenced == <<BFA>>
Swapped == <<BAA, BFA>>
SelfTestFails == <<BFA, BFC>>
Wheel == <<BFA, BAA, {0, 1}>>
TwoByteId == <<BFA, BAA, {0, 1, 3, 5, 7}, {0, 1, 7}>>

Answers == {Mute, Failing, Silenced, Swapped, SelfTestFails, Wheel, TwoByteId,
            Qemu.answer[1], Qemu.answer[2]}

WithAnswers(m, as) == {[m EXCEPT !.answer = <<a, b>>] : a \in as, b \in as}
Few == {Mute, Failing, Qemu.answer[1], Qemu.answer[2]}

Slow == [Qemu EXCEPT !.quick = FALSE]
Broken == {[Qemu EXCEPT !.selftest = BFC]}
          \cup {[Qemu EXCEPT !.porttest = <<a, b>>] : a \in {B00, {0}}, b \in {B00, {1}}}
SingleChannel == [Slow EXCEPT !.dual = FALSE, !.bios = {0, 1, 2, 5, 6}]
Absent == [Slow EXCEPT !.present = FALSE]
SlowController == [Slow EXCEPT !.prompt = FALSE]
Noisy == [Slow EXCEPT !.noisy = TRUE]

MCMachines == WithAnswers(Qemu, Answers) \cup WithAnswers(Slow, Few) \cup Broken
              \cup {SingleChannel, Absent, SlowController, Noisy}

\* The machines of the runs that look at one comment of ps2.c.
QemuOnly == {Qemu}
NoisyOnly == {Noisy}
\* One channel, and a keyboard that answers at once.
QuickSingleOnly == {[SingleChannel EXCEPT !.quick = TRUE]}
\* A keyboard slower than the waits, and nothing on port 2.
Late == [Slow EXCEPT !.answer = <<Qemu.answer[1], Mute>>]
\* Nothing on port 1, and a mouse that is moved while ps2_init runs.
Crosstalk == [Qemu EXCEPT !.noisy = TRUE, !.answer = <<Mute, Qemu.answer[2]>>]
Stray == {Late, Crosstalk}

MCScancodes == {{2, 3, 4}}
=============================================================================
