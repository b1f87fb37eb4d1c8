# chp-os in TLA+

chp-os is a small i686 kernel: it boots through multiboot, prints on the VGA text
screen, sets up its descriptor tables, takes two software interrupts and
initialises the PS/2 controller. These modules model its parts at the level of
single port accesses, single bytes and single stack operations, and say what the
parts promise.

All paths below are relative to the repository.

## The system

| Component | Source | State | Operations |
|---|---|---|---|
| PS/2 driver | `kernel/src/io/ps2/ps2.c`, `io/arch/i686/inout.c` | channel and port flags, the two device records; the controller's buffers and configuration byte behind ports 0x60 and 0x64 | `ps2_init`: disable, configure, self-check, dual-channel check, port tests, enable, reset of both devices |
| memory functions | `libc/string.c` | memory | `memmove`, `memcpy`, `memset` |
| text terminal | `kernel/src/io/tty/tty.c` | video memory, cursor, colour | `tty_init`, `tty_putc`, `tty_puts`, `tty_set_fg`, `tty_set_bg`, the colour map and the character table |
| descriptor tables, interrupts | `kernel/src/system/*` | GDT, IDT, segment registers, handler table, stack | `gdt_init`, `gdt_flush`, `idt_init`, `idt_register_handler`, `idt_flush`, the stubs |
| kernel entry | `kernel/src/kernel.c`, `arch/i686/start.s` | the multiboot magic | boot order, self-tests of the memory functions |
| printf | `libc/stdio.c` | within a call: the position in the format, the directive, the array of digits, the count | `printf`, `sprintf`, `snprintf`, `fctprintf`: parse, convert, give out |
| log, assert | `log/log.c`, `common/assert.h` | a constant level | printing |
| multiboot header, C runtime, build | `boot/multiboot.h`, `crt/*`, CMake, linker script | none | none |

The components call one another directly: `start.s` calls `kernel_main`, which runs
the self-tests, the tables, the interrupts, the terminal's colour map and
`ps2_init` in that order; everything that prints reaches `tty_putc` through
`printf` and `_putchar`; `tty_scroll_up` uses `memmove`. There are no threads, and
no instruction of the kernel sets the interrupt flag, so the kernel is never
interrupted from outside. What runs beside it is hardware: the PS/2 controller and
the two devices behind it, which work while the driver polls.

The hard parts, listed with their lines as hazards in `PROJECT.json`, are:

- the driver talks to three asynchronous parties through one byte-wide buffer,
  with polls that give up, replies that come late or never, and bytes nobody
  asked for; several results of waits are ignored;
- a controller configuration that is read, changed and written back four times;
- overlapping copies, and index types that wrap;
- wrapping and scrolling at the corner of the screen, in a colour that changes;
- an array of digits for which digits, zeros, prefix and sign compete, flags that exclude
  one another, and a format walked by a pointer nothing bounds;
- boot order, hand-computed table limits, and assembler stubs that have to keep
  the stack balanced when interrupts nest.

What makes each component correct:

- PS/2: it always ends; when the machine is well-behaved and has two channels, its
  flags say so and which ports work, and its device records say which devices passed
  their reset and the type of the id each sent; on any machine, no byte is read that is
  not there when its wait was checked; interrupts are on for exactly the working
  ports; without a controller nothing is believed. On other machines the comments of
  `ps2.c` promise more than the code keeps: see the violation runs.
- memory: a call has the effect of a move or a fill that happens at once, whatever
  the overlap, and it returns.
- terminal: the screen is the end of a roll of paper onto which everything written
  was typed, and nothing else, in the colours asked for; the cursor is never off the
  screen.
- interrupts: the handler that runs is the one registered for the vector, the stack
  after an interrupt is the stack before it, interrupted code keeps its frame pointer, and
  each interrupt returns.
- printf: what comes out is what the format and the arguments ask for, but for the
  directives listed below that the code gets wrong; no array is
  overrun, the caller's buffer is not written beyond its count, and the format is not
  read beyond its end.

## The modules

| Module | Models | Composes with |
|---|---|---|
| `I8042` | the controller and its two devices (external: it is hardware) | - |
| `Ps2` | `ps2.c`, every port access and poll | EXTENDS `I8042` |
| `MCPs2` | the machines the driver is checked on | EXTENDS `Ps2` |
| `Ps2Proofs` | theorems about `Ps2` on all machines, and the dialogue of driver and controller | EXTENDS `Ps2` |
| `Ps2DialogueProofs` | what follows from the dialogue: configuration, tests, resets, report | EXTENDS `Ps2Proofs` |
| `MemSpec` | what the memory functions promise (abstract) | - |
| `MemCopy` | `string.c`, byte by byte | implements `MemSpec` |
| `MCMemCopy`, `MemCopyProofs` | its instance and theorems | EXTEND `MemCopy` |
| `TtySpec` | a terminal on an endless roll of paper (abstract) | - |
| `Tty` | `tty.c` | implements `TtySpec`, moves rows with `MemSpec` |
| `MCTty` | its instances | EXTENDS `Tty` |
| `TtyProofs` | theorems about the terminal | EXTENDS `Tty`, `SequenceLemmas` |
| `Interrupt` | tables, boot order, stubs, stack | - |
| `MCInterrupt`, `InterruptProofs` | its instances and theorems | EXTEND `Interrupt` |
| `Descriptors` | the bit layout of segment descriptors and gates | what `Interrupt` takes for granted of a descriptor |
| `MCDescriptors`, `DescriptorsProofs` | its instance and theorems | EXTEND `Descriptors` |
| `PrintfSpec` | the text a directive of C's printf asks for (abstract) | - |
| `Printf` | `stdio.c` without doubles | compared with `PrintfSpec` |
| `MCPrintf`, `PrintfProofs` | its instance and theorems | EXTEND `Printf`; the proofs `SequenceLemmas` too |
| `SequenceLemmas` | lemmas about sequences that need induction (no model) | - |

### I8042 and Ps2

A byte is the set of its one bits, so that `config &= ~...` and `config |= ...` are
set operations. A machine is a record (`hw`) chosen once in `Init`: whether there
is a controller, a second channel, how the self-tests end, what each device
answers to a reset, whether the controller and the devices answer before the
driver's polls run out (`prompt`, `quick`), and whether devices send bytes unasked
(`noisy`). The controller has a one-byte input buffer, a pending reply and an
output buffer whose latch keeps its last byte when it is read. Every byte carries
its sender, which the driver cannot see and the properties can.

The driver is straight-line code between a few decisions. `Script` holds the port
accesses between two decisions, `step` walks through them one access or one poll
at a time, and at the end of a script the action of that decision (`FirstConfig`,
`CheckDualChannel`, `SecondByte`, ...) does what the C code does there. A wait that
times out goes on (`WaitIn`, `WaitOut`, as in most of the file) or ends the script
(`TryIn`, `TryOut`, as in `ps2_device_read_data` and `ps2_device_write_data`). Both
loops of the code report a timeout when the very last poll finds the buffer ready,
and so does `Poll`.

Timing enters in two named assumptions, conjuncts of `Poll`. `InputInTime`: 100000000
polls are enough for a controller that is there and is not itself blocked by a full
output buffer. `OutputInTime`: 10000 polls are enough for a prompt controller's reply
and for a quick device's byte. On machines that are not prompt or not quick a wait
may time out at any time. The properties name the machines they hold on (`Orderly`,
`WellBehaved`) where they do not hold on all.

### MemSpec and MemCopy

`MemCopy` copies one byte per step, in the direction `memmove` picks. The index of the
reverse loop is an `int`: `AsInt` converts with wrap-around at `IntMax`, and `n - 1` is
-1 for an empty block. Mapping memory to its state before the call while a call runs,
it implements `MemSpec`, in which a call is one step. `Call` stands for all callers: any
function, any two blocks, any value, in any order. The self-tests in `kernel.c` are among them
and are not translated themselves.

### TtySpec and Tty

A behaviour of `Tty` runs a program, a sequence of the calls its users make. Because
nothing interrupts `tty_putc`, a call is one step; the colour map, the character table
and `tty_puts` unfold into the calls they make. The history variable `above` keeps the
rows that have scrolled away; `above` followed by the screen is the paper of `TtySpec`,
where a row is never touched again once the line has moved on. The calls still to come are
the same in both: a step of `TtySpec` performs the first of them and nothing else, so that a
character dropped or replaced is as much a violation as one that wrapping or scrolling puts
elsewhere.

### Interrupt

`kernel_main` from `gdt_init` to the int instructions, one step per call and one per round
of `idt_init`'s loops. The last round writes the gate of vector 255 past the table of 255
entries, onto whatever the linker places there, `idtr` included or not. Then the kernel
and its handlers raise interrupts and register handlers in any order up to `MaxCalls`.
The processor's part (finding a gate, faulting, `iret`) is external. `iret` takes the top
of the stack for a frame; if it is anything else the processor runs off (`"dead"`).
`cpu` says which stub runs and which handler that stub has loaded from its entry of
`isr_user_handlers`. A frame carries, as history, the vector of its int and the handler that
was registered for it then; `HandlerRunsForItsVector` compares the two.

A word on the stack is a frame (eflags, cs and eip), an error code or a saved `ebp`. The
variable `ebp` is the number of the word the frame pointer points at: a stub saves it on the
stack, sets it to the word where it saved it, and takes it back at its exit. The prologue and
epilogue of a compiled handler are inside `HandlerReturns`, which leaves `ebp` as it was.

### Descriptors

`SegmentWords` is `init_segment_descriptor`, one term per mask and shift of the code, on words
that are sets of bits; `GateWords` is `idt_init_interrupt_gate`. `SegmentRead` and `GateRead`
take the words apart along the bit fields of `segment.h` and `interrupt.h`, the way the
processor does. History variables remember what each entry was last made from. `Interrupt`
works with what descriptors mean ("code", "data", the stub a gate leads to); this module is
why that is justified.

### PrintfSpec and Printf

`PrintfSpec` takes a format apart into items, plain characters and directives, and says what
text each asks for according to C, without looking at how the code gets there. `Spell` turns
items into the characters of the format, `Promise` into the text.

`Printf` reads the characters one by one, as `_vsnprintf` does. Each action is one round of a
loop of the parser (`Flags`, `Width`, ...) or one stage of a conversion: `Integer` and
`Pointer` fetch the argument and enter `_ntoa_long`, `Digit` is one round of its loop, `Pad`,
`Hash` and `Sign` are the three parts of `_ntoa_format`, `OutRev` is `_out_rev`. `buf` is the
array on the stack of `_ntoa_long` (and of `_ntoa_long_long`, which is the same code in a wider
type), last digit first. `Out` is the function the call has chosen to take its characters:
the caller's buffer, `_putchar`, the caller's function, or nothing. An argument is
converted to the width its length modifier names (`ValueBits`), and `0 - value` wraps for
the least value of a type, as the build computes it.

A format that ends in the middle of a directive makes the code step over the NUL; what it
then reads is not known, so the call stays in `"past"`.

The code departs from C in some directives. `Supported` names them, and `TextAsAsked` holds
for all others:

- a number with its zeros, prefix and sign longer than the array: it is cut, and its prefix
  and sign are dropped;
- a precision beyond the digits together with `-`: the zeros are not written, not even the one
  digit of a zero (`%-.1d`);
- `#` with a width equal to the digits, or with `0` and a width one above them, where the
  prefix takes the place of digits (the code takes back zeros nobody has written);
- `#` with `o` and a precision whose zeros already begin the text, or zero without digits;
- a precision below zero given as an argument, which C takes for none and the code for 0;
- `%c` or `%s` of the NUL: `_putchar` does not get it, though it is counted, while
  `stdio.h:97` promises the number of characters sent;
- a directive with an unknown specifier, or with anything between `%` and `%` or `p`.

## The runs

| Run | Question | Bounds |
|---|---|---|
| `ps2` | does `ps2_init` end, and is what it believes true where its devices behave? | 105 machines: every pair of nine device answers on quick hardware, of four on slow; broken self-tests; no second channel; no controller; a slow controller; a noisy keyboard |
| `ps2_single`, `ps2_write`, `ps2_noise`, `ps2_stray` | comments of `ps2.c` the code does not keep | one machine each, `ps2_stray` two |
| `memcopy` | do the memory functions move and fill at once? | all blocks in 5 bytes of memory, all contents over two values, all orders of calls |
| `tty` | does each call have its effect, and is the screen the end of the roll? | all programs of 7 calls over five primitives on 3 rows of 2 columns; the colour map alone and after a character |
| `tty_ascii` | a comment of `tty.c` the code does not keep | the real screen and the character table |
| `interrupt` | do interrupts run the handlers registered for them and return? | a breakpoint, the two vectors of `kernel_main`, the last vector in the table and the one after it; two handlers; six calls |
| `descriptors` | does the processor read what the code was asked to write? | words with a bit at each end of each field, none, or all; any entry, before or after `gdt_init` |
| `printf` | is the text of the directives in `Supported` what was asked for, and every text within array, count and format? | one directive at a time: all pairs of flags in any order, widths and precisions below and above the digits and the array, given or as arguments, five specifiers; all lengths and specifiers with the values at the ends of every type; strings and characters; formats cut short at every place; three longer formats through all four functions, with every count from 0 to beyond the text |
| `interrupt_last` | a comment of `interrupt.h` the code does not keep | vectors 32 and 255 |

Why the bounds are enough. Two polls per wait (`InPolls`, `OutPolls`) distinguish every
case of the loop: ready at once, ready later, ready at the last poll, never. More polls
only repeat the second. The nine answers cover each branch of `ps2_reset_device`: silence,
failure, one byte, both orders, a failed self-test after the acknowledgement, and no, one
and two id bytes. One unasked byte (`MaxNoise`) is enough to be mistaken for a reply. Five
bytes hold two overlapping blocks at every distance, and copying does not look at
values, so two of them tell any two source bytes apart. Seven calls fill a screen of six
entries and scroll it; scrolling keeps two of three rows, so a wrongly moved row shows.
Six calls nest three interrupts with registrations between them. In `MCPrintf`
int and long long have 8 and 16 bits and the array 8 characters, a quarter of the real ones:
the binary digits of an int fill the array as in the code, and those of a long long do not fit.
A short has 6 bits and a char 4, so that both lose bits of an int.
One directive at a time is enough, as nothing but the count and the arguments is carried from
one to the next; the longer formats check that.

`CHECK_DEADLOCK FALSE` appears where the system stops: `ps2_init` returns, a program of
calls ends, the kernel hangs in `start.s`. The memory functions can always be called again.

Operators commented "Mutant" are plausible mistakes in the code they stand beside. No action
uses them; `PROJECT.json` pairs each with the property that breaks when it takes the place of
the original, which shows that the property depends on that code.

Fairness. `Ps2`: the processor executes (weak fairness of the driver), a controller that is
there works, and a quick device sends what it has to send; nothing is assumed of other
devices. `Termination` does not depend on the hardware, because every wait is bounded.
`MemCopy`: a loop that can run runs. `Interrupt`: the processor executes boot code and
stubs, and handlers return, so `InterruptsReturn` is about the stubs and the nesting and not
about handlers; nobody has to raise an interrupt. `Printf`: a call runs on until
it returns; nothing in it waits for anybody.

## What the violation runs show

Each is a counterexample to a sentence of the repository.

- `ps2_single`: on a controller with one channel, `ps2_init` ends with all it knows of port 2
  wrong, in one behaviour.
  - `ps2.c:342` clears bit 5 of the configuration as the translation's (line 30).
    `ps2_check_dual_channel` then reads the same bit as the clock of port 2 (line 29) and finds
    it clear, as the controller keeps the byte it was given. `ps2_is_dual_channel` is true
    (comment at `ps2.c:68`).
  - `ps2_ports_self_check` tests port 2 whatever `ps2_is_dual_channel` says and ignores the
    timeout. Port 0x60 still reads the 0x00 that port 1's test left, and port 2 counts as
    valid (comment at `ps2.c:72`).
  - Device 2 is reset whatever the flags say. The controller does not know 0xD4 and sends the
    0xFF to device 1, which answers a second time, and device 2 is okay (comment at
    `ps2.c:257`).
- `ps2_write`: the commands at `ps2.c:339` and `343` are written without waiting for the
  input buffer (comment at `ps2.c:98`).
- `ps2_noise`: `ps2.c:342` clears the clock bit of port 1 and so switches it on again in
  the middle of the initialisation (comment at `ps2.c:329`); a scancode can then be read as
  the answer to a command.
- `ps2_stray`: with both ports enabled, a byte of a mouse that is moved while device 1 is reset
  counts as the response of device 1, where nothing is connected (comments at `ps2.c:251` and
  `257`). On the other machine of the run, `Late`, it is the answer of a keyboard slower than
  the waits: it comes in the turn of device 2, which is not there, and all of it can be read
  then, so that device 2 is okay.
- `tty_ascii`: a signed `char` from 0x80 on overwrites the colour bits (comment at `tty.c:27`).
- `interrupt_last`: vector 255 can have a handler but no gate (comment at `interrupt.h:36`).

## What is proved

The theorems hold for all values of the constants that meet the named assumptions.
They are proved from `Init`, from each action, and nothing else.

- `Ps2Proofs!TypeCorrect`: the types, for all sets of machines and all poll bounds. The
  bound on `polls` is part of it, so no wait ever polls more often than it may. The lemmas
  about `Script` show that scripts only hold known accesses; one lemma per group of actions
  follows.
- `Ps2Proofs!CheckedReadsAreFresh`: the invariant itself is inductive because the hardware
  never empties the output buffer (`HwKeepsOutput`) and a timed-out try ends its script, so
  the read is never reached (`ScriptDevice`).
- `Ps2Proofs!AbsentControllerGivesUp`: `AbsentControllerFails` is not inductive, since nothing
  in it says why the self-check fails. `AbsentInv` adds that from the flush on the last byte
  read is 0xFF, which is not 0x55.
- `Ps2Proofs!DialogueIsKept`: on every orderly machine, one whose controller answers in
  time, driver and controller stay in step, with devices of any speed. `Mood` names, for every
  position of every script, what is outstanding between the two (nothing, a silent command,
  a reply, a configuration byte to come or on its way, the reset), and `Discipline` checks
  that each access leads from its mood to the next. The theorem says that the hardware really
  is in that mood and that no wait times out but the one nobody answers.
- `Ps2DialogueProofs`, on orderly machines: `ReadsBackTheConfig`, the byte read is the
  configuration; `ConfigIsAsIntended`, which follows the configuration from byte to byte
  (`CfgToBe` is the configuration once the write on its way has arrived), and from it
  `InterruptsFollowValidity` and `ClocksAreRunning`; `HearsDevice1`, the bytes read, the one in
  the output buffer and those still to be sent make up the answer of device 1, in order, and
  from it `Device1IsNeverFalselyOkay`. None of the properties is inductive: each depends on
  where the driver is in its scripts.
- `Ps2DialogueProofs`, on well-behaved machines, on which the devices answer in time as well
  and nobody sends unasked: `HearsTheTests` and `KnowsTheFacts`, the driver's channel and port
  flags are the results of the tests; `HearsBothDevices`, each device's answer is read from its
  beginning and in its turn (`ResetInv`: who has been addressed, what of the answers has been
  read, how the reset has been judged so far). Together they give
  `RepliesComeFromPartyAsked`, the types of `TypesComeFromIds` and `ReportIsTheMachine`, the
  properties a user of the driver relies on. `TypesComeFromIds` adds what has been read of the id
  when the waits for it end: all of the answer from its third byte on, or its third and fourth
  (`IdHeard`). `ReportIsTheMachine` says of `is_dual` that it is true where there are two
  channels, which it also is where there are not (`ps2_single`), and of a device that sends no
  id that it has the type of the id 0x00. That type is "Standard PS/2 mouse" (`ps2.c:41`), also
  for a keyboard that sends no id, such as QEMU's in this model: the property records what the
  code does there, not what it should. The last four assume `Brief`: device 1 sends no more than `ps2_reset_device` reads
  (four bytes behind an acknowledgement, two without one, one if it fails at once). The
  assumption is needed: with the answer 0xFA 0xFC 0x00 the last byte would be taken for
  device 2's, which TLC shows. All machines of `MCPs2` satisfy it.
- `MemCopyProofs!TypeCorrect`: blocks stay in memory and indices in range; this is where
  `WidthAssumption` (no block larger than an `int` counts) is needed.
- `MemCopyProofs!CopyCorrect`: the written part of the destination holds the old source, the
  rest is untouched. The direction conditions (`from < to` in reverse, not `Reverse` forward)
  are what makes it inductive: the byte read next has not been overwritten.
- `MemCopyProofs!Implements`: from `CopyInv`, a return is a move or a fill of `MemSpec`, and
  every other step is a stutter.

- `DescriptorsProofs!SegmentsAsAsked`, `GatesAsAsked`, `FlatSegments`: the tables hold the words
  of what was last asked for (`Tables`, inductive together with the types), and reading the
  words of any request gives the request back (`SegmentRoundTrip`, `GateRoundTrip`, bit by bit).
  The flag bits are those the `SEGMENT_DESCR_*` macros can set; with other bits the code, which
  does not mask `flags`, would disturb other fields.

- `TtyProofs!TypeCorrect`: for every size of the screen and all programs of calls. `IInv` adds
  to `TypeOK` that what is left of the program consists of calls (`ProgramAssumption`); that
  the entry written lies in video memory is `SpotProperties`.
- `TtyProofs!Implements`: the refinement of `TtySpec`, call by call (`StepOnPaper`). `TypedPaper` says that an entry written on
  the screen changes one place on the paper, because no two places share an entry
  (`SpotsDiffer`); `ScrolledPaper` says that the `memmove` and the blank row of `tty_scroll_up`
  append one line to the paper and change nothing on it. It needs seven-bit characters: for
  the others the run `tty_ascii` shows the colour is lost.
- `TtyProofs!DarkTextOnLight`: on a screen of any size, text on a light background stays dark,
  for programs that are careful: `CarefulFromTo` follows the colour through the calls of a
  program and asks that it is legible wherever one writes or clears. `ColormapIsCareful` shows
  it of `tty_print_colormap`, call by call through its two loops, and `ColormapIsDark` draws
  the conclusion. A program that sets light text on a light background itself is not covered,
  nor is it by the comment in the code.

- `InterruptProofs`: `TypeCorrect`, `HandlersRunForTheirVectors`, `StackIsBalanced`,
  `FramePointerIsKept` and `TablesServeTheirVectors`, for all vectors and handlers and any depth
  of nesting, from one inductive invariant `IInv`. None of the properties is inductive alone:
  that an `iret` finds its frame, or that the handler loaded is the one that was due, depends
  on everything below it. `StackOK` says it of every word: a frame at the bottom returns to the
  kernel, and any other lies on a saved `ebp` of the handler it returns to; a saved `ebp` lies
  on a frame and points at the one below. `CpuOK` says what is on top for each place of the
  processor, `TablesOK` what boot has set up so far: every gate below 255 leads to its own stub,
  so that only an int 255 faults.
- `PrintfProofs!TypeCorrect`: the array of digits is not overrun whatever its size, by whatever
  format, width or precision, and `width--` and the indices do not wrap. It rests on lemmas about
  `Repeat`, `ZerosTo`, `Push`, `Reverse` and `SubSeq`, and on facts about `%` and `\div` by the bases.
- `PrintfProofs!CountsAreRespected`: for every count, the bytes written are a gapless beginning
  of the buffer below `count`, and at the end hold a NUL. The clause for a call in progress is
  what makes it inductive. The assumption on calls is that a count is a `size_t` and that
  format and arguments are finite.
- `PrintfProofs!FormatsAreReadInside`: no format is read beyond its end unless its last
  directive is cut short. `FormatKept` is inductive: at each place of the parser, what is left
  of the format begins with what may stand there and goes on as a format (`AtFlags`, `AtWidth`,
  ..., `AtSpecifier`, `Formats`). It assumes of the calls that they are `WellSpelt`: the items
  have flags, lengths and specifiers C knows or the code prints as they are. That a `0` at the
  head of a width is taken for a flag is a case of the proof, not an assumption.

- `PrintfProofs!TextsAreAsAsked`: the text is what was asked for, for any number of items, with
  flags, widths, precisions and lengths in any order and of any value, every value of every
  width of integer, and whichever function takes the output. It assumes of the calls that they
  are `WellCalled`: well spelt, the arguments are those the format names, and widths and
  precisions fit an `int`; a width in the format has no leading zero, which would be a flag.
  The invariant `TextKept` says what is still to come. At each place of the parser, `Parsing`
  gives the rest of the directive's characters and arguments, and the flags, width and
  precision read so far; at each stage of a conversion, `IntegerStage` gives the text in the
  array: digits, then `Padded`, `Hashed` and the whole `NumberText`. In front of it `Written` is
  the part of the promise that the output already holds. `TextAsAsked` itself only speaks of the
  end of a call. Three lines of argument meet in it:
  - `_atoi` reads what `Numeral` writes. A beginning of a decimal is the decimal of a smaller
    number (`DecimalBegins`), so no round wraps, and numerals are unique (`NumeralInjective`).
  - The rounds of `Digit` take the digits off one end of the numeral and put them into the array
    (`DigitMoves`); it is read backwards (`ReverseAppend`, `ReversePadded`).
  - `Hash` takes back as many zeros as `Pad` has put there for the prefix, neither more nor less
    (`HashBodyIs`). Its cases are where `Supported` gets its conditions on the width (`HashRoom`).

  `PointerAssumption`, that the array holds the digits of a pointer, was found in this proof, as
  was one of the conditions of `Supported`: a zero without digits, left-aligned with a precision,
  has lost its zeros as well.

`SequenceLemmas` holds what those proofs need of induction. The induction theorems of the library
take operators as parameters, so `NatSetInduction` and `SeqSetInduction` state them for sets:
a statement becomes the set of what it holds for, and a least element outside of it cannot
exist. From them follow what `FlattenSeq` computes (`FlattenFirst`, `FlattenLast`) and, in
`PrintfProofs`, that the recursion of `Numeral` has a solution (`NumeralsExist`) and what it
computes (`NumeralIs`). `NatStrongInduction` serves the lemmas on numerals, whose recursion divides.

Only model-checked: the liveness properties (`Termination`, `CallsReturn`, `InterruptsReturn`),
as liveness under fairness is out of the prover's reach. Every other property of a passing run
is a theorem.

## Not modelled

- The conversions of doubles (`_ftoa`, `_etoa` in `stdio.c`): they compute in floating point,
  which TLA+ does not have, and the kernel never prints a double.
- The general registers except `ebp`: the stubs overwrite `eax`, but interrupts only come from
  int instructions, between two statements.
- The size of the kernel stack.
- `kernel_early_main`'s read of the multiboot magic depends on the compiler's output, and the
  value is only printed.
- Log, assert, the multiboot header, the C runtime and the build have no behaviour of their own.

## What could come next

- `Tty` with `MemCopy` in place of `MemSpec`'s operators: `MemCopyProofs!Implements` says that
  this changes nothing, as a call of the terminal is not interrupted.
- The output of `printf` as the program of `Tty`: the two meet in `_putchar`, which hands over
  one character at a time.
