------------------------------ MODULE Interrupt ------------------------------
(***************************************************************************)
(* The descriptor tables and the interrupt path: kernel_main's boot order, *)
(* gdt_init and gdt_flush, interrupt.c and the stubs of asm_bits.s.  The   *)
(* kernel runs with hardware interrupts off, so an interrupt comes from an *)
(* int instruction, in the kernel or in a handler, or from the protection  *)
(* fault such an instruction raises.                                       *)
(*                                                                         *)
(* The stack is a sequence of words, the last pushed last; the eflags, cs  *)
(* and eip of interrupted code are one word, the frame.                    *)
(***************************************************************************)
EXTENDS Integers, Sequences

CONSTANTS
    Vectors,    \* the vectors the kernel and its handlers use
    Handlers,   \* the functions they register
    MaxCalls    \* bound: registrations and int instructions made

ASSUME InterruptAssumption == Vectors \subseteq 0..255 /\ MaxCalls \in Nat

VARIABLES
    pc,         \* what kernel_main does next; "up" once the tables are loaded
    i,          \* the vector idt_init fills in next
    gdt,        \* what each segment descriptor describes
    gdt_limit,  \* the last valid byte of that table
    segments,   \* the descriptors in the code and the data segment registers
    idt,        \* the gates, by vector
    idtr,       \* the limit in memory for lidt to load
    lidt,       \* the limit the processor has loaded
    isr_user_handlers,
    cpu,        \* where the processor is, and in which stub
    stack,
    ebp,        \* the frame pointer, the number of the word it points at
    calls,      \* registrations and int instructions made so far
    faulted     \* the vectors whose int raised a protection fault

bootVars == <<pc, i, gdt, gdt_limit, segments, idt, idtr, lidt>>
vars == <<bootVars, isr_user_handlers, cpu, stack, ebp, calls, faulted>>

IDT_MAX_ENTRIES == 255
SEGMENT_GDT_NUM_ENTRIES == 8
GDT_INDEX_KERNEL_CODE == 1
GDT_INDEX_KERNEL_DATA == 2
DescriptorBytes == 8
GeneralProtection == 13

None == "none"
Garbage == -2
Handler == Handlers \cup {"test_handler"}

\* Where the processor is: in which stub, and which handler that stub has called.
Place == [at : {"kernel", "stub", "handler", "exit", "dead"}, stub : 0..255,
          handler : Handler \cup {None}]
Serving(place, stub, h) == [at |-> place, stub |-> stub, handler |-> h]
At(place, stub) == Serving(place, stub, None)
Kernel == At("kernel", 0)

Gate == [present : BOOLEAN, stub : 0..255, segment : 0..7]

\* The words on the stack.  `vector' says which interrupt a frame belongs to, and
\* `due' which handler was registered for it then (history; the processor records
\* neither).  Handlers leave ebp as they found it.
Frame(v) == [word |-> "frame", return |-> cpu, vector |-> v, due |-> isr_user_handlers[v]]
ErrorCode == [word |-> "error"]
Ebp == [word |-> "ebp", saved |-> ebp]
Word == [word : {"frame"}, return : Place, vector : 0..255, due : Handler \cup {None}]
        \cup [word : {"error"}] \cup [word : {"ebp"}, saved : Nat]

Init ==
    /\ pc = "gdt_init" /\ i = 0
    /\ gdt = [k \in 0..(SEGMENT_GDT_NUM_ENTRIES - 1) |-> None]
    /\ gdt_limit = 0
    /\ segments = <<None, None>>
    /\ idt = [v \in 0..(IDT_MAX_ENTRIES - 1) |-> [present |-> FALSE, stub |-> 0, segment |-> 0]]
    /\ idtr = 0 /\ lidt = -1
    /\ isr_user_handlers = [v \in 0..255 |-> None]
    /\ cpu = Kernel /\ stack = <<>> /\ ebp = 0
    /\ calls = 0 /\ faulted = {}

-----------------------------------------------------------------------------
(***************************************************************************)
(* kernel_main up to its int instructions.                                 *)
(***************************************************************************)
Running(step, next) == pc = step /\ cpu = Kernel /\ pc' = next
InterruptsIdle == UNCHANGED <<cpu, stack, ebp, calls, faulted>>

gdt_init ==
    /\ Running("gdt_init", "gdt_flush")
    /\ gdt' = [gdt EXCEPT ![0] = "null", ![GDT_INDEX_KERNEL_CODE] = "code",
                          ![GDT_INDEX_KERNEL_DATA] = "data"]
    /\ gdt_limit' = 3 * DescriptorBytes - 1
    /\ UNCHANGED <<i, segments, idt, idtr, lidt, isr_user_handlers>> /\ InterruptsIdle

\* The processor finds descriptor k of a table whose last valid byte is `limit'.
Inside(k, limit) == DescriptorBytes * k + (DescriptorBytes - 1) <= limit
Loadable(k, kind) == Inside(k, gdt_limit) /\ gdt[k] = kind

\* lgdt, then the far jump through the code selector and the data selectors;
\* a selector that cannot be loaded faults, and there is no IDT yet.
gdt_flush ==
    /\ Running("gdt_flush", "idt_init")
    /\ LET loads == /\ Loadable(GDT_INDEX_KERNEL_CODE, "code")
                    /\ Loadable(GDT_INDEX_KERNEL_DATA, "data")
       IN  /\ segments' = IF loads THEN <<GDT_INDEX_KERNEL_CODE, GDT_INDEX_KERNEL_DATA>> ELSE segments
           /\ cpu' = IF loads THEN cpu ELSE At("dead", 0)
    /\ UNCHANGED <<i, gdt, gdt_limit, idt, idtr, lidt, isr_user_handlers, stack, ebp, calls, faulted>>

\* Mutant: the user half of the table starts 32 stubs late.
isr_dispatch_table_past(v) == IF v < 32 THEN v ELSE v + 32

\* Entry v is the stub of vector v: the generic one below 32, a user stub above.
isr_dispatch_table(v) == v

idt_init_interrupt_gate(v) ==
    [present |-> TRUE, stub |-> isr_dispatch_table(v), segment |-> GDT_INDEX_KERNEL_CODE]

\* One round of idt_init's loops.
idt_init ==
    /\ Running("idt_init", "idt_init") /\ i < IDT_MAX_ENTRIES
    /\ idt' = [idt EXCEPT ![i] = idt_init_interrupt_gate(i)]
    /\ i' = i + 1
    /\ UNCHANGED <<gdt, gdt_limit, segments, idtr, lidt, isr_user_handlers>> /\ InterruptsIdle

\* The last round writes past the table: where the linker puts idtr there, onto it.
idt_init_last ==
    /\ Running("idt_init", "idt_register_handler") /\ i = IDT_MAX_ENTRIES
    /\ idtr' \in {idtr, Garbage}
    /\ i' = i + 1
    /\ UNCHANGED <<gdt, gdt_limit, segments, idt, lidt, isr_user_handlers>> /\ InterruptsIdle

idt_register_first ==
    /\ Running("idt_register_handler", "idt_flush")
    /\ isr_user_handlers' = [isr_user_handlers EXCEPT ![32] = "test_handler"]
    /\ UNCHANGED <<i, gdt, gdt_limit, segments, idt, idtr, lidt>> /\ InterruptsIdle

\* Mutant: lidt before the limit is stored.
idt_flush_early ==
    /\ Running("idt_flush", "up")
    /\ idtr' = DescriptorBytes * IDT_MAX_ENTRIES - 1
    /\ lidt' = idtr
    /\ UNCHANGED <<i, gdt, gdt_limit, segments, idt, isr_user_handlers>> /\ InterruptsIdle

idt_flush ==
    /\ Running("idt_flush", "up")
    /\ idtr' = DescriptorBytes * IDT_MAX_ENTRIES - 1
    /\ lidt' = idtr'
    /\ UNCHANGED <<i, gdt, gdt_limit, segments, idt, isr_user_handlers>> /\ InterruptsIdle

-----------------------------------------------------------------------------
(***************************************************************************)
(* With the tables loaded: the kernel and its handlers register handlers   *)
(* and raise interrupts.                                                   *)
(***************************************************************************)
Calling == pc = "up" /\ cpu.at \in {"kernel", "handler"} /\ calls < MaxCalls /\ calls' = calls + 1

\* ASSERT(vector >= 32) prints and goes on.
idt_register_handler(v, h) ==
    /\ Calling
    /\ isr_user_handlers' = [isr_user_handlers EXCEPT ![v] = h]
    /\ UNCHANGED <<bootVars, cpu, stack, ebp, faulted>>

HasGate(v) == /\ Inside(v, lidt) /\ idt[v].present
              /\ Loadable(idt[v].segment, "code")

\* The int instruction.
Interrupt(v) ==
    /\ Calling
    /\ HasGate(v)
    /\ stack' = Append(stack, Frame(v))
    /\ cpu' = At("stub", idt[v].stub)
    /\ UNCHANGED <<bootVars, isr_user_handlers, ebp, faulted>>

\* Without a gate it is a protection fault, with an error code on the stack; if
\* that has no gate either the processor shuts down.
Fault(v) ==
    /\ Calling
    /\ ~HasGate(v)
    /\ faulted' = faulted \cup {v}
    /\ stack' = stack \o <<Frame(GeneralProtection), ErrorCode>>
    /\ cpu' = IF HasGate(GeneralProtection) THEN At("stub", idt[GeneralProtection].stub)
                                            ELSE At("dead", 0)
    /\ UNCHANGED <<bootVars, isr_user_handlers, ebp>>

Pop(s) == SubSeq(s, 1, Len(s) - 1)

\* iret takes what is on top for a frame; anything else leads nowhere.
Iret(s) ==
    LET top == s[Len(s)]
    IN  \/ top.word = "frame" /\ cpu' = top.return /\ stack' = Pop(s)
        \/ top.word # "frame" /\ cpu' = At("dead", 0) /\ stack' = s

\* generic_isr_dispatch: ebp is pushed and popped, no handler, no error code.
GenericStub ==
    /\ cpu.at = "stub" /\ cpu.stub < 32
    /\ Iret(stack)
    /\ UNCHANGED <<bootVars, isr_user_handlers, ebp, calls, faulted>>

\* Mutant: without a handler the stub leaves before it has popped ebp.
UserStubUnbalanced ==
    /\ cpu.at = "stub" /\ cpu.stub >= 32
    /\ \/ /\ isr_user_handlers[cpu.stub] # None
          /\ stack' = Append(stack, Ebp)
          /\ cpu' = Serving("handler", cpu.stub, isr_user_handlers[cpu.stub])
          /\ ebp' = Len(stack')
       \/ isr_user_handlers[cpu.stub] = None /\ Iret(Append(stack, Ebp))
          /\ ebp' = Len(stack) + 1
    /\ UNCHANGED <<bootVars, isr_user_handlers, calls, faulted>>

\* Mutant: the stub counts the handlers from the first user vector.
UserStubRebased ==
    /\ cpu.at = "stub" /\ cpu.stub >= 32
    /\ stack' = Append(stack, Ebp) /\ ebp' = Len(stack')
    /\ LET h == isr_user_handlers[cpu.stub - 32]
       IN  cpu' = Serving(IF h = None THEN "exit" ELSE "handler", cpu.stub, h)
    /\ UNCHANGED <<bootVars, isr_user_handlers, calls, faulted>>

\* isr_user_stubX: push ebp, load the handler, and call it if there is one.
UserStub ==
    /\ cpu.at = "stub" /\ cpu.stub >= 32
    /\ stack' = Append(stack, Ebp) /\ ebp' = Len(stack')
    /\ LET h == isr_user_handlers[cpu.stub]
       IN  cpu' = Serving(IF h = None THEN "exit" ELSE "handler", cpu.stub, h)
    /\ UNCHANGED <<bootVars, isr_user_handlers, calls, faulted>>

HandlerReturns ==
    /\ cpu.at = "handler"
    /\ cpu' = [cpu EXCEPT !.at = "exit"]
    /\ UNCHANGED <<bootVars, isr_user_handlers, stack, ebp, calls, faulted>>

\* Mutant: the label of the exit follows the pop.
UserExitUnpopped ==
    /\ cpu.at = "exit"
    /\ Iret(stack)
    /\ UNCHANGED <<bootVars, isr_user_handlers, ebp, calls, faulted>>

\* Mutant: ebp is taken off the stack and not put back.
UserExitDropped ==
    /\ cpu.at = "exit"
    /\ Iret(Pop(stack))
    /\ UNCHANGED <<bootVars, isr_user_handlers, ebp, calls, faulted>>

\* pop ebp, iret.
UserExit ==
    /\ cpu.at = "exit"
    /\ ebp' = stack[Len(stack)].saved
    /\ Iret(Pop(stack))
    /\ UNCHANGED <<bootVars, isr_user_handlers, calls, faulted>>

\* kernel_main returns to start.s, which disables interrupts and halts.
Hang ==
    /\ Running("up", "hang")
    /\ UNCHANGED <<i, gdt, gdt_limit, segments, idt, idtr, lidt, isr_user_handlers>>
    /\ InterruptsIdle

Boot == gdt_init \/ gdt_flush \/ idt_init \/ idt_init_last \/ idt_register_first \/ idt_flush
Path == GenericStub \/ UserStub \/ HandlerReturns \/ UserExit
Use == \/ \E v \in Vectors : Interrupt(v) \/ Fault(v)
       \/ \E v \in Vectors : \E h \in Handlers : idt_register_handler(v, h)

Next == Boot \/ Use \/ Path \/ Hang

Spec == Init /\ [][Next]_vars

\* The processor executes what comes next in boot, stubs and handlers; handlers
\* return.
FairSpec == Spec /\ WF_vars(Boot) /\ WF_vars(Path)

-----------------------------------------------------------------------------
(***************************************************************************)
(* Properties.                                                             *)
(***************************************************************************)
TablesTypeOK ==
    /\ pc \in {"gdt_init", "gdt_flush", "idt_init", "idt_register_handler", "idt_flush",
               "up", "hang"}
    /\ i \in 0..(IDT_MAX_ENTRIES + 1)
    /\ gdt \in [0..(SEGMENT_GDT_NUM_ENTRIES - 1) -> {None, "null", "code", "data"}]
    /\ gdt_limit \in 0..(DescriptorBytes * SEGMENT_GDT_NUM_ENTRIES - 1)
    /\ idt \in [0..(IDT_MAX_ENTRIES - 1) -> Gate]
    /\ idtr \in Int /\ lidt \in Int

\* Type invariant: the tables, the registers and the words on the stack.
TypeOK ==
    /\ TablesTypeOK
    /\ isr_user_handlers \in [0..255 -> Handler \cup {None}]
    /\ cpu \in Place
    /\ stack \in Seq(Word) /\ ebp \in Nat
    /\ calls \in 0..MaxCalls /\ faulted \subseteq 0..255

\* The handler that runs is the one that was registered for the vector of the int
\* when it was executed, and none is called where none was: below the ebp of the
\* stub lies the frame it serves, whatever handlers inside one another have
\* registered since (isr_dispatch_table, the lookup of the stubs,
\* idt_register_handler).
HandlerRunsForItsVector ==
    cpu.at \in {"handler", "exit"} =>
        /\ stack[Len(stack)].word = "ebp"
        /\ stack[Len(stack) - 1].word = "frame"
        /\ stack[Len(stack) - 1].vector = cpu.stub
        /\ stack[Len(stack) - 1].due = cpu.handler
        /\ cpu.at = "handler" => cpu.handler # None

\* As long as no int misses the table, the stack of the kernel is what it was
\* before the interrupt and the processor never runs off: selectors load, gates
\* are found, every iret finds its frame (the boot order of kernel_main,
\* gdt_flush, idt_flush, the stubs).
StackBalanced ==
    faulted = {} => /\ cpu.at # "dead"
                    /\ cpu = Kernel => stack = <<>>
                    /\ \A k \in 1..Len(stack) : stack[k].word # "error"

\* Code that goes on after interrupts, however nested, finds ebp as it left it: the
\* kernel its own, a stub with its handler the word where it saved ebp, through
\* which both reach their locals (the push and pop of ebp in the stubs).
FramePointerKept ==
    /\ cpu = Kernel => ebp = 0
    /\ cpu.at \in {"handler", "exit"} => ebp = Len(stack)

\* Whatever was written past the table, the processor loads a table that serves
\* every vector below IDT_MAX_ENTRIES: only an int beyond it faults (the stray
\* write of idt_init, the limit and the order of the stores in idt_flush).
TableServesItsVectors == \A v \in faulted : v >= IDT_MAX_ENTRIES

\* Every interrupt, a nested one too, ends back in the kernel, unless one of them
\* misses the table.
InterruptsReturn == cpu # Kernel ~> cpu = Kernel \/ faulted # {}

\* The comment at interrupt.h:36: a handler can be registered for every vector
\* from 32 on, so an int for such a vector reaches its stub.
VectorsFrom32AreServed == \A v \in faulted : v < 32
=============================================================================
