---------------------------- MODULE InterruptProofs ----------------------------
(***************************************************************************)
(* Theorems about the descriptor tables and the interrupt path that hold   *)
(* for every set of vectors and handlers and any number of nested          *)
(* interrupts.                                                             *)
(***************************************************************************)
EXTENDS Interrupt, SequenceTheorems, TLAPS

-----------------------------------------------------------------------------
(***************************************************************************)
(* The inductive invariant.                                                *)
(***************************************************************************)
\* The gates written so far lead to the stub of their vector, in the code segment.
GatesOK ==
    /\ \A v \in 0..254 : idt[v].present => idt[v].stub = v /\ idt[v].segment = 1
    /\ \A v \in 0..254 : v < i => idt[v].present

\* What boot has set up, as far as it has come.
TablesOK ==
    /\ GatesOK
    /\ pc # "gdt_init" => gdt_limit = 23 /\ gdt[1] = "code" /\ gdt[2] = "data"
    /\ pc \in {"idt_register_handler", "idt_flush", "up", "hang"} => i = 256
    /\ pc \in {"up", "hang"} => lidt = 2039
    /\ pc # "up" => cpu = Kernel

\* A frame lies at the bottom and returns to the kernel, or on the ebp of the stub
\* whose handler it returns to; an ebp lies on a frame and points at the ebp below;
\* an error code is only found on top.
WordOK(s, k) ==
    /\ s[k].word = "frame" =>
         /\ k = 1 => s[k].return = Kernel
         /\ k > 1 => /\ s[k].return.at = "handler" /\ s[k].return.stub >= 32
                     /\ k > 2 /\ s[k - 1].word = "ebp" /\ s[k - 2].word = "frame"
                     /\ s[k - 2].vector = s[k].return.stub
                     /\ s[k - 2].due = s[k].return.handler /\ s[k].return.handler # None
    /\ s[k].word = "ebp" => k > 1 /\ s[k - 1].word = "frame" /\ s[k].saved = k - 2
    /\ s[k].word = "error" => k = Len(s)
StackOK(s) == \A k \in 1..Len(s) : WordOK(s, k)

\* Where the processor is shows on the stack.
CpuOK ==
    /\ cpu.at = "kernel" => cpu = Kernel /\ stack = <<>> /\ ebp = 0
    /\ cpu.at = "stub" =>
         /\ stack # <<>>
         /\ \/ /\ stack[Len(stack)].word = "frame" /\ stack[Len(stack)].vector = cpu.stub
               /\ stack[Len(stack)].due = isr_user_handlers[cpu.stub]
               /\ ebp = Len(stack) - 1
            \/ /\ stack[Len(stack)].word = "error" /\ cpu.stub < 32
               /\ faulted # {}
    /\ cpu.at \in {"handler", "exit"} =>
         /\ Len(stack) > 1 /\ stack[Len(stack)].word = "ebp"
         /\ stack[Len(stack) - 1].word = "frame"
         /\ stack[Len(stack) - 1].vector = cpu.stub /\ cpu.stub >= 32
         /\ stack[Len(stack) - 1].due = cpu.handler
         /\ ebp = Len(stack)
    /\ cpu.at = "handler" => cpu.handler # None
    /\ cpu.at = "dead" => faulted # {}
    /\ \A v \in faulted : v = 255

IInv == TypeOK /\ TablesOK /\ StackOK(stack) /\ CpuOK

-----------------------------------------------------------------------------
(***************************************************************************)
(* Words on the stack.                                                     *)
(***************************************************************************)
LEMMA Words ==
    /\ \A w \in Word : w.word \in {"frame", "error", "ebp"}
    /\ \A w \in Word : w.word = "frame" =>
          w.return \in Place /\ w.vector \in 0..255 /\ w.due \in Handler \cup {None}
    /\ \A w \in Word : w.word = "ebp" => w.saved \in Nat
    /\ ErrorCode \in Word
  BY DEF Word, ErrorCode

LEMMA Places ==
    /\ Kernel \in Place /\ Kernel.at = "kernel"
    /\ \A a \in {"kernel", "stub", "handler", "exit", "dead"} : \A v \in 0..255 :
          At(a, v) \in Place /\ At(a, v).at = a /\ At(a, v).stub = v
    /\ \A p \in Place : /\ p.at \in {"kernel", "stub", "handler", "exit", "dead"}
                        /\ p.stub \in 0..255 /\ p.handler \in Handler \cup {None}
  BY DEF Place, At, Serving, Kernel

LEMMA PopProperties ==
    ASSUME NEW s \in Seq(Word), s # <<>>
    PROVE  /\ Pop(s) \in Seq(Word) /\ Len(Pop(s)) = Len(s) - 1
           /\ \A k \in 1..(Len(s) - 1) : Pop(s)[k] = s[k]
<1>1. Len(s) \in Nat /\ Len(s) # 0
  BY LenProperties, EmptySeq
<1> DEFINE n == Len(s) - 1
<1>2. n \in Nat /\ \A k \in 1..n : s[k] \in Word
  BY <1>1
<1> HIDE DEF n
<1>3. /\ SubSeq(s, 1, n) \in Seq(Word)
      /\ Len(SubSeq(s, 1, n)) = IF 1 <= n THEN n - 1 + 1 ELSE 0
      /\ \A k \in 1..(n - 1 + 1) : SubSeq(s, 1, n)[k] = s[1 + k - 1]
  BY <1>2, SubSeqProperties
<1>4. Len(SubSeq(s, 1, n)) = n /\ \A k \in 1..n : SubSeq(s, 1, n)[k] = s[k]
  BY <1>2, <1>3
<1> QED
  BY <1>3, <1>4 DEF Pop, n

LEMMA PushProperties ==
    ASSUME NEW s \in Seq(Word), NEW w \in Word
    PROVE  /\ Append(s, w) \in Seq(Word) /\ Len(Append(s, w)) = Len(s) + 1
           /\ Append(s, w)[Len(s) + 1] = w /\ Append(s, w) # <<>>
           /\ \A k \in 1..Len(s) : Append(s, w)[k] = s[k]
  BY AppendProperties, LenProperties, EmptySeq

LEMMA PopShape ==
    ASSUME NEW s \in Seq(Word), s # <<>>, StackOK(s) PROVE StackOK(Pop(s))
<1> DEFINE t == Pop(s)
<1>1. Len(s) \in Nat /\ Len(t) = Len(s) - 1 /\ \A k \in 1..(Len(s) - 1) : t[k] = s[k]
  BY PopProperties, LenProperties
<1> SUFFICES ASSUME NEW k \in 1..Len(t) PROVE WordOK(t, k)
  BY DEF StackOK
<1>2. k \in 1..Len(s) /\ k < Len(s) /\ t[k] = s[k]
  BY <1>1
<1>3. k > 1 => t[k - 1] = s[k - 1]
  BY <1>1, <1>2
<1>4. k > 2 => t[k - 2] = s[k - 2]
  BY <1>1, <1>2
<1>5. WordOK(s, k)
  BY <1>2 DEF StackOK
<1> HIDE DEF t
<1> QED
  BY <1>2, <1>3, <1>4, <1>5 DEF WordOK

\* A word may be pushed when it fits on what is below it.
LEMMA PushShape ==
    ASSUME NEW s \in Seq(Word), NEW w \in Word, StackOK(s),
           s # <<>> => s[Len(s)].word # "error", WordOK(Append(s, w), Len(s) + 1)
    PROVE  StackOK(Append(s, w))
<1> DEFINE t == Append(s, w)
<1>1. /\ Len(s) \in Nat /\ Len(t) = Len(s) + 1 /\ t[Len(s) + 1] = w
      /\ \A k \in 1..Len(s) : t[k] = s[k]
  BY PushProperties, LenProperties
<1> SUFFICES ASSUME NEW k \in 1..Len(s) PROVE WordOK(t, k)
  BY <1>1 DEF StackOK
<1>2. t[k] = s[k] /\ s # <<>>
  BY <1>1, EmptySeq
<1>3. k > 1 => t[k - 1] = s[k - 1]
  BY <1>1
<1>4. k > 2 => t[k - 2] = s[k - 2]
  BY <1>1
<1>5. WordOK(s, k)
  BY DEF StackOK
<1>6. s[k].word # "error"
  BY <1>2, <1>5 DEF WordOK
<1> HIDE DEF t
<1> QED
  BY <1>2, <1>3, <1>4, <1>5, <1>6 DEF WordOK

-----------------------------------------------------------------------------
(***************************************************************************)
(* The invariant holds at the start and is kept by boot.                   *)
(***************************************************************************)
LEMMA InitIInv == Init => IInv
<1> SUFFICES ASSUME Init PROVE IInv
  OBVIOUS
<1>1. /\ stack = <<>> /\ stack \in Seq(Word) /\ Len(stack) = 0
      /\ cpu = Kernel /\ cpu \in Place /\ cpu.at = "kernel" /\ ebp = 0
  BY Places, EmptySeq DEF Init
<1>2. TypeOK
  <2>1. isr_user_handlers \in [0..255 -> Handler \cup {None}]
    BY DEF Init, Handler
  <2>2. idt \in [0..254 -> Gate]
    <3>1. idt = [k \in 0..254 |-> [present |-> FALSE, stub |-> 0, segment |-> 0]]
      BY DEF Init, IDT_MAX_ENTRIES
    <3>2. [present |-> FALSE, stub |-> 0, segment |-> 0] \in Gate
      BY DEF Gate
    <3> QED
      BY <3>1, <3>2
  <2>3. TablesTypeOK
    BY <2>2 DEF Init, TablesTypeOK, IDT_MAX_ENTRIES, SEGMENT_GDT_NUM_ENTRIES, DescriptorBytes
  <2> QED
    BY <1>1, <2>1, <2>3, InterruptAssumption DEF Init, TypeOK
<1>3. TablesOK
  <2>1. pc = "gdt_init" /\ i = 0
    BY Zenon DEF Init
  <2>2. \A v \in 0..254 : ~idt[v].present
    <3>1. idt = [k \in 0..254 |-> [present |-> FALSE, stub |-> 0, segment |-> 0]]
      BY DEF Init, IDT_MAX_ENTRIES
    <3> QED
      BY <3>1
  <2>n. \A v \in 0..254 : ~ (v < i)
    BY <2>1
  <2>3. GatesOK
    BY <2>2, <2>n, Zenon DEF GatesOK
  <2> QED
    BY <1>1, <2>1, <2>3 DEF TablesOK
<1>4. StackOK(stack) /\ CpuOK
  BY <1>1 DEF Init, StackOK, CpuOK
<1> QED
  BY <1>2, <1>3, <1>4 DEF IInv

LEMMA BootKeepsIInv ==
    ASSUME IInv, Boot PROVE IInv'
<1> USE DEF IDT_MAX_ENTRIES, SEGMENT_GDT_NUM_ENTRIES, DescriptorBytes,
            GDT_INDEX_KERNEL_CODE, GDT_INDEX_KERNEL_DATA
<1>0. TypeOK /\ TablesTypeOK /\ TablesOK /\ GatesOK /\ StackOK(stack) /\ CpuOK
  BY DEF IInv, TypeOK, TablesOK
<1>1. cpu = Kernel
  BY DEF Boot, gdt_init, gdt_flush, idt_init, idt_init_last, idt_register_first,
         idt_flush, Running
<1>2. InterruptsIdle
  BY <1>0, <1>1 DEF Boot, gdt_init, gdt_flush, idt_init, idt_init_last, idt_register_first,
         idt_flush, Running, InterruptsIdle, TablesOK, Loadable, Inside
<1>3. (StackOK(stack) /\ CpuOK)'
  <2>1. cpu' = cpu /\ stack' = stack /\ ebp' = ebp /\ faulted' = faulted
    BY <1>2 DEF InterruptsIdle
  <2>2. StackOK(stack')
    BY <1>0, <2>1
  <2>3. cpu'.at = "kernel"
    BY <1>1, <2>1, Places
  <2> QED
    BY <1>0, <1>1, <2>1, <2>2, <2>3 DEF CpuOK
<1>4. isr_user_handlers' \in [0..255 -> Handler \cup {None}]
  <2> DEFINE H == Handler \cup {None}
  <2>1. isr_user_handlers \in [0..255 -> H] /\ "test_handler" \in H
    BY <1>0 DEF TypeOK, Handler
  <2>2. \/ isr_user_handlers' = isr_user_handlers
        \/ isr_user_handlers' = [isr_user_handlers EXCEPT ![32] = "test_handler"]
    BY DEF Boot, gdt_init, gdt_flush, idt_init, idt_init_last, idt_register_first, idt_flush
  <2> HIDE DEF H
  <2>3. isr_user_handlers' \in [0..255 -> H]
    BY <2>1, <2>2
  <2> QED
    BY <2>3 DEF H
<1>5. SUFFICES TablesTypeOK' /\ TablesOK'
  BY <1>0, <1>2, <1>3, <1>4 DEF IInv, TypeOK, InterruptsIdle
<1>6. cpu' = Kernel
  BY <1>1, <1>2 DEF InterruptsIdle
<1>gates. ASSUME ~idt_init PROVE GatesOK'
  <2>1. idt' = idt /\ (i' = i \/ i = 255)
    BY <1>gates DEF Boot, gdt_init, gdt_flush, idt_init_last, idt_register_first, idt_flush
  <2>2. \A v \in 0..254 : v < i' => v < i
    BY <1>0, <2>1 DEF TablesTypeOK
  <2>3. GatesOK
    BY <1>0
  <2>4. \A v \in 0..254 : idt[v].present => idt[v].stub = v /\ idt[v].segment = 1
    BY <2>3 DEF GatesOK
  <2>5. \A v \in 0..254 : v < i' => idt[v].present
    BY <2>2, <2>3, Zenon DEF GatesOK
  <2>6. (\A v \in 0..254 : idt[v].present => idt[v].stub = v /\ idt[v].segment = 1)'
    BY <2>1, <2>4
  <2>7. (\A v \in 0..254 : v < i => idt[v].present)'
    BY <2>1, <2>5
  <2> QED
    BY <2>6, <2>7 DEF GatesOK
<1>7. CASE gdt_init
  <2>1. /\ gdt' = [gdt EXCEPT ![0] = "null", ![1] = "code", ![2] = "data"]
        /\ gdt \in [0..7 -> {None, "null", "code", "data"}]
    BY <1>0, <1>7 DEF gdt_init, TablesTypeOK
  <2>2. gdt'[1] = "code" /\ gdt'[2] = "data" /\ gdt' \in [0..7 -> {None, "null", "code", "data"}]
    BY <2>1
  <2>3. pc' = "gdt_flush" /\ gdt_limit' = 23 /\ UNCHANGED <<i, idt, idtr, lidt>>
    BY <1>7 DEF gdt_init, Running
  <2>4. TablesTypeOK'
    BY <1>0, <2>2, <2>3 DEF TablesTypeOK
  <2> QED
    BY <1>0, <1>6, <1>gates, <1>7, <2>2, <2>3, <2>4 DEF TablesOK, gdt_init, idt_init, Running
<1>8. CASE gdt_flush
  BY <1>0, <1>6, <1>gates, <1>8 DEF idt_init, gdt_flush, Running, TablesTypeOK, TablesOK
<1>9. CASE idt_init
  <2>1. i \in 0..254
    BY <1>0, <1>9 DEF idt_init, TablesTypeOK
  <2>2. idt_init_interrupt_gate(i) = [present |-> TRUE, stub |-> i, segment |-> 1]
    BY DEF idt_init_interrupt_gate, isr_dispatch_table
  <2>3. idt_init_interrupt_gate(i) \in Gate
    BY <2>1, <2>2 DEF Gate
  <2>4. idt' = [idt EXCEPT ![i] = idt_init_interrupt_gate(i)] /\ idt \in [0..254 -> Gate]
    BY <1>0, <1>9 DEF idt_init, TablesTypeOK
  <2>5. idt' \in [0..254 -> Gate]
    BY <2>1, <2>3, <2>4
  <2>6. /\ idt'[i].present /\ idt'[i].stub = i /\ idt'[i].segment = 1
        /\ \A v \in 0..254 : v # i => idt'[v] = idt[v]
    <3> DEFINE g == idt_init_interrupt_gate(i)
    <3>1. g.present /\ g.stub = i /\ g.segment = 1
      BY <2>2
    <3> HIDE DEF g
    <3>2. idt' = [idt EXCEPT ![i] = g] /\ idt \in [0..254 -> Gate]
      BY <2>4 DEF g
    <3>3. idt'[i] = g /\ \A v \in 0..254 : v # i => idt'[v] = idt[v]
      BY <2>1, <3>2
    <3> QED
      BY <3>1, <3>3
  <2>7. TablesTypeOK'
    BY <1>0, <1>9, <2>1, <2>5 DEF idt_init, Running, TablesTypeOK
  <2>8. TablesOK'
    <3>1. /\ pc = "idt_init" /\ pc' = "idt_init" /\ i' = i + 1
          /\ UNCHANGED <<gdt, gdt_limit>>
      BY <1>9 DEF idt_init, Running
    <3>2. ASSUME NEW v \in 0..254, idt'[v].present
          PROVE  idt'[v].stub = v /\ idt'[v].segment = 1
      <4>1. CASE v = i
        BY <2>6, <4>1
      <4>2. CASE v # i
        <5>1. idt'[v] = idt[v]
          BY <2>6, <4>2
        <5>2. idt[v].present => idt[v].stub = v /\ idt[v].segment = 1
          BY <1>0 DEF GatesOK
        <5> QED
          BY <3>2, <5>1, <5>2
      <4> QED
        BY <4>1, <4>2
    <3>3. ASSUME NEW v \in 0..254, v < i' PROVE idt'[v].present
      <4>1. CASE v = i
        BY <2>6, <4>1
      <4>2. CASE v # i
        <5>1. v < i
          BY <2>1, <3>1, <3>3, <4>2
        <5>2. idt'[v] = idt[v]
          BY <2>6, <4>2
        <5>3. idt[v].present
          BY <1>0, <5>1 DEF GatesOK
        <5> QED
          BY <5>2, <5>3
      <4> QED
        BY <4>1, <4>2
    <3>4. GatesOK'
      BY <3>2, <3>3 DEF GatesOK
    <3> QED
      BY <1>0, <1>6, <3>1, <3>4 DEF TablesOK
  <2> QED
    BY <2>7, <2>8
<1>10. CASE idt_init_last
  BY <1>0, <1>6, <1>gates, <1>10
     DEF idt_init, idt_init_last, Running, TablesTypeOK, TablesOK, Garbage
<1>11. CASE idt_register_first
  BY <1>0, <1>6, <1>gates, <1>11 DEF idt_init, idt_register_first, Running, TablesTypeOK, TablesOK
<1>12. CASE idt_flush
  BY <1>0, <1>6, <1>gates, <1>12 DEF idt_init, idt_flush, Running, TablesTypeOK, TablesOK
<1> QED
  BY <1>7, <1>8, <1>9, <1>10, <1>11, <1>12 DEF Boot

-----------------------------------------------------------------------------
(***************************************************************************)
(* Once the tables are up: which vectors have a gate, and what a return    *)
(* finds.                                                                  *)
(***************************************************************************)
LEMMA GateServes ==
    ASSUME TypeOK, TablesOK, pc = "up", NEW v \in 0..255
    PROVE  /\ HasGate(v) <=> v < 255
           /\ v < 255 => idt[v].stub = v
<1> USE DEF IDT_MAX_ENTRIES, DescriptorBytes, GDT_INDEX_KERNEL_CODE
<1>1. /\ GatesOK /\ i = 256 /\ lidt = 2039 /\ gdt_limit = 23 /\ gdt[1] = "code"
  BY DEF TablesOK
<1>2. Inside(v, lidt) <=> v < 255
  BY <1>1 DEF Inside
<1>3. ASSUME v < 255 PROVE idt[v].present /\ idt[v].stub = v /\ idt[v].segment = 1
  <2>1. v \in 0..254 /\ v < i
    BY <1>1, <1>3
  <2> QED
    BY <1>1, <2>1, Zenon DEF GatesOK
<1>4. Loadable(1, "code")
  BY <1>1 DEF Loadable, Inside
<1> QED
  BY <1>2, <1>3, <1>4 DEF HasGate

LEMMA TablesKept ==
    ASSUME IInv, UNCHANGED bootVars, pc = "up"
    PROVE  TablesTypeOK' /\ TablesOK' /\ pc' = "up"
<1>1. /\ UNCHANGED <<pc, i, gdt, gdt_limit, idt, idtr, lidt>>
      /\ TablesTypeOK /\ TablesOK /\ GatesOK
  BY DEF IInv, TypeOK, TablesOK, bootVars
<1>2. TablesTypeOK'
  BY <1>1 DEF TablesTypeOK
<1>3. GatesOK'
  BY <1>1, Zenon DEF GatesOK
<1> QED
  BY <1>1, <1>2, <1>3 DEF TablesOK

LEMMA UpWhileAway ==
    ASSUME IInv, cpu.at # "kernel" PROVE pc = "up"
<1>1. TablesOK /\ cpu # Kernel
  BY Places DEF IInv
<1>2. pc # "up" => cpu = Kernel
  BY <1>1 DEF TablesOK
<1> QED
  BY <1>1, <1>2

\* An iret that finds a frame goes back to what that frame interrupted.
LEMMA IretReturns ==
    ASSUME NEW s \in Seq(Word), s # <<>>, StackOK(s), s[Len(s)].word = "frame",
           Iret(s), ebp' = Len(s) - 1, faulted' = faulted, CpuOK
    PROVE  /\ stack' \in Seq(Word) /\ StackOK(stack') /\ ebp' \in Nat
           /\ cpu' \in Place /\ CpuOK'
<1>1. /\ Len(s) \in Nat /\ Len(s) # 0 /\ s[Len(s)] \in Word
      /\ Pop(s) \in Seq(Word) /\ Len(Pop(s)) = Len(s) - 1 /\ StackOK(Pop(s))
      /\ \A k \in 1..(Len(s) - 1) : Pop(s)[k] = s[k]
  <2>1. Len(s) \in Nat /\ Len(s) # 0
    BY LenProperties, EmptySeq
  <2>2. s[Len(s)] \in Word
    BY <2>1, ElementOfSeq
  <2>3. StackOK(Pop(s))
    BY PopShape
  <2> QED
    BY <2>1, <2>2, <2>3, PopProperties
<1>2. stack' = Pop(s) /\ cpu' = s[Len(s)].return /\ cpu' \in Place
  BY <1>1, Words DEF Iret
<1>3. WordOK(s, Len(s))
  BY <1>1 DEF StackOK
<1>4. CASE Len(s) = 1
  <2>1. cpu' = Kernel /\ stack' = <<>> /\ ebp' = 0
    BY <1>1, <1>2, <1>3, <1>4, EmptySeq DEF WordOK
  <2>2. cpu'.at = "kernel" /\ stack' \in Seq(Word)
    BY <1>1, <1>2, <2>1 DEF Kernel, At, Serving
  <2>3. CpuOK'
    BY <2>1, <2>2 DEF CpuOK
  <2> QED
    BY <1>1, <1>2, <2>1, <2>2, <2>3
<1>5. CASE Len(s) # 1
  <2> DEFINE n == Len(s)
  <2>1. /\ cpu'.at = "handler" /\ cpu'.stub >= 32 /\ n > 2
        /\ s[n - 1].word = "ebp" /\ s[n - 2].word = "frame"
        /\ s[n - 2].vector = cpu'.stub
        /\ s[n - 2].due = cpu'.handler /\ cpu'.handler # None
    BY <1>1, <1>2, <1>3, <1>5 DEF WordOK
  <2>2. Len(stack') = n - 1 /\ stack'[n - 1] = s[n - 1] /\ stack'[n - 2] = s[n - 2]
    BY <1>1, <1>2, <2>1
  <2> QED
    BY <1>1, <1>2, <2>1, <2>2 DEF CpuOK
<1> QED
  BY <1>4, <1>5

-----------------------------------------------------------------------------
(***************************************************************************)
(* Every step with the tables loaded keeps the invariant.                  *)
(***************************************************************************)

\* The processor pushes a frame in the kernel or in a handler.
LEMMA FramePushed ==
    ASSUME IInv, cpu.at \in {"kernel", "handler"}, NEW v \in 0..255
    PROVE  /\ Append(stack, Frame(v)) \in Seq(Word)
           /\ Len(Append(stack, Frame(v))) = Len(stack) + 1
           /\ Append(stack, Frame(v))[Len(stack) + 1] = Frame(v)
           /\ StackOK(Append(stack, Frame(v)))
           /\ Frame(v).word = "frame" /\ Frame(v).vector = v
           /\ Frame(v).due = isr_user_handlers[v] /\ Frame(v) \in Word
           /\ ebp = Len(stack)
<1> DEFINE s == Append(stack, Frame(v))
<1>1. StackOK(stack) /\ CpuOK /\ stack \in Seq(Word) /\ Len(stack) \in Nat /\ cpu \in Place
  BY LenProperties DEF IInv, TypeOK
<1>h. isr_user_handlers[v] \in Handler \cup {None}
  <2> DEFINE H == Handler \cup {None}
  <2>1. isr_user_handlers \in [0..255 -> H]
    BY DEF IInv, TypeOK
  <2> HIDE DEF H
  <2>2. isr_user_handlers[v] \in H
    BY <2>1
  <2> QED
    BY <2>2 DEF H
<1>2. /\ Frame(v) \in Word /\ Frame(v).word = "frame" /\ Frame(v).return = cpu
      /\ Frame(v).vector = v /\ Frame(v).due = isr_user_handlers[v]
  BY <1>1, <1>h DEF Frame, Word
<1>3. /\ s \in Seq(Word) /\ Len(s) = Len(stack) + 1 /\ s[Len(stack) + 1] = Frame(v)
      /\ \A k \in 1..Len(stack) : s[k] = stack[k]
  BY <1>1, <1>2, PushProperties
<1>4. cpu.at = "kernel" => cpu = Kernel /\ Len(stack) = 0 /\ ebp = 0
  BY <1>1, EmptySeq DEF CpuOK
<1>5. cpu.at = "handler" =>
          /\ Len(stack) > 1 /\ stack[Len(stack)].word = "ebp" /\ cpu.stub >= 32
          /\ stack[Len(stack) - 1].word = "frame"
          /\ stack[Len(stack) - 1].vector = cpu.stub /\ ebp = Len(stack)
          /\ stack[Len(stack) - 1].due = cpu.handler /\ cpu.handler # None
  BY <1>1 DEF CpuOK
<1> HIDE DEF s
<1>6. WordOK(s, Len(stack) + 1)
  <2>1. CASE cpu.at = "kernel"
    BY <1>1, <1>2, <1>3, <1>4, <2>1 DEF WordOK
  <2>2. CASE cpu.at = "handler"
    <3>1. /\ s[Len(stack)] = stack[Len(stack)]
          /\ s[Len(stack) - 1] = stack[Len(stack) - 1]
      BY <1>1, <1>3, <1>5, <2>2
    <3> QED
      BY <1>1, <1>2, <1>3, <1>5, <2>2, <3>1 DEF WordOK
  <2> QED
    BY <2>1, <2>2
<1>7. stack # <<>> => stack[Len(stack)].word # "error"
  BY <1>1, <1>5 DEF CpuOK
<1>8. StackOK(s)
  BY <1>1, <1>2, <1>6, <1>7, PushShape DEF s
<1> QED
  BY <1>2, <1>3, <1>4, <1>5, <1>8 DEF s

LEMMA CallKeeps ==
    ASSUME IInv, Calling, UNCHANGED bootVars
    PROVE  /\ TypeOK /\ TablesOK /\ StackOK(stack) /\ CpuOK
           /\ TablesTypeOK' /\ TablesOK' /\ pc = "up" /\ calls' \in 0..MaxCalls
           /\ Len(stack) \in Nat
<1>1. TypeOK /\ TablesOK /\ StackOK(stack) /\ CpuOK /\ pc = "up"
  BY DEF IInv, Calling
<1>2. calls' \in 0..MaxCalls /\ Len(stack) \in Nat
  BY <1>1, InterruptAssumption, LenProperties DEF Calling, TypeOK
<1> QED
  BY <1>1, <1>2, TablesKept

LEMMA RegisterKeepsIInv ==
    ASSUME IInv, NEW v \in Vectors, NEW h \in Handlers, idt_register_handler(v, h)
    PROVE  IInv'
<1>1. /\ Calling /\ UNCHANGED bootVars /\ UNCHANGED <<cpu, stack, ebp, faulted>>
      /\ isr_user_handlers' = [isr_user_handlers EXCEPT ![v] = h]
  BY DEF idt_register_handler
<1>2. /\ TypeOK /\ TablesOK /\ StackOK(stack) /\ CpuOK
      /\ TablesTypeOK' /\ TablesOK' /\ calls' \in 0..MaxCalls
  BY <1>1, CallKeeps
<1>3. isr_user_handlers' \in [0..255 -> Handler \cup {None}]
  <2> DEFINE H == Handler \cup {None}
  <2>1. isr_user_handlers \in [0..255 -> H] /\ h \in H
    BY <1>2 DEF TypeOK, Handler
  <2> HIDE DEF H
  <2>2. isr_user_handlers' \in [0..255 -> H]
    BY <1>1, <2>1
  <2> QED
    BY <2>2 DEF H
<1>4. TypeOK'
  BY <1>1, <1>2, <1>3 DEF TypeOK
<1>5. StackOK(stack') /\ CpuOK'
  <2>1. cpu.at \in {"kernel", "handler"}
    BY <1>1 DEF Calling
  <2>2. StackOK(stack')
    BY <1>1, <1>2
  <2> QED
    BY <1>1, <1>2, <2>1, <2>2 DEF CpuOK
<1> QED
  BY <1>2, <1>4, <1>5 DEF IInv

LEMMA InterruptKeepsIInv ==
    ASSUME IInv, NEW v \in Vectors, Interrupt(v) PROVE IInv'
<1>1. /\ Calling /\ UNCHANGED bootVars /\ v \in 0..255
      /\ UNCHANGED <<isr_user_handlers, ebp, faulted>>
  BY InterruptAssumption DEF Interrupt
<1>2. /\ TypeOK /\ TablesOK /\ CpuOK /\ pc = "up" /\ Len(stack) \in Nat
      /\ TablesTypeOK' /\ TablesOK' /\ calls' \in 0..MaxCalls
  BY <1>1, CallKeeps
<1>3. idt[v].stub = v
  BY <1>1, <1>2, GateServes DEF Interrupt
<1>4. stack' = Append(stack, Frame(v)) /\ cpu' = At("stub", v)
  BY <1>3 DEF Interrupt
<1>5. /\ stack' \in Seq(Word) /\ Len(stack') = Len(stack) + 1 /\ StackOK(stack')
      /\ stack'[Len(stack')].word = "frame" /\ stack'[Len(stack')].vector = v
      /\ stack'[Len(stack')].due = isr_user_handlers[v]
      /\ ebp = Len(stack)
  <2> DEFINE s == Append(stack, Frame(v))
             f == Frame(v)
  <2>1. cpu.at \in {"kernel", "handler"} /\ v \in 0..255
    BY <1>1 DEF Calling
  <2>2. /\ s \in Seq(Word) /\ Len(s) = Len(stack) + 1 /\ s[Len(stack) + 1] = f
        /\ StackOK(s) /\ ebp = Len(stack)
        /\ f.word = "frame" /\ f.vector = v /\ f.due = isr_user_handlers[v]
    BY <2>1, FramePushed
  <2>3. stack' = s
    BY <1>4
  <2> HIDE DEF s, f
  <2> QED
    BY <2>2, <2>3
<1>6. cpu' \in Place /\ cpu'.at = "stub" /\ cpu'.stub = v
  BY <1>1, <1>4, Places
<1>7. stack' # <<>>
  BY <1>2, <1>5, EmptySeq
<1>8. CpuOK'
  BY <1>1, <1>2, <1>5, <1>6, <1>7 DEF CpuOK
<1>9. TypeOK'
  BY <1>1, <1>2, <1>5, <1>6 DEF TypeOK
<1> QED
  BY <1>2, <1>5, <1>8, <1>9 DEF IInv

LEMMA TwoWords ==
    ASSUME NEW s \in Seq(Word), NEW a \in Word, NEW b \in Word
    PROVE  s \o <<a, b>> = Append(Append(s, a), b)
  OBVIOUS

LEMMA FaultKeepsIInv ==
    ASSUME IInv, NEW v \in Vectors, Fault(v) PROVE IInv'
<1>1. /\ Calling /\ UNCHANGED bootVars /\ v \in 0..255
      /\ UNCHANGED <<isr_user_handlers, ebp>> /\ faulted' = faulted \cup {v}
  BY InterruptAssumption DEF Fault
<1>2. /\ TypeOK /\ TablesOK /\ CpuOK /\ pc = "up" /\ Len(stack) \in Nat
      /\ TablesTypeOK' /\ TablesOK' /\ calls' \in 0..MaxCalls /\ stack \in Seq(Word)
  BY <1>1, CallKeeps DEF TypeOK
<1>3. v = 255 /\ HasGate(13) /\ idt[13].stub = 13
  <2>1. v = 255
    <3>1. ~HasGate(v)
      BY DEF Fault
    <3>2. HasGate(v) <=> v < 255
      BY <1>1, <1>2, GateServes
    <3> QED
      BY <1>1, <3>1, <3>2
  <2>2. 13 \in 0..255 /\ 13 < 255
    OBVIOUS
  <2>3. HasGate(13) /\ idt[13].stub = 13
    BY <1>2, <2>2, GateServes
  <2> QED
    BY <2>1, <2>3
<1> DEFINE s == Append(stack, Frame(13))
<1>4. /\ s \in Seq(Word) /\ Len(s) = Len(stack) + 1 /\ StackOK(s)
      /\ s[Len(s)].word = "frame" /\ Frame(13) \in Word
  <2>1. cpu.at \in {"kernel", "handler"} /\ 13 \in 0..255 /\ cpu \in Place
    BY <1>1, <1>2 DEF Calling, TypeOK
  <2>2. /\ s \in Seq(Word) /\ Len(s) = Len(stack) + 1 /\ s[Len(stack) + 1] = Frame(13)
        /\ StackOK(s) /\ Frame(13).word = "frame"
    BY <2>1, FramePushed
  <2>4. Frame(13) \in Word
    BY <2>1, FramePushed
  <2> HIDE DEF s
  <2> QED
    BY <2>2, <2>4
<1>5. stack' = Append(s, ErrorCode) /\ cpu' = At("stub", 13)
  BY <1>2, <1>3, <1>4, TwoWords, Words DEF Fault, GeneralProtection
<1> HIDE DEF s
<1>6. /\ stack' \in Seq(Word) /\ Len(stack') = Len(s) + 1 /\ stack' # <<>>
      /\ stack'[Len(stack')].word = "error"
  BY <1>4, <1>5, PushProperties, Words DEF ErrorCode
<1>7. StackOK(stack')
  <2>1. WordOK(stack', Len(s) + 1)
    BY <1>6 DEF WordOK
  <2> QED
    BY <1>4, <1>5, <2>1, PushShape, Words
<1>8. cpu' \in Place /\ cpu'.at = "stub" /\ cpu'.stub = 13
  BY <1>5 DEF At, Serving, Place
<1>9. CpuOK'
  BY <1>1, <1>2, <1>3, <1>6, <1>8 DEF CpuOK
<1>10. TypeOK'
  BY <1>1, <1>2, <1>6, <1>8 DEF TypeOK
<1> QED
  BY <1>2, <1>7, <1>9, <1>10 DEF IInv

\* A step of a stub or a handler changes the processor, the stack and ebp alone.
LEMMA PathKeeps ==
    ASSUME IInv, cpu.at \in {"stub", "handler", "exit"}, UNCHANGED bootVars,
           UNCHANGED <<isr_user_handlers, calls, faulted>>,
           cpu' \in Place, stack' \in Seq(Word), ebp' \in Nat, StackOK(stack'), CpuOK'
    PROVE  IInv'
<1>1. TypeOK /\ pc = "up"
  BY UpWhileAway DEF IInv
<1>2. TablesTypeOK' /\ TablesOK'
  BY <1>1, TablesKept
<1>3. TypeOK'
  BY <1>1, <1>2 DEF TypeOK
<1> QED
  BY <1>2, <1>3 DEF IInv

LEMMA GenericStubKeepsIInv ==
    ASSUME IInv, GenericStub PROVE IInv'
<1>1. /\ CpuOK /\ StackOK(stack) /\ stack \in Seq(Word) /\ Len(stack) \in Nat
      /\ ebp \in Nat /\ cpu \in Place
  BY LenProperties DEF IInv, TypeOK
<1>2. /\ cpu.at = "stub" /\ cpu.stub < 32 /\ Iret(stack) /\ stack # <<>>
      /\ UNCHANGED <<isr_user_handlers, ebp, calls, faulted>> /\ UNCHANGED bootVars
  BY <1>1 DEF GenericStub, CpuOK
<1>3. CASE stack[Len(stack)].word = "frame"
  <2>1. ebp' = Len(stack) - 1
    BY <1>1, <1>2, <1>3 DEF CpuOK
  <2>2. /\ stack' \in Seq(Word) /\ StackOK(stack') /\ ebp' \in Nat /\ cpu' \in Place /\ CpuOK'
    BY <1>1, <1>2, <1>3, <2>1, IretReturns
  <2> QED
    BY <1>2, <2>2, PathKeeps
<1>4. CASE stack[Len(stack)].word # "frame"
  <2>1. stack' = stack /\ cpu' = At("dead", 0) /\ faulted # {}
    BY <1>1, <1>2, <1>4 DEF Iret, CpuOK
  <2>2. cpu' \in Place /\ cpu'.at = "dead"
    BY <2>1 DEF At, Serving, Place
  <2>3. CpuOK'
    BY <1>1, <1>2, <2>1, <2>2 DEF CpuOK
  <2> QED
    BY <1>1, <1>2, <2>1, <2>2, <2>3, PathKeeps
<1> QED
  BY <1>3, <1>4

LEMMA UserStubKeepsIInv ==
    ASSUME IInv, UserStub PROVE IInv'
<1>1. /\ CpuOK /\ StackOK(stack) /\ stack \in Seq(Word) /\ Len(stack) \in Nat
      /\ ebp \in Nat /\ cpu \in Place
  BY LenProperties DEF IInv, TypeOK
<1>2. /\ cpu.at = "stub" /\ cpu.stub >= 32 /\ cpu.stub \in 0..255 /\ stack # <<>>
      /\ UNCHANGED <<isr_user_handlers, calls, faulted>> /\ UNCHANGED bootVars
      /\ stack' = Append(stack, Ebp) /\ ebp' = Len(stack')
  BY <1>1, Places DEF UserStub, CpuOK
<1>3. /\ cpu' \in Place /\ cpu'.at \in {"handler", "exit"} /\ cpu'.stub = cpu.stub
      /\ cpu'.handler = isr_user_handlers[cpu.stub]
      /\ cpu'.at = "handler" => cpu'.handler # None
  <2> DEFINE h == isr_user_handlers[cpu.stub]
             H == Handler \cup {None}
  <2>1. PICK a \in {"handler", "exit"} :
            cpu' = Serving(a, cpu.stub, h) /\ (a = "handler" => h # None)
    BY DEF UserStub
  <2>2. cpu.stub \in 0..255 /\ isr_user_handlers \in [0..255 -> H]
    BY <1>2 DEF IInv, TypeOK
  <2> HIDE DEF H
  <2>3. h \in H
    BY <2>2
  <2> HIDE DEF h
  <2>4. cpu' \in Place /\ cpu'.at = a /\ cpu'.stub = cpu.stub /\ cpu'.handler = h
    BY <2>1, <2>2, <2>3 DEF Serving, Place, H
  <2> QED
    BY <2>1, <2>4 DEF h
<1>4. /\ stack[Len(stack)].word = "frame" /\ stack[Len(stack)].vector = cpu.stub
      /\ stack[Len(stack)].due = isr_user_handlers[cpu.stub]
      /\ ebp = Len(stack) - 1 /\ Len(stack) > 0
  <2>1. ~ (cpu.stub < 32)
    <3> DEFINE n == cpu.stub
    <3>1. n >= 32 /\ n \in 0..255
      BY <1>2
    <3> HIDE DEF n
    <3>2. ~ (n < 32)
      BY <3>1
    <3> QED
      BY <3>2 DEF n
  <2>2. /\ stack[Len(stack)].word = "frame" /\ stack[Len(stack)].vector = cpu.stub
        /\ stack[Len(stack)].due = isr_user_handlers[cpu.stub]
        /\ ebp = Len(stack) - 1
    BY <1>1, <1>2, <2>1 DEF CpuOK
  <2> QED
    BY <1>1, <1>2, <2>2, EmptySeq
<1>5. Ebp \in Word /\ Ebp.word = "ebp" /\ Ebp.saved = ebp
  BY <1>1 DEF Ebp, Word
<1>6. /\ stack' \in Seq(Word) /\ Len(stack') = Len(stack) + 1
      /\ stack'[Len(stack) + 1] = Ebp /\ stack'[Len(stack)] = stack[Len(stack)]
  BY <1>1, <1>2, <1>4, <1>5, PushProperties
<1>7. StackOK(stack')
  <2>1. WordOK(stack', Len(stack) + 1)
    BY <1>1, <1>4, <1>5, <1>6 DEF WordOK
  <2>2. stack[Len(stack)].word # "error"
    BY <1>4
  <2> QED
    BY <1>1, <1>2, <1>5, <2>1, <2>2, PushShape
<1>8. CpuOK'
  BY <1>1, <1>2, <1>3, <1>4, <1>5, <1>6 DEF CpuOK
<1>9. ebp' \in Nat
  BY <1>1, <1>2, <1>6
<1> QED
  BY <1>2, <1>3, <1>6, <1>7, <1>8, <1>9, PathKeeps

LEMMA HandlerReturnsKeepsIInv ==
    ASSUME IInv, HandlerReturns PROVE IInv'
<1>1. CpuOK /\ StackOK(stack) /\ stack \in Seq(Word) /\ ebp \in Nat /\ cpu \in Place
  BY DEF IInv, TypeOK
<1>2. /\ cpu.at = "handler" /\ cpu' = [cpu EXCEPT !.at = "exit"]
      /\ UNCHANGED <<isr_user_handlers, stack, ebp, calls, faulted>> /\ UNCHANGED bootVars
  BY DEF HandlerReturns
<1>3. cpu' \in Place /\ cpu'.at = "exit" /\ cpu'.stub = cpu.stub /\ cpu'.handler = cpu.handler
  BY <1>1, <1>2 DEF Place, At, Serving
<1>4. CpuOK'
  BY <1>1, <1>2, <1>3 DEF CpuOK
<1> QED
  BY <1>1, <1>2, <1>3, <1>4, PathKeeps

LEMMA UserExitKeepsIInv ==
    ASSUME IInv, UserExit PROVE IInv'
<1>1. /\ CpuOK /\ StackOK(stack) /\ stack \in Seq(Word) /\ Len(stack) \in Nat
      /\ ebp \in Nat /\ cpu \in Place
  BY LenProperties DEF IInv, TypeOK
<1>2. /\ cpu.at = "exit" /\ Iret(Pop(stack)) /\ ebp' = stack[Len(stack)].saved
      /\ UNCHANGED <<isr_user_handlers, calls, faulted>> /\ UNCHANGED bootVars
  BY DEF UserExit
<1>3. /\ Len(stack) > 1 /\ stack[Len(stack)].word = "ebp"
      /\ stack[Len(stack) - 1].word = "frame"
  BY <1>1, <1>2 DEF CpuOK
<1>4. /\ Pop(stack) \in Seq(Word) /\ Len(Pop(stack)) = Len(stack) - 1
      /\ Pop(stack) # <<>> /\ Pop(stack)[Len(stack) - 1] = stack[Len(stack) - 1]
      /\ StackOK(Pop(stack))
  <2>1. stack # <<>>
    BY <1>3, EmptySeq
  <2>2. Pop(stack) \in Seq(Word) /\ Len(Pop(stack)) = Len(stack) - 1 /\ StackOK(Pop(stack))
    BY <1>1, <2>1, PopProperties, PopShape
  <2> QED
    BY <1>1, <1>3, <2>1, <2>2, PopProperties, EmptySeq
<1>5. WordOK(stack, Len(stack))
  BY <1>1, <1>3 DEF StackOK
<1>6. ebp' = Len(Pop(stack)) - 1
  BY <1>1, <1>2, <1>3, <1>4, <1>5 DEF WordOK
<1>7. /\ stack' \in Seq(Word) /\ StackOK(stack') /\ ebp' \in Nat /\ cpu' \in Place /\ CpuOK'
  BY <1>1, <1>2, <1>3, <1>4, <1>6, IretReturns
<1> QED
  BY <1>2, <1>7, PathKeeps

LEMMA HangKeepsIInv ==
    ASSUME IInv, Hang PROVE IInv'
<1>1. /\ TypeOK /\ TablesTypeOK /\ TablesOK /\ GatesOK /\ StackOK(stack) /\ CpuOK
      /\ cpu = Kernel /\ pc = "up" /\ pc' = "hang"
      /\ UNCHANGED <<i, gdt, gdt_limit, segments, idt, idtr, lidt, isr_user_handlers>>
      /\ UNCHANGED <<cpu, stack, ebp, calls, faulted>>
  BY DEF IInv, TypeOK, TablesOK, Hang, Running, InterruptsIdle
<1>2. TablesTypeOK'
  BY <1>1 DEF TablesTypeOK
<1>3. TypeOK'
  BY <1>1, <1>2 DEF TypeOK
<1>4. GatesOK'
  BY <1>1, Zenon DEF GatesOK
<1>5. TablesOK'
  BY <1>1, <1>4 DEF TablesOK
<1>6. StackOK(stack') /\ CpuOK'
  BY <1>1 DEF CpuOK
<1> QED
  BY <1>3, <1>5, <1>6 DEF IInv

LEMMA IInvIsInvariant == Spec => []IInv
<1>1. ASSUME IInv, [Next]_vars PROVE IInv'
  <2>1. CASE Boot
    BY <1>1, <2>1, BootKeepsIInv
  <2>2. ASSUME NEW v \in Vectors, Interrupt(v) PROVE IInv'
    BY <1>1, <2>2, InterruptKeepsIInv
  <2>3. ASSUME NEW v \in Vectors, Fault(v) PROVE IInv'
    BY <1>1, <2>3, FaultKeepsIInv
  <2>4. ASSUME NEW v \in Vectors, NEW h \in Handlers, idt_register_handler(v, h) PROVE IInv'
    BY <1>1, <2>4, RegisterKeepsIInv
  <2>5. CASE Path
    BY <1>1, <2>5, GenericStubKeepsIInv, UserStubKeepsIInv, HandlerReturnsKeepsIInv,
       UserExitKeepsIInv DEF Path
  <2>6. CASE Hang
    BY <1>1, <2>6, HangKeepsIInv
  <2>7. CASE UNCHANGED vars
    <3>1. /\ UNCHANGED <<pc, i, gdt, gdt_limit, idt, idtr, lidt>>
          /\ UNCHANGED <<isr_user_handlers, cpu, stack, ebp, calls, faulted>>
      BY <2>7 DEF vars, bootVars
    <3>2. /\ TypeOK /\ TablesTypeOK /\ TablesOK /\ GatesOK /\ StackOK(stack) /\ CpuOK
      BY <1>1 DEF IInv, TypeOK, TablesOK
    <3>3. TablesTypeOK'
      BY <3>1, <3>2 DEF TablesTypeOK
    <3>4. TypeOK'
      BY <3>1, <3>2, <3>3 DEF TypeOK
    <3>5. GatesOK'
      BY <3>1, <3>2, Zenon DEF GatesOK
    <3>6. TablesOK'
      BY <3>1, <3>2, <3>5 DEF TablesOK
    <3>7. StackOK(stack') /\ CpuOK'
      BY <3>1, <3>2 DEF CpuOK
    <3> QED
      BY <3>4, <3>6, <3>7 DEF IInv
  <2> QED
    BY <1>1, <2>1, <2>2, <2>3, <2>4, <2>5, <2>6, <2>7 DEF Next, Use
<1> QED
  BY InitIInv, <1>1, PTL DEF Spec

-----------------------------------------------------------------------------
(***************************************************************************)
(* The theorems.                                                           *)
(***************************************************************************)
\* The tables, the registers and the words on the stack have their types however
\* deep interrupts nest (kernel_main, idt_init, the stubs of asm_bits.s).
THEOREM TypeCorrect == Spec => []TypeOK
<1>1. IInv => TypeOK
  BY DEF IInv
<1> QED
  BY IInvIsInvariant, <1>1, PTL

\* The handler that runs is the one that was due when the int was executed
\* (isr_dispatch_table, the lookup of the stubs, idt_register_handler).
THEOREM HandlersRunForTheirVectors == Spec => []HandlerRunsForItsVector
<1>1. IInv => HandlerRunsForItsVector
  BY DEF IInv, CpuOK, HandlerRunsForItsVector
<1> QED
  BY IInvIsInvariant, <1>1, PTL

\* Unless an int misses the table, every iret finds its frame and the kernel its
\* stack as it was (the boot order of kernel_main and the stubs).
THEOREM StackIsBalanced == Spec => []StackBalanced
<1>1. ASSUME IInv, faulted = {} PROVE StackBalanced
  <2>1. /\ CpuOK /\ StackOK(stack) /\ stack \in Seq(Word) /\ Len(stack) \in Nat /\ cpu \in Place
    BY <1>1, LenProperties DEF IInv, TypeOK
  <2>2. cpu.at # "dead"
    BY <1>1, <2>1 DEF CpuOK
  <2>3. cpu = Kernel => stack = <<>>
    BY <2>1, Places DEF CpuOK
  <2>4. Len(stack) > 0 => stack[Len(stack)].word # "error"
    <3>1. cpu.at \in {"kernel", "stub", "handler", "exit"}
      BY <2>1, <2>2, Places
    <3>2. cpu.at = "kernel" => Len(stack) = 0
      BY <2>1, EmptySeq DEF CpuOK
    <3>3. cpu.at = "stub" => stack[Len(stack)].word = "frame"
      BY <1>1, <2>1 DEF CpuOK
    <3>4. cpu.at \in {"handler", "exit"} => stack[Len(stack)].word = "ebp"
      BY <2>1 DEF CpuOK
    <3> QED
      BY <3>1, <3>2, <3>3, <3>4
  <2>5. ASSUME NEW k \in 1..Len(stack) PROVE stack[k].word # "error"
    <3>1. stack[k].word = "error" => k = Len(stack)
      BY <2>1 DEF StackOK, WordOK
    <3> QED
      BY <2>1, <2>4, <3>1
  <2> QED
    BY <2>2, <2>3, <2>5 DEF StackBalanced
<1>2. IInv => StackBalanced
  BY <1>1 DEF StackBalanced
<1> QED
  BY IInvIsInvariant, <1>2, PTL

\* Interrupted code finds ebp as it left it (the push and pop of ebp in the stubs).
THEOREM FramePointerIsKept == Spec => []FramePointerKept
<1>1. IInv => FramePointerKept
  BY Places DEF IInv, CpuOK, FramePointerKept
<1> QED
  BY IInvIsInvariant, <1>1, PTL

\* Only an int beyond the table faults, whatever idt_init wrote past it (idt_init,
\* idt_flush).
THEOREM TablesServeTheirVectors == Spec => []TableServesItsVectors
<1>1. IInv => TableServesItsVectors
  BY DEF IInv, CpuOK, TableServesItsVectors, IDT_MAX_ENTRIES
<1> QED
  BY IInvIsInvariant, <1>1, PTL
=============================================================================
