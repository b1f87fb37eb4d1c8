-------------------------- MODULE Ps2DialogueProofs --------------------------
(***************************************************************************)
(* What follows from the dialogue of ps2_init with the controller: the      *)
(* configuration it reads back and writes, the interrupts and the clocks    *)
(* that come of it, the self-tests, the answers of the devices, and the     *)
(* report ps2_init ends with.                                              *)
(***************************************************************************)
EXTENDS Ps2Proofs

-----------------------------------------------------------------------------
(***************************************************************************)
(* What is read back is the configuration.                                 *)
(***************************************************************************)
HeardInv == phase \in ReadsConfig =>
    /\ reply # <<>> => reply = <<cfg>>
    /\ obf => latch.byte = cfg
    /\ AtEnd => in.byte = cfg

ConfigIsHeard == Orderly => HeardInv

\* The phases that read the configuration end with the read.
LEMMA LastRead ==
    ASSUME NEW ph \in ReadsConfig
    PROVE  /\ ph \in Early /\ ph # "reset1" /\ ph # "selfcheck" /\ ph # "port2"
           /\ Ends(ph) = "clear"
           /\ Len(Script[ph]) >= 4
           /\ Script[ph][Len(Script[ph])].op = "read"
<1>1. Len(Script["restore"]) = 10 /\ Script["restore"][10] = Read
  BY RestoreScript
<1>2. Len(Script["dual"]) = 6 /\ Script["dual"][6] = Read
  BY DualScript
<1>3. Len(Script["irq"]) = 4 /\ Script["irq"][4] = Read
  BY ShortScripts
<1>4. ph \in Early /\ ph # "reset1" /\ ph # "selfcheck" /\ ph # "port2" /\ Ends(ph) = "clear"
  BY DEF ReadsConfig, Early, Ends
<1> QED
  BY <1>1, <1>2, <1>3, <1>4, AccessOps DEF ReadsConfig

\* Only the script of reset1 sends a byte to a device.
LEMMA SentByReset1 ==
    ASSUME TypeOK, phase \in Early, Mood[phase][step] = "sent"
    PROVE  phase = "reset1" /\ AtEnd
<1>1. step \in 1..(Len(Script[phase]) + 1) /\ Len(Script[phase]) \in Nat
  BY ScriptStep DEF TypeOK, DriverTypeOK
<1>2. step # 1
  BY Discipline DEF Disciplined, Begins
<1>3. step - 1 \in 1..Len(Script[phase]) /\ (step - 1) + 1 = step
  BY <1>1, <1>2
<1>4. Follows(phase, Script[phase][step - 1], Mood[phase][step - 1], "sent")
  BY <1>3, Discipline DEF Disciplined
<1>5. phase = "reset1"
  BY <1>4 DEF Follows
<1>6. Len(Script["reset1"]) = 2 /\ Mood["reset1"] = <<"idle", "clear", "sent">>
  BY ShortScripts DEF Mood
<1>7. step \in {1, 2, 3}
  BY <1>1, <1>5, <1>6
<1>8. step = 3
  BY <1>5, <1>6, <1>7
<1> QED
  BY <1>5, <1>6, <1>8 DEF AtEnd

LEMMA HwKeepsHeard ==
    ASSUME TypeOK, Orderly, Dialogue, HeardInv, phase \in ReadsConfig, HwNext, UNCHANGED driverVars
    PROVE  HeardInv'
<1> DEFINE m == Mood[phase][step]
<1>1. phase' = phase /\ step' = step /\ in' = in
  BY DEF driverVars
<1>2. phase \in Early /\ phase # "reset1" /\ phase # "selfcheck" /\ Ends(phase) = "clear"
  BY LastRead
<1>3. Holds(m) /\ (m = "sent" \/ Mute)
  BY <1>2 DEF Dialogue, MoodInv
<1>4. m # "sent"
  BY <1>2, SentByReset1
<1>5. AtEnd => m = "clear"
  BY <1>2, MoodAtEnd
<1> HIDE DEF m
<1>6. ControllerNext
  BY <1>3, <1>4, ControllerOnly
<1>7. ~Clear /\ ~Ready /\ ~Taken
  BY <1>6, Resting DEF Clear, Ready, Taken, Nothing
<1>8. ~AtEnd /\ ~AtEnd'
  <2>1. ~AtEnd
    BY <1>3, <1>5, <1>7, MoodSplit
  <2> QED
    BY <1>1, <2>1 DEF AtEnd
<1>9. ASSUME reply' = <<>>, obf' = FALSE PROVE HeardInv'
  BY <1>8, <1>9 DEF HeardInv
<1>10. CASE Idle
  BY <1>6, <1>9, <1>10, IdleStep DEF Clear, Nothing
<1>11. CASE ConfigDue
  BY <1>6, <1>9, <1>11, ConfigDueStep DEF Taken, Nothing
<1>12. CASE Owed
  <2>1. phase' = phase
    BY <1>1
  <2>2. UNCHANGED cfg
    BY <1>2, <1>6, <1>12, <2>1, OwedStep
  <2>3. \/ reply' = <<cfg>> /\ obf' = FALSE
        \/ reply # <<>> /\ reply' = <<>> /\ latch'.byte = reply[1]
    BY <1>6, <1>12, <2>1, OwedStep
  <2>4. reply # <<>> => reply[1] = cfg
    BY DEF HeardInv
  <2> QED
    BY <1>8, <2>2, <2>3, <2>4 DEF HeardInv
<1> QED
  BY <1>3, <1>4, <1>7, <1>10, <1>11, <1>12, MoodSplit, QuietIsIdle

LEMMA AccessKeepsHeard ==
    ASSUME TypeOK, Orderly, Dialogue, HeardInv, phase \in ReadsConfig, PortAccess
    PROVE  HeardInv'
<1>1. phase \in Early /\ phase # "port2" /\ Script[phase][Len(Script[phase])].op = "read"
      /\ phase \in Phase
  BY LastRead DEF TypeOK, DriverTypeOK
<1>2. /\ phase' = phase /\ step' \in {step, step + 1}
      /\ UNCHANGED <<reply, latch, cfg>> /\ (obf' = obf \/ obf' = FALSE)
  <2>1. phase' = phase
    BY AccessKeeps
  <2>2. step' \in {step, step + 1}
    BY <1>1, InputWaitKeepsMood, OutputWaitKeepsMood, OtherAccessKeepsMood DEF PortAccess
  <2>3. UNCHANGED <<reply, latch, cfg>> /\ (obf' = obf \/ obf' = FALSE)
    BY DEF PortAccess, PollInput, PollOutput, Poll, WriteCommand, WriteData, ReadData,
       CpuReads, CpuWrites, hwVars
  <2> QED
    BY <2>1, <2>2, <2>3
<1>3. ASSUME AtEnd' PROVE in'.byte = cfg
  <2>1. ~AtEnd
    BY DEF PortAccess, PollInput, PollOutput, WriteCommand, WriteData, ReadData, At
  <2>2. step = Len(Script[phase])
    BY <1>2, <1>3, <2>1, ScriptStep DEF AtEnd, TypeOK, DriverTypeOK
  <2>3. Script[phase][step].op = "read"
    BY <1>1, <2>2
  <2>4. ReadData
    BY <2>3 DEF PortAccess, PollInput, PollOutput, WriteCommand, WriteData, At
  <2>5. Mood[phase][step] = "ready"
    <3>1. Mood[phase][step + 1] = "clear"
      BY <1>1, <2>2, LastRead, Discipline DEF Disciplined
    <3> QED
      BY <1>1, <2>1, <2>3, <3>1, Follow, MoodOfAccess
  <2>6. Ready
    BY <1>1, <2>5, MoodSplit DEF Dialogue, MoodInv
  <2>7. obf /\ hw.present
    BY <1>1, <2>6 DEF Ready, Unanswered, Orderly
  <2> QED
    BY <2>4, <2>7 DEF ReadData, DataPort, HeardInv
<1> QED
  BY <1>2, <1>3 DEF HeardInv

\* The byte the driver takes for the configuration is the configuration, on every
\* orderly machine (ps2_check_dual_channel, ps2_enable_ports).
THEOREM ReadsBackTheConfig == Spec => []ConfigIsHeard
<1>1. Init => ConfigIsHeard
  BY DEF Init, ConfigIsHeard, HeardInv, ReadsConfig
<1>2. TypeOK /\ Dialogue /\ ConfigIsHeard /\ [Next]_vars => ConfigIsHeard'
  <2> SUFFICES ASSUME TypeOK, Dialogue, ConfigIsHeard, [Next]_vars, Orderly' PROVE HeardInv'
    BY DEF ConfigIsHeard
  <2>1. Orderly /\ HeardInv
    BY MachineStands DEF Orderly, ConfigIsHeard
  <2>2. CASE PortAccess
    <3>1. phase' = phase
      BY <2>2, AccessKeeps
    <3> QED
      BY <2>1, <2>2, <3>1, AccessKeepsHeard DEF HeardInv
  <2>3. CASE Decide
    <3> SUFFICES ASSUME phase' \in ReadsConfig PROVE HeardInv'
      BY DEF HeardInv
    <3>1. phase' \in Early /\ Len(Script[phase']) >= 4
      BY LastRead
    <3>2. phase \in Early /\ phase # "reset1"
      BY <2>3, <3>1, EarlyDecisions
    <3>3. AtEnd /\ step' = 1 /\ UNCHANGED hwVars
      BY <2>3, DecideEnters
    <3>4. Ends(phase) \in {"idle", "clear"}
      BY <3>2 DEF Ends
    <3>5. Nothing
      BY <2>1, <3>2, <3>3, <3>4, MoodAtEnd, MoodSplit, QuietIsIdle
      DEF Dialogue, MoodInv, Idle
    <3>6. phase' \in Phase
      BY <3>1, Phases DEF Early
    <3>7. ~AtEnd'
      BY <3>1, <3>3, <3>6, ScriptStep DEF AtEnd
    <3> QED
      BY <3>3, <3>5, <3>7 DEF HeardInv, Nothing, hwVars
  <2>4. CASE HwNext /\ UNCHANGED driverVars
    <3>1. phase' = phase
      BY <2>4 DEF driverVars
    <3> QED
      BY <2>1, <2>4, <3>1, HwKeepsHeard DEF HeardInv
  <2>5. CASE UNCHANGED vars
    BY <2>1, <2>5 DEF vars, hwVars, driverVars, HeardInv, AtEnd
  <2> QED
    BY <2>2, <2>3, <2>4, <2>5 DEF Next, Driver
<1> QED
  BY <1>1, <1>2, TypeCorrect, DialogueIsKept, PTL DEF Spec

-----------------------------------------------------------------------------
(***************************************************************************)
(* What becomes of the interrupt bits of the configuration.                *)
(***************************************************************************)
IrqBits(byte) == \A p \in Port : INTERRUPT_BIT(p) \in byte <=> valid[p]

\* Port 1 does not interrupt from the restored configuration to the final one.
Masked == {"dual", "dualconfig", "port1", "port2", "enable1", "enable2", "irq"}
\* Nor does port 2, once its bit has been cleared.
BothMasked == {"port1", "port2", "enable1", "enable2", "irq"}
Late == {"ack", "bat", "id1", "id2", "reset2", "done"}

RestoreInv ==
    /\ phase \in {"selfcheck", "restore"} => 0 \notin config /\ 5 \notin config
    /\ phase = "restore" => inbuf # <<CommandWrite("DISABLE_2")>>
    /\ phase = "restore" /\ step >= 5 => 0 \notin CfgToBe /\ 5 \notin CfgToBe
MaskInv ==
    /\ phase \in Masked => 0 \notin cfg /\ 0 \notin CfgToBe
    /\ phase = "dualconfig" => 0 \notin config /\ 1 \notin config
    /\ phase = "dualconfig" /\ AtEnd => 1 \notin CfgToBe
    /\ phase \in BothMasked => 1 \notin CfgToBe
IrqInv ==
    /\ phase = "irqwrite" => IrqBits(config)
    /\ phase = "irqwrite" /\ AtEnd => IrqBits(CfgToBe)
    /\ phase = "reset1" => IrqBits(CfgToBe)
\* Later on nothing changes the configuration any more.
LateInv == phase \in Late =>
    /\ route # "config"
    /\ inbuf = <<>> \/ inbuf = <<DataWrite(BFF)>> \/ inbuf = <<CommandWrite("WRITE_PORT2_INPUT")>>
    /\ IrqBits(cfg)

ConfigInv == RestoreInv /\ MaskInv /\ IrqInv /\ LateInv
ConfigIsKept == Orderly => ConfigInv

\* A step of the controller moves the configuration to what was on its way.
LEMMA HwConfig ==
    ASSUME TypeOK, Orderly, Dialogue, phase \in Early, phase # "selfcheck",
           HwNext, UNCHANGED driverVars
    PROVE  /\ \A b \in {0, 1} : b \in cfg' <=> b \in CfgToBe
           /\ inbuf # <<CommandWrite("DISABLE_1")>> => (4 \in cfg' => 4 \in CfgToBe)
           /\ inbuf # <<CommandWrite("DISABLE_2")>> => (5 \in cfg' => 5 \in CfgToBe)
           /\ CfgToBe' = cfg'
           /\ inbuf' = inbuf \/ inbuf' = <<>>
<1> DEFINE m == Mood[phase][step]
<1>1. phase' = phase /\ got' = got
  BY DEF driverVars
<1>2. Holds(m) /\ (m = "sent" \/ Mute)
  BY DEF Dialogue, MoodInv
<1> HIDE DEF m
<1>3. inbuf' = inbuf \/ inbuf' = <<>>
  BY DEF HwNext, ControllerNext, TakeReadConfig, TakeWriteConfig, TakePortSwitch,
     TakeTestController, TakeTestPort, TakeWritePort2, TakeData, DeliverReply,
     DeviceSends, DeviceChatters, Taking
<1>4. m # "sent" => ControllerNext
  BY <1>2, ControllerOnly
<1>5. CASE m \in {"idle", "quiet"}
  <2>1. Idle /\ ControllerNext
    BY <1>2, <1>4, <1>5, MoodSplit, QuietIsIdle
  <2>2. CfgToBe' = cfg'
    BY <2>1, IdleStep DEF Clear, CfgToBe
  <2> QED
    BY <1>3, <2>1, <2>2, IdleStep
<1>6. CASE m = "owed"
  <2>1. Owed /\ ControllerNext
    BY <1>2, <1>4, <1>6, MoodSplit
  <2>2. Owed' /\ cfg' = cfg
    BY <1>1, <2>1, OwedStep
  <2>3. CfgToBe' = cfg' /\ CfgToBe = cfg
    BY <2>1, <2>2 DEF Owed, CfgToBe
  <2> QED
    BY <1>3, <2>2, <2>3
<1>7. CASE m = "config"
  <2>1. ConfigDue /\ ControllerNext
    BY <1>2, <1>4, <1>7, MoodSplit
  <2>2. Taken' /\ cfg' = cfg
    BY <2>1, ConfigDueStep
  <2>3. CfgToBe = cfg
    BY <2>1, ConfigStands DEF ConfigDue
  <2>4. CfgToBe' = cfg'
    BY <2>2 DEF Taken, CfgToBe
  <2> QED
    BY <1>3, <2>2, <2>3, <2>4
<1>8. CASE m = "sent"
  <2>1. Listening(1)
    BY <1>2, <1>8, MoodSplit
  <2>2. Listening(1)' /\ cfg' = cfg
    BY <1>1, <2>1, ListeningStep, Ports
  <2>3. CfgToBe' = cfg' /\ CfgToBe = cfg
    BY <2>1, <2>2 DEF Listening, CfgToBe, DeviceName
  <2> QED
    BY <1>3, <2>2, <2>3
<1>9. CASE m \in {"clear", "ready", "taken"}
  <2>1. ControllerNext /\ inbuf = <<>> /\ reply = <<>>
    BY <1>2, <1>4, <1>9, MoodSplit DEF Clear, Ready, Taken, Nothing
  <2> QED
    BY <2>1, Resting
<1> QED
  BY <1>2, <1>5, <1>6, <1>7, <1>8, <1>9, MoodSplit

\* An access leaves the configuration to come alone, unless it writes it.
LEMMA AccessConfig ==
    ASSUME TypeOK, Orderly, Dialogue, phase \in Early, PortAccess
    PROVE  /\ UNCHANGED <<phase, cfg, config, valid>> /\ ~AtEnd
           /\ step' \in {step, step + 1}
           /\ IF Script[phase][step].op = "config" THEN CfgToBe' = config ELSE CfgToBe' = CfgToBe
           /\ phase = "restore" => inbuf' = inbuf \/ inbuf' # <<CommandWrite("DISABLE_2")>>
<1> DEFINE m == Mood[phase][step]
           n == Mood[phase][step + 1]
           a == Script[phase][step]
<1>1. UNCHANGED <<phase, cfg, config, valid, route>> /\ ~AtEnd
  BY DEF PortAccess, PollInput, PollOutput, Poll, WriteCommand, WriteData, ReadData, Access,
     CpuReads, CpuWrites, hwVars, At
<1>2. step' \in {step, step + 1}
  BY InputWaitKeepsMood, OutputWaitKeepsMood, OtherAccessKeepsMood DEF PortAccess
<1>3. Holds(m) /\ Follows(phase, a, m, n)
  BY <1>1, Follow DEF Dialogue, MoodInv
<1> HIDE DEF m, n
<1>4. CASE PollInput \/ PollOutput \/ ReadData
  <2>1. UNCHANGED inbuf /\ a.op # "config"
    BY <1>4 DEF PollInput, PollOutput, Poll, ReadData, CpuReads, hwVars, At
  <2> QED
    BY <1>1, <1>2, <2>1 DEF CfgToBe
<1>5. CASE WriteCommand
  <2>1. a.op = "command" /\ inbuf' = <<CommandWrite(a.arg)>>
    BY <1>5 DEF WriteCommand, At, CpuWrites
  <2>2. m \in {"quiet", "clear"}
    BY <1>3, <2>1, MoodOfAccess
  <2>3. route = "device1"
    BY <1>3, <2>2, MoodSplit, QuietIsIdle DEF Quiet
  <2>4. CfgToBe' = CfgToBe
    BY <1>1, <2>3 DEF CfgToBe
  <2>5. phase = "restore" => a.arg # "DISABLE_2"
    <3>1. phase = "restore" => \/ a.arg \in Silent /\ a.arg # "DISABLE_2"
                               \/ MayAsk(phase, a.arg)
                               \/ a.arg = "WRITE_CONFIG"
      BY <1>3, <2>1, MoodOfAccess DEF MaySwitch
    <3> QED
      BY <3>1 DEF MayAsk, Questions
  <2>6. phase = "restore" => inbuf' # <<CommandWrite("DISABLE_2")>>
    BY <2>1, <2>5, WriteFields
  <2> QED
    BY <1>1, <1>2, <2>1, <2>4, <2>6
<1>6. CASE WriteData /\ a.op = "config"
  <2>1. inbuf' = <<DataWrite(config)>>
    BY <1>6 DEF WriteData, At, CpuWrites
  <2>2. route = "config"
    BY <1>3, <1>6, MoodOfAccess, MoodSplit DEF Taken
  <2>3. CfgToBe' = config
    <3>1. inbuf'[1].port = "data" /\ inbuf'[1].value = config /\ inbuf' # <<>>
      BY <2>1, WriteFields
    <3> QED
      BY <1>1, <2>2, <3>1 DEF CfgToBe
  <2>4. inbuf' # <<CommandWrite("DISABLE_2")>>
    BY <2>1, WriteFields
  <2> QED
    BY <1>1, <1>2, <1>6, <2>3, <2>4
<1>7. CASE WriteData /\ a.op = "reset"
  <2>1. inbuf' = <<DataWrite(BFF)>>
    BY <1>7 DEF WriteData, At, CpuWrites
  <2>2. m = "clear"
    BY <1>3, <1>7, MoodOfAccess
  <2>3. route = "device1"
    BY <1>3, <2>2, MoodSplit DEF Clear
  <2>4. CfgToBe' = CfgToBe
    BY <1>1, <2>3 DEF CfgToBe
  <2>5. inbuf' # <<CommandWrite("DISABLE_2")>>
    BY <2>1, WriteFields
  <2> QED
    BY <1>1, <1>2, <1>7, <2>4, <2>5
<1> QED
  BY <1>4, <1>5, <1>6, <1>7 DEF PortAccess, WriteData, At

\* Where the configuration is written.
LEMMA ConfigWrites ==
    /\ \A ph \in Masked \ {"dualconfig"} : \A s \in 1..Len(Script[ph]) : Script[ph][s].op # "config"
    /\ \A s \in 1..Len(Script["reset1"]) : Script["reset1"][s].op # "config"
    /\ Script["restore"][4].op = "config" /\ Len(Script["restore"]) = 10
    /\ \A s \in 5..10 : Script["restore"][s].op # "config"
    /\ \A ph \in {"dualconfig", "irqwrite"} : /\ Len(Script[ph]) = 4
                                             /\ Script[ph][4].op = "config"
<1>1. /\ WaitIn.op # "config" /\ WaitOut.op # "config" /\ TryIn.op # "config"
      /\ WriteReset.op # "config" /\ Read.op # "config" /\ \A c : Cmd(c).op # "config"
      /\ WriteConfigByte.op = "config"
  BY AccessOps
<1>2. ASSUME NEW c, NEW s \in 1..4 PROVE <<WaitIn, Cmd(c), WaitOut, Read>>[s].op # "config"
  <2>1. s = 1 \/ s = 2 \/ s = 3 \/ s = 4
    OBVIOUS
  <2> QED
    BY <1>1, <2>1
<1>3. ASSUME NEW c, NEW s \in 1..2 PROVE <<WaitIn, Cmd(c)>>[s].op # "config"
  <2>1. s = 1 \/ s = 2
    OBVIOUS
  <2> QED
    BY <1>1, <2>1
<1>4. \A s \in 1..Len(Script["dual"]) : Script["dual"][s].op # "config"
  <2> SUFFICES ASSUME NEW s \in 1..6 PROVE Script["dual"][s].op # "config"
    BY DualScript
  <2>1. s = 1 \/ s = 2 \/ s = 3 \/ s = 4 \/ s = 5 \/ s = 6
    OBVIOUS
  <2> QED
    BY <1>1, <2>1, DualScript
<1>5. \A s \in 1..Len(Script["reset1"]) : Script["reset1"][s].op # "config"
  <2> SUFFICES ASSUME NEW s \in 1..2 PROVE Script["reset1"][s].op # "config"
    BY ShortScripts
  <2>1. s = 1 \/ s = 2
    OBVIOUS
  <2> QED
    BY <1>1, <2>1, ShortScripts
<1>6. \A s \in 5..10 : Script["restore"][s].op # "config"
  <2> SUFFICES ASSUME NEW s \in 5..10 PROVE Script["restore"][s].op # "config"
    OBVIOUS
  <2>1. s = 5 \/ s = 6 \/ s = 7 \/ s = 8 \/ s = 9 \/ s = 10
    OBVIOUS
  <2> QED
    BY <1>1, <2>1, RestoreScript
<1>7. \A ph \in {"port1", "port2", "irq"} :
          \A s \in 1..Len(Script[ph]) : Script[ph][s].op # "config"
  <2>1. \A ph \in {"port1", "port2", "irq"} :
          Len(Script[ph]) = 4 /\ \E c : Script[ph] = <<WaitIn, Cmd(c), WaitOut, Read>>
    BY ShortScripts
  <2> QED
    BY <1>2, <2>1
<1>8. \A ph \in {"enable1", "enable2"} : \A s \in 1..Len(Script[ph]) : Script[ph][s].op # "config"
  <2>1. \A ph \in {"enable1", "enable2"} :
          Len(Script[ph]) = 2 /\ \E c : Script[ph] = <<WaitIn, Cmd(c)>>
    BY ShortScripts
  <2> QED
    BY <1>3, <2>1
<1>9. Script["restore"][4].op = "config" /\ Len(Script["restore"]) = 10
  BY <1>1, RestoreScript
<1>10. \A ph \in {"dualconfig", "irqwrite"} : Len(Script[ph]) = 4 /\ Script[ph][4].op = "config"
  <2>1. /\ Len(Script["dualconfig"]) = 4 /\ Script["dualconfig"][4] = WriteConfigByte
        /\ Len(Script["irqwrite"]) = 4 /\ Script["irqwrite"][4] = WriteConfigByte
    BY ShortScripts
  <2> QED
    BY <1>1, <2>1
<1> QED
  BY <1>4, <1>5, <1>6, <1>7, <1>8, <1>9, <1>10 DEF Masked
\* An early step that moves the configuration where it was going anyway.
LEMMA EarlyConfigKept ==
    ASSUME TypeOK, ConfigInv, phase \in Early, UNCHANGED <<phase, config, valid>>,
           phase = "restore" => inbuf' # <<CommandWrite("DISABLE_2")>>,
           phase = "restore" /\ step' >= 5 => 0 \notin CfgToBe' /\ 5 \notin CfgToBe',
           phase \in Masked => 0 \notin cfg',
           \/ phase = "dualconfig" /\ CfgToBe' = config
           \/ phase = "irqwrite" /\ CfgToBe' = config
           \/ /\ \A b \in {0, 1} : b \in CfgToBe' <=> b \in CfgToBe
              /\ phase \in {"dualconfig", "irqwrite"} => (AtEnd' => AtEnd)
           \/ phase = "restore"
    PROVE  ConfigInv'
<1>1. (phase = "irqwrite" => IrqBits(config)) /\ (phase = "reset1" => IrqBits(CfgToBe))
  BY DEF ConfigInv, IrqInv
<1>2. ASSUME \A b \in {0, 1} : b \in CfgToBe' <=> b \in CfgToBe
      PROVE  IrqBits(CfgToBe)' <=> IrqBits(CfgToBe)
  BY <1>2 DEF IrqBits, INTERRUPT_BIT, Port
<1>3. IrqBits(config)' <=> IrqBits(config)
  BY DEF IrqBits
<1>4. CfgToBe' = config => (IrqBits(CfgToBe)' <=> IrqBits(config))
  BY DEF IrqBits
<1>5. RestoreInv'
  BY DEF ConfigInv, RestoreInv
<1>6. MaskInv'
  BY DEF ConfigInv, MaskInv, Masked, BothMasked
<1>7. IrqInv'
  BY <1>1, <1>2, <1>3, <1>4 DEF ConfigInv, IrqInv
<1>8. LateInv'
  BY DEF LateInv, Late, Early
<1> QED
  BY <1>5, <1>6, <1>7, <1>8 DEF ConfigInv

LEMMA HwKeepsConfig ==
    ASSUME TypeOK, Orderly, Dialogue, ConfigInv, phase \in Early, HwNext, UNCHANGED driverVars
    PROVE  ConfigInv'
<1>1. UNCHANGED <<phase, step, config, valid>> /\ (AtEnd' <=> AtEnd)
  BY DEF driverVars, AtEnd
<1>2. CASE phase = "selfcheck"
  <2>1. RestoreInv' /\ MaskInv' /\ IrqInv' /\ LateInv'
    BY <1>1, <1>2 DEF ConfigInv, RestoreInv, MaskInv, IrqInv, LateInv, Masked,
       BothMasked, Late
  <2> QED
    BY <2>1 DEF ConfigInv
<1>3. CASE phase # "selfcheck"
  <2>1. /\ \A b \in {0, 1} : b \in cfg' <=> b \in CfgToBe
        /\ inbuf # <<CommandWrite("DISABLE_2")>> => (5 \in cfg' => 5 \in CfgToBe)
        /\ CfgToBe' = cfg'
        /\ inbuf' = inbuf \/ inbuf' = <<>>
    BY <1>3, HwConfig
  <2>2. phase = "restore" => /\ inbuf' # <<CommandWrite("DISABLE_2")>>
                             /\ step' >= 5 => 0 \notin CfgToBe' /\ 5 \notin CfgToBe'
    BY <1>1, <2>1 DEF ConfigInv, RestoreInv
  <2>3. phase \in Masked => 0 \notin cfg'
    BY <2>1 DEF ConfigInv, MaskInv
  <2>4. \A b \in {0, 1} : b \in CfgToBe' <=> b \in CfgToBe
    BY <2>1
  <2> QED
    BY <1>1, <2>2, <2>3, <2>4, EarlyConfigKept
<1> QED
  BY <1>2, <1>3

LEMMA AccessKeepsConfig ==
    ASSUME TypeOK, Orderly, Dialogue, ConfigInv, phase \in Early, PortAccess
    PROVE  ConfigInv'
<1> DEFINE a == Script[phase][step]
<1>1. /\ UNCHANGED <<phase, cfg, config, valid>> /\ ~AtEnd
      /\ step' \in {step, step + 1}
      /\ IF a.op = "config" THEN CfgToBe' = config ELSE CfgToBe' = CfgToBe
      /\ phase = "restore" => inbuf' = inbuf \/ inbuf' # <<CommandWrite("DISABLE_2")>>
  BY AccessConfig
<1>2. step \in 1..Len(Script[phase]) /\ Len(Script[phase]) \in Nat
  BY <1>1, ScriptStep DEF TypeOK, DriverTypeOK, AtEnd
<1>3. AtEnd' => step = Len(Script[phase])
  BY <1>1, <1>2 DEF AtEnd
<1>4. CASE phase \in {"disable", "selfcheck"}
  <2>1. RestoreInv' /\ MaskInv' /\ IrqInv' /\ LateInv'
    BY <1>1, <1>4 DEF ConfigInv, RestoreInv, MaskInv, IrqInv, LateInv, Masked,
       BothMasked, Late
  <2> QED
    BY <2>1 DEF ConfigInv
<1>5. CASE phase = "restore"
  <2>1. inbuf' # <<CommandWrite("DISABLE_2")>>
    BY <1>1, <1>5 DEF ConfigInv, RestoreInv
  <2>2. ASSUME step' >= 5 PROVE 0 \notin CfgToBe' /\ 5 \notin CfgToBe'
    <3>1. step \in 4..10
      BY <1>1, <1>2, <1>5, <2>2, ConfigWrites
    <3>2. CASE step = 4
      BY <1>1, <1>5, <3>2, ConfigWrites DEF ConfigInv, RestoreInv
    <3>3. CASE step \in 5..10
      BY <1>1, <1>5, <3>3, ConfigWrites DEF ConfigInv, RestoreInv
    <3> QED
      BY <3>1, <3>2, <3>3
  <2>3. phase \notin Masked
    BY <1>5 DEF Masked
  <2> QED
    BY <1>1, <1>5, <2>1, <2>2, <2>3, EarlyConfigKept
<1>6. CASE phase \in (Masked \ {"dualconfig"}) \cup {"reset1"}
  <2>1. a.op # "config"
    BY <1>2, <1>6, ConfigWrites
  <2>2. CfgToBe' = CfgToBe /\ (phase \in Masked => 0 \notin cfg')
    BY <1>1, <2>1 DEF ConfigInv, MaskInv
  <2>3. phase \notin {"restore", "dualconfig", "irqwrite"}
    BY <1>6 DEF Masked
  <2>4. \A b \in {0, 1} : b \in CfgToBe' <=> b \in CfgToBe
    BY <2>2
  <2> QED
    BY <1>1, <2>2, <2>3, <2>4, EarlyConfigKept
<1>7. CASE phase \in {"dualconfig", "irqwrite"}
  <2>1. phase \in Masked => 0 \notin cfg'
    BY <1>1 DEF ConfigInv, MaskInv
  <2>2. CASE a.op = "config"
    BY <1>1, <1>7, <2>1, <2>2, EarlyConfigKept
  <2>3. CASE a.op # "config"
    <3>1. ~AtEnd'
      BY <1>3, <1>7, <2>3, ConfigWrites
    <3>2. \A b \in {0, 1} : b \in CfgToBe' <=> b \in CfgToBe
      BY <1>1, <2>3
    <3> QED
      BY <1>1, <1>7, <2>1, <3>1, <3>2, EarlyConfigKept
  <2> QED
    BY <2>2, <2>3
<1> QED
  BY <1>4, <1>5, <1>6, <1>7 DEF Early, Masked

\* After the interrupts are set up only a reset byte or its prefix is written.
LEMMA LateAccess ==
    ASSUME TypeOK, ConfigInv, phase \in Late, PortAccess
    PROVE  ConfigInv'
<1>1. UNCHANGED <<phase, cfg, valid, route>>
  BY DEF PortAccess, PollInput, PollOutput, Poll, WriteCommand, WriteData, ReadData, Access,
     CpuReads, CpuWrites, hwVars
<1>2. inbuf' \in {inbuf, <<DataWrite(BFF)>>, <<CommandWrite("WRITE_PORT2_INPUT")>>}
  <2>1. CASE WriteCommand \/ WriteData
    <3>1. ~AtEnd /\ Script[phase][step].op \in {"command", "config", "reset"}
      BY <2>1 DEF WriteCommand, WriteData, At
    <3>2. step \in 1..Len(Script[phase])
      BY <3>1, ScriptStep DEF TypeOK, DriverTypeOK, AtEnd
    <3>3. phase = "reset2"
      <4>1. CASE phase \in ResetReads
        <5>1. Script[phase] = <<TryOut, Read>>
          BY <4>1, ScriptDevice
        <5>2. step = 1 \/ step = 2
          BY <3>2, <5>1
        <5> QED
          BY <3>1, <5>1, <5>2, AccessOps
      <4>2. CASE phase = "done"
        BY <3>2, <4>2 DEF Script
      <4> QED
        BY <4>1, <4>2 DEF Late, ResetReads
    <3>4. Script["reset2"] = <<TryIn, Cmd("WRITE_PORT2_INPUT"), TryIn, WriteReset>>
      BY ShortScripts
    <3>5. step = 1 \/ step = 2 \/ step = 3 \/ step = 4
      BY <3>2, <3>3, <3>4
    <3>6. \/ Script[phase][step] = Cmd("WRITE_PORT2_INPUT")
          \/ Script[phase][step] = WriteReset
      BY <3>1, <3>3, <3>4, <3>5, AccessOps
    <3> QED
      BY <2>1, <3>6, AccessOps DEF WriteCommand, WriteData, CpuWrites, At
  <2>2. CASE PollInput \/ PollOutput \/ ReadData
    BY <2>2 DEF PollInput, PollOutput, Poll, ReadData, CpuReads, hwVars
  <2> QED
    BY <2>1, <2>2 DEF PortAccess
<1>3. IrqBits(cfg)' <=> IrqBits(cfg)
  BY <1>1 DEF IrqBits
<1>4. LateInv'
  BY <1>1, <1>2, <1>3 DEF ConfigInv, LateInv
<1> QED
  BY <1>1, <1>4 DEF ConfigInv, RestoreInv, MaskInv, IrqInv, Late, Masked, BothMasked

LEMMA LateHw ==
    ASSUME TypeOK, Orderly, ConfigInv, phase \in Late, HwNext, UNCHANGED driverVars
    PROVE  ConfigInv'
<1>1. UNCHANGED <<phase, valid>>
  BY DEF driverVars
<1>2. route # "config"
  BY DEF ConfigInv, LateInv
<1>3. cfg' = cfg /\ route' # "config" /\ (inbuf' = inbuf \/ inbuf' = <<>>)
  <2>1. CASE ControllerNext /\ reply # <<>>
    BY <1>2, <2>1, Delivering
  <2>2. CASE ControllerNext /\ reply = <<>>
    <3>1. inbuf # <<>>
      BY <2>2, Resting
    <3>2. CASE inbuf = <<DataWrite(BFF)>>
      BY <1>2, <2>2, <3>2, TakingData
    <3>3. CASE inbuf = <<CommandWrite("WRITE_PORT2_INPUT")>>
      BY <1>2, <2>2, <3>3, TakingCommand
    <3> QED
      BY <3>1, <3>2, <3>3 DEF ConfigInv, LateInv
  <2>3. CASE \E p \in Port : DeviceSends(p) \/ DeviceChatters(p)
    BY <1>2, <2>3 DEF DeviceSends, DeviceChatters
  <2> QED
    BY <2>1, <2>2, <2>3 DEF HwNext
<1>4. IrqBits(cfg)' <=> IrqBits(cfg)
  BY <1>1, <1>3 DEF IrqBits
<1>5. LateInv'
  BY <1>1, <1>3, <1>4 DEF ConfigInv, LateInv
<1> QED
  BY <1>1, <1>5 DEF ConfigInv, RestoreInv, MaskInv, IrqInv, Late, Masked, BothMasked
\* The decisions of the dialogue, and what they do to the configuration to write.
LEMMA DecideKeepsConfig ==
    ASSUME TypeOK, Orderly, Dialogue, HeardInv, ConfigInv, Decide
    PROVE  ConfigInv'
<1>1. AtEnd /\ step' = 1 /\ UNCHANGED hwVars
  BY DecideEnters
<1>2. CfgToBe' = CfgToBe /\ UNCHANGED <<cfg, inbuf, route>>
  BY <1>1 DEF hwVars, CfgToBe
<1>3. ASSUME phase \in Early, Ends(phase) = "clear"
      PROVE  CfgToBe = cfg /\ inbuf = <<>>
  <2>1. Clear
    BY <1>1, <1>3, MoodAtEnd, MoodSplit DEF Dialogue, MoodInv
  <2> QED
    BY <2>1 DEF Clear, CfgToBe
<1>4. phase \in ReadsConfig => in.byte = cfg /\ CfgToBe = cfg /\ phase \in Early
  BY <1>1, <1>3, LastRead DEF HeardInv
<1> USE DEF Deciding, Enter
<1>5. CASE FirstConfig
  <2>1. phase' = "selfcheck" /\ 0 \notin config' /\ 5 \notin config'
    BY <1>5 DEF FirstConfig, TRANSLATE_1_BIT, INTERRUPT_BIT
  <2> QED
    BY <2>1 DEF ConfigInv, RestoreInv, MaskInv, IrqInv, LateInv, Masked,
       BothMasked, Late
<1>6. CASE ControllerSelfCheck
  <2>1. phase = "selfcheck" /\ phase' \in {"restore", "failed"} /\ config' = config
    BY <1>6 DEF ControllerSelfCheck
  <2>2. inbuf = <<>> /\ inbuf' = <<>>
    BY <1>2, <1>3, <2>1 DEF Early, Ends
  <2>3. 0 \notin config /\ 5 \notin config
    BY <2>1 DEF ConfigInv, RestoreInv
  <2>4. ~(step' >= 5) /\ inbuf' # <<CommandWrite("DISABLE_2")>>
    BY <1>1, <2>2
  <2> QED
    BY <2>1, <2>3, <2>4 DEF ConfigInv, RestoreInv, MaskInv, IrqInv, LateInv, Masked,
       BothMasked, Late
<1>7. CASE CheckDualChannel
  <2>1. phase = "restore" /\ step >= 5
    <3>1. phase = "restore"
      BY <1>7 DEF CheckDualChannel
    <3> QED
      BY <1>1, <3>1, ConfigWrites DEF AtEnd, TypeOK, DriverTypeOK
  <2>2. in.byte = cfg /\ CfgToBe = cfg /\ 0 \notin cfg /\ 5 \notin cfg
    BY <1>4, <2>1 DEF ReadsConfig, ConfigInv, RestoreInv
  <2>3. phase' = "dual"
    BY <1>7, <2>2 DEF CheckDualChannel, CLOCK_2_BIT
  <2>4. MaskInv'
    BY <1>2, <2>2, <2>3 DEF MaskInv, BothMasked
  <2>5. RestoreInv' /\ IrqInv' /\ LateInv'
    BY <2>3 DEF RestoreInv, IrqInv, LateInv, Late
  <2> QED
    BY <2>4, <2>5 DEF ConfigInv
<1>8. CASE DualConfig
  <2>1. phase = "dual" /\ phase' = "dualconfig" /\ config' = in.byte \ {1, 5}
    BY <1>8 DEF DualConfig, INTERRUPT_BIT, CLOCK_2_BIT
  <2>2. in.byte = cfg /\ CfgToBe = cfg /\ 0 \notin cfg
    BY <1>4, <2>1 DEF ReadsConfig, ConfigInv, MaskInv, Masked
  <2>3. ~AtEnd'
    BY <1>1, <2>1, ConfigWrites DEF AtEnd
  <2> QED
    BY <1>2, <2>1, <2>2, <2>3 DEF ConfigInv, RestoreInv, MaskInv, IrqInv, LateInv, Masked,
       BothMasked, Late
<1>9. CASE DualDone
  <2>1. phase = "dualconfig" /\ phase' = "port1"
    BY <1>9 DEF DualDone
  <2>2. 0 \notin cfg /\ 0 \notin CfgToBe /\ 1 \notin CfgToBe
    BY <1>1, <2>1 DEF ConfigInv, MaskInv, Masked
  <2> QED
    BY <1>2, <2>1, <2>2 DEF ConfigInv, RestoreInv, MaskInv, IrqInv, LateInv, Masked,
       BothMasked, Late
<1>10. CASE Port1SelfCheck \/ Port2SelfCheck \/ PortsEnabled
  <2>1. phase \in BothMasked /\ phase' \in BothMasked \cup {"failed"}
    BY <1>10 DEF Port1SelfCheck, Port2SelfCheck, PortsEnabled, BothMasked
  <2>2. 0 \notin cfg /\ 0 \notin CfgToBe /\ 1 \notin CfgToBe
    BY <2>1 DEF ConfigInv, MaskInv, Masked, BothMasked
  <2> QED
    BY <1>2, <2>1, <2>2 DEF ConfigInv, RestoreInv, MaskInv, IrqInv, LateInv, Masked,
       BothMasked, Late
<1>11. CASE IrqConfig
  <2>1. /\ phase = "irq" /\ phase' = "irqwrite" /\ valid' = valid
        /\ config' = in.byte \cup {INTERRUPT_BIT(p) : p \in {q \in Port : valid[q]}}
    BY <1>11 DEF IrqConfig
  <2>2. in.byte = cfg /\ CfgToBe = cfg /\ 0 \notin cfg /\ 1 \notin cfg
    BY <1>4, <2>1 DEF ReadsConfig, ConfigInv, MaskInv, Masked, BothMasked
  <2>3. IrqBits(config)'
    <3>1. \A p \in Port : INTERRUPT_BIT(p) \notin in.byte
      BY <2>2 DEF Port, INTERRUPT_BIT
    <3>2. \A p, q \in Port : INTERRUPT_BIT(p) = INTERRUPT_BIT(q) => p = q
      BY DEF Port, INTERRUPT_BIT
    <3> HIDE DEF INTERRUPT_BIT
    <3>3. \A p \in Port : INTERRUPT_BIT(p) \in config' <=> valid[p]
      BY <2>1, <3>1, <3>2
    <3> QED
      BY <2>1, <3>3 DEF IrqBits
  <2>4. ~AtEnd'
    BY <1>1, <2>1, ConfigWrites DEF AtEnd
  <2> QED
    BY <2>1, <2>3, <2>4 DEF ConfigInv, RestoreInv, MaskInv, IrqInv, LateInv, Masked,
       BothMasked, Late
<1>12. CASE ResetDevices
  <2>1. phase = "irqwrite" /\ phase' = "reset1" /\ valid' = valid
    BY <1>12 DEF ResetDevices, StartReset
  <2>2. IrqBits(CfgToBe)'
    BY <1>1, <1>2, <2>1 DEF ConfigInv, IrqInv, IrqBits
  <2> QED
    BY <2>1, <2>2 DEF ConfigInv, RestoreInv, MaskInv, IrqInv, LateInv, Masked,
       BothMasked, Late
<1>13. CASE ResetSent \/ FirstByte \/ SecondByte \/ FirstIdByte \/ SecondIdByte
  <2>1. phase \in Late \cup {"reset1"} /\ phase' \in Late /\ valid' = valid
    BY <1>13 DEF ResetSent, FirstByte, SecondByte, FirstIdByte, SecondIdByte, Identified, Finish, Late
  <2>2. LateInv'
    <3>1. CASE phase \in Late
      BY <1>2, <2>1, <3>1 DEF ConfigInv, LateInv, IrqBits
    <3>2. CASE phase = "reset1"
      <4>1. Listening(1)
        BY <1>1, <3>2, MoodAtEnd, MoodSplit DEF Dialogue, MoodInv, Early, Ends
      <4>2. route = "device1" /\ CfgToBe = cfg
        BY <4>1 DEF Listening, CfgToBe, DeviceName
      <4>3. inbuf = <<>> \/ inbuf = <<DataWrite(BFF)>>
        BY <4>1 DEF Listening
      <4>4. IrqBits(cfg)
        BY <3>2, <4>2 DEF ConfigInv, IrqInv
      <4> QED
        BY <1>2, <2>1, <4>2, <4>3, <4>4 DEF LateInv, IrqBits
    <3> QED
      BY <2>1, <3>1, <3>2
  <2> QED
    BY <2>1, <2>2 DEF ConfigInv, RestoreInv, MaskInv, IrqInv, Late, Masked, BothMasked
<1> QED
  BY <1>5, <1>6, <1>7, <1>8, <1>9, <1>10, <1>11, <1>12, <1>13 DEF Decide

\* Every configuration byte the driver computes, has on its way or has written is
\* the one it means to have, on every orderly machine (ps2_init,
\* ps2_check_dual_channel, ps2_enable_ports).
THEOREM ConfigIsAsIntended == Spec => []ConfigIsKept
<1>1. Init => ConfigIsKept
  BY DEF Init, ConfigIsKept, ConfigInv, RestoreInv, MaskInv, IrqInv, LateInv, Masked, BothMasked, Late
<1>2. TypeOK /\ Dialogue /\ ConfigIsHeard /\ ConfigIsKept /\ [Next]_vars => ConfigIsKept'
  <2> SUFFICES ASSUME TypeOK, Dialogue, ConfigIsHeard, ConfigIsKept, [Next]_vars, Orderly'
               PROVE  ConfigInv'
    BY DEF ConfigIsKept
  <2>1. Orderly /\ HeardInv /\ ConfigInv
    BY MachineStands DEF Orderly, ConfigIsHeard, ConfigIsKept
  <2>2. phase \in Early \cup Late \cup {"failed"}
    BY Phases DEF TypeOK, DriverTypeOK, Early, Late
  <2>3. ASSUME phase = "failed", phase' = phase PROVE ConfigInv'
    BY <2>3 DEF ConfigInv, RestoreInv, MaskInv, IrqInv, LateInv, Masked,
       BothMasked, Late
  <2>4. CASE PortAccess
    <3>1. phase' = phase
      BY <2>4, AccessKeeps
    <3> QED
      BY <2>1, <2>2, <2>3, <2>4, <3>1, AccessKeepsConfig, LateAccess
  <2>5. CASE Decide
    BY <2>1, <2>5, DecideKeepsConfig
  <2>6. CASE HwNext /\ UNCHANGED driverVars
    <3>1. phase' = phase
      BY <2>6 DEF driverVars
    <3> QED
      BY <2>1, <2>2, <2>3, <2>6, <3>1, HwKeepsConfig, LateHw
  <2>7. CASE UNCHANGED vars
    BY <2>1, <2>7 DEF vars, hwVars, driverVars, ConfigInv, RestoreInv, MaskInv, IrqInv, LateInv,
       CfgToBe, IrqBits, AtEnd
  <2> QED
    BY <2>4, <2>5, <2>6, <2>7 DEF Next, Driver
<1> QED
  BY <1>1, <1>2, TypeCorrect, DialogueIsKept, ReadsBackTheConfig, PTL DEF Spec

\* Once ps2_enable_ports has run, the controller of an orderly machine interrupts
\* for exactly the ports that passed their test, and before that not for port 1
\* (the configuration bytes ps2_init, ps2_check_dual_channel and ps2_enable_ports
\* write).
THEOREM InterruptsFollowValidity == Spec => []IrqFollowsValidity
<1>1. ConfigIsKept => IrqFollowsValidity
  BY DEF ConfigIsKept, ConfigInv, MaskInv, LateInv, IrqFollowsValidity, Masked, Late, IrqBits,
     INTERRUPT_BIT
<1> QED
  BY <1>1, ConfigIsAsIntended, PTL

-----------------------------------------------------------------------------
(***************************************************************************)
(* What device 1 is heard to say.                                          *)
(***************************************************************************)
\* How many bytes of a device's answer have been read when a phase begins.
Count == [ack |-> 0, bat |-> 1, id1 |-> 2, id2 |-> 3]

Reading(p) == phase \in ResetReads /\ device = p
ReadInv(p) == Reading(p) =>
    /\ Listening(p)
    /\ step <= 2 => Len(got[p]) = Count[phase]
    /\ step = 2 => error = "none"
    /\ step = 3 /\ error = "timeout" => Len(got[p]) = Count[phase]
    /\ step = 3 /\ error = "none" =>
          Len(got[p]) = Count[phase] + 1 /\ in = got[p][Count[phase] + 1]
VerdictInv ==
    /\ phase \in {"id1", "id2"} /\ device = 1 => Acked(hw.answer[1])
    /\ phase = "reset2" => device = 2
    /\ status[1] = "okay" => Acked(hw.answer[1])

AnswerIsHeard == Orderly => ReadInv(1) /\ VerdictInv

LEMMA CountType == \A ph \in ResetReads : Count[ph] \in 0..3
  BY DEF Count, ResetReads

\* The bytes read stay the beginning of the answer when one more is read.
LEMMA ReadHears ==
    ASSUME TypeOK, NEW p \in Port, Heard(p), obf = TRUE, hw' = hw, devq' = devq, obf' = FALSE,
           got' = [got EXCEPT ![p] = Append(@, latch)]
    PROVE  Heard(p)' /\ Len(got'[p]) = Len(got[p]) + 1 /\ latch = got'[p][Len(got[p]) + 1]
<1> DEFINE answer == hw.answer[p]
           n == Len(got[p])
           q == devq[p]
<1>1. got[p] \in Seq(Received) /\ latch \in Received /\ q \in Seq(Byte)
      /\ got \in [Port -> Seq(Received)]
  BY DEF TypeOK, HwTypeOK, DriverTypeOK
<1>2. /\ n \in Nat /\ got'[p] = Append(got[p], latch)
      /\ Len(got'[p]) = n + 1 /\ got'[p][n + 1] = latch
      /\ \A i \in 1..n : got'[p][i] = got[p][i]
  BY <1>1, AppendProperties
<1>3. /\ n + 1 + Len(q) = Len(answer) /\ latch.byte = answer[n + 1]
      /\ \A i \in 1..n : got[p][i].byte = answer[i]
      /\ \A i \in 1..Len(q) : q[i] = answer[n + 1 + i]
  BY DEF Heard, InBuffer
<1>4. InBuffer' = 0 /\ answer' = answer /\ devq'[p] = q
  BY DEF InBuffer
<1> HIDE DEF answer, n, q
<1>5. \A i \in 1..(n + 1) : got'[p][i].byte = answer[i]
  <2> SUFFICES ASSUME NEW i \in 1..(n + 1) PROVE got'[p][i].byte = answer[i]
    OBVIOUS
  <2>1. i \in 1..n \/ i = n + 1
    BY <1>2
  <2> QED
    BY <1>2, <1>3, <2>1
<1>6. Len(got'[p]) + 0 + Len(q) = Len(answer) /\ Len(got'[p]) + 0 = n + 1
  <2>1. Len(got'[p]) + 0 = n + 1
    BY <1>2
  <2> QED
    BY <1>3, <2>1
<1>7. Heard(p)'
  <2>1. Len(got'[p]) + InBuffer' + Len(devq'[p]) = Len(answer')
    BY <1>4, <1>6
  <2>2. \A i \in 1..Len(got'[p]) : got'[p][i].byte = answer'[i]
    BY <1>2, <1>4, <1>5
  <2>3. \A i \in 1..Len(devq'[p]) : devq'[p][i] = answer'[Len(got'[p]) + InBuffer' + i]
    BY <1>3, <1>4, <1>6
  <2> QED
    BY <2>1, <2>2, <2>3 DEF Heard, answer
<1> QED
  BY <1>2, <1>7 DEF n

LEMMA ReadingWait ==
    ASSUME TypeOK, Orderly, NEW p \in Port, ReadInv(p), Reading(p), PollOutput
    PROVE  ReadInv(p)'
<1>1. Script[phase] = <<TryOut, Read>> /\ Len(Script[phase]) = 2
  BY ScriptDevice DEF Reading
<1>2. step = 1 /\ At({"tryin", "tryout"})
  <2>1. step \in 1..2 /\ Script[phase][step].op \in {"waitout", "tryout"} /\ ~AtEnd
    BY <1>1 DEF PollOutput, At, AtEnd, TypeOK, DriverTypeOK
  <2>2. step = 1
    BY <1>1, <2>1, AccessOps
  <2> QED
    BY <1>1, <2>1, <2>2, AccessOps DEF At
<1>3. UNCHANGED <<hwVars, phase, device, in, got>>
  BY DEF PollOutput, Poll
<1>4. \/ step' = 2 /\ error' = "none"
      \/ step' = 3 /\ error' = "timeout"
      \/ step' = step
  <2>1. \/ WaitReturns("none")
        \/ WaitReturns("timeout")
        \/ step' = step
    BY DEF PollOutput, Poll
  <2> QED
    BY <1>1, <1>2, <2>1 DEF WaitReturns
<1>5. Listening(p)' /\ (Reading(p)' <=> Reading(p))
  BY <1>3 DEF ReadInv, Listening, Heard, InBuffer, hwVars, Reading
<1>6. Len(got'[p]) = Count[phase'] /\ step' \in {1, 2, 3}
  BY <1>2, <1>3, <1>4 DEF ReadInv
<1> QED
  BY <1>2, <1>4, <1>5, <1>6 DEF ReadInv

LEMMA ReadingRead ==
    ASSUME TypeOK, Orderly, CheckedReadIsFresh, NEW p \in Port, ReadInv(p), Reading(p), ReadData
    PROVE  ReadInv(p)'
<1>1. Script[phase] = <<TryOut, Read>> /\ Len(Script[phase]) = 2
  BY ScriptDevice DEF Reading
<1>2. step = 2 /\ step' = 3 /\ UNCHANGED <<phase, error, device>>
  <2>1. step \in 1..2 /\ Script[phase][step].op = "read" /\ ~AtEnd
    BY <1>1 DEF ReadData, At, AtEnd, TypeOK, DriverTypeOK
  <2>2. step = 2
    BY <1>1, <2>1, AccessOps
  <2> QED
    BY <2>2 DEF ReadData, Access
<1>3. obf = TRUE /\ hw.present
  BY DEF CheckedReadIsFresh, Reading, ReadData, OutputReady, Orderly, TypeOK, HwTypeOK
<1>4. /\ Heard(p) /\ inbuf = <<>> /\ route = "device1" /\ reply = <<>>
      /\ \A q \in Port \ {p} : devq[q] = <<>>
  BY <1>3 DEF ReadInv, Listening
<1>5. /\ in' = latch /\ got' = [got EXCEPT ![p] = Append(@, latch)]
      /\ obf' = FALSE /\ UNCHANGED <<hw, inbuf, route, reply, devq>>
  BY <1>3 DEF ReadData, DataPort, CpuReads, Reading
<1>6. Heard(p)' /\ Len(got'[p]) = Len(got[p]) + 1 /\ in' = got'[p][Len(got[p]) + 1]
  BY <1>3, <1>4, <1>5, ReadHears
<1>7. Listening(p)'
  BY <1>4, <1>5, <1>6 DEF Listening
<1>8. Len(got[p]) = Count[phase]
  BY <1>2 DEF ReadInv
<1> QED
  BY <1>2, <1>6, <1>7, <1>8 DEF ReadInv

\* A device's turn ends without a verdict that the answer does not bear out.
LEMMA FinishKeepsAnswer ==
    ASSUME TypeOK, VerdictInv, UNCHANGED hw, NEW s \in DeviceStatus, Finish(s),
           s = "okay" /\ device = 1 => Acked(hw.answer[1])
    PROVE  ReadInv(1)' /\ VerdictInv'
<1>1. status \in [Port -> DeviceStatus] /\ 1 \in Port /\ 2 \in Port
  BY DEF TypeOK, DriverTypeOK, Port
<1>2. phase' \in {"reset2", "done"} /\ (phase' = "reset2" => device' = 2)
  BY DEF Finish, Enter
<1>3. status'[1] = "okay" => Acked(hw.answer[1])
  <2>1. CASE device = 1
    <3>1. status' = [status EXCEPT ![1] = s, ![2] = "not_connected"]
      BY <2>1 DEF Finish
    <3>2. status'[1] = s
      BY <1>1, <3>1
    <3> QED
      BY <2>1, <3>2
  <2>2. CASE device # 1
    <3>1. status' = [status EXCEPT ![2] = s]
      BY <2>2 DEF Finish
    <3>2. status'[1] = status[1]
      BY <1>1, <3>1
    <3> QED
      BY <3>2 DEF VerdictInv
  <2> QED
    BY <2>1, <2>2
<1>4. Acked(hw.answer[1])' <=> Acked(hw.answer[1])
  BY DEF Acked
<1>5. VerdictInv'
  BY <1>2, <1>3, <1>4 DEF VerdictInv
<1>6. ReadInv(1)'
  BY <1>2 DEF ReadInv, Reading, ResetReads
<1> QED
  BY <1>5, <1>6

\* The next byte is waited for after the last one has come.
LEMMA NextByte ==
    ASSUME TypeOK, AtEnd, UNCHANGED hwVars, error = "none",
           NEW p \in Port, ReadInv(p), phase \in ResetReads,
           NEW ph \in ResetReads, Enter(ph), Count[ph] = Count[phase] + 1, UNCHANGED device
    PROVE  ReadInv(p)'
<1>1. phase' = ph /\ step' = 1 /\ UNCHANGED <<got, error, in, hw>>
  BY DEF Enter, hwVars
<1>2. step = 3
  <2>1. Len(Script[phase]) = 2
    BY ScriptDevice
  <2> QED
    BY <2>1 DEF AtEnd, TypeOK, DriverTypeOK
<1>3. Reading(p)' => Reading(p)
  BY DEF Reading
<1>4. Reading(p) => Listening(p)' /\ Len(got'[p]) = Count[ph]
  BY <1>1, <1>2 DEF ReadInv, Listening, Heard, InBuffer, hwVars
<1> QED
  BY <1>1, <1>3, <1>4 DEF ReadInv

\* And device 1 is not asked for its id before it has acknowledged.
LEMMA NextByte1 ==
    ASSUME TypeOK, ReadInv(1), VerdictInv, AtEnd, UNCHANGED hwVars, error = "none",
           phase \in ResetReads, NEW ph \in ResetReads, Enter(ph), Count[ph] = Count[phase] + 1,
           UNCHANGED <<device, status>>,
           ph \in {"id1", "id2"} /\ device = 1 => Acked(hw.answer[1])
    PROVE  ReadInv(1)' /\ VerdictInv'
<1>1. phase' = ph /\ hw' = hw
  BY DEF Enter, hwVars
<1>2. Acked(hw.answer[1])' <=> Acked(hw.answer[1])
  BY <1>1 DEF Acked
<1>3. VerdictInv'
  BY <1>1, <1>2 DEF VerdictInv, ResetReads
<1>4. ReadInv(1)'
  BY NextByte DEF Port
<1> QED
  BY <1>3, <1>4


LEMMA DecideKeepsAnswer ==
    ASSUME TypeOK, Orderly, Dialogue, ReadInv(1), VerdictInv, Decide
    PROVE  ReadInv(1)' /\ VerdictInv'
<1>1. AtEnd /\ step' = 1 /\ UNCHANGED hwVars
  BY DecideEnters
<1>2. hw' = hw /\ (Acked(hw.answer[1])' <=> Acked(hw.answer[1]))
  BY <1>1 DEF hwVars, Acked
<1> USE DEF Deciding
<1>3. ASSUME phase' \notin ResetReads \cup {"reset2"}, status'[1] \in {status[1], "not_connected"}
      PROVE  ReadInv(1)' /\ VerdictInv'
  BY <1>2, <1>3 DEF ReadInv, VerdictInv, Reading, ResetReads
<1>4. CASE FirstConfig \/ ControllerSelfCheck \/ CheckDualChannel \/ DualConfig \/ DualDone
           \/ Port1SelfCheck \/ Port2SelfCheck \/ PortsEnabled \/ IrqConfig
  <2>1. phase' \notin ResetReads \cup {"reset2"}
    BY <1>4 DEF FirstConfig, ControllerSelfCheck, CheckDualChannel, DualConfig, DualDone,
       Port1SelfCheck, Port2SelfCheck, PortsEnabled, IrqConfig, Enter, ResetReads
  <2>2. status' = status
    BY <1>4 DEF FirstConfig, ControllerSelfCheck, CheckDualChannel, DualConfig, DualDone,
       Port1SelfCheck, Port2SelfCheck, PortsEnabled, IrqConfig
  <2> QED
    BY <1>3, <2>1, <2>2
<1>5. CASE ResetDevices
  <2>1. phase' = "reset1" /\ status' = [status EXCEPT ![1] = "not_connected"]
    BY <1>5 DEF ResetDevices, StartReset, Enter
  <2>2. status'[1] = "not_connected"
    BY <2>1 DEF TypeOK, DriverTypeOK, Port
  <2> QED
    BY <1>3, <2>1, <2>2 DEF ResetReads
<1>6. CASE ResetSent
  <2>1. /\ phase \in {"reset1", "reset2"} /\ phase' = "ack"
        /\ UNCHANGED <<device, status, got, error, in>>
    BY <1>6 DEF ResetSent, Enter
  <2>2. phase = "reset2" => device' = 2
    BY <2>1 DEF VerdictInv
  <2>3. ASSUME phase = "reset1" PROVE Listening(1)' /\ Len(got'[1]) = Count["ack"]
    <3>1. Listening(1) /\ got[1] = <<>>
      BY <1>1, <2>3, MoodAtEnd, MoodSplit DEF Dialogue, MoodInv, Early, Ends
    <3>2. Listening(1)'
      BY <1>1, <2>1, <3>1 DEF Listening, Heard, InBuffer, hwVars
    <3> QED
      BY <2>1, <3>1, <3>2 DEF Count
  <2>4. ReadInv(1)'
    BY <1>1, <2>1, <2>2, <2>3 DEF ReadInv, Reading
  <2>5. VerdictInv'
    BY <1>2, <2>1 DEF VerdictInv
  <2> QED
    BY <2>4, <2>5
<1>7. CASE FirstByte
  <2>1. CASE \E s \in DeviceStatus \ {"okay"} : Finish(s)
    BY <1>2, <2>1, FinishKeepsAnswer
  <2>2. CASE error = "none" /\ Enter("bat") /\ UNCHANGED <<device, status>>
    <3>1. phase = "ack" /\ Count["bat"] = Count["ack"] + 1
      BY <1>7 DEF FirstByte, Count
    <3> QED
      BY <1>1, <2>2, <3>1, NextByte1 DEF ResetReads
  <2> QED
    BY <1>7, <2>1, <2>2 DEF FirstByte, DeviceStatus
<1>8. CASE SecondByte
  <2>1. CASE Finish("self_check_fail")
    BY <1>2, <2>1, FinishKeepsAnswer DEF DeviceStatus
  <2>2. CASE error = "none" /\ ResetOkay(got[device][1].byte, in.byte) /\ Enter("id1")
             /\ UNCHANGED <<device, status>>
    <3>1. phase = "bat" /\ Count["bat"] = 1 /\ Count["id1"] = Count["bat"] + 1
      BY <1>8 DEF SecondByte, Count
    <3>2. ASSUME device = 1 PROVE Acked(hw.answer[1])
      <4>1. step = 3 /\ Reading(1)
        <5>1. Reading(1) /\ Len(Script[phase]) = 2
          BY <3>1, <3>2, ScriptDevice DEF Reading, ResetReads
        <5> QED
          BY <1>1, <5>1 DEF AtEnd, TypeOK, DriverTypeOK
      <4>2. Len(got[1]) = 2 /\ in = got[1][2] /\ Listening(1)
        BY <2>2, <3>1, <4>1 DEF ReadInv
      <4>3. Heard(1)
        BY <4>2 DEF Listening
      <4>4. got[1][1].byte = hw.answer[1][1] /\ got[1][2].byte = hw.answer[1][2]
        BY <4>2, <4>3 DEF Heard
      <4>5. Len(hw.answer[1]) >= 2
        <5>1. InBuffer \in 0..1
          BY DEF InBuffer
        <5>2. \A l \in Nat : 2 + InBuffer + l >= 2
          BY <5>1
        <5>3. Len(devq[1]) \in Nat
          BY DEF TypeOK, HwTypeOK, Port
        <5>4. 2 + InBuffer + Len(devq[1]) = Len(hw.answer[1])
          BY <4>2, <4>3 DEF Heard
        <5> QED
          BY <5>2, <5>3, <5>4
      <4> QED
        BY <2>2, <3>2, <4>2, <4>4, <4>5 DEF ResetOkay, Acked
    <3> QED
      BY <1>1, <2>2, <3>1, <3>2, NextByte1 DEF ResetReads
  <2> QED
    BY <1>8, <2>1, <2>2 DEF SecondByte
<1>9. ASSUME Identified, phase \in {"id1", "id2"} PROVE ReadInv(1)' /\ VerdictInv'
  <2>1. device = 1 => Acked(hw.answer[1])
    BY <1>9 DEF VerdictInv
  <2> QED
    BY <1>2, <1>9, <2>1, FinishKeepsAnswer DEF Identified, DeviceStatus
<1>10. CASE FirstIdByte
  <2>1. CASE Identified
    BY <1>9, <1>10, <2>1 DEF FirstIdByte
  <2>2. CASE error = "none" /\ Enter("id2") /\ UNCHANGED <<device, status, type>>
    <3>1. phase = "id1" /\ Count["id2"] = Count["id1"] + 1
      BY <1>10 DEF FirstIdByte, Count
    <3>2. device = 1 => Acked(hw.answer[1])
      BY <3>1 DEF VerdictInv
    <3> QED
      BY <1>1, <2>2, <3>1, <3>2, NextByte1 DEF ResetReads
  <2> QED
    BY <1>10, <2>1, <2>2 DEF FirstIdByte
<1>11. CASE SecondIdByte
  BY <1>9, <1>11 DEF SecondIdByte
<1> QED
  BY <1>4, <1>5, <1>6, <1>7, <1>8, <1>10, <1>11 DEF Decide

\* What is read after the reset byte to device 1 is the beginning of its answer,
\* in its order, on every orderly machine (ps2_reset_device).
THEOREM HearsDevice1 == Spec => []AnswerIsHeard
<1>1. Init => AnswerIsHeard
  BY DEF Init, AnswerIsHeard, ReadInv, VerdictInv, Reading, ResetReads, Port
<1>2. TypeOK /\ Dialogue /\ CheckedReadIsFresh /\ AnswerIsHeard /\ [Next]_vars => AnswerIsHeard'
  <2> SUFFICES ASSUME TypeOK, Dialogue, CheckedReadIsFresh, AnswerIsHeard, [Next]_vars, Orderly'
               PROVE  ReadInv(1)' /\ VerdictInv'
    BY DEF AnswerIsHeard
  <2>1. Orderly /\ ReadInv(1) /\ VerdictInv /\ hw' = hw
    BY MachineStands DEF Orderly, AnswerIsHeard
  <2>2. Acked(hw.answer[1])' <=> Acked(hw.answer[1])
    BY <2>1 DEF Acked
  <2>3. ASSUME UNCHANGED <<phase, device, status>> PROVE VerdictInv'
    BY <2>1, <2>2, <2>3 DEF VerdictInv
  <2>4. CASE PortAccess
    <3>1. UNCHANGED <<phase, device, status>>
      BY <2>4 DEF PortAccess, PollInput, PollOutput, Poll, WriteCommand, WriteData, ReadData, Access
    <3>2. ASSUME Reading(1) PROVE PollOutput \/ ReadData
      <4>1. Script[phase] = <<TryOut, Read>>
        BY <3>2, ScriptDevice DEF Reading
      <4>2. ~AtEnd => step \in {1, 2}
        BY <4>1, ScriptStep DEF AtEnd, TypeOK, DriverTypeOK
      <4>3. ~At({"waitin", "tryin"}) /\ ~At({"command"}) /\ ~At({"config"}) /\ ~At({"reset"})
        BY <4>1, <4>2, AccessOps DEF At
      <4> QED
        BY <2>4, <4>3 DEF PortAccess, PollInput, WriteCommand, WriteData
    <3>3. ReadInv(1)'
      <4>1. CASE Reading(1)
        BY <2>1, <3>2, <4>1, ReadingWait, ReadingRead, Ports
      <4>2. CASE ~Reading(1)
        BY <3>1, <4>2 DEF ReadInv, Reading
      <4> QED
        BY <4>1, <4>2
    <3> QED
      BY <2>3, <3>1, <3>3
  <2>5. CASE Decide
    BY <2>1, <2>5, DecideKeepsAnswer
  <2>6. CASE HwNext /\ UNCHANGED driverVars
    <3>1. UNCHANGED <<phase, step, device, status, got, error, in>> /\ got' = got
      BY <2>6 DEF driverVars
    <3>2. Reading(1) => Listening(1)'
      BY <2>1, <2>6, <3>1, ListeningStep, Ports DEF ReadInv
    <3>3. ReadInv(1)'
      BY <2>1, <3>1, <3>2 DEF ReadInv, Reading
    <3> QED
      BY <2>3, <3>1, <3>3
  <2>7. CASE UNCHANGED vars
    <3>1. UNCHANGED <<phase, step, device, status, got, error, in>>
      BY <2>7 DEF vars, driverVars
    <3>2. Listening(1)' <=> Listening(1)
      BY <2>7 DEF vars, hwVars, driverVars, Listening, Heard, InBuffer
    <3>3. ReadInv(1)'
      BY <2>1, <3>1, <3>2 DEF ReadInv, Reading
    <3> QED
      BY <2>3, <3>1, <3>3
  <2> QED
    BY <2>4, <2>5, <2>6, <2>7 DEF Next, Driver
<1> QED
  BY <1>1, <1>2, TypeCorrect, DialogueIsKept, CheckedReadsAreFresh, PTL DEF Spec

\* However slow the devices of an orderly machine are, ps2_init calls the first
\* one okay only if it acknowledged the reset (ps2_reset_device).
THEOREM Device1IsNeverFalselyOkay == Spec => []Device1NeverFalselyOkay
<1>1. AnswerIsHeard => Device1NeverFalselyOkay
  BY DEF AnswerIsHeard, VerdictInv, Device1NeverFalselyOkay
<1> QED
  BY <1>1, HearsDevice1, PTL

-----------------------------------------------------------------------------
(***************************************************************************)
(* What the self-tests are heard to say.                                   *)
(***************************************************************************)
\* The test of a phase, and what it finds on this machine.
Test(ph) == IF ph = "port1" THEN "TEST_PORT_1"
            ELSE IF ph = "port2" THEN "TEST_PORT_2" ELSE "TEST_CONTROLLER"
Result(ph) == IF ph = "port1" THEN hw.porttest[1]
              ELSE IF ph = "port2" THEN hw.porttest[2] ELSE hw.selftest

Testing == phase \in {"port1", "port2"} \/ (phase = "selfcheck" /\ step >= 8)
TestInv == Testing =>
    /\ \A c \in Questions : inbuf = <<CommandWrite(c)>> => c = Test(phase)
    /\ reply # <<>> => reply = <<Result(phase)>>
    /\ obf => latch.byte = Result(phase)
    /\ AtEnd => in.byte = Result(phase)

TestsAreHeard == WellBehaved => TestInv

\* The scripts of the tests: one question, and the last access reads its answer.
LEMMA TestScripts ==
    ASSUME TypeOK, Testing
    PROVE  /\ phase \in Early /\ phase # "reset1" /\ phase \notin ReadsConfig
           /\ Ends(phase) = "clear" /\ Len(Script[phase]) >= 4
           /\ Script[phase][Len(Script[phase])].op = "read"
           /\ \A c : At({"command"}) /\ Script[phase][step] = Cmd(c) => c = Test(phase)
<1>1. CASE phase \in {"port1", "port2"}
  <2>1. Script[phase] = <<WaitIn, Cmd(Test(phase)), WaitOut, Read>>
    BY <1>1, ShortScripts DEF Test
  <2> DEFINE s == Script[phase]
  <2>2. Len(s) = 4 /\ s[1] = WaitIn /\ s[2] = Cmd(Test(phase)) /\ s[3] = WaitOut /\ s[4] = Read
    BY <2>1
  <2> HIDE DEF s
  <2>3. ASSUME At({"command"}) PROVE step = 2
    <3>1. step \in 1..4 /\ s[step].op = "command"
      BY <2>2, <2>3 DEF At, AtEnd, TypeOK, DriverTypeOK, s
    <3>2. step = 1 \/ step = 2 \/ step = 3 \/ step = 4
      BY <3>1
    <3> QED
      BY <2>2, <3>1, <3>2, AccessOps
  <2>4. \A c : Cmd(Test(phase)) = Cmd(c) => c = Test(phase)
    BY AccessOps
  <2>5. phase \in Early /\ phase # "reset1" /\ phase \notin ReadsConfig /\ Ends(phase) = "clear"
    BY <1>1 DEF Early, ReadsConfig, Ends
  <2>6. \A c : At({"command"}) /\ s[step] = Cmd(c) => c = Test(phase)
    BY <2>2, <2>3, <2>4
  <2> QED
    BY <2>2, <2>5, <2>6, AccessOps DEF s
<1>2. CASE phase = "selfcheck" /\ step >= 8
  <2> DEFINE s == Script[phase]
  <2>1. /\ Len(s) = 11 /\ s[8] = WaitIn /\ s[9] = Cmd("TEST_CONTROLLER")
        /\ s[10] = WaitOut /\ s[11] = Read
    BY <1>2, SelfCheckScript
  <2> HIDE DEF s
  <2>2. ASSUME At({"command"}) PROVE step = 9
    <3>1. step \in 8..11 /\ s[step].op = "command"
      BY <1>2, <2>1, <2>2 DEF At, AtEnd, TypeOK, DriverTypeOK, s
    <3>2. step = 8 \/ step = 9 \/ step = 10 \/ step = 11
      BY <3>1
    <3> QED
      BY <2>1, <3>1, <3>2, AccessOps
  <2>3. Test(phase) = "TEST_CONTROLLER"
    BY <1>2 DEF Test
  <2>4. \A c : Cmd("TEST_CONTROLLER") = Cmd(c) => c = "TEST_CONTROLLER"
    BY AccessOps
  <2>5. phase \in Early /\ phase # "reset1" /\ phase \notin ReadsConfig /\ Ends(phase) = "clear"
    BY <1>2 DEF Early, ReadsConfig, Ends
  <2>6. \A c : At({"command"}) /\ s[step] = Cmd(c) => c = Test(phase)
    BY <2>1, <2>2, <2>3, <2>4
  <2> QED
    BY <2>1, <2>5, <2>6, AccessOps DEF s
<1> QED
  BY <1>1, <1>2 DEF Testing

\* Before the question has been asked there is nothing to hear.
LEMMA NothingHeard ==
    ASSUME Idle' \/ Taken', ~AtEnd'
    PROVE  TestInv'
<1>1. reply' = <<>> /\ obf' = FALSE
  BY DEF Idle, Taken, Nothing
<1>2. \A c \in Questions : inbuf' # <<CommandWrite(c)>>
  <2>1. ASSUME NEW c \in Questions, inbuf' = <<CommandWrite(c)>> PROVE FALSE
    <3>1. inbuf' # <<>> /\ \A b : inbuf' # <<DataWrite(b)>>
      BY <2>1, WriteFields
    <3>2. PICK d \in Silent : inbuf' = <<CommandWrite(d)>>
      BY <3>1 DEF Idle, Taken
    <3>3. c = d
      BY <2>1, <3>2, WriteFields
    <3> QED
      BY <3>2, <3>3 DEF Silent, Questions
  <2> QED
    BY <2>1
<1> QED
  BY <1>1, <1>2 DEF TestInv

LEMMA HwKeepsTests ==
    ASSUME TypeOK, WellBehaved, Dialogue, TestInv, Testing, HwNext, UNCHANGED driverVars
    PROVE  TestInv'
<1> DEFINE m == Mood[phase][step]
<1>1. phase' = phase /\ step' = step /\ in' = in
  BY DEF driverVars
<1>2. phase \in Early /\ phase # "reset1" /\ Ends(phase) = "clear" /\ Orderly
  BY TestScripts DEF WellBehaved
<1>3. Holds(m) /\ (m = "sent" \/ Mute)
  BY <1>2 DEF Dialogue, MoodInv
<1>4. m # "sent"
  BY <1>2, SentByReset1
<1>5. AtEnd => m = "clear"
  BY <1>2, MoodAtEnd
<1> HIDE DEF m
<1>6. ControllerNext
  BY <1>2, <1>3, <1>4, ControllerOnly
<1>7. ~Clear /\ ~Ready /\ ~Taken
  BY <1>6, Resting DEF Clear, Ready, Taken, Nothing
<1>8. ~AtEnd'
  <2>1. ~AtEnd
    BY <1>3, <1>5, <1>7, MoodSplit
  <2> QED
    BY <1>1, <2>1 DEF AtEnd
<1>9. CASE Idle
  <2>1. Clear'
    BY <1>6, <1>9, IdleStep
  <2>2. Idle'
    BY <2>1 DEF Clear, Idle, Nothing
  <2> QED
    BY <1>8, <2>2, NothingHeard
<1>10. CASE ConfigDue
  <2>1. Taken'
    BY <1>6, <1>10, ConfigDueStep
  <2> QED
    BY <1>8, <2>1, NothingHeard
<1>11. CASE Owed
  <2>1. hw' = hw /\ Result(phase)' = Result(phase)
    BY <1>1, HwKeepsOutput DEF Result
  <2>2. CASE Nothing /\ \E c \in Questions : inbuf = <<CommandWrite(c)>>
    <3>1. PICK c \in Questions : inbuf = <<CommandWrite(c)>>
      BY <2>2
    <3>2. c = Test(phase)
      BY <3>1 DEF TestInv
    <3>3. inbuf' = <<>> /\ obf' = FALSE
      BY <1>6, <2>2, <3>1, TakingCommand DEF Nothing
    <3>4. reply' = <<Result(phase)>>
      <4>1. reply = <<>> /\ hw.dual = TRUE
        BY <2>2 DEF Nothing, WellBehaved, TypeOK, HwTypeOK
      <4>2. CASE phase = "port1"
        <5>1. c = "TEST_PORT_1" /\ Result(phase) = hw.porttest[1]
          BY <3>2, <4>2 DEF Test, Result
        <5> QED
          BY <1>6, <3>1, <4>1, <5>1, TakingCommand
      <4>3. CASE phase = "port2"
        <5>1. c = "TEST_PORT_2" /\ Result(phase) = hw.porttest[2]
          BY <3>2, <4>3 DEF Test, Result
        <5> QED
          BY <1>6, <3>1, <4>1, <5>1, TakingCommand
      <4>4. CASE phase = "selfcheck"
        <5>1. c = "TEST_CONTROLLER" /\ Result(phase) = hw.selftest
          BY <3>2, <4>4 DEF Test, Result
        <5> QED
          BY <1>6, <3>1, <4>1, <5>1, TakingCommand
      <4> QED
        BY <4>2, <4>3, <4>4 DEF Testing
    <3>5. \A d : inbuf' # <<CommandWrite(d)>>
      BY <3>3
    <3> QED
      BY <1>8, <2>1, <3>3, <3>4, <3>5 DEF TestInv
  <2>3. CASE inbuf = <<>> /\ reply # <<>>
    <3>1. /\ obf' = TRUE /\ reply' = <<>> /\ latch'.byte = reply[1] /\ inbuf' = <<>>
      BY <1>6, <2>3, Delivering
    <3>2. reply[1] = Result(phase)
      BY <2>3 DEF TestInv
    <3>3. \A d : inbuf' # <<CommandWrite(d)>>
      BY <3>1
    <3> QED
      BY <1>8, <2>1, <3>1, <3>2, <3>3 DEF TestInv
  <2>4. CASE inbuf = <<>> /\ reply = <<>>
    BY <1>6, <2>4, Resting
  <2> QED
    BY <1>11, <2>2, <2>3, <2>4 DEF Owed, Nothing
<1> QED
  BY <1>3, <1>4, <1>7, <1>9, <1>10, <1>11, MoodSplit, QuietIsIdle

LEMMA AccessKeepsTests ==
    ASSUME TypeOK, WellBehaved, Dialogue, TestInv, PortAccess, Testing'
    PROVE  TestInv'
<1>1. phase' = phase /\ UNCHANGED hw /\ Orderly /\ hw.present /\ hw.dual = TRUE
  BY AccessKeeps DEF WellBehaved, Orderly, TypeOK, HwTypeOK
<1>2. phase \in Early
  BY <1>1 DEF Testing, Early
<1>3. MoodInv' /\ step' \in {step, step + 1}
  BY <1>1, <1>2, InputWaitKeepsMood, OutputWaitKeepsMood, OtherAccessKeepsMood DEF PortAccess
<1>4. ~AtEnd
  BY DEF PortAccess, PollInput, PollOutput, WriteCommand, WriteData, ReadData, At
<1>5. CASE ~Testing
  <2>1. phase = "selfcheck" /\ step' = 8
    <3>1. phase = "selfcheck" /\ step' >= 8 /\ ~(step >= 8) /\ step \in Nat
      BY <1>1, <1>5 DEF Testing, TypeOK, DriverTypeOK
    <3> QED
      BY <1>3, <3>1
  <2>2. Mood[phase'][step'] = "clear"
    BY <1>1, <2>1 DEF Mood
  <2>3. Clear'
    BY <1>1, <1>2, <1>3, <2>2 DEF MoodInv, Holds
  <2>4. ~AtEnd'
    BY <1>1, <2>1, SelfCheckScript DEF AtEnd
  <2> QED
    <3>1. Idle'
      BY <2>3 DEF Clear, Idle, Nothing
    <3> QED
      BY <2>4, <3>1, NothingHeard
<1>6. CASE Testing
  <2>1. /\ UNCHANGED <<reply, latch>> /\ (obf' = obf \/ obf' = FALSE)
        /\ Result(phase)' = Result(phase) /\ Test(phase)' = Test(phase)
    BY <1>1 DEF PortAccess, PollInput, PollOutput, Poll, WriteCommand, WriteData, ReadData,
       CpuReads, CpuWrites, hwVars, Result, Test
  <2>2. ASSUME NEW c \in Questions, inbuf' = <<CommandWrite(c)>> PROVE c = Test(phase)
    <3>1. CASE PollInput \/ PollOutput \/ ReadData
      <4>1. inbuf' = inbuf
        BY <3>1 DEF PollInput, PollOutput, Poll, ReadData, CpuReads, hwVars
      <4> QED
        BY <1>6, <2>2, <4>1 DEF TestInv
    <3>2. CASE WriteData
      <4>1. \E b : inbuf' = <<DataWrite(b)>>
        BY <3>2 DEF WriteData, CpuWrites
      <4> QED
        BY <2>2, <4>1, WriteFields
    <3>3. CASE WriteCommand
      <4>1. /\ At({"command"}) /\ inbuf' = <<CommandWrite(Script[phase][step].arg)>>
            /\ phase \in Phase /\ step \in 1..Len(Script[phase])
        BY <1>4, <3>3, ScriptStep DEF WriteCommand, CpuWrites, TypeOK, DriverTypeOK, AtEnd
      <4>2. c = Script[phase][step].arg
        BY <2>2, <4>1, WriteFields
      <4>3. Script[phase][step] \in Accesses /\ Script[phase][step].op = "command"
        BY <4>1, ScriptStep DEF At
      <4>4. \E d : Script[phase][step] = Cmd(d)
        BY <4>3, AccessOps DEF Accesses
      <4>5. Script[phase][step] = Cmd(c)
        BY <4>2, <4>4, AccessOps
      <4> QED
        BY <1>6, <4>1, <4>5, TestScripts
    <3> QED
      BY <3>1, <3>2, <3>3 DEF PortAccess
  <2>3. ASSUME AtEnd' PROVE in'.byte = Result(phase)
    <3>1. step = Len(Script[phase]) /\ Script[phase][step].op = "read"
      <4>1. step = Len(Script[phase])
        BY <1>1, <1>3, <1>4, <2>3, ScriptStep DEF AtEnd, TypeOK, DriverTypeOK
      <4> QED
        BY <1>6, <4>1, TestScripts
    <3>2. ReadData
      BY <3>1 DEF PortAccess, PollInput, PollOutput, WriteCommand, WriteData, At
    <3>3. Mood[phase][step] = "ready"
      <4>1. Mood[phase][step + 1] = "clear"
        BY <1>2, <1>6, <3>1, TestScripts, Discipline DEF Disciplined
      <4> QED
        BY <1>2, <1>4, <3>1, <4>1, Follow, MoodOfAccess
    <3>4. Ready
      BY <1>1, <1>2, <3>3, MoodSplit DEF Dialogue, MoodInv
    <3>5. obf
      BY <1>1, <3>4 DEF Ready, Unanswered
    <3> QED
      BY <1>1, <1>6, <3>2, <3>5 DEF ReadData, DataPort, TestInv
  <2>4. phase' = phase
    BY <1>1
  <2>5. /\ reply' # <<>> => reply' = <<Result(phase)>>
        /\ obf' => latch'.byte = Result(phase)
    BY <1>6, <2>1 DEF TestInv
  <2> QED
    BY <2>1, <2>2, <2>3, <2>4, <2>5 DEF TestInv
<1> QED
  BY <1>5, <1>6

LEMMA DecideKeepsTests ==
    ASSUME TypeOK, WellBehaved, Dialogue, Decide
    PROVE  TestInv'
<1> SUFFICES ASSUME Testing' PROVE TestInv'
  BY DEF TestInv
<1>1. step' = 1 /\ Orderly
  BY DecideEnters DEF WellBehaved
<1>2. phase' \in {"port1", "port2"}
  BY <1>1 DEF Testing
<1>3. Mood[phase'][step'] = "idle"
  BY <1>1, <1>2 DEF Mood
<1>4. Idle'
  <2>1. MoodInv'
    BY <1>1, DecideKeepsMood
  <2> QED
    BY <1>2, <1>3, <2>1 DEF MoodInv, Holds, Early
<1>5. ~AtEnd'
  <2>1. Len(Script["port1"]) = 4 /\ Len(Script["port2"]) = 4
    BY ShortScripts
  <2>2. Len(Script[phase']) = 4
    BY <1>2, <2>1
  <2>3. ~(step' > Len(Script[phase']))
    BY <1>1, <2>2
  <2> QED
    BY <2>3 DEF AtEnd
<1> QED
  BY <1>4, <1>5, NothingHeard

\* On a well-behaved machine the byte a self-test is judged by is its result
\* (ps2_init, ps2_ports_self_check).
THEOREM HearsTheTests == Spec => []TestsAreHeard
<1>1. Init => TestsAreHeard
  BY DEF Init, TestsAreHeard, TestInv, Testing
<1>2. TypeOK /\ Dialogue /\ TestsAreHeard /\ [Next]_vars => TestsAreHeard'
  <2> SUFFICES ASSUME TypeOK, Dialogue, TestsAreHeard, [Next]_vars, WellBehaved', Testing'
               PROVE  TestInv'
    BY DEF TestsAreHeard, TestInv
  <2>1. WellBehaved /\ TestInv
    BY MachineStands DEF WellBehaved, Orderly, TestsAreHeard
  <2>2. CASE PortAccess
    BY <2>1, <2>2, AccessKeepsTests
  <2>3. CASE Decide
    BY <2>1, <2>3, DecideKeepsTests
  <2>4. CASE HwNext /\ UNCHANGED driverVars
    <3>1. Testing
      BY <2>4 DEF driverVars, Testing
    <3> QED
      BY <2>1, <2>4, <3>1, HwKeepsTests
  <2>5. CASE UNCHANGED vars
    BY <2>1, <2>5 DEF vars, hwVars, driverVars, TestInv, Testing, Test, Result, AtEnd
  <2> QED
    BY <2>2, <2>3, <2>4, <2>5 DEF Next, Driver
<1> QED
  BY <1>1, <1>2, TypeCorrect, DialogueIsKept, PTL DEF Spec

-----------------------------------------------------------------------------
(***************************************************************************)
(* What ps2_init knows of the machine.                                     *)
(***************************************************************************)
Port2Known == {"enable1", "enable2", "irq", "irqwrite", "reset1"} \cup Late
Port1Known == {"port2"} \cup Port2Known
DualKnown == {"dual", "dualconfig", "port1"} \cup Port1Known
FactInv ==
    /\ phase \in DualKnown => is_dual = TRUE
    /\ phase \in Port1Known => valid[1] = (hw.porttest[1] = B00)
    /\ phase \in Port2Known => valid[2] = (hw.porttest[2] = B00)
    /\ phase = "failed" => hw.selftest # B55 \/ \A p \in Port : hw.porttest[p] # B00

FactsAreKnown == WellBehaved => FactInv

LEMMA DecideKeepsFacts ==
    ASSUME TypeOK, Orderly, Dialogue, HeardInv, ConfigInv, TestInv, FactInv, Decide
    PROVE  FactInv'
<1>1. AtEnd /\ hw' = hw
  BY DecideEnters DEF hwVars
<1> USE DEF Deciding, Enter
<1>2. ASSUME UNCHANGED <<is_dual, valid>>, phase' # "failed",
             phase' \in DualKnown => phase \in DualKnown,
             phase' \in Port1Known => phase \in Port1Known,
             phase' \in Port2Known => phase \in Port2Known
      PROVE  FactInv'
  BY <1>1, <1>2 DEF FactInv
<1>3. CASE FirstConfig \/ DualConfig \/ DualDone
  <2>1. /\ UNCHANGED <<is_dual, valid>> /\ phase' \in {"selfcheck", "dualconfig", "port1"}
        /\ phase' # "selfcheck" => phase \in {"dual", "dualconfig"}
    BY <1>3 DEF FirstConfig, DualConfig, DualDone
  <2> QED
    BY <1>2, <2>1 DEF DualKnown, Port1Known, Port2Known, Late
<1>4. CASE ControllerSelfCheck
  <2>1. /\ phase = "selfcheck" /\ phase' \in {"restore", "failed"}
        /\ in.byte # B55 \/ phase' # "failed"
    BY <1>4 DEF ControllerSelfCheck
  <2>2. in.byte = hw.selftest
    <3>1. Len(Script[phase]) = 11
      BY <2>1, SelfCheckScript
    <3>2. Testing
      BY <1>1, <2>1, <3>1 DEF Testing, AtEnd, TypeOK, DriverTypeOK
    <3> QED
      BY <1>1, <2>1, <3>2 DEF TestInv, Result
  <2> QED
    BY <1>1, <2>1, <2>2 DEF FactInv, DualKnown, Port1Known, Port2Known, Late
<1>5. CASE CheckDualChannel
  <2>1. /\ phase = "restore" /\ is_dual' = (5 \notin in.byte)
        /\ phase' = IF is_dual' THEN "dual" ELSE "port1"
    BY <1>5 DEF CheckDualChannel, CLOCK_2_BIT
  <2>2. in.byte = cfg
    BY <1>1, <2>1 DEF HeardInv, ReadsConfig
  <2>3. CfgToBe = cfg
    <3>1. Clear
      BY <1>1, <2>1, MoodAtEnd, MoodSplit DEF Dialogue, MoodInv, Early, Ends
    <3> QED
      BY <3>1 DEF Clear, CfgToBe
  <2>4. step >= 5
    BY <1>1, <2>1, ConfigWrites DEF AtEnd, TypeOK, DriverTypeOK
  <2>5. 5 \notin cfg
    BY <2>1, <2>3, <2>4 DEF ConfigInv, RestoreInv
  <2>6. is_dual' = TRUE /\ phase' = "dual"
    BY <2>1, <2>2, <2>5
  <2> QED
    BY <2>6 DEF FactInv, DualKnown, Port1Known, Port2Known, Late
<1>6. CASE Port1SelfCheck
  <2>1. /\ phase = "port1" /\ phase' = "port2" /\ is_dual' = is_dual
        /\ valid' = [valid EXCEPT ![1] = (in.byte = B00)]
    BY <1>6 DEF Port1SelfCheck
  <2>2. in.byte = hw.porttest[1]
    BY <1>1, <2>1 DEF TestInv, Testing, Result
  <2>3. valid'[1] = (hw.porttest[1] = B00)
    BY <2>1, <2>2 DEF TypeOK, DriverTypeOK, Port
  <2> QED
    BY <1>1, <2>1, <2>3 DEF FactInv, DualKnown, Port1Known, Port2Known, Late
<1>7. CASE Port2SelfCheck
  <2>1. /\ phase = "port2" /\ phase' \in {"enable1", "enable2", "failed"} /\ is_dual' = is_dual
        /\ valid' = [valid EXCEPT ![2] = (in.byte = B00)]
        /\ phase' = "failed" => ~valid'[1] /\ ~valid'[2]
    BY <1>7 DEF Port2SelfCheck
  <2>2. in.byte = hw.porttest[2]
    BY <1>1, <2>1 DEF TestInv, Testing, Result
  <2>3. valid'[2] = (hw.porttest[2] = B00) /\ valid'[1] = valid[1]
    BY <2>1, <2>2 DEF TypeOK, DriverTypeOK, Port
  <2>4. valid[1] = (hw.porttest[1] = B00) /\ is_dual = TRUE
    BY <2>1 DEF FactInv, DualKnown, Port1Known
  <2>5. phase' = "failed" => \A p \in Port : hw.porttest[p] # B00
    BY <2>1, <2>3, <2>4 DEF Port
  <2> QED
    BY <1>1, <2>1, <2>3, <2>4, <2>5 DEF FactInv, DualKnown, Port1Known, Port2Known, Late
<1>8. CASE PortsEnabled \/ IrqConfig \/ ResetDevices
  <2>1. UNCHANGED <<is_dual, valid>> /\ {phase, phase'} \subseteq Port2Known /\ phase' # "failed"
    BY <1>8 DEF PortsEnabled, IrqConfig, ResetDevices, StartReset, Port2Known
  <2> QED
    BY <1>2, <2>1 DEF DualKnown, Port1Known
<1>9. CASE ResetSent \/ FirstByte \/ SecondByte \/ FirstIdByte \/ SecondIdByte
  <2>1. UNCHANGED <<is_dual, valid>> /\ {phase, phase'} \subseteq Port2Known /\ phase' # "failed"
    BY <1>9 DEF ResetSent, FirstByte, SecondByte, FirstIdByte, SecondIdByte, Identified, Finish,
       Port2Known, Late
  <2> QED
    BY <1>2, <2>1 DEF DualKnown, Port1Known
<1> QED
  BY <1>3, <1>4, <1>5, <1>6, <1>7, <1>8, <1>9 DEF Decide

\* On a well-behaved machine ps2_init finds both channels and judges each port by
\* its test, and it gives up only when the controller or both ports failed theirs
\* (ps2_check_dual_channel, ps2_ports_self_check, ps2_init).
THEOREM KnowsTheFacts == Spec => []FactsAreKnown
<1>1. Init => FactsAreKnown
  BY DEF Init, FactsAreKnown, FactInv, DualKnown, Port1Known, Port2Known, Late
<1>2. TypeOK /\ Dialogue /\ ConfigIsHeard /\ ConfigIsKept /\ TestsAreHeard /\ FactsAreKnown
        /\ [Next]_vars => FactsAreKnown'
  <2> SUFFICES ASSUME TypeOK, Dialogue, ConfigIsHeard, ConfigIsKept, TestsAreHeard, FactsAreKnown,
                      [Next]_vars, WellBehaved'
               PROVE  FactInv'
    BY DEF FactsAreKnown
  <2>1. WellBehaved /\ Orderly /\ HeardInv /\ ConfigInv /\ TestInv /\ FactInv /\ hw' = hw
    BY MachineStands
    DEF WellBehaved, Orderly, ConfigIsHeard, ConfigIsKept, TestsAreHeard, FactsAreKnown
  <2>2. ASSUME UNCHANGED <<phase, is_dual, valid>> PROVE FactInv'
    BY <2>1, <2>2 DEF FactInv
  <2>3. CASE PortAccess
    <3>1. UNCHANGED <<phase, is_dual, valid>>
      BY <2>3 DEF PortAccess, PollInput, PollOutput, Poll, WriteCommand, WriteData, ReadData, Access
    <3> QED
      BY <2>2, <3>1
  <2>4. CASE Decide
    BY <2>1, <2>4, DecideKeepsFacts
  <2>5. CASE (HwNext /\ UNCHANGED driverVars) \/ UNCHANGED vars
    <3>1. UNCHANGED <<phase, is_dual, valid>>
      BY <2>5 DEF vars, driverVars
    <3> QED
      BY <2>2, <3>1
  <2> QED
    BY <2>3, <2>4, <2>5 DEF Next, Driver
<1> QED
  BY <1>1, <1>2, TypeCorrect, DialogueIsKept, ReadsBackTheConfig, ConfigIsAsIntended, HearsTheTests,
     PTL DEF Spec

-----------------------------------------------------------------------------
(***************************************************************************)
(* The clocks of both ports run by the time the devices are reset.         *)
(***************************************************************************)
Clocks(byte) == 4 \notin byte /\ 5 \notin byte
Clocked == {"port1", "port2", "enable1", "enable2", "irq", "irqwrite", "reset1"}

\* A port is only switched off where its clock does not matter yet.
SwitchInv == phase \in Early =>
    \A c \in Silent : inbuf = <<CommandWrite(c)>> => MaySwitch(phase, c)
ClockBits ==
    /\ phase \in {"selfcheck", "restore"} => 4 \notin config
    /\ phase = "restore" /\ step >= 5 => 4 \notin CfgToBe
    /\ phase = "dual" => 4 \notin CfgToBe
    /\ phase \in {"dualconfig", "irqwrite"} => Clocks(config)
    /\ phase = "dualconfig" /\ AtEnd => Clocks(CfgToBe)
    /\ phase \in Clocked => Clocks(CfgToBe)
    /\ phase \in Late => Clocks(cfg)
ClockInv == SwitchInv /\ ClockBits

ClocksRun == Orderly => ClockInv

LEMMA InputTaken == HwNext => inbuf' = inbuf \/ inbuf' = <<>>
  BY DEF HwNext, ControllerNext, TakeReadConfig, TakeWriteConfig, TakePortSwitch,
     TakeTestController, TakeTestPort, TakeWritePort2, TakeData, DeliverReply,
     DeviceSends, DeviceChatters, Taking

\* In the late phases the configuration stays.
LEMMA LateConfig ==
    ASSUME ConfigInv, phase \in Late, HwNext
    PROVE  UNCHANGED cfg
<1>1. route # "config"
  BY DEF ConfigInv, LateInv
<1>2. CASE ControllerNext /\ reply # <<>>
  BY <1>2, Delivering
<1>3. CASE ControllerNext /\ reply = <<>>
  <2>1. inbuf # <<>>
    BY <1>3, Resting
  <2>2. CASE inbuf = <<DataWrite(BFF)>>
    BY <1>1, <1>3, <2>2, TakingData
  <2>3. CASE inbuf = <<CommandWrite("WRITE_PORT2_INPUT")>>
    BY <1>3, <2>3, TakingCommand
  <2> QED
    BY <2>1, <2>2, <2>3 DEF ConfigInv, LateInv
<1>4. CASE \E p \in Port : DeviceSends(p) \/ DeviceChatters(p)
  BY <1>4 DEF DeviceSends, DeviceChatters
<1> QED
  BY <1>2, <1>3, <1>4 DEF HwNext

LEMMA HwKeepsClocks ==
    ASSUME TypeOK, Orderly, Dialogue, ConfigInv, ClockInv, HwNext, UNCHANGED driverVars
    PROVE  ClockInv'
<1>1. UNCHANGED <<phase, step, config>> /\ (AtEnd' <=> AtEnd)
  BY DEF driverVars, AtEnd
<1>2. SwitchInv'
  <2>1. CASE inbuf' = inbuf
    BY <1>1, <2>1 DEF ClockInv, SwitchInv
  <2>2. CASE inbuf' = <<>>
    <3>1. \A c : inbuf' # <<CommandWrite(c)>>
      BY <2>2
    <3> QED
      BY <3>1 DEF SwitchInv
  <2> QED
    BY <2>1, <2>2, InputTaken
<1>3. CASE phase \in Early /\ phase # "selfcheck"
  <2>1. /\ inbuf # <<CommandWrite("DISABLE_1")>> => (4 \in cfg' => 4 \in CfgToBe)
        /\ inbuf # <<CommandWrite("DISABLE_2")>> => (5 \in cfg' => 5 \in CfgToBe)
        /\ CfgToBe' = cfg'
    BY <1>3, HwConfig
  <2>2. phase # "disable" => inbuf # <<CommandWrite("DISABLE_1")>>
    BY <1>3 DEF ClockInv, SwitchInv, Silent, MaySwitch
  <2>3. phase \in Clocked \cup {"dualconfig"} => inbuf # <<CommandWrite("DISABLE_2")>>
    BY <1>3 DEF ClockInv, SwitchInv, Silent, MaySwitch, Clocked
  <2>4. /\ phase # "disable" /\ 4 \notin CfgToBe => 4 \notin CfgToBe'
        /\ phase \in Clocked \cup {"dualconfig"} /\ 5 \notin CfgToBe => 5 \notin CfgToBe'
    BY <2>1, <2>2, <2>3
  <2>5. phase \notin Late /\ (phase \in Clocked => phase # "disable")
    BY <1>3 DEF Early, Late, Clocked
  <2>6. ClockBits'
    BY <1>1, <2>4, <2>5 DEF ClockInv, ClockBits, Clocks
  <2> QED
    BY <1>2, <2>6 DEF ClockInv
<1>4. CASE phase \in Late
  <2>1. cfg' = cfg
    BY <1>4, LateConfig
  <2>2. phase \notin {"selfcheck", "restore", "dual", "dualconfig", "irqwrite"} /\ phase \notin Clocked
    BY <1>4 DEF Late, Clocked
  <2>3. ClockBits'
    BY <1>1, <2>1, <2>2 DEF ClockInv, ClockBits, Clocks
  <2> QED
    BY <1>2, <2>3 DEF ClockInv
<1>5. CASE phase \in {"selfcheck", "failed"}
  <2>1. ClockBits'
    BY <1>1, <1>5 DEF ClockInv, ClockBits, Late, Clocked
  <2> QED
    BY <1>2, <2>1 DEF ClockInv
<1> QED
  BY <1>3, <1>4, <1>5, Phases DEF TypeOK, DriverTypeOK, Early, Late

LEMMA AccessKeepsClocks ==
    ASSUME TypeOK, Orderly, Dialogue, ClockInv, phase \in Early, PortAccess
    PROVE  ClockInv'
<1> DEFINE a == Script[phase][step]
<1>1. /\ UNCHANGED <<phase, cfg, config>> /\ ~AtEnd
      /\ step' \in {step, step + 1}
      /\ IF a.op = "config" THEN CfgToBe' = config ELSE CfgToBe' = CfgToBe
  BY AccessConfig
<1>2. step \in 1..Len(Script[phase]) /\ Len(Script[phase]) \in Nat
  BY <1>1, ScriptStep DEF TypeOK, DriverTypeOK, AtEnd
<1>3. AtEnd' => step = Len(Script[phase])
  BY <1>1, <1>2 DEF AtEnd
<1>4. SwitchInv'
  <2> SUFFICES ASSUME NEW c \in Silent, inbuf' = <<CommandWrite(c)>> PROVE MaySwitch(phase, c)
    BY <1>1 DEF SwitchInv
  <2>1. CASE PollInput \/ PollOutput \/ ReadData
    <3>1. inbuf' = inbuf
      BY <2>1 DEF PollInput, PollOutput, Poll, ReadData, CpuReads, hwVars
    <3> QED
      BY <3>1 DEF ClockInv, SwitchInv
  <2>2. CASE WriteData
    <3>1. \E b : inbuf' = <<DataWrite(b)>>
      BY <2>2 DEF WriteData, CpuWrites
    <3> QED
      BY <3>1, WriteFields
  <2>3. CASE WriteCommand
    <3>1. a.op = "command" /\ inbuf' = <<CommandWrite(a.arg)>>
      BY <2>3 DEF WriteCommand, At, CpuWrites
    <3>2. c = a.arg
      BY <3>1, WriteFields
    <3>3. \/ a.arg \in Silent /\ MaySwitch(phase, a.arg)
          \/ MayAsk(phase, a.arg)
          \/ a.arg = "WRITE_CONFIG"
      BY <1>1, <3>1, Follow, MoodOfAccess
    <3>4. a.arg \in Silent => a.arg \notin Questions /\ a.arg # "WRITE_CONFIG"
      BY DEF Silent, Questions
    <3> QED
      BY <3>2, <3>3, <3>4 DEF MayAsk
  <2> QED
    BY <2>1, <2>2, <2>3 DEF PortAccess
<1>5. phase \notin Late
  BY DEF Early, Late
<1> HIDE DEF a
<1>6. phase = "restore" /\ step' >= 5 => 4 \notin CfgToBe'
  <2> SUFFICES ASSUME phase = "restore", step' >= 5 PROVE 4 \notin CfgToBe'
    OBVIOUS
  <2>1. step \in 4..10
    BY <1>1, <1>2, ConfigWrites
  <2>2. CASE step = 4
    BY <1>1, <2>2, ConfigWrites DEF ClockInv, ClockBits, a
  <2>3. CASE step \in 5..10
    BY <1>1, <2>3, ConfigWrites DEF ClockInv, ClockBits, a
  <2> QED
    BY <2>1, <2>2, <2>3
<1>7. phase = "dual" => 4 \notin CfgToBe'
  <2>1. phase = "dual" => a.op # "config"
    BY <1>2, ConfigWrites DEF Masked, a
  <2> QED
    BY <1>1, <2>1 DEF ClockInv, ClockBits
<1>8. phase = "dualconfig" /\ AtEnd' => Clocks(CfgToBe')
  <2>1. phase = "dualconfig" /\ AtEnd' => a.op = "config"
    BY <1>3, ConfigWrites DEF a
  <2> QED
    BY <1>1, <2>1 DEF ClockInv, ClockBits
<1>9. phase \in Clocked => Clocks(CfgToBe')
  <2>1. phase \in Clocked \ {"irqwrite"} => a.op # "config"
    BY <1>2, ConfigWrites DEF Masked, Clocked, a
  <2>2. CASE a.op = "config"
    BY <1>1, <2>1, <2>2 DEF ClockInv, ClockBits
  <2>3. CASE a.op # "config"
    BY <1>1, <2>3 DEF ClockInv, ClockBits
  <2> QED
    BY <2>2, <2>3
<1>10. ClockBits'
  BY <1>1, <1>5, <1>6, <1>7, <1>8, <1>9 DEF ClockInv, ClockBits, Clocks
<1> QED
  BY <1>4, <1>10 DEF ClockInv

LEMMA DecideKeepsClocks ==
    ASSUME TypeOK, Orderly, Dialogue, HeardInv, ConfigInv, ClockInv, Decide
    PROVE  ClockInv'
<1>1. AtEnd /\ step' = 1 /\ UNCHANGED hwVars
  BY DecideEnters
<1>2. CfgToBe' = CfgToBe /\ UNCHANGED <<cfg, inbuf, route>>
  BY <1>1 DEF hwVars, CfgToBe
<1>3. ASSUME phase \in Early, Ends(phase) = "clear"
      PROVE  CfgToBe = cfg /\ inbuf = <<>>
  <2>1. Clear
    BY <1>1, <1>3, MoodAtEnd, MoodSplit DEF Dialogue, MoodInv
  <2> QED
    BY <2>1 DEF Clear, CfgToBe
<1>4. phase \in ReadsConfig => in.byte = cfg /\ CfgToBe = cfg /\ phase \in Early
  BY <1>1, <1>3, LastRead DEF HeardInv
<1>5. SwitchInv'
  <2> SUFFICES ASSUME phase' \in Early, NEW c \in Silent, inbuf = <<CommandWrite(c)>>
               PROVE  MaySwitch(phase', c)
    BY <1>2 DEF SwitchInv
  <2>1. phase \in Early \ {"reset1"}
    BY EarlyDecisions
  <2>2. inbuf # <<>>
    OBVIOUS
  <2>3. Ends(phase) # "clear"
    BY <1>3, <2>1, <2>2
  <2>4. phase \notin {"disable", "dual"}
    BY <2>3 DEF Ends
  <2>5. MaySwitch(phase, c)
    BY <2>1 DEF ClockInv, SwitchInv
  <2> QED
    BY <2>4, <2>5 DEF MaySwitch
<1> USE DEF Deciding, Enter
<1>6. ClockBits'
  <2>1. CASE FirstConfig \/ ControllerSelfCheck
    <3>1. CASE FirstConfig
      <4>1. phase' = "selfcheck" /\ 4 \notin config'
        BY <3>1 DEF FirstConfig, CLOCK_1_BIT
      <4> QED
        BY <4>1 DEF ClockBits, Clocked, Late
    <3>2. CASE ControllerSelfCheck
      <4>1. phase = "selfcheck" /\ phase' \in {"restore", "failed"} /\ config' = config
        BY <3>2 DEF ControllerSelfCheck
      <4>2. ~(step' >= 5)
        BY <1>1
      <4> QED
        BY <4>1, <4>2 DEF ClockInv, ClockBits, Clocked, Late
    <3> QED
      BY <2>1, <3>1, <3>2
  <2>2. CASE CheckDualChannel
    <3>1. phase = "restore"
      BY <2>2 DEF CheckDualChannel
    <3>2. step >= 5
      BY <1>1, <3>1, ConfigWrites DEF AtEnd, TypeOK, DriverTypeOK
    <3>3. in.byte = cfg /\ 5 \notin cfg /\ 4 \notin CfgToBe
      BY <1>4, <3>1, <3>2 DEF ReadsConfig, ConfigInv, RestoreInv, ClockInv, ClockBits
    <3>4. phase' = "dual"
      BY <2>2, <3>3 DEF CheckDualChannel, CLOCK_2_BIT
    <3> QED
      BY <1>2, <3>3, <3>4 DEF ClockBits, Clocked, Late
  <2>3. CASE DualConfig
    <3>1. phase = "dual" /\ phase' = "dualconfig" /\ config' = in.byte \ {1, 5}
      BY <2>3 DEF DualConfig, INTERRUPT_BIT, CLOCK_2_BIT
    <3>2. 4 \notin in.byte
      BY <1>4, <3>1 DEF ReadsConfig, ClockInv, ClockBits
    <3>3. ~AtEnd'
      BY <1>1, <3>1, ConfigWrites DEF AtEnd
    <3>4. Clocks(config)'
      BY <3>1, <3>2 DEF Clocks
    <3> QED
      BY <3>1, <3>3, <3>4 DEF ClockBits, Clocked, Late
  <2>4. CASE DualDone \/ Port1SelfCheck \/ Port2SelfCheck \/ PortsEnabled
    <3>1. /\ phase \in Clocked \cup {"dualconfig"}
          /\ phase' \in {"port1", "port2", "enable1", "enable2", "irq", "failed"}
      BY <2>4 DEF DualDone, Port1SelfCheck, Port2SelfCheck, PortsEnabled, Clocked
    <3>2. Clocks(CfgToBe)
      BY <1>1, <3>1 DEF ClockInv, ClockBits
    <3> QED
      BY <1>2, <3>1, <3>2 DEF ClockBits, Clocks, Late
  <2>5. CASE IrqConfig
    <3>1. /\ phase = "irq" /\ phase' = "irqwrite"
          /\ config' = in.byte \cup {INTERRUPT_BIT(p) : p \in {q \in Port : valid[q]}}
      BY <2>5 DEF IrqConfig
    <3>2. Clocks(in.byte) /\ Clocks(CfgToBe)
      BY <1>4, <3>1 DEF ReadsConfig, ClockInv, ClockBits, Clocked
    <3>3. Clocks(config)'
      BY <3>1, <3>2 DEF Clocks, INTERRUPT_BIT, Port
    <3> QED
      BY <1>2, <3>1, <3>2, <3>3 DEF ClockBits, Clocks, Late
  <2>6. CASE ResetDevices
    <3>1. phase = "irqwrite" /\ phase' = "reset1"
      BY <2>6 DEF ResetDevices, StartReset
    <3>2. Clocks(CfgToBe)
      BY <3>1 DEF ClockInv, ClockBits, Clocked
    <3> QED
      BY <1>2, <3>1, <3>2 DEF ClockBits, Clocks, Late
  <2>7. CASE ResetSent \/ FirstByte \/ SecondByte \/ FirstIdByte \/ SecondIdByte
    <3>1. phase \in Late \cup {"reset1"} /\ phase' \in Late
      BY <2>7 DEF ResetSent, FirstByte, SecondByte, FirstIdByte, SecondIdByte, Identified, Finish, Late
    <3>2. Clocks(cfg)
      <4>1. CASE phase = "reset1"
        <5>1. Listening(1)
          BY <1>1, <4>1, MoodAtEnd, MoodSplit DEF Dialogue, MoodInv, Early, Ends
        <5>2. CfgToBe = cfg
          BY <5>1 DEF Listening, CfgToBe, DeviceName
        <5> QED
          BY <4>1, <5>2 DEF ClockInv, ClockBits, Clocked
      <4>2. CASE phase \in Late
        BY <4>2 DEF ClockInv, ClockBits
      <4> QED
        BY <3>1, <4>1, <4>2
    <3>3. phase' \notin {"selfcheck", "restore", "dual", "dualconfig", "irqwrite"} /\ phase' \notin Clocked
      BY <3>1 DEF Late, Clocked
    <3> QED
      BY <1>2, <3>2, <3>3 DEF ClockBits, Clocks
  <2> QED
    BY <2>1, <2>2, <2>3, <2>4, <2>5, <2>6, <2>7 DEF Decide
<1> QED
  BY <1>5, <1>6 DEF ClockInv

\* When the devices are reset neither clock is held, on any orderly machine: a
\* device that has a byte to send can send it (the configuration bytes of ps2_init,
\* ps2_check_dual_channel and ps2_enable_ports).
THEOREM ClocksAreRunning == Spec => []ClocksRun
<1>1. Init => ClocksRun
  <2> SUFFICES ASSUME Init PROVE ClockInv
    BY DEF ClocksRun
  <2>1. phase = "disable" /\ \A c : inbuf # <<CommandWrite(c)>>
    BY DEF Init, HwInit
  <2> QED
    BY <2>1 DEF ClockInv, SwitchInv, ClockBits, Clocked, Late
<1>2. TypeOK /\ Dialogue /\ ConfigIsHeard /\ ConfigIsKept /\ ClocksRun /\ [Next]_vars => ClocksRun'
  <2> SUFFICES ASSUME TypeOK, Dialogue, ConfigIsHeard, ConfigIsKept, ClocksRun, [Next]_vars, Orderly'
               PROVE  ClockInv'
    BY DEF ClocksRun
  <2>1. Orderly /\ HeardInv /\ ConfigInv /\ ClockInv
    BY MachineStands DEF Orderly, ConfigIsHeard, ConfigIsKept, ClocksRun
  <2>2. CASE PortAccess
    <3>1. UNCHANGED <<phase, cfg>>
      BY <2>2 DEF PortAccess, PollInput, PollOutput, Poll, WriteCommand, WriteData, ReadData,
         Access, CpuReads, CpuWrites, hwVars
    <3>2. CASE phase \in Early
      BY <2>1, <2>2, <3>2, AccessKeepsClocks
    <3>3. CASE phase \in Late \cup {"failed"}
      <4>1. phase \notin Early /\ phase \notin Clocked
        BY <3>3 DEF Late, Early, Clocked
      <4> QED
        BY <2>1, <3>1, <3>3, <4>1 DEF ClockInv, SwitchInv, ClockBits, Clocks, Late, Early
    <3> QED
      BY <3>2, <3>3, Phases DEF TypeOK, DriverTypeOK, Early, Late
  <2>3. CASE Decide
    BY <2>1, <2>3, DecideKeepsClocks
  <2>4. CASE HwNext /\ UNCHANGED driverVars
    BY <2>1, <2>4, HwKeepsClocks
  <2>5. CASE UNCHANGED vars
    BY <2>1, <2>5 DEF vars, hwVars, driverVars, ClockInv, SwitchInv, ClockBits, Clocks, CfgToBe, AtEnd
  <2> QED
    BY <2>2, <2>3, <2>4, <2>5 DEF Next, Driver
<1> QED
  BY <1>1, <1>2, TypeCorrect, DialogueIsKept, ReadsBackTheConfig, ConfigIsAsIntended, PTL DEF Spec

-----------------------------------------------------------------------------
(***************************************************************************)
(* Both resets, on a machine whose devices answer in time.                 *)
(***************************************************************************)
\* The answers ps2_reset_device reads to the end: it reads four bytes of a device
\* that acknowledges, two of one that does not, and one of one that says 0xFC.
Brief(a) ==
    /\ Len(a) <= 4
    /\ ~Acked(a) => Len(a) <= 2
    /\ a # <<>> /\ a[1] = BFC => Len(a) = 1

\* Nothing more comes from device p.
Exhausted(p) == inbuf = <<>> /\ obf = FALSE /\ devq[p] = <<>>

\* The byte for device 2 is announced, and then has its way to device 2.
Addressed == Mute /\ Nothing /\ inbuf = <<>> /\ route = "device2"
Addressing ==
    \/ Mute /\ Nothing /\ inbuf = <<CommandWrite("WRITE_PORT2_INPUT")>> /\ route = "device1"
    \/ Addressed
AddressInv == phase = "reset2" =>
    /\ device = 2 /\ got[2] = <<>>
    /\ step <= 4 => polls < InPolls
    /\ step <= 2 => Clear /\ Mute
    /\ step = 3 => Addressing
    /\ step = 4 => Addressed
    /\ step = 5 => Listening(2)

\* Only a device that has said everything is waited for in vain.
WaitInv == phase \in ResetReads =>
    /\ step = 1 => polls < OutPolls \/ Exhausted(device)
    /\ step = 3 /\ error = "timeout" => Exhausted(device)

Turn2 == phase \in {"reset2", "done"} \/ (phase \in ResetReads /\ device = 2)
OutcomeInv ==
    /\ phase \in Early => device = 1
    /\ ~Turn2 => got[2] = <<>>
    /\ phase \in {"id1", "id2"} => Acked(hw.answer[device])
    /\ Turn2 => status[1] = Verdict(hw.answer[1])
    /\ phase = "done" => status[2] = Verdict(hw.answer[2])

ResetInv == ReadInv(2) /\ AddressInv /\ WaitInv /\ OutcomeInv
ResetsAreHeard == WellBehaved => ResetInv

LEMMA Silence ==
    ASSUME Orderly, Mute, inbuf = <<>>, reply = <<>>
    PROVE  ~HwNext
  BY ControllerOnly, Resting

LEMMA ExhaustedIsSilent ==
    ASSUME Orderly, NEW p \in Port, Listening(p), Exhausted(p)
    PROVE  ~HwNext /\ Clear /\ Mute
<1>1. Clear /\ Mute
  <2>1. \A q \in Port : devq[q] = <<>>
    BY DEF Listening, Exhausted
  <2> QED
    BY <2>1 DEF Listening, Exhausted, Mute, Clear, Nothing, Port
<1> QED
  BY <1>1, Silence DEF Clear, Nothing

LEMMA HwKeepsReading ==
    ASSUME TypeOK, Orderly, NEW p \in Port, ReadInv(p), HwNext, UNCHANGED driverVars
    PROVE  ReadInv(p)'
<1>1. UNCHANGED <<phase, step, device, got, error, in>> /\ got' = got
  BY DEF driverVars
<1>2. Reading(p) => Listening(p)'
  BY <1>1, ListeningStep DEF ReadInv
<1> QED
  BY <1>1, <1>2 DEF ReadInv, Reading

LEMMA HwKeepsResets ==
    ASSUME TypeOK, WellBehaved, ReadInv(1), ResetInv, HwNext, UNCHANGED driverVars
    PROVE  ResetInv'
<1>1. /\ UNCHANGED <<phase, step, device, got, error, polls, status>> /\ hw' = hw
      /\ Orderly /\ got' = got
  BY HwKeepsOutput DEF driverVars, WellBehaved
<1>2. ReadInv(2)'
  BY <1>1, HwKeepsReading, Ports DEF ResetInv
<1>3. AddressInv'
  <2> SUFFICES ASSUME phase = "reset2" PROVE AddressInv'
    BY <1>1 DEF AddressInv
  <2>1. AddressInv
    BY DEF ResetInv
  <2>2. step > 2 /\ step # 4
    <3>1. step <= 2 => FALSE
      BY <1>1, <2>1, Silence DEF AddressInv, Clear, Nothing
    <3>2. step = 4 => FALSE
      BY <1>1, <2>1, Silence DEF AddressInv, Addressed, Nothing
    <3> QED
      BY <3>1, <3>2 DEF TypeOK, DriverTypeOK
  <2>3. step = 3 => Addressed'
    <3> SUFFICES ASSUME step = 3 PROVE Addressed'
      OBVIOUS
    <3>1. /\ Mute /\ Nothing /\ inbuf = <<CommandWrite("WRITE_PORT2_INPUT")>>
          /\ route = "device1"
      BY <1>1, <2>1, Silence DEF AddressInv, Addressing, Addressed, Nothing
    <3>2. ControllerNext
      BY <1>1, <3>1, ControllerOnly
    <3>3. /\ inbuf' = <<>> /\ route' = "device2"
          /\ UNCHANGED <<obf, devq, reply>>
      BY <1>1, <3>1, <3>2, TakingCommand DEF WellBehaved, Nothing
    <3> QED
      BY <3>1, <3>3 DEF Addressed, Mute, Nothing
  <2>4. step = 5 => Listening(2)'
    BY <1>1, <2>1, ListeningStep, Ports DEF AddressInv
  <2>5. step' = step /\ step \in Nat /\ ~(step <= 2)
    BY <1>1, <2>2 DEF TypeOK, DriverTypeOK
  <2>6. device' = 2 /\ got'[2] = <<>> /\ (step <= 4 => polls' < InPolls)
    BY <1>1, <2>1 DEF AddressInv
  <2> QED
    BY <2>2, <2>3, <2>4, <2>5, <2>6 DEF AddressInv, Addressing
<1>4. WaitInv'
  <2> SUFFICES ASSUME phase \in ResetReads PROVE WaitInv'
    BY <1>1 DEF WaitInv
  <2>1. device \in Port /\ Listening(device)
    <3>1. device \in Port
      BY DEF TypeOK, DriverTypeOK
    <3>2. ReadInv(device)
      BY <3>1 DEF ResetInv, Port
    <3> QED
      BY <3>1, <3>2 DEF ReadInv, Reading
  <2>2. ~Exhausted(device)
    BY <1>1, <2>1, ExhaustedIsSilent
  <2> QED
    BY <1>1, <2>2 DEF ResetInv, WaitInv
<1>5. OutcomeInv'
  <2>1. OutcomeInv /\ (Turn2' <=> Turn2) /\ device' = device
    BY <1>1 DEF ResetInv, Turn2
  <2>2. /\ Acked(hw.answer[device])' <=> Acked(hw.answer[device])
        /\ \A p : Verdict(hw.answer[p])' = Verdict(hw.answer[p])
    BY <1>1 DEF Acked, Verdict
  <2> QED
    BY <1>1, <2>1, <2>2 DEF OutcomeInv
<1> QED
  BY <1>2, <1>3, <1>4, <1>5 DEF ResetInv

\* What an access leaves alone during the resets.
LEMMA AccessKeepsOutcome ==
    ASSUME TypeOK, OutcomeInv, PortAccess
    PROVE  OutcomeInv' /\ UNCHANGED <<hw, phase, device>> /\ ~AtEnd
<1>1. UNCHANGED <<hw, phase, device, status>> /\ ~AtEnd
  BY DEF PortAccess, PollInput, PollOutput, Poll, WriteCommand, WriteData, ReadData, Access,
     CpuReads, CpuWrites, hwVars, At
<1>2. got' = got \/ (phase \in ResetReads /\ got' = [got EXCEPT ![device] = Append(@, DataPort)])
  BY DEF PortAccess, PollInput, PollOutput, Poll, WriteCommand, WriteData, ReadData
<1>3. Turn2' <=> Turn2
  BY <1>1 DEF Turn2
<1>4. ~Turn2 => got'[2] = got[2]
  <2>1. device \in Port /\ got \in [Port -> Seq(Received)] /\ 2 \in Port
    BY DEF TypeOK, DriverTypeOK, Port
  <2>2. ~Turn2 /\ phase \in ResetReads => device # 2
    BY DEF Turn2
  <2> QED
    BY <1>2, <2>1, <2>2
<1>5. /\ Acked(hw.answer[device])' <=> Acked(hw.answer[device])
      /\ \A p : Verdict(hw.answer[p])' = Verdict(hw.answer[p])
  BY <1>1 DEF Acked, Verdict
<1> QED
  BY <1>1, <1>3, <1>4, <1>5 DEF OutcomeInv
LEMMA AddressingAccess ==
    ASSUME TypeOK, WellBehaved, AddressInv, phase = "reset2", PortAccess
    PROVE  AddressInv'
<1>1. /\ Script[phase] = <<TryIn, Cmd("WRITE_PORT2_INPUT"), TryIn, WriteReset>>
      /\ Len(Script[phase]) = 4
  BY ShortScripts
<1>2. UNCHANGED <<hw, phase, device, got, route, reply, obf, devq, latch>> /\ ~AtEnd
  <2>1. /\ UNCHANGED <<hw, phase, device, route, reply, devq, latch>> /\ ~AtEnd
        /\ got' = got \/ phase \in ResetReads
    BY DEF PortAccess, PollInput, PollOutput, Poll, WriteCommand, WriteData, ReadData, Access,
       CpuReads, CpuWrites, hwVars, At
  <2>2. obf' = obf \/ ReadData
    BY DEF PortAccess, PollInput, PollOutput, Poll, WriteCommand, WriteData, CpuWrites, hwVars
  <2>3. ~ReadData
    <3>1. \A s \in 1..4 : <<TryIn, Cmd("WRITE_PORT2_INPUT"), TryIn, WriteReset>>[s].op # "read"
      <4> SUFFICES ASSUME NEW s \in 1..4
                   PROVE  <<TryIn, Cmd("WRITE_PORT2_INPUT"), TryIn, WriteReset>>[s].op # "read"
        OBVIOUS
      <4>1. s = 1 \/ s = 2 \/ s = 3 \/ s = 4
        OBVIOUS
      <4> QED
        BY <4>1, AccessOps
    <3>2. ~AtEnd => step \in 1..4
      BY <1>1 DEF AtEnd, TypeOK, DriverTypeOK
    <3> QED
      BY <1>1, <3>1, <3>2 DEF ReadData, At
  <2> QED
    BY <2>1, <2>2, <2>3 DEF ResetReads
<1>3. device' = 2 /\ got'[2] = <<>> /\ polls < InPolls /\ step \in 1..4
  <2>1. step \in 1..4
    BY <1>1, <1>2 DEF AtEnd, TypeOK, DriverTypeOK
  <2> QED
    BY <1>2, <2>1 DEF AddressInv
<1>4. hw.present = TRUE /\ obf = FALSE /\ Mute /\ Mute' /\ Nothing /\ Nothing'
  <2>1. step \in {1, 2} \/ step = 3 \/ step = 4
    BY <1>3
  <2>2. Mute /\ Nothing
    BY <2>1 DEF AddressInv, Clear, Addressing, Addressed
  <2>3. hw.present = TRUE
    BY MachineTypes DEF WellBehaved, Orderly, TypeOK, HwTypeOK
  <2> QED
    BY <1>2, <2>2, <2>3 DEF Mute, Nothing
<1>5. ASSUME PollInput
      PROVE  /\ UNCHANGED inbuf /\ polls' < InPolls
             /\ step' = (IF inbuf = <<>> THEN step + 1 ELSE step)
  <2>1. inbuf = <<>> => WaitReturns("none")
    BY <1>3, <1>4, <1>5 DEF PollInput, Poll, InputReady
  <2>2. InputInTime /\ polls # InPolls
    BY <1>3, <1>4, PollAssumption DEF InputInTime, Nothing
  <2>3. inbuf # <<>> => step' = step /\ polls' = polls + 1 /\ polls + 1 < InPolls
    BY <1>4, <1>5, <2>2 DEF PollInput, Poll, InputReady
  <2>4. UNCHANGED inbuf
    BY <1>5 DEF PollInput, Poll, hwVars
  <2> QED
    BY <2>1, <2>3, <2>4, PollAssumption DEF WaitReturns
<1>6. CASE step \in {1, 3}
  <2>1. PollInput
    <3>1. Script[phase][step].op = "tryin"
      BY <1>1, <1>6, AccessOps
    <3> QED
      BY <3>1 DEF PortAccess, PollOutput, WriteCommand, WriteData, ReadData, At
  <2>2. CASE step = 1
    <3>1. inbuf = <<>> /\ route = "device1"
      BY <2>2 DEF AddressInv, Clear
    <3>2. step' = 2 /\ inbuf' = <<>> /\ route' = "device1" /\ polls' < InPolls
      BY <1>2, <1>5, <2>1, <2>2, <3>1
    <3> QED
      BY <1>3, <1>4, <3>2 DEF AddressInv, Clear, Nothing
  <2>3. CASE step = 3
    <3>1. Addressing
      BY <2>3 DEF AddressInv
    <3>2. UNCHANGED <<inbuf, route>> /\ polls' < InPolls
      BY <1>2, <1>5, <2>1
    <3>3. CASE inbuf = <<>>
      <4>1. route = "device2"
        BY <3>1, <3>3 DEF Addressing, Addressed
      <4>2. step' = 4 /\ Addressed'
        BY <1>4, <1>5, <2>1, <2>3, <3>2, <3>3, <4>1 DEF Addressed
      <4> QED
        BY <1>3, <3>2, <4>2 DEF AddressInv
    <3>4. CASE inbuf # <<>>
      <4>1. inbuf = <<CommandWrite("WRITE_PORT2_INPUT")>> /\ route = "device1"
        BY <3>1, <3>4 DEF Addressing, Addressed
      <4>2. step' = 3 /\ Addressing'
        BY <1>4, <1>5, <2>1, <2>3, <3>2, <3>4, <4>1 DEF Addressing
      <4> QED
        BY <1>3, <3>2, <4>2 DEF AddressInv
    <3> QED
      BY <3>3, <3>4
  <2> QED
    BY <1>6, <2>2, <2>3
<1>7. CASE step = 2
  <2>1. Script[phase][step].op = "command" /\ Script[phase][step].arg = "WRITE_PORT2_INPUT"
    BY <1>1, <1>7, AccessOps
  <2>2. WriteCommand
    BY <2>1 DEF PortAccess, PollInput, PollOutput, WriteData, ReadData, At
  <2>3. inbuf' = <<CommandWrite("WRITE_PORT2_INPUT")>> /\ step' = 3 /\ polls' = polls
    BY <1>7, <2>1, <2>2 DEF WriteCommand, CpuWrites, Access
  <2>4. route' = "device1"
    BY <1>2, <1>7 DEF AddressInv, Clear
  <2>5. Addressing'
    BY <1>4, <2>3, <2>4 DEF Addressing
  <2> QED
    BY <1>3, <2>3, <2>5 DEF AddressInv
<1>8. CASE step = 4
  <2>1. Script[phase][step].op = "reset"
    BY <1>1, <1>8, AccessOps
  <2>2. WriteData
    BY <2>1 DEF PortAccess, PollInput, PollOutput, WriteCommand, ReadData, At
  <2>3. inbuf' = <<DataWrite(BFF)>> /\ step' = 5
    BY <1>8, <2>1, <2>2 DEF WriteData, CpuWrites, Access, At
  <2>4. route' = DeviceName(2)
    BY <1>2, <1>8 DEF AddressInv, Addressed, DeviceName
  <2>5. Listening(2)'
    BY <1>3, <1>4, <2>3, <2>4, Ports DEF Listening, Mute, Nothing
  <2> QED
    BY <1>3, <2>3, <2>5 DEF AddressInv
<1> QED
  BY <1>3, <1>6, <1>7, <1>8

\* While a device has something to say its wait is not over.
LEMMA WaitingAccess ==
    ASSUME TypeOK, WellBehaved, ClockInv, WaitInv, phase \in ResetReads, PollOutput,
           Listening(device), step = 1, ~AtEnd
    PROVE  WaitInv'
<1>1. UNCHANGED <<hwVars, phase, device>> /\ device \in Port
  BY DEF PollOutput, Poll, TypeOK, DriverTypeOK
<1>2. (Exhausted(device))' <=> Exhausted(device)
  BY <1>1 DEF Exhausted, hwVars
<1>3. CASE Exhausted(device)
  BY <1>1, <1>2, <1>3 DEF WaitInv
<1>4. CASE ~Exhausted(device)
  <2>1. polls < OutPolls /\ hw.present = TRUE
    BY <1>4, MachineTypes DEF WaitInv, WellBehaved, Orderly, TypeOK, HwTypeOK
  <2>2. CASE OutputReady
    <3>1. WaitReturns("none")
      BY <2>1, <2>2, PollAssumption DEF PollOutput, Poll
    <3>2. step' = 2
      BY <3>1 DEF WaitReturns
    <3> QED
      BY <3>2 DEF WaitInv
  <2>3. CASE ~OutputReady
    <3>1. obf = FALSE
      BY <2>1, <2>3 DEF OutputReady, TypeOK, HwTypeOK
    <3>2. inbuf # <<>> \/ devq[device] # <<>>
      BY <1>4, <3>1 DEF Exhausted
    <3>3. OutputInTime
      <4>1. CASE inbuf # <<>>
        BY <2>1, <4>1 DEF OutputInTime, WellBehaved, Orderly
      <4>2. CASE devq[device] # <<>>
        <5>1. (3 + device) \notin cfg
          BY <1>1 DEF ClockInv, ClockBits, Clocks, Late, ResetReads, Port
        <5> QED
          BY <1>1, <2>1, <4>2, <5>1 DEF OutputInTime, CanSend, WellBehaved
      <4> QED
        BY <3>2, <4>1, <4>2
    <3>4. step' = step /\ polls' < OutPolls
      BY <2>1, <2>3, <3>3, PollAssumption DEF PollOutput, Poll, TypeOK, DriverTypeOK
    <3> QED
      BY <3>4 DEF WaitInv
  <2> QED
    BY <2>2, <2>3
<1> QED
  BY <1>3, <1>4

LEMMA ReadingAccess ==
    ASSUME TypeOK, WellBehaved, CheckedReadIsFresh, ClockInv, ReadInv(1), ResetInv,
           phase \in ResetReads, PortAccess
    PROVE  ReadInv(2)' /\ WaitInv'
<1>1. /\ Script[phase] = <<TryOut, Read>> /\ Len(Script[phase]) = 2
      /\ device \in Port /\ Orderly
  <2>1. Script[phase] = <<TryOut, Read>>
    BY ScriptDevice
  <2>2. device \in Port /\ Orderly
    BY DEF TypeOK, DriverTypeOK, WellBehaved
  <2> QED
    BY <2>1, <2>2
<1>2. ReadInv(device) /\ Reading(device) /\ Listening(device)
  <2>1. ReadInv(device) /\ Reading(device)
    BY <1>1 DEF ResetInv, Port, Reading
  <2> QED
    BY <2>1 DEF ReadInv
<1>3. UNCHANGED <<phase, device>> /\ ~AtEnd
  BY AccessKeepsOutcome DEF ResetInv
<1>4. step \in {1, 2}
  BY <1>1, <1>3 DEF AtEnd, TypeOK, DriverTypeOK
<1>5. (step = 1 /\ PollOutput) \/ (step = 2 /\ ReadData)
  <2>1. CASE step = 1
    <3>1. Script[phase][step].op = "tryout"
      BY <1>1, <2>1, AccessOps
    <3> QED
      BY <2>1, <3>1 DEF PortAccess, PollInput, WriteCommand, WriteData, ReadData, At
  <2>2. CASE step = 2
    <3>1. Script[phase][step].op = "read"
      BY <1>1, <2>2, AccessOps
    <3> QED
      BY <2>2, <3>1 DEF PortAccess, PollInput, PollOutput, WriteCommand, WriteData, At
  <2> QED
    BY <1>4, <2>1, <2>2
<1>6. ReadInv(2)'
  <2>1. CASE device = 2
    BY <1>1, <1>2, <1>5, <2>1, ReadingWait, ReadingRead
  <2>2. CASE device # 2
    BY <1>3, <2>2 DEF ReadInv, Reading
  <2> QED
    BY <2>1, <2>2
<1>7. WaitInv'
  <2>1. CASE step = 1 /\ PollOutput
    BY <1>2, <1>3, <2>1, WaitingAccess DEF ResetInv
  <2>2. CASE step = 2 /\ ReadData
    <3>1. step' = 3 /\ error' = error
      BY <2>2 DEF ReadData, Access
    <3>2. error = "none"
      BY <1>2, <2>2 DEF ReadInv
    <3> QED
      BY <3>1, <3>2 DEF WaitInv
  <2> QED
    BY <1>5, <2>1, <2>2
<1> QED
  BY <1>6, <1>7

LEMMA AccessKeepsResets ==
    ASSUME TypeOK, WellBehaved, CheckedReadIsFresh, ClockInv, ReadInv(1), ResetInv, PortAccess
    PROVE  ResetInv'
<1>1. OutcomeInv' /\ phase' = phase
  BY AccessKeepsOutcome DEF ResetInv
<1>2. ReadInv(2)' /\ WaitInv'
  <2>1. CASE phase \in ResetReads
    BY <2>1, ReadingAccess
  <2>2. CASE phase \notin ResetReads
    BY <1>1, <2>2 DEF ReadInv, Reading, WaitInv
  <2> QED
    BY <2>1, <2>2
<1>3. AddressInv'
  <2>1. CASE phase = "reset2"
    BY <2>1, AddressingAccess DEF ResetInv
  <2>2. CASE phase # "reset2"
    BY <1>1, <2>2 DEF AddressInv
  <2> QED
    BY <2>1, <2>2
<1> QED
  BY <1>1, <1>2, <1>3 DEF ResetInv
\* What the driver knows of an answer when a read is over.
LEMMA HeardAtEnd ==
    ASSUME TypeOK, NEW p \in Port, ReadInv(p), Reading(p), AtEnd
    PROVE  /\ step = 3 /\ Listening(p) /\ error \in {"none", "timeout"}
           /\ Len(hw.answer[p]) \in Nat /\ Count[phase] \in 0..3
           /\ error = "none" =>
                /\ Len(hw.answer[p]) >= Count[phase] + 1
                /\ Len(hw.answer[p]) = Count[phase] + 1 => Exhausted(p)
                /\ in.byte = hw.answer[p][Count[phase] + 1]
                /\ got[p][1].byte = hw.answer[p][1]
           /\ error = "timeout" /\ Exhausted(p) => Len(hw.answer[p]) = Count[phase]
<1> DEFINE c == Count[phase]
           n == Len(got[p])
           q == Len(devq[p])
           a == hw.answer[p]
<1>1. Len(Script[phase]) = 2
  BY ScriptDevice DEF Reading
<1>2. step = 3 /\ error \in {"none", "timeout"}
  BY <1>1 DEF AtEnd, TypeOK, DriverTypeOK, Error
<1>3. Listening(p) /\ c \in 0..3
  BY CountType DEF ReadInv, Reading
<1>4. Len(a) \in Nat /\ n \in Nat /\ q \in Nat
  <2>1. a \in Seq(Byte) /\ got[p] \in Seq(Received) /\ devq[p] \in Seq(Byte)
    BY MachineTypes DEF TypeOK, HwTypeOK, DriverTypeOK
  <2> QED
    BY <2>1
<1>5. InBuffer \in 0..1 /\ (InBuffer = 0 => obf = FALSE)
  BY DEF InBuffer, TypeOK, HwTypeOK
<1>6. Heard(p) => n + InBuffer + q = Len(a) /\ \A i \in 1..n : got[p][i].byte = a[i]
  BY DEF Heard
<1>7. error = "none" => n = c + 1 /\ in = got[p][c + 1]
  BY <1>2 DEF ReadInv
<1>8. error = "timeout" => n = c
  BY <1>2 DEF ReadInv
<1>9. q = 0 => devq[p] = <<>>
  BY EmptySeq DEF TypeOK, HwTypeOK
<1>10. got[p] = <<>> => n = 0
  OBVIOUS
<1>11. devq[p] = <<>> => q = 0
  OBVIOUS
<1> HIDE DEF c, n, q, a
<1>12. ASSUME error = "none"
       PROVE  /\ Len(a) >= c + 1 /\ (Len(a) = c + 1 => Exhausted(p))
              /\ in.byte = a[c + 1] /\ got[p][1].byte = a[1]
  <2>1. n # 0
    BY <1>3, <1>7, <1>12
  <2>2. inbuf = <<>> /\ Heard(p)
    BY <1>3, <1>10, <2>1 DEF Listening
  <2>3. Len(a) >= c + 1
    BY <1>3, <1>4, <1>5, <1>6, <1>7, <1>12, <2>2
  <2>4. Len(a) = c + 1 => InBuffer = 0 /\ q = 0
    BY <1>3, <1>4, <1>5, <1>6, <1>7, <1>12, <2>2
  <2>5. c + 1 \in 1..n /\ 1 \in 1..n
    BY <1>3, <1>7, <1>12
  <2>6. got[p][c + 1].byte = a[c + 1] /\ got[p][1].byte = a[1]
    BY <1>6, <2>2, <2>5
  <2> QED
    BY <1>5, <1>7, <1>9, <1>12, <2>2, <2>3, <2>4, <2>6 DEF Exhausted
<1>13. ASSUME error = "timeout", Exhausted(p) PROVE Len(a) = c
  <2>1. Heard(p) /\ q = 0 /\ InBuffer = 0
    BY <1>3, <1>11, <1>13 DEF Listening, Exhausted, InBuffer
  <2> QED
    BY <1>3, <1>4, <1>6, <1>8, <1>13, <2>1
<1> QED
  BY <1>2, <1>3, <1>4, <1>12, <1>13 DEF c, a

\* A turn ends: the verdict stands, and device 1 has said everything.
LEMMA EndsTurn ==
    ASSUME TypeOK, WellBehaved, OutcomeInv, AtEnd, UNCHANGED hwVars, phase \in ResetReads,
           NEW s, Finish(s), s = Verdict(hw.answer[device]),
           device = 1 => Listening(1) /\ Exhausted(1)
    PROVE  ResetInv'
<1>1. polls = 0 /\ hw' = hw
  BY DEF hwVars, TypeOK, DriverTypeOK, PollLimit, At
<1>2. UNCHANGED <<got, polls>> /\ step' = 1 /\ status \in [Port -> DeviceStatus]
  BY DEF Finish, Enter, TypeOK, DriverTypeOK
<1>3. \A p : Verdict(hw.answer[p])' = Verdict(hw.answer[p])
  BY <1>1 DEF Acked, Verdict
<1>4. CASE device = 1
  <2>1. /\ phase' = "reset2" /\ device' = 2
        /\ status' = [status EXCEPT ![1] = s, ![2] = "not_connected"]
    BY <1>4 DEF Finish, Enter
  <2>2. status'[1] = s
    BY <1>2, <2>1, Ports
  <2>3. got'[2] = <<>>
    BY <1>2, <1>4 DEF OutcomeInv, Turn2, ResetReads
  <2>4. Clear' /\ Mute'
    <3>1. Clear /\ Mute
      BY <1>4, ExhaustedIsSilent, Ports DEF WellBehaved
    <3> QED
      BY <3>1 DEF Clear, Mute, Nothing, hwVars
  <2>5. polls' < InPolls
    BY <1>1, <1>2, PollAssumption
  <2>6. AddressInv'
    BY <1>2, <2>1, <2>3, <2>4, <2>5 DEF AddressInv
  <2>7. OutcomeInv'
    BY <1>3, <1>4, <2>1, <2>2 DEF OutcomeInv, Turn2, Early
  <2>8. ReadInv(2)' /\ WaitInv'
    BY <2>1 DEF ReadInv, Reading, WaitInv, ResetReads
  <2> QED
    BY <2>6, <2>7, <2>8 DEF ResetInv
<1>5. CASE device # 1
  <2>1. phase' = "done" /\ device = 2 /\ status' = [status EXCEPT ![2] = s]
    BY <1>5 DEF Finish, Enter
  <2>2. status'[2] = s /\ status'[1] = status[1]
    BY <1>2, <2>1, Ports
  <2>3. status[1] = Verdict(hw.answer[1])
    BY <2>1 DEF OutcomeInv, Turn2
  <2>4. OutcomeInv'
    BY <1>3, <2>1, <2>2, <2>3 DEF OutcomeInv, Turn2, Early
  <2>5. ReadInv(2)' /\ WaitInv' /\ AddressInv'
    BY <2>1 DEF ReadInv, Reading, WaitInv, AddressInv, ResetReads
  <2> QED
    BY <2>4, <2>5 DEF ResetInv
<1> QED
  BY <1>4, <1>5

LEMMA NextByte2 ==
    ASSUME TypeOK, ResetInv, AtEnd, UNCHANGED hwVars, error = "none", phase \in ResetReads,
           NEW ph \in ResetReads, Enter(ph), Count[ph] = Count[phase] + 1,
           UNCHANGED <<device, status>>,
           ph \in {"id1", "id2"} => Acked(hw.answer[device])
    PROVE  ResetInv'
<1>1. polls' = 0 /\ hw' = hw /\ phase' = ph /\ UNCHANGED got /\ step' = 1
  BY DEF Enter, hwVars, TypeOK, DriverTypeOK, PollLimit, At
<1>2. ReadInv(2)'
  BY NextByte, Ports DEF ResetInv
<1>3. WaitInv'
  <2>1. 0 < OutPolls
    BY PollAssumption
  <2> QED
    BY <1>1, <2>1 DEF WaitInv
<1>4. AddressInv'
  BY <1>1 DEF AddressInv, ResetReads
<1>5. /\ Acked(hw.answer[device])' <=> Acked(hw.answer[device])
      /\ \A p : Verdict(hw.answer[p])' = Verdict(hw.answer[p])
  BY <1>1 DEF Acked, Verdict
<1>6. OutcomeInv'
  <2>1. Turn2' <=> Turn2
    BY <1>1 DEF Turn2, ResetReads
  <2> QED
    BY <1>1, <1>5, <2>1 DEF ResetInv, OutcomeInv, ResetReads, Early
<1> QED
  BY <1>2, <1>3, <1>4, <1>6 DEF ResetInv
LEMMA Answers ==
    ASSUME NEW a, Len(a) \in Nat
    PROVE  /\ Len(a) = 0 /\ a = <<>> => Verdict(a) = "not_connected"
           /\ Len(a) # 0 /\ Acked(a) => Verdict(a) = "okay"
           /\ Len(a) # 0 /\ ~Acked(a) => Verdict(a) = "self_check_fail"
           /\ Acked(a) => Len(a) >= 2 /\ a[1] # BFC
<1>1. Len(a) # 0 => a # <<>>
  OBVIOUS
<1>2. BFC # BFA /\ BFC # BAA
  <2>1. 1 \notin BFC /\ 1 \in BFA /\ 1 \in BAA
    BY DEF BFC, BFA, BAA
  <2> QED
    BY <2>1
<1>3. Acked(a) => a[1] \in {BFA, BAA}
  BY DEF Acked
<1> QED
  BY <1>1, <1>2, <1>3 DEF Verdict, Acked

LEMMA DecideKeepsResets ==
    ASSUME TypeOK, WellBehaved, Dialogue, ReadInv(1), ResetInv, Decide, Brief(hw.answer[1])
    PROVE  ResetInv'
<1> DEFINE a == hw.answer[device]
<1>1. /\ AtEnd /\ UNCHANGED hwVars /\ hw' = hw /\ step' = 1 /\ polls = 0
      /\ device \in Port /\ Orderly /\ OutcomeInv
  BY DecideEnters DEF hwVars, TypeOK, DriverTypeOK, PollLimit, At, WellBehaved, ResetInv
<1> USE DEF Deciding
<1>2. CASE FirstConfig \/ ControllerSelfCheck \/ CheckDualChannel \/ DualConfig \/ DualDone
           \/ Port1SelfCheck \/ Port2SelfCheck \/ PortsEnabled \/ IrqConfig
  <2>1. phase \in Early /\ phase' \in (Early \cup {"failed"}) \ {"reset1"} /\ UNCHANGED <<device, got>>
    BY <1>2 DEF FirstConfig, ControllerSelfCheck, CheckDualChannel, DualConfig, DualDone,
       Port1SelfCheck, Port2SelfCheck, PortsEnabled, IrqConfig, Enter, Early
  <2>2. ~Turn2 /\ ~Turn2' /\ phase' \notin ResetReads /\ phase' # "reset2" /\ phase' # "done"
    BY <2>1 DEF Turn2, Early, ResetReads
  <2>3. OutcomeInv'
    BY <1>1, <2>1, <2>2 DEF OutcomeInv, ResetReads
  <2> QED
    BY <2>2, <2>3 DEF ResetInv, ReadInv, Reading, AddressInv, WaitInv
<1>3. CASE ResetDevices
  <2>1. phase = "irqwrite" /\ phase' = "reset1" /\ device' = 1 /\ got' = got
    BY <1>3 DEF ResetDevices, StartReset, Enter
  <2>2. ~Turn2 /\ ~Turn2' /\ phase' \notin ResetReads
    BY <2>1 DEF Turn2, ResetReads
  <2>3. OutcomeInv'
    BY <1>1, <2>1, <2>2 DEF OutcomeInv
  <2> QED
    BY <2>1, <2>2, <2>3 DEF ResetInv, ReadInv, Reading, AddressInv, WaitInv
<1>4. CASE ResetSent
  <2>1. /\ phase \in {"reset1", "reset2"} /\ phase' = "ack"
        /\ UNCHANGED <<device, status, got, polls, error, in>>
    BY <1>4 DEF ResetSent, Enter
  <2>2. WaitInv' /\ AddressInv'
    <3>1. polls' < OutPolls
      BY <1>1, <2>1, PollAssumption
    <3> QED
      BY <1>1, <2>1, <3>1 DEF WaitInv, AddressInv
  <2>3. phase = "reset1" => device = 1
    BY <1>1 DEF OutcomeInv, Early
  <2>4. phase = "reset2" => device = 2 /\ got[2] = <<>> /\ Listening(2)
    <3> SUFFICES ASSUME phase = "reset2" PROVE device = 2 /\ got[2] = <<>> /\ Listening(2)
      OBVIOUS
    <3>1. Len(Script[phase]) = 4
      BY ShortScripts
    <3>2. step = 5
      BY <1>1, <3>1 DEF AtEnd, TypeOK, DriverTypeOK
    <3> QED
      BY <3>2 DEF ResetInv, AddressInv
  <2>5. ReadInv(2)'
    <3>1. CASE phase = "reset1"
      BY <2>1, <2>3, <3>1 DEF ReadInv, Reading
    <3>2. CASE phase = "reset2"
      <4>1. Listening(2)'
        BY <1>1, <2>1, <2>4, <3>2 DEF Listening, Heard, InBuffer, hwVars
      <4>2. Len(got'[2]) = Count[phase']
        BY <2>1, <2>4, <3>2 DEF Count
      <4> QED
        BY <1>1, <4>1, <4>2 DEF ReadInv
    <3> QED
      BY <2>1, <3>1, <3>2
  <2>6. OutcomeInv'
    <3>1. Turn2' <=> Turn2
      BY <2>1, <2>3, <2>4 DEF Turn2, ResetReads
    <3>2. \A p : Verdict(hw.answer[p])' = Verdict(hw.answer[p])
      BY <1>1 DEF Verdict, Acked
    <3> QED
      BY <1>1, <2>1, <3>1, <3>2 DEF OutcomeInv, Early
  <2> QED
    BY <2>2, <2>5, <2>6 DEF ResetInv
<1>5. ASSUME phase \in ResetReads
      PROVE  /\ Listening(device) /\ error \in {"none", "timeout"}
             /\ Len(a) \in Nat /\ Count[phase] \in 0..3
             /\ error = "none" =>
                  /\ Len(a) >= Count[phase] + 1
                  /\ Len(a) = Count[phase] + 1 => Exhausted(device)
                  /\ in.byte = a[Count[phase] + 1]
                  /\ got[device][1].byte = a[1]
             /\ error = "timeout" => Exhausted(device) /\ Len(a) = Count[phase]
  <2>1. ReadInv(device) /\ Reading(device)
    BY <1>1, <1>5 DEF ResetInv, Port, Reading
  <2>2. step = 3
    BY <1>1, <2>1, HeardAtEnd
  <2>3. error = "timeout" => Exhausted(device)
    BY <1>5, <2>2 DEF ResetInv, WaitInv
  <2> QED
    BY <1>1, <2>1, <2>3, HeardAtEnd
<1>6. device = 1 => Len(a) <= 4 /\ (~Acked(a) => Len(a) <= 2) /\ (a # <<>> /\ a[1] = BFC => Len(a) = 1)
  BY DEF Brief
<1>7. /\ Count["ack"] = 0 /\ Count["bat"] = 1 /\ Count["id1"] = 2 /\ Count["id2"] = 3
      /\ ResetReads = {"ack", "bat", "id1", "id2"}
  BY DEF Count, ResetReads
<1>8. Len(a) = 0 => a = <<>>
  <2>1. a \in Seq(Byte)
    BY <1>1, MachineTypes DEF TypeOK, HwTypeOK
  <2> QED
    BY <2>1, EmptySeq
<1>9. Len(a) # 0 => a # <<>>
  OBVIOUS
<1>10. ASSUME phase \in ResetReads, NEW s, Finish(s), s = Verdict(a), device = 1 => Exhausted(1)
       PROVE  ResetInv'
  BY <1>1, <1>5, <1>10, EndsTurn
<1> HIDE DEF a
<1>11. CASE FirstByte
  <2>1. phase = "ack" /\ phase \in ResetReads /\ Count[phase] = 0 /\ Count[phase] + 1 = 1
    BY <1>7, <1>11 DEF FirstByte
  <2>2. CASE error = "timeout" /\ Finish("not_connected")
    <3>1. Exhausted(device) /\ Len(a) = 0
      BY <1>5, <1>7, <2>1, <2>2
    <3>2. Verdict(a) = "not_connected"
      BY <1>8, <3>1, Answers
    <3> QED
      BY <1>10, <2>1, <2>2, <3>1, <3>2
  <2>3. CASE error = "none" /\ in.byte = BFC /\ Finish("self_check_fail")
    <3>1. /\ Len(a) \in Nat /\ Len(a) >= 1 /\ a[1] = BFC
          /\ Len(a) = 1 => Exhausted(device)
      BY <1>5, <2>1, <2>3
    <3>2. Verdict(a) = "self_check_fail"
      <4>1. Len(a) # 0 /\ ~Acked(a)
        BY <3>1, Answers
      <4> QED
        BY <3>1, <4>1, Answers
    <3>3. device = 1 => Exhausted(1)
      BY <1>6, <1>9, <3>1
    <3> QED
      BY <1>10, <2>1, <2>3, <3>2, <3>3
  <2>4. CASE error = "none" /\ Enter("bat") /\ UNCHANGED <<device, status>>
    BY <1>1, <1>7, <2>1, <2>4, NextByte2
  <2> QED
    BY <1>11, <2>2, <2>3, <2>4 DEF FirstByte
<1>12. CASE SecondByte
  <2>1. phase = "bat" /\ phase \in ResetReads /\ Count[phase] = 1 /\ Count[phase] + 1 = 2
    BY <1>7, <1>12 DEF SecondByte
  <2>2. CASE error = "timeout" /\ Finish("self_check_fail")
    <3>1. Exhausted(device) /\ Len(a) = 1
      BY <1>5, <2>1, <2>2
    <3>2. Verdict(a) = "self_check_fail"
      <4>1. Len(a) # 0 /\ Len(a) \in Nat /\ ~(Len(a) >= 2)
        BY <3>1
      <4>2. ~Acked(a)
        BY <4>1, Answers
      <4> QED
        BY <4>1, <4>2, Answers
    <3> QED
      BY <1>10, <2>1, <2>2, <3>1, <3>2
  <2>3. error = "none" => /\ Len(a) \in Nat /\ Len(a) >= 2
                          /\ in.byte = a[2] /\ got[device][1].byte = a[1]
                          /\ Len(a) = 2 => Exhausted(device)
    BY <1>5, <2>1
  <2>4. error = "none" => (ResetOkay(got[device][1].byte, in.byte) <=> Acked(a))
    BY <2>3 DEF ResetOkay, Acked
  <2>5. CASE error = "none" /\ ~ResetOkay(got[device][1].byte, in.byte) /\ Finish("self_check_fail")
    <3>1. Len(a) \in Nat /\ Len(a) >= 2 /\ ~Acked(a) /\ (Len(a) = 2 => Exhausted(device))
      BY <2>3, <2>4, <2>5
    <3>2. Verdict(a) = "self_check_fail"
      <4>1. Len(a) # 0
        BY <3>1
      <4> QED
        BY <3>1, <4>1, Answers
    <3>3. device = 1 => Exhausted(1)
      <4>1. device = 1 => Len(a) <= 2
        BY <1>6, <3>1
      <4>2. Len(a) <= 2 => Len(a) = 2
        <5>1. \A n \in Nat : n >= 2 /\ n <= 2 => n = 2
          OBVIOUS
        <5> QED
          BY <3>1, <5>1
      <4> QED
        BY <3>1, <4>1, <4>2
    <3> QED
      BY <1>10, <2>1, <2>5, <3>2, <3>3
  <2>6. CASE error = "none" /\ ResetOkay(got[device][1].byte, in.byte) /\ Enter("id1")
             /\ UNCHANGED <<device, status>>
    BY <1>1, <1>7, <2>1, <2>4, <2>6, NextByte2 DEF a
  <2>7. error \in {"none", "timeout"}
    BY <1>5, <2>1
  <2> QED
    BY <1>12, <2>2, <2>5, <2>6, <2>7 DEF SecondByte
<1>13. ASSUME phase \in {"id1", "id2"}, Identified, error = "none" => phase = "id2"
       PROVE  ResetInv'
  <2>1. phase \in ResetReads /\ Acked(a)
    BY <1>1, <1>7, <1>13 DEF OutcomeInv, a
  <2>2. Verdict(a) = "okay"
    <3>1. Len(a) \in Nat
      BY <1>5, <2>1
    <3>2. Len(a) # 0
      BY <2>1, <3>1, Answers
    <3> QED
      BY <2>1, <3>1, <3>2, Answers
  <2>3. device = 1 => Exhausted(1)
    <3>1. CASE error = "timeout"
      BY <1>5, <2>1, <3>1
    <3>2. CASE error = "none"
      <4>1. Count[phase] + 1 = 4
        BY <1>7, <1>13, <3>2
      <4>2. Len(a) \in Nat /\ Len(a) >= 4 /\ (Len(a) = 4 => Exhausted(device))
        BY <1>5, <2>1, <3>2, <4>1
      <4>3. device = 1 => Len(a) <= 4
        BY <1>6
      <4>4. Len(a) <= 4 => Len(a) = 4
        <5>1. \A n \in Nat : n >= 4 /\ n <= 4 => n = 4
          OBVIOUS
        <5> QED
          BY <4>2, <5>1
      <4> QED
        BY <4>2, <4>3, <4>4
    <3> QED
      BY <1>5, <2>1, <3>1, <3>2
  <2>4. Finish("okay")
    BY <1>13 DEF Identified
  <2> QED
    BY <1>10, <2>1, <2>2, <2>3, <2>4
<1>14. CASE FirstIdByte
  <2>1. phase = "id1" /\ phase \in ResetReads
    BY <1>7, <1>14 DEF FirstIdByte
  <2>2. CASE error = "timeout" /\ Identified
    BY <1>13, <2>1, <2>2
  <2>3. CASE error = "none" /\ Enter("id2") /\ UNCHANGED <<device, status>>
    <3>1. Acked(hw.answer[device])
      BY <1>1, <2>1 DEF OutcomeInv
    <3> QED
      BY <1>1, <1>7, <2>1, <2>3, <3>1, NextByte2
  <2> QED
    BY <1>14, <2>2, <2>3 DEF FirstIdByte
<1>15. CASE SecondIdByte
  BY <1>13, <1>15 DEF SecondIdByte
<1> QED
  BY <1>2, <1>3, <1>4, <1>11, <1>12, <1>14, <1>15 DEF Decide
\* On a well-behaved machine the driver reads the answers of both devices from
\* their beginning, each in its own turn, and judges each device by its answer
\* (ps2_reset_device, ps2_device_write_data, ps2_device_read_data).
THEOREM HearsBothDevices ==
    ASSUME \A m \in Machines : Brief(m.answer[1])
    PROVE  Spec => []ResetsAreHeard
<1>1. Init => ResetsAreHeard
  <2> SUFFICES ASSUME Init PROVE ResetInv
    BY DEF ResetsAreHeard
  <2>1. phase = "disable" /\ device = 1 /\ got[2] = <<>>
    BY Ports DEF Init
  <2> QED
    BY <2>1 DEF ResetInv, ReadInv, Reading, AddressInv, WaitInv, OutcomeInv, Turn2, ResetReads
<1>2. TypeOK /\ Dialogue /\ CheckedReadIsFresh /\ AnswerIsHeard /\ ClocksRun /\ ResetsAreHeard
        /\ [Next]_vars => ResetsAreHeard'
  <2> SUFFICES ASSUME TypeOK, Dialogue, CheckedReadIsFresh, AnswerIsHeard, ClocksRun,
                      ResetsAreHeard, [Next]_vars, WellBehaved'
               PROVE  ResetInv'
    BY DEF ResetsAreHeard
  <2>1. WellBehaved /\ Orderly /\ ReadInv(1) /\ ClockInv /\ ResetInv
    BY MachineStands DEF WellBehaved, Orderly, AnswerIsHeard, ClocksRun, ResetsAreHeard
  <2>2. Brief(hw.answer[1])
    BY DEF TypeOK, HwTypeOK
  <2>3. CASE PortAccess
    BY <2>1, <2>3, AccessKeepsResets
  <2>4. CASE Decide
    BY <2>1, <2>2, <2>4, DecideKeepsResets
  <2>5. CASE HwNext /\ UNCHANGED driverVars
    BY <2>1, <2>5, HwKeepsResets
  <2>6. CASE UNCHANGED vars
    <3>1. UNCHANGED <<hwVars, driverVars>>
      BY <2>6 DEF vars
    <3>2. /\ UNCHANGED <<phase, step, device, got, error, in, polls, status>> /\ got' = got
          /\ UNCHANGED <<hw, inbuf, route, reply, obf, latch, devq>>
      BY <3>1 DEF driverVars, hwVars
    <3>3. (Listening(2)' <=> Listening(2)) /\ (Exhausted(device)' <=> Exhausted(device))
      BY <3>2 DEF Listening, Heard, InBuffer, Exhausted
    <3>4. (Addressing' <=> Addressing) /\ (Addressed' <=> Addressed) /\ (Clear' <=> Clear)
          /\ (Mute' <=> Mute) /\ (Turn2' <=> Turn2)
      BY <3>2 DEF Addressing, Addressed, Clear, Nothing, Mute, Turn2
    <3>5. /\ Acked(hw.answer[device])' <=> Acked(hw.answer[device])
          /\ \A p : Verdict(hw.answer[p])' = Verdict(hw.answer[p])
      BY <3>2 DEF Acked, Verdict
    <3>6. ReadInv(2)'
      BY <2>1, <3>2, <3>3 DEF ResetInv, ReadInv, Reading
    <3>7. AddressInv' /\ WaitInv'
      BY <2>1, <3>2, <3>3, <3>4 DEF ResetInv, AddressInv, WaitInv
    <3>8. OutcomeInv'
      BY <2>1, <3>2, <3>4, <3>5 DEF ResetInv, OutcomeInv
    <3> QED
      BY <3>6, <3>7, <3>8 DEF ResetInv
  <2> QED
    BY <2>3, <2>4, <2>5, <2>6 DEF Next, Driver
<1> QED
  BY <1>1, <1>2, TypeCorrect, DialogueIsKept, CheckedReadsAreFresh, HearsDevice1, ClocksAreRunning,
     PTL DEF Spec

-----------------------------------------------------------------------------
(***************************************************************************)
(* The types.                                                              *)
(***************************************************************************)
\* A device has the type it had at boot until its turn is over, and then the type
\* of the id it sent, if it passed its reset.
TypeInv ==
    /\ ~Turn2 => type[1] = "unknown"
    /\ Turn2 => type[1] = Typed(hw.answer[1])
    /\ phase # "done" => type[2] = "unknown"
    /\ phase = "done" => type[2] = Typed(hw.answer[2])
TypesAreKnown == WellBehaved => TypeInv

\* The bytes of an answer from the third on that ps2_reset_device has read make the
\* id of the answer.
LEMMA SameId ==
    ASSUME NEW g \in Seq(Received), NEW a \in Seq(Byte), Len(g) \in 2..4, Len(g) <= Len(a),
           Len(g) = 4 \/ Len(g) = Len(a), \A k \in 1..Len(g) : g[k].byte = a[k]
    PROVE  IdType(a) = IF DeviceId(g) = {} THEN "00" ELSE "unknown"
<1> DEFINE n == Len(g)
           m == Len(a)
<1>1. n \in 2..4 /\ m \in Nat /\ n <= m /\ (n = 4 \/ n = m) /\ DOMAIN a = 1..m
  OBVIOUS
<1>2. \A k \in 1..n : g[k].byte = a[k]
  OBVIOUS
<1> HIDE DEF n, m
<1>3. (1..m) \cap {3, 4} = 3..n /\ \A k \in 3..n : k \in 1..n
  BY <1>1
<1>4. {g[k].byte : k \in 3..n} = {a[k] : k \in 3..n}
  BY <1>2, <1>3
<1>5. DeviceId(g) = {a[k] : k \in 3..n} \ {B00}
  BY <1>4 DEF DeviceId, n
<1>6. IdType(a) = IF {a[k] : k \in 3..n} \subseteq {B00} THEN "00" ELSE "unknown"
  BY <1>1, <1>3 DEF IdType
<1> QED
  BY <1>5, <1>6

\* When the reading of the id is over, what was read is the beginning of the answer,
\* and all of it unless that is longer than four bytes.
LEMMA IdHeard ==
    ASSUME TypeOK, NEW p \in Port, ReadInv(p), Reading(p), AtEnd,
           \/ phase \in {"id1", "id2"} /\ error = "timeout" /\ Exhausted(p)
           \/ phase = "id2" /\ error = "none"
    PROVE  IdType(hw.answer[p]) = IF DeviceId(got[p]) = {} THEN "00" ELSE "unknown"
<1> DEFINE a == hw.answer[p]
           g == got[p]
<1>1. a \in Seq(Byte) /\ g \in Seq(Received)
  BY MachineTypes DEF TypeOK, HwTypeOK, DriverTypeOK
<1>2. step = 3 /\ Listening(p)
  BY HeardAtEnd
<1>3. Count["id1"] = 2 /\ Count["id2"] = 3
  BY DEF Count
<1>4. Len(g) = IF error = "none" THEN 4 ELSE Count[phase]
  BY <1>2, <1>3 DEF ReadInv
<1>5. Len(g) \in 2..4 /\ (error = "none" => Len(g) = 4)
  BY <1>3, <1>4
<1>6. error = "none" => Len(a) >= 4
  BY <1>3, HeardAtEnd
<1>7. error = "timeout" => Len(g) = Len(a)
  BY <1>4, HeardAtEnd
<1>8. Len(g) <= Len(a) /\ (Len(g) = 4 \/ Len(g) = Len(a))
  BY <1>1, <1>5, <1>6, <1>7
<1>9. g # <<>>
  BY <1>5
<1>10. \A k \in 1..Len(g) : g[k].byte = a[k]
  BY <1>2, <1>9 DEF Listening, Heard
<1> HIDE DEF a, g
<1> QED
  BY <1>1, <1>5, <1>8, <1>10, SameId DEF a, g

\* A step that ends no turn keeps the types.
LEMMA SameTurn ==
    ASSUME TypeInv, UNCHANGED <<hw, type>>, Turn2' <=> Turn2, phase' = "done" <=> phase = "done"
    PROVE  TypeInv'
<1>1. \A p : Typed(hw.answer[p])' = Typed(hw.answer[p])
  BY DEF Typed, IdType, Acked
<1> QED
  BY <1>1 DEF TypeInv

\* A turn ends, and the device has the type its answer gives it.
LEMMA TurnTyped ==
    ASSUME TypeOK, OutcomeInv, TypeInv, NEW s, Finish(s), hw' = hw, phase \in ResetReads,
           \A p \in Port \ {device} : type'[p] = type[p],
           type'[device] = Typed(hw.answer[device])
    PROVE  TypeInv'
<1>1. \A p : Typed(hw.answer[p])' = Typed(hw.answer[p])
  BY DEF Typed, IdType, Acked
<1>2. CASE device = 1
  <2>1. phase' = "reset2" /\ Turn2' /\ phase # "done"
    BY <1>2 DEF Finish, Enter, Turn2, ResetReads
  <2>2. type'[2] = type[2] /\ type'[1] = Typed(hw.answer[1])
    BY <1>2, Ports
  <2> QED
    BY <1>1, <2>1, <2>2 DEF TypeInv
<1>3. CASE device # 1
  <2>1. device = 2 /\ phase' = "done" /\ Turn2' /\ Turn2
    BY <1>3 DEF Finish, Enter, Turn2
  <2>2. type'[1] = type[1] /\ type'[2] = Typed(hw.answer[2])
    BY <2>1, Ports
  <2> QED
    BY <1>1, <2>1, <2>2 DEF TypeInv
<1> QED
  BY <1>2, <1>3

LEMMA DecideKeepsTypes ==
    ASSUME TypeOK, WellBehaved, ReadInv(1), ResetInv, ResetInv', TypeInv, Decide
    PROVE  TypeInv'
<1>1. /\ AtEnd /\ UNCHANGED hwVars /\ hw' = hw /\ device \in Port /\ OutcomeInv
      /\ type \in [Port -> DeviceType] /\ status \in [Port -> DeviceStatus]
  BY DecideEnters DEF hwVars, TypeOK, DriverTypeOK, ResetInv
<1>2. CASE FirstConfig \/ ControllerSelfCheck \/ CheckDualChannel \/ DualConfig \/ DualDone
           \/ Port1SelfCheck \/ Port2SelfCheck \/ PortsEnabled \/ IrqConfig \/ ResetDevices
  <2>1. /\ phase \in Early /\ phase' \in Early \cup {"failed"} /\ type' = type
        /\ phase' # "reset2"
    BY <1>2 DEF FirstConfig, ControllerSelfCheck, CheckDualChannel, DualConfig, DualDone,
       Port1SelfCheck, Port2SelfCheck, PortsEnabled, IrqConfig, ResetDevices, StartReset, Enter,
       Early, Deciding
  <2>2. ~Turn2 /\ ~Turn2' /\ phase # "done" /\ phase' # "done"
    BY <2>1 DEF Turn2, Early, ResetReads
  <2> QED
    BY <1>1, <2>1, <2>2, SameTurn
<1>3. ASSUME UNCHANGED <<device, type>>, phase \in {"reset1", "reset2"} \cup ResetReads,
             phase' \in ResetReads, phase = "reset1" => device = 1, phase = "reset2" => device = 2
      PROVE  TypeInv'
  <2>1. Turn2' <=> Turn2
    BY <1>1, <1>3 DEF Turn2, ResetReads, Port
  <2>2. phase # "done" /\ phase' # "done"
    BY <1>3 DEF ResetReads
  <2> QED
    BY <1>1, <1>3, <2>1, <2>2, SameTurn
<1>4. CASE ResetSent
  <2>1. phase \in {"reset1", "reset2"} /\ phase' = "ack" /\ UNCHANGED <<device, type>>
    BY <1>4 DEF ResetSent, Enter, Deciding
  <2>2. phase = "reset1" => device = 1
    BY <1>1 DEF OutcomeInv, Early
  <2>3. phase = "reset2" => device = 2
    BY DEF ResetInv, AddressInv
  <2> QED
    BY <1>3, <2>1, <2>2, <2>3 DEF ResetReads
\* A reset that fails leaves the type, and the device has not acknowledged.
<1>5. ASSUME NEW s \in {"not_connected", "self_check_fail"}, Finish(s), type' = type,
             phase \in ResetReads
      PROVE  TypeInv'
  <2>1. status'[device] = s /\ (phase' = "done" \/ (phase' = "reset2" /\ device = 1))
        /\ (phase' = "done" => device = 2)
    <3>1. CASE device = 1 /\ phase' = "reset2"
             /\ status' = [status EXCEPT ![1] = s, ![2] = "not_connected"]
      BY <1>1, <3>1, Ports
    <3>2. CASE device = 2 /\ phase' = "done" /\ status' = [status EXCEPT ![2] = s]
      BY <1>1, <3>2, Ports
    <3> QED
      BY <1>5, <3>1, <3>2 DEF Finish, Enter
  <2>2. s = Verdict(hw'.answer[device])
    BY <1>1, <2>1 DEF ResetInv, OutcomeInv, Turn2
  <2>3. ~Acked(hw.answer[device])
    <3> DEFINE a == hw.answer[device]
    <3>1. a \in Seq(Byte)
      BY <1>1, MachineTypes DEF TypeOK, HwTypeOK
    <3>2. Verdict(a) # "okay"
      BY <1>1, <2>2
    <3> HIDE DEF a
    <3>3. a = <<>> => ~(Len(a) >= 2)
      OBVIOUS
    <3> QED
      BY <3>2, <3>3 DEF Verdict, Acked, a
  <2>4. type[device] = "unknown"
    <3>1. device = 1 => ~Turn2
      BY <1>5 DEF Turn2, ResetReads
    <3>2. phase # "done"
      BY <1>5 DEF ResetReads
    <3> QED
      BY <1>1, <3>1, <3>2 DEF TypeInv, Port
  <2>5. type'[device] = Typed(hw.answer[device])
    BY <1>5, <2>3, <2>4 DEF Typed
  <2> QED
    BY <1>1, <1>5, <2>5, TurnTyped
<1>6. CASE FirstByte
  <2>1. phase = "ack" /\ phase \in ResetReads /\ type' = type
    BY <1>6 DEF FirstByte, Deciding, ResetReads
  <2>2. CASE Finish("not_connected") \/ Finish("self_check_fail")
    BY <1>5, <2>1, <2>2
  <2>3. CASE Enter("bat") /\ UNCHANGED <<device, status>>
    BY <1>3, <2>1, <2>3 DEF Enter, ResetReads
  <2> QED
    BY <1>6, <2>2, <2>3 DEF FirstByte
<1>7. CASE SecondByte
  <2>1. phase = "bat" /\ phase \in ResetReads /\ type' = type
    BY <1>7 DEF SecondByte, Deciding, ResetReads
  <2>2. CASE Finish("self_check_fail")
    BY <1>5, <2>1, <2>2
  <2>3. CASE Enter("id1") /\ UNCHANGED <<device, status>>
    BY <1>3, <2>1, <2>3 DEF Enter, ResetReads
  <2> QED
    BY <1>7, <2>2, <2>3 DEF SecondByte
<1>8. ASSUME phase \in {"id1", "id2"}, Identified, error = "none" => phase = "id2"
      PROVE  TypeInv'
  <2>1. phase \in ResetReads /\ Acked(hw.answer[device])
    BY <1>1, <1>8 DEF OutcomeInv, ResetReads
  <2>2. ReadInv(device) /\ Reading(device)
    BY <1>1, <2>1 DEF ResetInv, Port, Reading
  <2>3. step = 3 /\ error \in {"none", "timeout"}
    BY <1>1, <2>2, HeardAtEnd
  <2>4. error = "timeout" => Exhausted(device)
    BY <2>1, <2>3 DEF ResetInv, WaitInv
  <2>5. IdType(hw.answer[device]) = IF DeviceId(got[device]) = {} THEN "00" ELSE "unknown"
    BY <1>1, <1>8, <2>2, <2>3, <2>4, IdHeard
  <2>6. type'[device] = IdType(hw.answer[device])
        /\ \A p \in Port \ {device} : type'[p] = type[p]
    BY <1>1, <1>8, <2>5 DEF Identified
  <2>7. type'[device] = Typed(hw.answer[device])
    BY <2>1, <2>6 DEF Typed
  <2>8. Finish("okay")
    BY <1>8 DEF Identified
  <2> QED
    BY <1>1, <2>1, <2>6, <2>7, <2>8, TurnTyped
<1>9. CASE FirstIdByte
  <2>1. phase = "id1" /\ phase \in ResetReads
    BY <1>9 DEF FirstIdByte, Deciding, ResetReads
  <2>2. CASE error = "timeout" /\ Identified
    BY <1>8, <2>1, <2>2
  <2>3. CASE Enter("id2") /\ UNCHANGED <<device, status, type>>
    BY <1>3, <2>1, <2>3 DEF Enter, ResetReads
  <2> QED
    BY <1>9, <2>2, <2>3 DEF FirstIdByte
<1>10. CASE SecondIdByte
  BY <1>8, <1>10 DEF SecondIdByte, Deciding
<1> QED
  BY <1>2, <1>4, <1>6, <1>7, <1>9, <1>10 DEF Decide

\* On a well-behaved machine each device is given the type of the id bytes it sent
\* itself, no byte more and no byte less, and a device that failed its reset none
\* (ps2_reset_device).
THEOREM TypesComeFromIds ==
    ASSUME \A m \in Machines : Brief(m.answer[1])
    PROVE  Spec => []TypesAreKnown
<1>1. Init => TypesAreKnown
  <2> SUFFICES ASSUME Init PROVE TypeInv
    BY DEF TypesAreKnown
  <2>1. phase = "disable" /\ type = [p \in Port |-> "unknown"] /\ device = 1
    BY DEF Init
  <2> QED
    BY <2>1, Ports DEF TypeInv, Turn2, ResetReads
<1>2. TypeOK /\ AnswerIsHeard /\ ResetsAreHeard /\ ResetsAreHeard' /\ TypesAreKnown
        /\ [Next]_vars => TypesAreKnown'
  <2> SUFFICES ASSUME TypeOK, AnswerIsHeard, ResetsAreHeard, ResetsAreHeard', TypesAreKnown,
                      [Next]_vars, WellBehaved'
               PROVE  TypeInv'
    BY DEF TypesAreKnown
  <2>1. WellBehaved /\ Orderly /\ ReadInv(1) /\ ResetInv /\ ResetInv' /\ TypeInv /\ hw' = hw
    BY MachineStands DEF WellBehaved, Orderly, AnswerIsHeard, ResetsAreHeard, TypesAreKnown
  <2>2. CASE PortAccess
    <3>1. UNCHANGED <<hw, type, phase, device>>
      BY <2>2 DEF PortAccess, PollInput, PollOutput, Poll, WriteCommand, WriteData, ReadData,
         Access, CpuReads, CpuWrites, hwVars
    <3> QED
      BY <2>1, <3>1, SameTurn DEF Turn2
  <2>3. CASE Decide
    BY <2>1, <2>3, DecideKeepsTypes
  <2>4. CASE (HwNext /\ UNCHANGED driverVars) \/ UNCHANGED vars
    <3>1. UNCHANGED <<hw, type, phase, device>>
      BY <2>1, <2>4 DEF driverVars, vars
    <3> QED
      BY <2>1, <3>1, SameTurn DEF Turn2
  <2> QED
    BY <2>2, <2>3, <2>4 DEF Next, Driver
<1> QED
  BY <1>1, <1>2, TypeCorrect, HearsDevice1, HearsBothDevices, PTL DEF Spec

-----------------------------------------------------------------------------
(***************************************************************************)
(* The theorems.                                                           *)
(***************************************************************************)
\* The flush is the one read without a question.
LEMMA OnlyTheFlush ==
    ASSUME TypeOK, phase = "disable", At({"read"}), Mood[phase][step] = "quiet"
    PROVE  step = FlushStep
<1>1. /\ ~AtEnd /\ Script[phase][step].op = "read"
      /\ Mood["disable"] = <<"idle", "clear", "idle", "clear", "quiet", "quiet", "owed", "ready",
                             "clear">>
  BY DEF At, Mood
<1>2. step \in 1..8
  BY <1>1, FlushScript DEF AtEnd, TypeOK, DriverTypeOK
<1>3. step = 1 \/ step = 2 \/ step = 3 \/ step = 4 \/ step = 5 \/ step = 6 \/ step = 7 \/ step = 8
  BY <1>2
<1>4. step = 5 \/ step = 6
  BY <1>1, <1>3
<1>5. Script["disable"][6].op = "command"
  BY FlushScript, AccessOps
<1> QED
  BY <1>1, <1>4, <1>5 DEF FlushStep

\* On a well-behaved machine every read after the flush finds a fresh byte of the
\* party that was asked (the order of waits and reads in ps2_init).
THEOREM RepliesComeFromPartyAsked ==
    ASSUME \A m \in Machines : Brief(m.answer[1])
    PROVE  Spec => []RepliesFromPartyAsked
<1>1. TypeOK /\ Dialogue /\ CheckedReadIsFresh /\ AnswerIsHeard /\ ResetsAreHeard
        => RepliesFromPartyAsked
  <2> SUFFICES ASSUME TypeOK, Dialogue, CheckedReadIsFresh, AnswerIsHeard, ResetsAreHeard,
                      WellBehaved, At({"read"}), ~(phase = "disable" /\ step = FlushStep)
               PROVE  OutputReady /\ DataPort.from = Asked
    BY DEF RepliesFromPartyAsked
  <2>1. /\ Orderly /\ hw.present = TRUE /\ hw.dual = TRUE
        /\ ~AtEnd /\ Script[phase][step].op = "read"
    BY MachineTypes DEF WellBehaved, Orderly, At, TypeOK, HwTypeOK
  <2>2. step \in 1..Len(Script[phase])
    BY <2>1, ScriptStep DEF TypeOK, DriverTypeOK, AtEnd
  <2>3. CASE phase \in Early
    <3>1. Mood[phase][step] = "ready"
      BY <2>1, <2>3, Follow, MoodOfAccess, OnlyTheFlush
    <3>2. Ready
      BY <2>1, <2>3, <3>1, MoodSplit DEF Dialogue, MoodInv
    <3>3. obf = TRUE /\ latch.from = "controller"
      BY <2>1, <3>2 DEF Ready, Unanswered
    <3>4. phase \notin ResetReads
      BY <2>3 DEF Early, ResetReads
    <3> QED
      BY <2>1, <3>3, <3>4 DEF OutputReady, DataPort, Asked
  <2>4. CASE phase \in ResetReads
    <3>1. obf = TRUE
      BY <2>1, <2>4 DEF CheckedReadIsFresh, OutputReady, TypeOK, HwTypeOK
    <3>2. device \in Port /\ ReadInv(device) /\ Reading(device)
      BY <2>1, <2>4 DEF TypeOK, DriverTypeOK, Port, AnswerIsHeard, ResetsAreHeard, ResetInv, Reading
    <3>3. Listening(device)
      BY <3>2 DEF ReadInv
    <3>4. latch.from = DeviceName(device)
      BY <3>1, <3>3 DEF Listening, Heard
    <3> QED
      BY <2>1, <2>4, <3>1, <3>4 DEF OutputReady, DataPort, Asked
  <2>5. phase # "reset2"
    <3> SUFFICES ASSUME phase = "reset2" PROVE FALSE
      OBVIOUS
    <3>1. Script[phase] = <<TryIn, Cmd("WRITE_PORT2_INPUT"), TryIn, WriteReset>>
      BY ShortScripts
    <3>2. step = 1 \/ step = 2 \/ step = 3 \/ step = 4
      BY <2>2, <3>1
    <3> QED
      BY <2>1, <3>1, <3>2, AccessOps
  <2>6. phase # "done" /\ phase # "failed"
    <3>1. Script["done"] = <<>> /\ Script["failed"] = <<>>
      BY DEF Script
    <3> QED
      BY <2>2, <3>1
  <2> QED
    BY <2>3, <2>4, <2>5, <2>6, Phases DEF TypeOK, DriverTypeOK, Early, ResetReads
<1> QED
  BY <1>1, TypeCorrect, DialogueIsKept, CheckedReadsAreFresh, HearsDevice1, HearsBothDevices, PTL

\* On a well-behaved machine, which has two channels, ps2_init ends with that fact,
\* the ports that passed their test, and for each device whether it passed its
\* reset and the type of the id it sent, no id counting as 0x00; it gives up only
\* when a self-test failed (ps2_init and all it calls).
THEOREM ReportIsTheMachine ==
    ASSUME \A m \in Machines : Brief(m.answer[1])
    PROVE  Spec => []ReportMatchesMachine
<1>1. TypeOK /\ FactsAreKnown /\ ResetsAreHeard /\ TypesAreKnown => ReportMatchesMachine
  <2> SUFFICES ASSUME TypeOK, WellBehaved, FactInv, ResetInv, TypeInv
               PROVE  /\ phase = "done" => /\ is_dual
                                           /\ valid = [p \in Port |-> hw.porttest[p] = B00]
                                           /\ status = [p \in Port |-> Verdict(hw.answer[p])]
                                           /\ type = [p \in Port |-> Typed(hw.answer[p])]
                      /\ phase = "failed" => hw.selftest # B55 \/ \A p \in Port : hw.porttest[p] # B00
    BY DEF ReportMatchesMachine, FactsAreKnown, ResetsAreHeard, TypesAreKnown
  <2>1. /\ valid \in [Port -> BOOLEAN] /\ status \in [Port -> DeviceStatus]
        /\ type \in [Port -> DeviceType]
    BY DEF TypeOK, DriverTypeOK
  <2>2. ASSUME phase = "done"
        PROVE  /\ is_dual
               /\ \A p \in Port : valid[p] = (hw.porttest[p] = B00)
               /\ \A p \in Port : status[p] = Verdict(hw.answer[p])
               /\ \A p \in Port : type[p] = Typed(hw.answer[p])
    <3>1. is_dual /\ \A p \in Port : valid[p] = (hw.porttest[p] = B00)
      BY <2>2 DEF FactInv, DualKnown, Port1Known, Port2Known, Late, Port
    <3>2. status[1] = Verdict(hw.answer[1]) /\ status[2] = Verdict(hw.answer[2])
      BY <2>2 DEF ResetInv, OutcomeInv, Turn2
    <3>3. type[1] = Typed(hw.answer[1]) /\ type[2] = Typed(hw.answer[2])
      BY <2>2 DEF TypeInv, Turn2
    <3> QED
      BY <3>1, <3>2, <3>3 DEF Port
  <2>3. phase = "failed" => hw.selftest # B55 \/ \A p \in Port : hw.porttest[p] # B00
    BY DEF FactInv
  <2>4. phase = "done" => valid = [p \in Port |-> hw.porttest[p] = B00]
    BY <2>1, <2>2
  <2>5. phase = "done" => status = [p \in Port |-> Verdict(hw.answer[p])]
    BY <2>1, <2>2
  <2>6. phase = "done" => type = [p \in Port |-> Typed(hw.answer[p])]
    BY <2>1, <2>2
  <2> QED
    BY <2>2, <2>3, <2>4, <2>5, <2>6
<1> QED
  BY <1>1, TypeCorrect, KnowsTheFacts, HearsBothDevices, TypesComeFromIds, PTL
=============================================================================
