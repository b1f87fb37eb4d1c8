------------------------------ MODULE Ps2Proofs ------------------------------
(***************************************************************************)
(* Theorems about the PS/2 driver that hold on every set of machines, for  *)
(* every set of unasked bytes and all bounds on the polls: the types, the  *)
(* freshness of the checked reads, the machine without a controller, and   *)
(* the dialogue with a controller that answers in time, that is, what is   *)
(* outstanding before each access of every script.                         *)
(***************************************************************************)
EXTENDS Ps2, SequenceTheorems, TLAPS

-----------------------------------------------------------------------------
(***************************************************************************)
(* The scripts, as far as the proofs look at them.                         *)
(***************************************************************************)
\* What a script is made of.
Accesses == {WaitIn, WaitOut, TryIn, TryOut, WriteConfigByte, WriteReset, Read}
            \cup {Cmd(c) : c \in Command}

LEMMA PiecesType ==
    /\ \A c \in Command : /\ Cmd(c) \in Accesses
                         /\ Send(c) \in Seq(Accesses)
                         /\ Query(c) \in Seq(Accesses)
    /\ DeviceRead \in Seq(Accesses) /\ SetConfig \in Seq(Accesses)
<1>1. ASSUME NEW c \in Command PROVE Send(c) \in Seq(Accesses) /\ Cmd(c) \in Accesses
  BY DEF Send, Accesses
<1>2. <<WaitOut, Read>> \in Seq(Accesses) /\ <<WaitIn, WriteConfigByte>> \in Seq(Accesses)
  BY DEF Accesses
<1>3. ASSUME NEW c \in Command PROVE Query(c) \in Seq(Accesses)
  BY <1>1, <1>2, ConcatProperties DEF Query
<1>4. "WRITE_CONFIG" \in Command
  BY DEF Command
<1>5. SetConfig \in Seq(Accesses)
  BY <1>1, <1>2, <1>4, ConcatProperties DEF SetConfig
<1>6. DeviceRead \in Seq(Accesses)
  BY DEF DeviceRead, Accesses
<1> QED
  BY <1>1, <1>3, <1>5, <1>6

\* Every phase the driver enters is one of the script's.
LEMMA Phases == Phase = {"disable", "selfcheck", "restore", "dual", "dualconfig",
                         "port1", "port2", "enable1", "enable2", "irq", "irqwrite",
                         "reset1", "reset2", "ack", "bat", "id1", "id2", "done", "failed"}
  BY DEF Phase, Script

\* Every script is a sequence of these.
LEMMA ScriptType == \A ph \in Phase : Script[ph] \in Seq(Accesses)
<1> DEFINE S == Seq(Accesses)
<1>1. Command = {"DISABLE_1", "DISABLE_2", "ENABLE_1", "ENABLE_2",
                 "TEST_CONTROLLER", "TEST_PORT_1", "TEST_PORT_2",
                 "READ_CONFIG", "WRITE_CONFIG", "WRITE_PORT2_INPUT"}
  BY DEF Command
<1>2. \A s, t \in S : s \o t \in S
  BY ConcatProperties
<1>3. {WaitIn, WaitOut, TryIn, TryOut, WriteConfigByte, WriteReset, Read} \subseteq Accesses
  BY DEF Accesses
<1>4. \A c \in Command : Cmd(c) \in Accesses /\ Send(c) \in S /\ Query(c) \in S
  BY PiecesType
<1>5. DeviceRead \in S /\ SetConfig \in S
  BY PiecesType
<1>6. Script["disable"] \in S
  <2>1. /\ <<Read>> \in S
        /\ <<Cmd("READ_CONFIG"), WaitOut, Read>> \in S
    BY <1>1, <1>3, <1>4
  <2> QED
    BY <1>1, <1>2, <1>4, <2>1 DEF Script
<1>7. Script["selfcheck"] \in S
  <2>1. <<Cmd("WRITE_CONFIG"), WaitIn, WriteConfigByte>> \in S
    BY <1>1, <1>3, <1>4
  <2> QED
    BY <1>1, <1>2, <1>4, <2>1 DEF Script
<1>8. Script["reset1"] \in S /\ Script["reset2"] \in S
  BY <1>1, <1>3, <1>4 DEF Script
<1>9. Script["done"] \in S /\ Script["failed"] \in S
  BY DEF Script
<1>10. Script["restore"] \in S /\ Script["dual"] \in S
  BY <1>1, <1>2, <1>4, <1>5 DEF Script
<1>11. Script["dualconfig"] \in S /\ Script["irqwrite"] \in S
  BY <1>5 DEF Script
<1>12. /\ Script["port1"] \in S /\ Script["port2"] \in S /\ Script["enable1"] \in S
       /\ Script["enable2"] \in S /\ Script["irq"] \in S
  BY <1>1, <1>4 DEF Script
<1>13. /\ Script["ack"] \in S /\ Script["bat"] \in S
       /\ Script["id1"] \in S /\ Script["id2"] \in S
  BY <1>5 DEF Script
<1> QED
  BY <1>6, <1>7, <1>8, <1>9, <1>10, <1>11, <1>12, <1>13, Phases

LEMMA ScriptStep ==
    \A ph \in Phase : /\ Len(Script[ph]) \in Nat
                      /\ \A i \in 1..Len(Script[ph]) : Script[ph][i] \in Accesses
  BY ScriptType

\* Only commands the controller knows are written to the command port.
LEMMA ScriptCommands == \A a \in Accesses : a.op = "command" => a.arg \in Command
  BY DEF Accesses, WaitIn, WaitOut, TryIn, TryOut, Cmd, WriteConfigByte, WriteReset, Read

LEMMA ScriptDevice == \A ph \in ResetReads : ph \in Phase /\ Script[ph] = <<TryOut, Read>>
  BY DEF ResetReads, Phase, Script, DeviceRead

-----------------------------------------------------------------------------
(***************************************************************************)
(* Type correctness.                                                       *)
(***************************************************************************)
LEMMA Bytes == /\ B00 \in Byte /\ B55 \in Byte /\ BAA \in Byte
               /\ BFA \in Byte /\ BFC \in Byte /\ BFF \in Byte
  BY DEF B00, B55, BAA, BFA, BFC, BFF, Byte

LEMMA ByteOps == \A b \in Byte : \A s \in SUBSET (0..7) : b \cup s \in Byte /\ b \ s \in Byte
  BY DEF Byte

LEMMA WrittenData == \A w \in Written : w.port = "data" => w.value \in Byte
  BY DEF Written, CommandWrite, DataWrite

LEMMA MachineTypes ==
    ASSUME hw \in Machines
    PROVE  /\ hw.selftest \in Byte /\ hw.bios \in Byte
           /\ hw.porttest \in [Port -> Byte]
           /\ hw.answer \in [Port -> Seq(Byte)]
           /\ hw.present \in BOOLEAN /\ hw.dual \in BOOLEAN
  BY MachineAssumption DEF Machine

LEMMA HwInitType == HwInit => HwTypeOK
<1> SUFFICES ASSUME HwInit PROVE HwTypeOK
  OBVIOUS
<1>1. cfg \in Byte
  BY MachineTypes DEF HwInit
<1>2. devq \in [Port -> Seq(Byte)]
  BY DEF HwInit
<1>3. latch \in Received
  BY Bytes DEF HwInit, Received, Sender
<1>4. noise \in 0..MaxNoise
  BY NoiseAssumption DEF HwInit
<1>5. /\ hw \in Machines /\ inbuf \in {<<>>} /\ reply \in {<<>>}
      /\ route \in {"device1", "device2", "config"} /\ obf \in BOOLEAN
  BY DEF HwInit
<1> QED
  BY <1>1, <1>2, <1>3, <1>4, <1>5 DEF HwTypeOK

LEMMA HwNextType == HwTypeOK /\ HwNext => HwTypeOK'
<1> SUFFICES ASSUME HwTypeOK, HwNext PROVE HwTypeOK'
  OBVIOUS
<1> USE DEF HwTypeOK, Taking
<1>1. CASE TakeReadConfig
  BY <1>1 DEF TakeReadConfig
<1>2. CASE TakeWriteConfig
  BY <1>2 DEF TakeWriteConfig
<1>3. CASE TakePortSwitch
  <2>1. {4} \in SUBSET (0..7) /\ {5} \in SUBSET (0..7)
    OBVIOUS
  <2>2. cfg' \in Byte
    BY <1>3, <2>1, ByteOps DEF TakePortSwitch
  <2> QED
    BY <1>3, <2>2 DEF TakePortSwitch
<1>4. CASE TakeTestController
  BY <1>4, MachineTypes DEF TakeTestController
<1>5. CASE TakeTestPort
  BY <1>5, MachineTypes DEF TakeTestPort, Port
<1>6. CASE TakeWritePort2
  BY <1>6 DEF TakeWritePort2
<1>7. CASE TakeData
  <2>1. PICK w \in Written : inbuf = <<w>>
    BY <1>7 DEF TakeData
  <2>2. w.port = "data" => w.value \in Byte
    BY WrittenData
  <2>3. cfg' \in Byte
    BY <1>7, <2>1, <2>2 DEF TakeData
  <2>4. devq' \in [Port -> Seq(Byte)]
    BY <1>7, MachineTypes DEF TakeData
  <2> QED
    BY <1>7, <2>3, <2>4 DEF TakeData
<1>8. CASE DeliverReply
  BY <1>8 DEF DeliverReply, Received, Sender
<1>9. ASSUME NEW p \in Port, DeviceSends(p) PROVE HwTypeOK'
  BY <1>9, HeadTailProperties DEF DeviceSends, CanSend, Received, Sender, DeviceName
<1>10. ASSUME NEW p \in Port, DeviceChatters(p) PROVE HwTypeOK'
  BY <1>10, NoiseAssumption, AppendProperties DEF DeviceChatters
<1> QED
  BY <1>1, <1>2, <1>3, <1>4, <1>5, <1>6, <1>7, <1>8, <1>9, <1>10
  DEF HwNext, ControllerNext

LEMMA HwUnchanged == HwTypeOK /\ UNCHANGED hwVars => HwTypeOK'
  BY DEF HwTypeOK, hwVars

LEMMA DriverUnchanged == DriverTypeOK /\ UNCHANGED driverVars => DriverTypeOK'
<1> SUFFICES ASSUME DriverTypeOK, UNCHANGED driverVars PROVE DriverTypeOK'
  OBVIOUS
<1>1. PollLimit' = PollLimit
  BY DEF driverVars, PollLimit, At, AtEnd
<1> QED
  BY <1>1 DEF driverVars, DriverTypeOK

LEMMA InitType == Init => TypeOK
<1> SUFFICES ASSUME Init PROVE TypeOK
  OBVIOUS
<1>1. HwTypeOK
  BY HwInitType DEF Init
<1>2. phase \in Phase /\ step \in 1..(Len(Script[phase]) + 1)
  BY Phases, ScriptStep DEF Init
<1>3. polls \in 0..PollLimit
  BY PollAssumption DEF Init, PollLimit
<1>4. in \in Received /\ config \in Byte
  BY Bytes DEF Init, Received, Sender, Byte
<1>5. got \in [Port -> Seq(Received)]
  BY DEF Init
<1>6. /\ error \in Error /\ is_dual \in BOOLEAN /\ valid \in [Port -> BOOLEAN]
      /\ device \in Port /\ status \in [Port -> DeviceStatus]
      /\ type \in [Port -> DeviceType]
  BY DEF Init, Error, Port, DeviceStatus, DeviceType
<1> QED
  BY <1>1, <1>2, <1>3, <1>4, <1>5, <1>6 DEF TypeOK, DriverTypeOK

\* A step that leaves the counter at zero satisfies the bound on it.
LEMMA NoPolls == polls' = 0 => polls' \in 0..PollLimit'
  BY PollAssumption DEF PollLimit

-----------------------------------------------------------------------------
\* Both wait loops.
LEMMA PollType ==
    ASSUME TypeOK, NEW ready, NEW inTime,
           ~AtEnd, Poll(ready, PollLimit, inTime)
    PROVE  TypeOK'
<1> USE DEF TypeOK, DriverTypeOK
<1>1. HwTypeOK'
  BY HwUnchanged DEF Poll
<1>2. CASE \E e \in Error : WaitReturns(e)
  <2>1. step' \in 1..(Len(Script[phase']) + 1)
    BY <1>2, ScriptStep DEF Poll, WaitReturns, AtEnd
  <2>2. error' \in Error /\ polls' \in 0..PollLimit'
    BY <1>2, NoPolls DEF WaitReturns
  <2> QED
    BY <1>1, <2>1, <2>2 DEF Poll
<1>3. CASE polls < PollLimit /\ polls' = polls + 1 /\ UNCHANGED <<step, error>>
  <2>1. PollLimit' = PollLimit /\ PollLimit \in Nat
    BY <1>3, PollAssumption DEF Poll, PollLimit, At, AtEnd
  <2> QED
    BY <1>1, <1>3, <2>1 DEF Poll
<1> QED
  BY <1>2, <1>3 DEF Poll, Error

LEMMA PortAccessType == TypeOK /\ PortAccess => TypeOK'
<1> SUFFICES ASSUME TypeOK, PortAccess PROVE TypeOK'
  OBVIOUS
<1>1. CASE PollInput
  <2>1. PollLimit = InPolls /\ ~AtEnd
    BY <1>1 DEF PollInput, PollLimit, At
  <2> QED
    BY <1>1, <2>1, PollType DEF PollInput
<1>2. CASE PollOutput
  <2>1. PollLimit = OutPolls /\ ~AtEnd
    BY <1>2 DEF PollOutput, PollLimit, At
  <2> QED
    BY <1>2, <2>1, PollType DEF PollOutput
<1>3. ASSUME Access, At({"command", "config", "reset", "read"}), in' \in Received,
             got' \in [Port -> Seq(Received)], HwTypeOK'
      PROVE  TypeOK'
  <2>1. ~AtEnd /\ polls = 0
    BY <1>3 DEF TypeOK, DriverTypeOK, At, PollLimit
  <2>2. polls' \in 0..PollLimit'
    BY <1>3, <2>1, NoPolls DEF Access
  <2>3. step' \in 1..(Len(Script[phase']) + 1)
    BY <1>3, <2>1, ScriptStep DEF Access, AtEnd, TypeOK, DriverTypeOK
  <2> QED
    BY <1>3, <2>2, <2>3 DEF Access, TypeOK, DriverTypeOK
<1>4. CASE WriteCommand
  <2>1. Script[phase][step] \in Accesses
    BY <1>4, ScriptStep DEF WriteCommand, At, AtEnd, TypeOK, DriverTypeOK
  <2>2. Script[phase][step].arg \in Command
    BY <1>4, <2>1, ScriptCommands DEF WriteCommand, At
  <2>3. HwTypeOK'
    BY <1>4, <2>2 DEF WriteCommand, CpuWrites, TypeOK, HwTypeOK, Written
  <2> QED
    BY <1>3, <1>4, <2>3 DEF WriteCommand, At, TypeOK, DriverTypeOK
<1>5. CASE WriteData
  <2>1. HwTypeOK'
    BY <1>5, Bytes DEF WriteData, CpuWrites, TypeOK, HwTypeOK, DriverTypeOK, Written
  <2> QED
    BY <1>3, <1>5, <2>1 DEF WriteData, At, TypeOK, DriverTypeOK
<1>6. CASE ReadData
  <2>1. DataPort \in Received
    BY Bytes DEF DataPort, TypeOK, HwTypeOK, Received, Sender
  <2>2. got' \in [Port -> Seq(Received)]
    BY <1>6, <2>1, AppendProperties DEF ReadData, TypeOK, DriverTypeOK
  <2>3. HwTypeOK'
    BY <1>6 DEF ReadData, CpuReads, TypeOK, HwTypeOK
  <2> QED
    BY <1>3, <1>6, <2>1, <2>2, <2>3 DEF ReadData, At
<1> QED
  BY <1>1, <1>2, <1>4, <1>5, <1>6 DEF PortAccess

-----------------------------------------------------------------------------
\* A decision enters a phase at the first access of its script.
LEMMA EnterType ==
    ASSUME TypeOK, AtEnd, UNCHANGED hwVars, NEW ph \in Phase, Enter(ph)
    PROVE  /\ HwTypeOK'
           /\ phase' \in Phase /\ step' \in 1..(Len(Script[phase']) + 1)
           /\ polls' \in 0..PollLimit'
           /\ error' \in Error /\ in' \in Received /\ got' \in [Port -> Seq(Received)]
<1>1. polls = 0
  BY DEF TypeOK, DriverTypeOK, PollLimit, At
<1>2. polls' \in 0..PollLimit'
  BY <1>1, NoPolls DEF Enter
<1> QED
  BY <1>2, HwUnchanged, ScriptStep DEF Enter, TypeOK, DriverTypeOK

\* A device's reset ends, with or without a type.
LEMMA FinishType ==
    ASSUME TypeOK, AtEnd, UNCHANGED <<hwVars, config, is_dual, valid>>,
           NEW s \in DeviceStatus, Finish(s), type' \in [Port -> DeviceType]
    PROVE  TypeOK'
<1>1. "reset2" \in Phase /\ "done" \in Phase
  BY Phases
<1>2. status' \in [Port -> DeviceStatus] /\ device' \in Port
  BY DEF Finish, TypeOK, DriverTypeOK, DeviceStatus, Port
<1>3. PICK ph \in Phase : Enter(ph)
  BY <1>1 DEF Finish
<1> QED
  BY <1>2, <1>3, EnterType DEF TypeOK, DriverTypeOK

LEMMA DecideType == TypeOK /\ Decide => TypeOK'
<1> SUFFICES ASSUME TypeOK, Decide PROVE TypeOK'
  OBVIOUS
<1> USE Phases
<1>1. in.byte \in Byte
  BY DEF TypeOK, DriverTypeOK, Received
<1>2. CASE FirstConfig
  <2>1. config' \in Byte
    BY <1>1, <1>2 DEF FirstConfig, Byte
  <2> QED
    BY <1>2, <2>1, EnterType DEF FirstConfig, Deciding, TypeOK, DriverTypeOK
<1>3. CASE ControllerSelfCheck
  BY <1>3, EnterType DEF ControllerSelfCheck, Deciding, TypeOK, DriverTypeOK
<1>4. CASE CheckDualChannel
  <2>1. is_dual' \in BOOLEAN
    BY <1>4 DEF CheckDualChannel
  <2> QED
    BY <1>4, <2>1, EnterType DEF CheckDualChannel, Deciding, TypeOK, DriverTypeOK
<1>5. CASE DualConfig
  <2>1. config' \in Byte
    BY <1>1, <1>5 DEF DualConfig, Byte
  <2> QED
    BY <1>5, <2>1, EnterType DEF DualConfig, Deciding, TypeOK, DriverTypeOK
<1>6. CASE DualDone
  BY <1>6, EnterType DEF DualDone, Deciding, TypeOK, DriverTypeOK
<1>7. CASE Port1SelfCheck
  <2>1. valid' \in [Port -> BOOLEAN]
    BY <1>7 DEF Port1SelfCheck, TypeOK, DriverTypeOK
  <2> QED
    BY <1>7, <2>1, EnterType DEF Port1SelfCheck, Deciding, TypeOK, DriverTypeOK
<1>8. CASE Port2SelfCheck
  <2>1. valid' \in [Port -> BOOLEAN]
    BY <1>8 DEF Port2SelfCheck, TypeOK, DriverTypeOK
  <2>2. PICK ph \in Phase : Enter(ph)
    BY <1>8 DEF Port2SelfCheck
  <2> QED
    BY <1>8, <2>1, <2>2, EnterType DEF Port2SelfCheck, Deciding, TypeOK, DriverTypeOK
<1>9. CASE PortsEnabled
  BY <1>9, EnterType DEF PortsEnabled, Deciding, TypeOK, DriverTypeOK
<1>10. CASE IrqConfig
  <2>1. config' \in Byte
    <3>1. {INTERRUPT_BIT(p) : p \in {q \in Port : valid[q]}} \subseteq 0..7
      BY DEF INTERRUPT_BIT, Port
    <3> QED
      BY <1>1, <1>10, <3>1, ByteOps DEF IrqConfig
  <2> QED
    BY <1>10, <2>1, EnterType DEF IrqConfig, Deciding, TypeOK, DriverTypeOK
<1>11. CASE ResetDevices
  <2>1. status' \in [Port -> DeviceStatus] /\ device' \in Port
    BY <1>11 DEF ResetDevices, StartReset, DeviceStatus, Port, TypeOK, DriverTypeOK
  <2> QED
    BY <1>11, <2>1, EnterType DEF ResetDevices, StartReset, Deciding, TypeOK, DriverTypeOK
<1>12. CASE ResetSent
  BY <1>12, EnterType DEF ResetSent, Deciding, TypeOK, DriverTypeOK
<1> USE DEF DeviceStatus
<1>13. CASE FirstByte
  <2>1. CASE Enter("bat") /\ UNCHANGED <<device, status>>
    BY <1>13, <2>1, EnterType DEF FirstByte, Deciding, TypeOK, DriverTypeOK
  <2>2. CASE \E s \in DeviceStatus : Finish(s)
    BY <1>13, <2>2, FinishType DEF FirstByte, Deciding, TypeOK, DriverTypeOK
  <2> QED
    BY <1>13, <2>1, <2>2 DEF FirstByte
<1>14. CASE SecondByte
  <2>1. CASE Enter("id1") /\ UNCHANGED <<device, status>>
    BY <1>14, <2>1, EnterType DEF SecondByte, Deciding, TypeOK, DriverTypeOK
  <2>2. CASE \E s \in DeviceStatus : Finish(s)
    BY <1>14, <2>2, FinishType DEF SecondByte, Deciding, TypeOK, DriverTypeOK
  <2> QED
    BY <1>14, <2>1, <2>2 DEF SecondByte
<1>15. ASSUME Identified, AtEnd, UNCHANGED <<hwVars, config, is_dual, valid>> PROVE TypeOK'
  <2>1. type' \in [Port -> DeviceType]
    BY <1>15 DEF Identified, DeviceType, TypeOK, DriverTypeOK
  <2> QED
    BY <1>15, <2>1, FinishType DEF Identified
<1>16. CASE FirstIdByte
  <2>1. CASE Enter("id2") /\ UNCHANGED <<device, status, type>>
    BY <1>16, <2>1, EnterType DEF FirstIdByte, Deciding, TypeOK, DriverTypeOK
  <2> QED
    BY <1>15, <1>16, <2>1 DEF FirstIdByte, Deciding
<1>17. CASE SecondIdByte
  BY <1>15, <1>17 DEF SecondIdByte, Deciding
<1> QED
  BY <1>2, <1>3, <1>4, <1>5, <1>6, <1>7, <1>8, <1>9, <1>10, <1>11, <1>12, <1>13, <1>14,
     <1>16, <1>17 DEF Decide

LEMMA TypeStep == TypeOK /\ [Next]_vars => TypeOK'
<1> SUFFICES ASSUME TypeOK, [Next]_vars PROVE TypeOK'
  OBVIOUS
<1>1. CASE Driver
  BY <1>1, PortAccessType, DecideType DEF Driver
<1>2. CASE HwNext /\ UNCHANGED driverVars
  BY <1>2, HwNextType, DriverUnchanged DEF TypeOK
<1>3. CASE UNCHANGED vars
  BY <1>3, HwUnchanged, DriverUnchanged DEF TypeOK, vars
<1> QED
  BY <1>1, <1>2, <1>3 DEF Next

\* Every step of the driver and of the hardware keeps every variable in its
\* type: no wait counts past its bound and no command outside the controller's
\* set is ever written (all of ps2.c).
THEOREM TypeCorrect == Spec => []TypeOK
<1>1. TypeOK /\ [Next]_vars => TypeOK'
  BY TypeStep
<1> QED
  BY <1>1, InitType, PTL DEF Spec

-----------------------------------------------------------------------------
\* Every decision is taken at the end of a script and starts the next one.
LEMMA DecideEnters == Decide => AtEnd /\ step' = 1 /\ UNCHANGED <<hwVars, in>>
<1>1. ASSUME NEW ph, Deciding(ph) PROVE AtEnd /\ UNCHANGED hwVars
  BY <1>1 DEF Deciding
<1>2. ASSUME NEW ph, Enter(ph) PROVE step' = 1 /\ UNCHANGED in
  BY <1>2 DEF Enter
<1>3. ASSUME NEW s, Finish(s) PROVE step' = 1 /\ UNCHANGED in
  BY <1>2, <1>3 DEF Finish
<1>4. Decide => AtEnd /\ UNCHANGED hwVars
  BY <1>1 DEF Decide, FirstConfig, ControllerSelfCheck, CheckDualChannel, DualConfig,
     DualDone, Port1SelfCheck, Port2SelfCheck, PortsEnabled, IrqConfig, ResetDevices,
     ResetSent, FirstByte, SecondByte, FirstIdByte, SecondIdByte
<1>5. Decide => step' = 1 /\ UNCHANGED in
  BY <1>2, <1>3 DEF Decide, FirstConfig, ControllerSelfCheck, CheckDualChannel, DualConfig,
     DualDone, Port1SelfCheck, Port2SelfCheck, PortsEnabled, IrqConfig, ResetDevices, StartReset,
     ResetSent, FirstByte, SecondByte, FirstIdByte, SecondIdByte, Identified
<1> QED
  BY <1>4, <1>5

\* The hardware never takes a byte back from the output buffer, and the machine
\* stays the same.
LEMMA HwKeepsOutput == HwNext => hw' = hw /\ (OutputReady => OutputReady')
  BY DEF HwNext, ControllerNext, TakeReadConfig, TakeWriteConfig, TakePortSwitch,
     TakeTestController, TakeTestPort, TakeWritePort2, TakeData, DeliverReply,
     DeviceSends, DeviceChatters, OutputReady, Taking

(***************************************************************************)
(* What a checked read finds.                                              *)
(***************************************************************************)
\* The read of ps2_device_read_data finds the output buffer full on every
\* machine, however slow or noisy: the function returns on a timeout, and
\* nothing but a read empties the buffer.
THEOREM CheckedReadsAreFresh == Spec => []CheckedReadIsFresh
<1>1. Init => CheckedReadIsFresh
  BY DEF Init, CheckedReadIsFresh, ResetReads
<1>2. TypeOK /\ CheckedReadIsFresh /\ [Next]_vars => CheckedReadIsFresh'
  <2> SUFFICES ASSUME TypeOK, CheckedReadIsFresh, [Next]_vars,
                      phase' \in ResetReads, At({"read"})'
               PROVE  OutputReady'
    BY DEF CheckedReadIsFresh
  <2>1. Script[phase'] = <<TryOut, Read>> /\ step' = 2
    <3>1. Script[phase'] = <<TryOut, Read>> /\ Len(Script[phase']) = 2
      BY ScriptDevice
    <3>2. step' \in {1, 2, 3} /\ step' # 3
      BY <3>1, TypeStep DEF At, AtEnd, TypeOK, DriverTypeOK
    <3>3. TryOut.op # "read"
      BY DEF TryOut
    <3> QED
      BY <3>1, <3>2, <3>3 DEF At
  <2>2. Len(Script[phase']) = 2 /\ step \in Nat
    BY <2>1, ScriptStep DEF TypeOK, DriverTypeOK
  <2>3. ASSUME UNCHANGED phase, step' = step + 1 PROVE Script[phase][step].op = "tryout"
    BY <2>1, <2>2, <2>3 DEF TryOut
  <2>4. ASSUME UNCHANGED phase, UNCHANGED step PROVE Script[phase][step].op = "read"
    BY <2>1, <2>4 DEF Read
  <2>5. ASSUME NEW ready, NEW limit, NEW inTime, Poll(ready, limit, inTime),
               At({"waitin", "tryin", "waitout", "tryout"})
        PROVE  ready /\ UNCHANGED hwVars /\ Script[phase][step].op = "tryout"
    <3>1. UNCHANGED phase /\ UNCHANGED hwVars
      BY <2>5 DEF Poll
    <3>2. step' # step
      <4> SUFFICES ASSUME step' = step PROVE FALSE
        OBVIOUS
      <4>1. Script[phase][step].op = "read"
        BY <2>4, <3>1
      <4>2. Script[phase][step].op \in {"waitin", "tryin", "waitout", "tryout"}
        BY <2>5 DEF At
      <4> QED
        BY <4>1, <4>2
    <3>3. PICK e \in {"none", "timeout"} : WaitReturns(e) /\ (e = "none" => ready)
      <4>1. \/ ready /\ WaitReturns(IF polls < limit THEN "none" ELSE "timeout")
            \/ WaitReturns("timeout")
        BY <2>5, <3>2 DEF Poll
      <4>2. "none" # "timeout"
        OBVIOUS
      <4>3. CASE polls < limit
        BY <4>1, <4>2, <4>3
      <4>4. CASE ~(polls < limit)
        BY <4>1, <4>2, <4>4
      <4> QED
        BY <4>3, <4>4
    <3>4. step' = step + 1
      BY <2>1, <2>2, <3>1, <3>3 DEF WaitReturns
    <3>5. Script[phase][step].op = "tryout" /\ At({"tryin", "tryout"})
      BY <2>3, <2>5, <3>1, <3>4 DEF At
    <3>6. e # "timeout"
      <4> SUFFICES ASSUME e = "timeout" PROVE FALSE
        OBVIOUS
      <4>1. step' = Len(Script[phase]) + 1
        BY <3>3, <3>5 DEF WaitReturns
      <4> QED
        BY <2>1, <2>2, <3>1, <4>1
    <3> QED
      BY <3>1, <3>3, <3>5, <3>6
  <2>6. CASE PollInput
    BY <2>5, <2>6 DEF PollInput, At
  <2>7. CASE PollOutput
    <3>1. OutputReady /\ UNCHANGED hwVars
      BY <2>5, <2>7 DEF PollOutput, At
    <3> QED
      BY <3>1 DEF OutputReady, hwVars
  <2>8. CASE WriteCommand \/ WriteData \/ ReadData
    BY <2>3, <2>8 DEF WriteCommand, WriteData, ReadData, Access, At
  <2>9. CASE Decide
    BY <2>1, <2>9, DecideEnters
  <2>10. CASE UNCHANGED driverVars
    <3>1. OutputReady
      BY <2>10 DEF CheckedReadIsFresh, driverVars, At, AtEnd
    <3>2. CASE HwNext
      BY <3>1, <3>2, HwKeepsOutput
    <3>3. CASE UNCHANGED hwVars
      BY <3>1, <3>3 DEF OutputReady, hwVars
    <3> QED
      BY <2>10, <2>6, <2>7, <2>8, <2>9, <3>2, <3>3 DEF Next, vars, Driver, PortAccess
  <2> QED
    BY <2>6, <2>7, <2>8, <2>9, <2>10 DEF Next, vars, Driver, PortAccess
<1> QED
  BY <1>1, <1>2, TypeCorrect, PTL DEF Spec
-----------------------------------------------------------------------------
(***************************************************************************)
(* A machine without a controller.                                         *)
(***************************************************************************)
LEMMA Concat2And2 ==
    ASSUME NEW a, NEW b, NEW c, NEW d PROVE <<a, b>> \o <<c, d>> = <<a, b, c, d>>
<1> DEFINE S == {a, b, c, d}
<1>1. <<a, b>> \in Seq(S) /\ <<c, d>> \in Seq(S) /\ <<a, b, c, d>> \in Seq(S)
  OBVIOUS
<1>2. Len(<<a, b>> \o <<c, d>>) = 4 /\ <<a, b>> \o <<c, d>> \in Seq(S)
  BY <1>1
<1>3. \A i \in 1..4 : (<<a, b>> \o <<c, d>>)[i] = <<a, b, c, d>>[i]
  BY <1>1, ConcatProperties
<1> QED
  BY <1>1, <1>2, <1>3, SeqEqual

LEMMA Concat4And1 ==
    ASSUME NEW a, NEW b, NEW c, NEW d, NEW e
    PROVE  <<a, b, c, d>> \o <<e>> = <<a, b, c, d, e>>
<1> DEFINE S == {a, b, c, d, e}
<1>1. <<a, b, c, d>> \in Seq(S) /\ <<e>> \in Seq(S) /\ <<a, b, c, d, e>> \in Seq(S)
  OBVIOUS
<1>2. Len(<<a, b, c, d>> \o <<e>>) = 5 /\ <<a, b, c, d>> \o <<e>> \in Seq(S)
  BY <1>1
<1>3. \A i \in 1..5 : (<<a, b, c, d>> \o <<e>>)[i] = <<a, b, c, d, e>>[i]
  BY <1>1, ConcatProperties
<1> QED
  BY <1>1, <1>2, <1>3, SeqEqual

LEMMA Concat5And3 ==
    ASSUME NEW a, NEW b, NEW c, NEW d, NEW e, NEW f, NEW g, NEW h
    PROVE  <<a, b, c, d, e>> \o <<f, g, h>> = <<a, b, c, d, e, f, g, h>>
<1> DEFINE S == {a, b, c, d, e, f, g, h}
<1>1. /\ <<a, b, c, d, e>> \in Seq(S) /\ <<f, g, h>> \in Seq(S)
      /\ <<a, b, c, d, e, f, g, h>> \in Seq(S)
  OBVIOUS
<1>2. /\ Len(<<a, b, c, d, e>> \o <<f, g, h>>) = 8
      /\ <<a, b, c, d, e>> \o <<f, g, h>> \in Seq(S)
  BY <1>1
<1>3. \A i \in 1..8 : (<<a, b, c, d, e>> \o <<f, g, h>>)[i] = <<a, b, c, d, e, f, g, h>>[i]
  BY <1>1, ConcatProperties
<1> QED
  BY <1>1, <1>2, <1>3, SeqEqual

\* The first script: both disable commands, the flush, the configuration.
LEMMA FlushScript ==
    Script["disable"] = <<WaitIn, Cmd("DISABLE_1"), WaitIn, Cmd("DISABLE_2"), Read,
                          Cmd("READ_CONFIG"), WaitOut, Read>>
<1>1. Script["disable"] = Send("DISABLE_1") \o Send("DISABLE_2") \o <<Read>>
                          \o <<Cmd("READ_CONFIG"), WaitOut, Read>>
  BY DEF Script
<1>2. Send("DISABLE_1") \o Send("DISABLE_2")
      = <<WaitIn, Cmd("DISABLE_1"), WaitIn, Cmd("DISABLE_2")>>
  BY Concat2And2 DEF Send
<1>3. Send("DISABLE_1") \o Send("DISABLE_2") \o <<Read>>
      = <<WaitIn, Cmd("DISABLE_1"), WaitIn, Cmd("DISABLE_2"), Read>>
  BY <1>2, Concat4And1
<1>4. <<WaitIn, Cmd("DISABLE_1"), WaitIn, Cmd("DISABLE_2"), Read>>
          \o <<Cmd("READ_CONFIG"), WaitOut, Read>>
      = <<WaitIn, Cmd("DISABLE_1"), WaitIn, Cmd("DISABLE_2"), Read,
          Cmd("READ_CONFIG"), WaitOut, Read>>
  BY Concat5And3
<1> QED
  BY <1>1, <1>3, <1>4

\* No step changes the machine; only a decision changes what is believed of the
\* ports, and only a decision ends a phase.
LEMMA AccessKeeps == PortAccess => UNCHANGED <<hw, phase, valid>>
  BY DEF PortAccess, PollInput, PollOutput, Poll, WriteCommand, WriteData, ReadData,
     Access, CpuReads, CpuWrites, hwVars

\* Until the flush has been read, the first script neither reads nor ends early.
LEMMA BeforeFlush ==
    /\ Len(Script["disable"]) = 8
    /\ Script["disable"][FlushStep].op = "read"
    /\ \A i \in 1..FlushStep : Script["disable"][i].op \notin {"tryin", "tryout"}
<1>1. Len(Script["disable"]) = 8
  BY FlushScript
<1>2. /\ Script["disable"][1].op = "waitin" /\ Script["disable"][2].op = "command"
      /\ Script["disable"][3].op = "waitin" /\ Script["disable"][4].op = "command"
      /\ Script["disable"][5].op = "read"
  BY FlushScript DEF WaitIn, Cmd, Read
<1>3. \A i \in 1..FlushStep : i \in {1, 2, 3, 4, 5}
  BY DEF FlushStep
<1> QED
  BY <1>1, <1>2, <1>3 DEF FlushStep

\* The step from the flush is the flush.
LEMMA PassingFlush ==
    ASSUME TypeOK, PortAccess, phase = "disable", step <= FlushStep, step' > FlushStep
    PROVE  ReadData
<1>1. step \in 1..FlushStep
  BY DEF TypeOK, DriverTypeOK, FlushStep
<1>2. ~At({"tryin", "tryout"})
  BY <1>1, BeforeFlush DEF At
<1>3. step' = step + 1 \/ step' = step
  BY <1>2 DEF PortAccess, PollInput, PollOutput, Poll, WaitReturns, WriteCommand, WriteData,
     ReadData, Access
<1>4. step = FlushStep /\ step' # step
  BY <1>1, <1>3 DEF FlushStep
<1>5. Script[phase][step].op = "read"
  BY <1>4, BeforeFlush
<1>6. ~PollInput /\ ~PollOutput /\ ~WriteCommand /\ ~WriteData
  BY <1>5 DEF PollInput, PollOutput, WriteCommand, WriteData, At
<1> QED
  BY <1>6 DEF PortAccess

\* ps2_init on a machine with no controller gives up at the self-check: the bus
\* reads 0xFF from the flush on, and no port is ever marked valid.
THEOREM AbsentControllerGivesUp == Spec => []AbsentControllerFails
<1>1. Init => AbsentInv
  BY DEF Init, AbsentInv, FlushStep, Port
<1>2. TypeOK /\ AbsentInv /\ [Next]_vars => AbsentInv'
  <2> SUFFICES ASSUME TypeOK, AbsentInv, [Next]_vars PROVE AbsentInv'
    OBVIOUS
  <2>1. CASE PortAccess
    <3>1. UNCHANGED <<hw, phase, valid>>
      BY <2>1, AccessKeeps
    <3>2. ReadData => (~hw.present => in'.byte = BFF)
      BY DEF ReadData, DataPort
    <3>3. ~ReadData => UNCHANGED in
      BY <2>1 DEF PortAccess, PollInput, PollOutput, Poll, WriteCommand, WriteData
    <3>4. step' > FlushStep => step > FlushStep \/ phase # "disable" \/ ReadData
      <4>1. step \in Nat /\ FlushStep \in Nat
        BY ScriptStep DEF TypeOK, DriverTypeOK, FlushStep
      <4> QED
        BY <2>1, <4>1, PassingFlush
    <3> QED
      BY <3>1, <3>2, <3>3, <3>4 DEF AbsentInv
  <2>2. CASE Decide
    <3> SUFFICES ASSUME ~hw'.present PROVE AbsentInv'
      BY DEF AbsentInv
    <3>1. AtEnd /\ step' = 1 /\ UNCHANGED <<hwVars, in>>
      BY <2>2, DecideEnters
    <3>2. ~hw.present
      BY <3>1 DEF hwVars
    <3>3. phase = "disable" => step > FlushStep
      BY <3>1, BeforeFlush DEF AtEnd, FlushStep, TypeOK, DriverTypeOK
    <3>4. in.byte = BFF /\ in.byte # B55
      BY <3>2, <3>3 DEF AbsentInv, BFF, B55
    <3>5. FirstConfig \/ ControllerSelfCheck
      BY <2>2, <3>2 DEF AbsentInv, Decide, CheckDualChannel, DualConfig, DualDone,
         Port1SelfCheck, Port2SelfCheck, PortsEnabled, IrqConfig, ResetDevices, ResetSent,
         FirstByte, SecondByte, FirstIdByte, SecondIdByte, Deciding
    <3>6. phase' \in {"selfcheck", "failed"} /\ UNCHANGED valid
      BY <3>4, <3>5 DEF FirstConfig, ControllerSelfCheck, Enter
    <3> QED
      BY <3>1, <3>2, <3>4, <3>6 DEF AbsentInv
  <2>3. CASE UNCHANGED driverVars /\ (HwNext \/ UNCHANGED hwVars)
    <3>1. hw' = hw
      BY <2>3, HwKeepsOutput DEF hwVars
    <3> QED
      BY <2>3, <3>1 DEF AbsentInv, driverVars
  <2> QED
    BY <2>1, <2>2, <2>3 DEF Next, Driver, vars
<1>3. AbsentInv => AbsentControllerFails
  BY DEF AbsentInv, AbsentControllerFails
<1> QED
  BY <1>1, <1>2, <1>3, TypeCorrect, PTL DEF Spec

-----------------------------------------------------------------------------
(***************************************************************************)
(* The scripts of the dialogue, written out.                               *)
(***************************************************************************)
LEMMA Concat2And4 ==
    ASSUME NEW a, NEW b, NEW c, NEW d, NEW e, NEW f
    PROVE  <<a, b>> \o <<c, d, e, f>>
           = <<a, b, c, d, e, f>>
<1> DEFINE S == {a, b, c, d, e, f}
<1>1. /\ <<a, b>> \in Seq(S) /\ <<c, d, e, f>> \in Seq(S)
      /\ <<a, b, c, d, e, f>> \in Seq(S)
  OBVIOUS
<1>2. /\ Len(<<a, b>> \o <<c, d, e, f>>) = 6
      /\ <<a, b>> \o <<c, d, e, f>> \in Seq(S)
  BY <1>1
<1>3. \A z \in 1..6 : (<<a, b>> \o <<c, d, e, f>>)[z]
                       = <<a, b, c, d, e, f>>[z]
  BY <1>1, ConcatProperties
<1> QED
  BY <1>1, <1>2, <1>3, SeqEqual

LEMMA Concat3And4 ==
    ASSUME NEW a, NEW b, NEW c, NEW d, NEW e, NEW f, NEW g
    PROVE  <<a, b, c>> \o <<d, e, f, g>>
           = <<a, b, c, d, e, f, g>>
<1> DEFINE S == {a, b, c, d, e, f, g}
<1>1. /\ <<a, b, c>> \in Seq(S) /\ <<d, e, f, g>> \in Seq(S)
      /\ <<a, b, c, d, e, f, g>> \in Seq(S)
  OBVIOUS
<1>2. /\ Len(<<a, b, c>> \o <<d, e, f, g>>) = 7
      /\ <<a, b, c>> \o <<d, e, f, g>> \in Seq(S)
  BY <1>1
<1>3. \A z \in 1..7 : (<<a, b, c>> \o <<d, e, f, g>>)[z]
                       = <<a, b, c, d, e, f, g>>[z]
  BY <1>1, ConcatProperties
<1> QED
  BY <1>1, <1>2, <1>3, SeqEqual

LEMMA Concat4And2 ==
    ASSUME NEW a, NEW b, NEW c, NEW d, NEW e, NEW f
    PROVE  <<a, b, c, d>> \o <<e, f>>
           = <<a, b, c, d, e, f>>
<1> DEFINE S == {a, b, c, d, e, f}
<1>1. /\ <<a, b, c, d>> \in Seq(S) /\ <<e, f>> \in Seq(S)
      /\ <<a, b, c, d, e, f>> \in Seq(S)
  OBVIOUS
<1>2. /\ Len(<<a, b, c, d>> \o <<e, f>>) = 6
      /\ <<a, b, c, d>> \o <<e, f>> \in Seq(S)
  BY <1>1
<1>3. \A z \in 1..6 : (<<a, b, c, d>> \o <<e, f>>)[z]
                       = <<a, b, c, d, e, f>>[z]
  BY <1>1, ConcatProperties
<1> QED
  BY <1>1, <1>2, <1>3, SeqEqual

LEMMA Concat6And4 ==
    ASSUME NEW a, NEW b, NEW c, NEW d, NEW e, NEW f, NEW g, NEW h, NEW i, NEW j
    PROVE  <<a, b, c, d, e, f>> \o <<g, h, i, j>>
           = <<a, b, c, d, e, f, g, h, i, j>>
<1> DEFINE S == {a, b, c, d, e, f, g, h, i, j}
<1>1. /\ <<a, b, c, d, e, f>> \in Seq(S) /\ <<g, h, i, j>> \in Seq(S)
      /\ <<a, b, c, d, e, f, g, h, i, j>> \in Seq(S)
  OBVIOUS
<1>2. /\ Len(<<a, b, c, d, e, f>> \o <<g, h, i, j>>) = 10
      /\ <<a, b, c, d, e, f>> \o <<g, h, i, j>> \in Seq(S)
  BY <1>1
<1>3. \A z \in 1..10 : (<<a, b, c, d, e, f>> \o <<g, h, i, j>>)[z]
                       = <<a, b, c, d, e, f, g, h, i, j>>[z]
  BY <1>1, ConcatProperties
<1> QED
  BY <1>1, <1>2, <1>3, SeqEqual

LEMMA Concat7And4 ==
    ASSUME NEW a, NEW b, NEW c, NEW d, NEW e, NEW f, NEW g, NEW h, NEW i, NEW j, NEW k
    PROVE  <<a, b, c, d, e, f, g>> \o <<h, i, j, k>>
           = <<a, b, c, d, e, f, g, h, i, j, k>>
<1> DEFINE S == {a, b, c, d, e, f, g, h, i, j, k}
<1>1. /\ <<a, b, c, d, e, f, g>> \in Seq(S) /\ <<h, i, j, k>> \in Seq(S)
      /\ <<a, b, c, d, e, f, g, h, i, j, k>> \in Seq(S)
  OBVIOUS
<1>2. /\ Len(<<a, b, c, d, e, f, g>> \o <<h, i, j, k>>) = 11
      /\ <<a, b, c, d, e, f, g>> \o <<h, i, j, k>> \in Seq(S)
  BY <1>1
<1>3. \A z \in 1..11 : (<<a, b, c, d, e, f, g>> \o <<h, i, j, k>>)[z]
                       = <<a, b, c, d, e, f, g, h, i, j, k>>[z]
  BY <1>1, ConcatProperties
<1> QED
  BY <1>1, <1>2, <1>3, SeqEqual

LEMMA QueryScript ==
    ASSUME NEW c
    PROVE  /\ Send(c) = <<WaitIn, Cmd(c)>>
           /\ Query(c) = <<WaitIn, Cmd(c), WaitOut, Read>>
           /\ SetConfig = <<WaitIn, Cmd("WRITE_CONFIG"), WaitIn, WriteConfigByte>>
  BY Concat2And2 DEF Send, Query, SetConfig

LEMMA SelfCheckScript ==
    Script["selfcheck"] = <<Cmd("WRITE_CONFIG"), WaitIn, WriteConfigByte,
                            WaitIn, Cmd("READ_CONFIG"), WaitOut, Read,
                            WaitIn, Cmd("TEST_CONTROLLER"), WaitOut, Read>>
<1>1. Script["selfcheck"] = <<Cmd("WRITE_CONFIG"), WaitIn, WriteConfigByte>>
                            \o Query("READ_CONFIG") \o Query("TEST_CONTROLLER")
  BY DEF Script
<1>2. <<Cmd("WRITE_CONFIG"), WaitIn, WriteConfigByte>>
          \o <<WaitIn, Cmd("READ_CONFIG"), WaitOut, Read>>
      = <<Cmd("WRITE_CONFIG"), WaitIn, WriteConfigByte,
          WaitIn, Cmd("READ_CONFIG"), WaitOut, Read>>
  BY Concat3And4
<1>3. <<Cmd("WRITE_CONFIG"), WaitIn, WriteConfigByte, WaitIn, Cmd("READ_CONFIG"), WaitOut, Read>>
          \o <<WaitIn, Cmd("TEST_CONTROLLER"), WaitOut, Read>>
      = <<Cmd("WRITE_CONFIG"), WaitIn, WriteConfigByte, WaitIn, Cmd("READ_CONFIG"), WaitOut, Read,
          WaitIn, Cmd("TEST_CONTROLLER"), WaitOut, Read>>
  BY Concat7And4
<1>4. /\ Query("READ_CONFIG") = <<WaitIn, Cmd("READ_CONFIG"), WaitOut, Read>>
      /\ Query("TEST_CONTROLLER") = <<WaitIn, Cmd("TEST_CONTROLLER"), WaitOut, Read>>
  BY QueryScript
<1> QED
  BY <1>1, <1>2, <1>3, <1>4

LEMMA RestoreScript ==
    Script["restore"] = <<WaitIn, Cmd("WRITE_CONFIG"), WaitIn, WriteConfigByte,
                          WaitIn, Cmd("ENABLE_2"),
                          WaitIn, Cmd("READ_CONFIG"), WaitOut, Read>>
<1>1. Script["restore"] = SetConfig \o Send("ENABLE_2") \o Query("READ_CONFIG")
  BY DEF Script
<1>2. <<WaitIn, Cmd("WRITE_CONFIG"), WaitIn, WriteConfigByte>> \o <<WaitIn, Cmd("ENABLE_2")>>
      = <<WaitIn, Cmd("WRITE_CONFIG"), WaitIn, WriteConfigByte, WaitIn, Cmd("ENABLE_2")>>
  BY Concat4And2
<1>3. <<WaitIn, Cmd("WRITE_CONFIG"), WaitIn, WriteConfigByte, WaitIn, Cmd("ENABLE_2")>>
          \o <<WaitIn, Cmd("READ_CONFIG"), WaitOut, Read>>
      = <<WaitIn, Cmd("WRITE_CONFIG"), WaitIn, WriteConfigByte, WaitIn, Cmd("ENABLE_2"),
          WaitIn, Cmd("READ_CONFIG"), WaitOut, Read>>
  BY Concat6And4
<1>4. /\ SetConfig = <<WaitIn, Cmd("WRITE_CONFIG"), WaitIn, WriteConfigByte>>
      /\ Send("ENABLE_2") = <<WaitIn, Cmd("ENABLE_2")>>
      /\ Query("READ_CONFIG") = <<WaitIn, Cmd("READ_CONFIG"), WaitOut, Read>>
  BY QueryScript
<1> QED
  BY <1>1, <1>2, <1>3, <1>4

LEMMA DualScript ==
    Script["dual"] = <<WaitIn, Cmd("DISABLE_2"), WaitIn, Cmd("READ_CONFIG"), WaitOut, Read>>
<1>1. Script["dual"] = Send("DISABLE_2") \o Query("READ_CONFIG")
  BY DEF Script
<1>2. <<WaitIn, Cmd("DISABLE_2")>> \o <<WaitIn, Cmd("READ_CONFIG"), WaitOut, Read>>
      = <<WaitIn, Cmd("DISABLE_2"), WaitIn, Cmd("READ_CONFIG"), WaitOut, Read>>
  BY Concat2And4
<1>3. /\ Send("DISABLE_2") = <<WaitIn, Cmd("DISABLE_2")>>
      /\ Query("READ_CONFIG") = <<WaitIn, Cmd("READ_CONFIG"), WaitOut, Read>>
  BY QueryScript
<1> QED
  BY <1>1, <1>2, <1>3

LEMMA ShortScripts ==
    /\ Script["port1"] = <<WaitIn, Cmd("TEST_PORT_1"), WaitOut, Read>>
    /\ Script["port2"] = <<WaitIn, Cmd("TEST_PORT_2"), WaitOut, Read>>
    /\ Script["irq"] = <<WaitIn, Cmd("READ_CONFIG"), WaitOut, Read>>
    /\ Script["dualconfig"] = <<WaitIn, Cmd("WRITE_CONFIG"), WaitIn, WriteConfigByte>>
    /\ Script["irqwrite"] = <<WaitIn, Cmd("WRITE_CONFIG"), WaitIn, WriteConfigByte>>
    /\ Script["enable1"] = <<WaitIn, Cmd("ENABLE_1")>>
    /\ Script["enable2"] = <<WaitIn, Cmd("ENABLE_2")>>
    /\ Script["reset1"] = <<TryIn, WriteReset>>
    /\ Script["reset2"] = <<TryIn, Cmd("WRITE_PORT2_INPUT"), TryIn, WriteReset>>
<1>1. /\ Script["port1"] = Query("TEST_PORT_1") /\ Script["port2"] = Query("TEST_PORT_2")
      /\ Script["irq"] = Query("READ_CONFIG")
      /\ Script["dualconfig"] = SetConfig /\ Script["irqwrite"] = SetConfig
      /\ Script["enable1"] = Send("ENABLE_1") /\ Script["enable2"] = Send("ENABLE_2")
      /\ Script["reset1"] = <<TryIn, WriteReset>>
      /\ Script["reset2"] = <<TryIn, Cmd("WRITE_PORT2_INPUT"), TryIn, WriteReset>>
  BY DEF Script
<1> QED
  BY <1>1, QueryScript

-----------------------------------------------------------------------------
(***************************************************************************)
(* The discipline the scripts keep.                                        *)
(***************************************************************************)
\* The phases in which the driver talks to the controller, up to the reset byte.
Early == {"disable", "selfcheck", "restore", "dual", "dualconfig", "port1", "port2",
          "enable1", "enable2", "irq", "irqwrite", "reset1"}

\* Where the conversation stands before each access of a script, and after the last.
Mood ==
    [disable    |-> <<"idle", "clear", "idle", "clear", "quiet", "quiet", "owed", "ready", "clear">>,
     selfcheck  |-> <<"clear", "config", "taken", "idle", "clear", "owed", "ready",
                      "clear", "clear", "owed", "ready", "clear">>,
     restore    |-> <<"idle", "clear", "config", "taken", "idle", "clear", "idle",
                      "clear", "owed", "ready", "clear">>,
     dual       |-> <<"idle", "clear", "idle", "clear", "owed", "ready", "clear">>,
     dualconfig |-> <<"idle", "clear", "config", "taken", "idle">>,
     port1      |-> <<"idle", "clear", "owed", "ready", "clear">>,
     port2      |-> <<"idle", "clear", "owed", "ready", "clear">>,
     enable1    |-> <<"idle", "clear", "idle">>,
     enable2    |-> <<"idle", "clear", "idle">>,
     irq        |-> <<"idle", "clear", "owed", "ready", "clear">>,
     irqwrite   |-> <<"idle", "clear", "config", "taken", "idle">>,
     reset1     |-> <<"idle", "clear", "sent">>]

Silent == {"DISABLE_1", "DISABLE_2", "ENABLE_1", "ENABLE_2"}
Questions == {"READ_CONFIG", "TEST_CONTROLLER", "TEST_PORT_1", "TEST_PORT_2"}
ReadsConfig == {"restore", "dual", "irq"}
MayAsk(ph, c) == /\ c \in Questions
                 /\ ph \in ReadsConfig => c = "READ_CONFIG"
                 /\ c = "TEST_CONTROLLER" => ph = "selfcheck"
                 /\ c = "TEST_PORT_2" => ph = "port2"

\* Port 1 is switched off once, port 2 again after it was found.
MaySwitch(ph, c) == /\ c = "DISABLE_1" => ph = "disable"
                    /\ c = "DISABLE_2" => ph \in {"disable", "dual"}

\* How an access leads from one mood to the next.  Only the flush reads without
\* having asked.
Follows(ph, a, m, n) ==
    \/ /\ a.op \in {"waitin", "tryin"}
       /\ \/ m \in {"idle", "clear"} /\ n = "clear"
          \/ m = "config" /\ n = "taken"
    \/ a.op = "waitout" /\ m = "owed" /\ n = "ready"
    \/ a.op = "read" /\ m = "ready" /\ n = "clear"
    \/ a.op = "read" /\ m = "quiet" /\ n = "quiet" /\ ph = "disable"
    \/ /\ a.op = "command" /\ m \in {"quiet", "clear"}
       /\ \/ a.arg \in Silent /\ n \in {"idle", "quiet"} /\ MaySwitch(ph, a.arg)
          \/ MayAsk(ph, a.arg) /\ n = "owed"
          \/ a.arg = "WRITE_CONFIG" /\ n = "config"
    \/ a.op = "config" /\ m = "taken" /\ n = "idle"
    \/ a.op = "reset" /\ m = "clear" /\ n = "sent" /\ ph = "reset1"

Begins(ph) == IF ph = "selfcheck" THEN "clear" ELSE "idle"
Ends(ph) == CASE ph = "reset1" -> "sent"
              [] ph \in {"dualconfig", "enable1", "enable2", "irqwrite"} -> "idle"
              [] OTHER -> "clear"

Disciplined(ph) ==
    /\ Mood[ph][1] = Begins(ph) /\ Mood[ph][Len(Script[ph]) + 1] = Ends(ph)
    /\ \A s \in 1..Len(Script[ph]) : Follows(ph, Script[ph][s], Mood[ph][s], Mood[ph][s + 1])

LEMMA AccessOps ==
    /\ WaitIn.op = "waitin" /\ WaitOut.op = "waitout" /\ TryIn.op = "tryin" /\ TryOut.op = "tryout"
    /\ WriteConfigByte.op = "config" /\ WriteReset.op = "reset" /\ Read.op = "read"
    /\ \A c : Cmd(c).op = "command" /\ Cmd(c).arg = c
  BY DEF WaitIn, WaitOut, TryIn, TryOut, WriteConfigByte, WriteReset, Read, Cmd

LEMMA Moves ==
    ASSUME NEW ph
    PROVE  /\ Follows(ph, WaitIn, "idle", "clear") /\ Follows(ph, WaitIn, "clear", "clear")
           /\ Follows(ph, WaitIn, "config", "taken") /\ Follows(ph, TryIn, "idle", "clear")
           /\ Follows(ph, WaitOut, "owed", "ready")
           /\ Follows(ph, Read, "ready", "clear")
           /\ ph = "disable" => Follows(ph, Read, "quiet", "quiet")
           /\ Follows(ph, WriteConfigByte, "taken", "idle")
<1>1. ASSUME NEW a, a.op \in {"waitin", "tryin"}, NEW m \in {"idle", "clear"}
      PROVE  Follows(ph, a, m, "clear")
  BY <1>1 DEF Follows
<1>2. ASSUME NEW a, a.op \in {"waitin", "tryin"} PROVE Follows(ph, a, "config", "taken")
  BY <1>2 DEF Follows
<1>3. ASSUME NEW a, a.op = "waitout" PROVE Follows(ph, a, "owed", "ready")
  BY <1>3 DEF Follows
<1>4. ASSUME NEW a, a.op = "read" PROVE Follows(ph, a, "ready", "clear")
  BY <1>4 DEF Follows
<1>5. ASSUME NEW a, a.op = "read", ph = "disable" PROVE Follows(ph, a, "quiet", "quiet")
  BY <1>5 DEF Follows
<1>6. ASSUME NEW a, a.op = "config" PROVE Follows(ph, a, "taken", "idle")
  BY <1>6 DEF Follows
<1> QED
  BY <1>1, <1>2, <1>3, <1>4, <1>5, <1>6, AccessOps

LEMMA CommandMoves ==
    ASSUME NEW ph, NEW c, NEW m \in {"quiet", "clear"}
    PROVE  /\ c \in Silent /\ MaySwitch(ph, c) =>
                Follows(ph, Cmd(c), m, "idle") /\ Follows(ph, Cmd(c), m, "quiet")
           /\ MayAsk(ph, c) => Follows(ph, Cmd(c), m, "owed")
           /\ c = "WRITE_CONFIG" => Follows(ph, Cmd(c), m, "config")
<1>1. Cmd(c).op = "command" /\ Cmd(c).arg = c
  BY AccessOps
<1> QED
  BY <1>1 DEF Follows

LEMMA DisableDiscipline == Disciplined("disable")
<1>1. Mood["disable"] = <<"idle", "clear", "idle", "clear", "quiet", "quiet", "owed", "ready",
                          "clear">>
  BY DEF Mood
<1>2. Len(Script["disable"]) = 8
  BY FlushScript
<1>3. \A s \in 1..8 : s = 1 \/ s = 2 \/ s = 3 \/ s = 4 \/ s = 5 \/ s = 6 \/ s = 7 \/ s = 8
  OBVIOUS
<1>4. Follows("disable", Script["disable"][1], Mood["disable"][1], Mood["disable"][2])
  BY <1>1, Moves, FlushScript
<1>5. Follows("disable", Script["disable"][2], Mood["disable"][2], Mood["disable"][3])
  <2>1. Follows("disable", Cmd("DISABLE_1"), "clear", "idle")
    BY CommandMoves DEF Silent, MaySwitch, MayAsk, Questions, ReadsConfig
  <2>2. /\ Script["disable"][2] = Cmd("DISABLE_1")
        /\ Mood["disable"][2] = "clear" /\ Mood["disable"][3] = "idle"
    BY <1>1, FlushScript
  <2> QED
    BY <2>1, <2>2
<1>6. Follows("disable", Script["disable"][3], Mood["disable"][3], Mood["disable"][4])
  BY <1>1, Moves, FlushScript
<1>7. Follows("disable", Script["disable"][4], Mood["disable"][4], Mood["disable"][5])
  <2>1. Follows("disable", Cmd("DISABLE_2"), "clear", "quiet")
    BY CommandMoves DEF Silent, MaySwitch, MayAsk, Questions, ReadsConfig
  <2>2. /\ Script["disable"][4] = Cmd("DISABLE_2")
        /\ Mood["disable"][4] = "clear" /\ Mood["disable"][5] = "quiet"
    BY <1>1, FlushScript
  <2> QED
    BY <2>1, <2>2
<1>8. Follows("disable", Script["disable"][5], Mood["disable"][5], Mood["disable"][6])
  BY <1>1, Moves, FlushScript
<1>9. Follows("disable", Script["disable"][6], Mood["disable"][6], Mood["disable"][7])
  <2>1. Follows("disable", Cmd("READ_CONFIG"), "quiet", "owed")
    BY CommandMoves DEF Silent, MaySwitch, MayAsk, Questions, ReadsConfig
  <2>2. /\ Script["disable"][6] = Cmd("READ_CONFIG")
        /\ Mood["disable"][6] = "quiet" /\ Mood["disable"][7] = "owed"
    BY <1>1, FlushScript
  <2> QED
    BY <2>1, <2>2
<1>10. Follows("disable", Script["disable"][7], Mood["disable"][7], Mood["disable"][8])
  BY <1>1, Moves, FlushScript
<1>11. Follows("disable", Script["disable"][8], Mood["disable"][8], Mood["disable"][9])
  BY <1>1, Moves, FlushScript
<1>12. Mood["disable"][1] = Begins("disable") /\ Mood["disable"][9] = Ends("disable")
  BY <1>1 DEF Begins, Ends
<1> QED
  BY <1>2, <1>3, <1>4, <1>5, <1>6, <1>7, <1>8, <1>9, <1>10, <1>11, <1>12 DEF Disciplined

LEMMA SelfCheckDiscipline == Disciplined("selfcheck")
<1>1. Mood["selfcheck"] = <<"clear", "config", "taken", "idle", "clear", "owed", "ready",
                            "clear", "clear", "owed", "ready", "clear">>
  BY DEF Mood
<1>2. Len(Script["selfcheck"]) = 11
  BY SelfCheckScript
<1>3. \A s \in 1..11 : s = 1 \/ s = 2 \/ s = 3 \/ s = 4 \/ s = 5 \/ s = 6 \/ s = 7 \/ s = 8 \/ s = 9 \/ s = 10 \/ s = 11
  OBVIOUS
<1>4. Follows("selfcheck", Script["selfcheck"][1], Mood["selfcheck"][1], Mood["selfcheck"][2])
  <2>1. Follows("selfcheck", Cmd("WRITE_CONFIG"), "clear", "config")
    BY CommandMoves DEF Silent, MaySwitch, MayAsk, Questions, ReadsConfig
  <2>2. /\ Script["selfcheck"][1] = Cmd("WRITE_CONFIG")
        /\ Mood["selfcheck"][1] = "clear" /\ Mood["selfcheck"][2] = "config"
    BY <1>1, SelfCheckScript
  <2> QED
    BY <2>1, <2>2
<1>5. Follows("selfcheck", Script["selfcheck"][2], Mood["selfcheck"][2], Mood["selfcheck"][3])
  BY <1>1, Moves, SelfCheckScript
<1>6. Follows("selfcheck", Script["selfcheck"][3], Mood["selfcheck"][3], Mood["selfcheck"][4])
  BY <1>1, Moves, SelfCheckScript
<1>7. Follows("selfcheck", Script["selfcheck"][4], Mood["selfcheck"][4], Mood["selfcheck"][5])
  BY <1>1, Moves, SelfCheckScript
<1>8. Follows("selfcheck", Script["selfcheck"][5], Mood["selfcheck"][5], Mood["selfcheck"][6])
  <2>1. Follows("selfcheck", Cmd("READ_CONFIG"), "clear", "owed")
    BY CommandMoves DEF Silent, MaySwitch, MayAsk, Questions, ReadsConfig
  <2>2. /\ Script["selfcheck"][5] = Cmd("READ_CONFIG")
        /\ Mood["selfcheck"][5] = "clear" /\ Mood["selfcheck"][6] = "owed"
    BY <1>1, SelfCheckScript
  <2> QED
    BY <2>1, <2>2
<1>9. Follows("selfcheck", Script["selfcheck"][6], Mood["selfcheck"][6], Mood["selfcheck"][7])
  BY <1>1, Moves, SelfCheckScript
<1>10. Follows("selfcheck", Script["selfcheck"][7], Mood["selfcheck"][7], Mood["selfcheck"][8])
  BY <1>1, Moves, SelfCheckScript
<1>11. Follows("selfcheck", Script["selfcheck"][8], Mood["selfcheck"][8], Mood["selfcheck"][9])
  BY <1>1, Moves, SelfCheckScript
<1>12. Follows("selfcheck", Script["selfcheck"][9], Mood["selfcheck"][9], Mood["selfcheck"][10])
  <2>1. Follows("selfcheck", Cmd("TEST_CONTROLLER"), "clear", "owed")
    BY CommandMoves DEF Silent, MaySwitch, MayAsk, Questions, ReadsConfig
  <2>2. /\ Script["selfcheck"][9] = Cmd("TEST_CONTROLLER")
        /\ Mood["selfcheck"][9] = "clear" /\ Mood["selfcheck"][10] = "owed"
    BY <1>1, SelfCheckScript
  <2> QED
    BY <2>1, <2>2
<1>13. Follows("selfcheck", Script["selfcheck"][10], Mood["selfcheck"][10], Mood["selfcheck"][11])
  BY <1>1, Moves, SelfCheckScript
<1>14. Follows("selfcheck", Script["selfcheck"][11], Mood["selfcheck"][11], Mood["selfcheck"][12])
  BY <1>1, Moves, SelfCheckScript
<1>15. Mood["selfcheck"][1] = Begins("selfcheck") /\ Mood["selfcheck"][12] = Ends("selfcheck")
  BY <1>1 DEF Begins, Ends
<1> QED
  BY <1>2, <1>3, <1>4, <1>5, <1>6, <1>7, <1>8, <1>9, <1>10, <1>11, <1>12, <1>13, <1>14, <1>15 DEF Disciplined

LEMMA RestoreDiscipline == Disciplined("restore")
<1>1. Mood["restore"] = <<"idle", "clear", "config", "taken", "idle", "clear", "idle", "clear",
                          "owed", "ready", "clear">>
  BY DEF Mood
<1>2. Len(Script["restore"]) = 10
  BY RestoreScript
<1>3. \A s \in 1..10 : s = 1 \/ s = 2 \/ s = 3 \/ s = 4 \/ s = 5 \/ s = 6 \/ s = 7 \/ s = 8 \/ s = 9 \/ s = 10
  OBVIOUS
<1>4. Follows("restore", Script["restore"][1], Mood["restore"][1], Mood["restore"][2])
  BY <1>1, Moves, RestoreScript
<1>5. Follows("restore", Script["restore"][2], Mood["restore"][2], Mood["restore"][3])
  <2>1. Follows("restore", Cmd("WRITE_CONFIG"), "clear", "config")
    BY CommandMoves DEF Silent, MaySwitch, MayAsk, Questions, ReadsConfig
  <2>2. /\ Script["restore"][2] = Cmd("WRITE_CONFIG")
        /\ Mood["restore"][2] = "clear" /\ Mood["restore"][3] = "config"
    BY <1>1, RestoreScript
  <2> QED
    BY <2>1, <2>2
<1>6. Follows("restore", Script["restore"][3], Mood["restore"][3], Mood["restore"][4])
  BY <1>1, Moves, RestoreScript
<1>7. Follows("restore", Script["restore"][4], Mood["restore"][4], Mood["restore"][5])
  BY <1>1, Moves, RestoreScript
<1>8. Follows("restore", Script["restore"][5], Mood["restore"][5], Mood["restore"][6])
  BY <1>1, Moves, RestoreScript
<1>9. Follows("restore", Script["restore"][6], Mood["restore"][6], Mood["restore"][7])
  <2>1. Follows("restore", Cmd("ENABLE_2"), "clear", "idle")
    BY CommandMoves DEF Silent, MaySwitch, MayAsk, Questions, ReadsConfig
  <2>2. /\ Script["restore"][6] = Cmd("ENABLE_2")
        /\ Mood["restore"][6] = "clear" /\ Mood["restore"][7] = "idle"
    BY <1>1, RestoreScript
  <2> QED
    BY <2>1, <2>2
<1>10. Follows("restore", Script["restore"][7], Mood["restore"][7], Mood["restore"][8])
  BY <1>1, Moves, RestoreScript
<1>11. Follows("restore", Script["restore"][8], Mood["restore"][8], Mood["restore"][9])
  <2>1. Follows("restore", Cmd("READ_CONFIG"), "clear", "owed")
    BY CommandMoves DEF Silent, MaySwitch, MayAsk, Questions, ReadsConfig
  <2>2. /\ Script["restore"][8] = Cmd("READ_CONFIG")
        /\ Mood["restore"][8] = "clear" /\ Mood["restore"][9] = "owed"
    BY <1>1, RestoreScript
  <2> QED
    BY <2>1, <2>2
<1>12. Follows("restore", Script["restore"][9], Mood["restore"][9], Mood["restore"][10])
  BY <1>1, Moves, RestoreScript
<1>13. Follows("restore", Script["restore"][10], Mood["restore"][10], Mood["restore"][11])
  BY <1>1, Moves, RestoreScript
<1>14. Mood["restore"][1] = Begins("restore") /\ Mood["restore"][11] = Ends("restore")
  BY <1>1 DEF Begins, Ends
<1> QED
  BY <1>2, <1>3, <1>4, <1>5, <1>6, <1>7, <1>8, <1>9, <1>10, <1>11, <1>12, <1>13, <1>14 DEF Disciplined

LEMMA DualDiscipline == Disciplined("dual")
<1>1. Mood["dual"] = <<"idle", "clear", "idle", "clear", "owed", "ready", "clear">>
  BY DEF Mood
<1>2. Len(Script["dual"]) = 6
  BY DualScript
<1>3. \A s \in 1..6 : s = 1 \/ s = 2 \/ s = 3 \/ s = 4 \/ s = 5 \/ s = 6
  OBVIOUS
<1>4. Follows("dual", Script["dual"][1], Mood["dual"][1], Mood["dual"][2])
  BY <1>1, Moves, DualScript
<1>5. Follows("dual", Script["dual"][2], Mood["dual"][2], Mood["dual"][3])
  <2>1. Follows("dual", Cmd("DISABLE_2"), "clear", "idle")
    BY CommandMoves DEF Silent, MaySwitch, MayAsk, Questions, ReadsConfig
  <2>2. /\ Script["dual"][2] = Cmd("DISABLE_2")
        /\ Mood["dual"][2] = "clear" /\ Mood["dual"][3] = "idle"
    BY <1>1, DualScript
  <2> QED
    BY <2>1, <2>2
<1>6. Follows("dual", Script["dual"][3], Mood["dual"][3], Mood["dual"][4])
  BY <1>1, Moves, DualScript
<1>7. Follows("dual", Script["dual"][4], Mood["dual"][4], Mood["dual"][5])
  <2>1. Follows("dual", Cmd("READ_CONFIG"), "clear", "owed")
    BY CommandMoves DEF Silent, MaySwitch, MayAsk, Questions, ReadsConfig
  <2>2. /\ Script["dual"][4] = Cmd("READ_CONFIG")
        /\ Mood["dual"][4] = "clear" /\ Mood["dual"][5] = "owed"
    BY <1>1, DualScript
  <2> QED
    BY <2>1, <2>2
<1>8. Follows("dual", Script["dual"][5], Mood["dual"][5], Mood["dual"][6])
  BY <1>1, Moves, DualScript
<1>9. Follows("dual", Script["dual"][6], Mood["dual"][6], Mood["dual"][7])
  BY <1>1, Moves, DualScript
<1>10. Mood["dual"][1] = Begins("dual") /\ Mood["dual"][7] = Ends("dual")
  BY <1>1 DEF Begins, Ends
<1> QED
  BY <1>2, <1>3, <1>4, <1>5, <1>6, <1>7, <1>8, <1>9, <1>10 DEF Disciplined

\* The scripts of one command, and those that write the configuration.
LEMMA OneCommandDiscipline ==
    ASSUME NEW ph, NEW c, MayAsk(ph, c), Begins(ph) = "idle", Ends(ph) = "clear",
           Script[ph] = <<WaitIn, Cmd(c), WaitOut, Read>>,
           Mood[ph] = <<"idle", "clear", "owed", "ready", "clear">>
    PROVE  Disciplined(ph)
<1>1. Len(Script[ph]) = 4 /\ \A s \in 1..4 : s = 1 \/ s = 2 \/ s = 3 \/ s = 4
  OBVIOUS
<1>2. Follows(ph, Cmd(c), "clear", "owed")
  BY CommandMoves
<1> QED
  BY <1>1, <1>2, Moves DEF Disciplined

LEMMA ConfigDiscipline ==
    ASSUME NEW ph, Begins(ph) = "idle", Ends(ph) = "idle",
           Script[ph] = <<WaitIn, Cmd("WRITE_CONFIG"), WaitIn, WriteConfigByte>>,
           Mood[ph] = <<"idle", "clear", "config", "taken", "idle">>
    PROVE  Disciplined(ph)
<1>1. Len(Script[ph]) = 4 /\ \A s \in 1..4 : s = 1 \/ s = 2 \/ s = 3 \/ s = 4
  OBVIOUS
<1>2. Follows(ph, Cmd("WRITE_CONFIG"), "clear", "config")
  BY CommandMoves
<1> QED
  BY <1>1, <1>2, Moves DEF Disciplined

LEMMA EnableDiscipline ==
    ASSUME NEW ph, NEW c \in Silent, Begins(ph) = "idle", Ends(ph) = "idle", MaySwitch(ph, c),
           Script[ph] = <<WaitIn, Cmd(c)>>, Mood[ph] = <<"idle", "clear", "idle">>
    PROVE  Disciplined(ph)
<1>1. Len(Script[ph]) = 2 /\ \A s \in 1..2 : s = 1 \/ s = 2
  OBVIOUS
<1>2. Follows(ph, Cmd(c), "clear", "idle")
  BY CommandMoves
<1> QED
  BY <1>1, <1>2, Moves DEF Disciplined

LEMMA Reset1Discipline == Disciplined("reset1")
<1>1. Script["reset1"] = <<TryIn, WriteReset>> /\ Mood["reset1"] = <<"idle", "clear", "sent">>
  BY ShortScripts DEF Mood
<1>2. Len(Script["reset1"]) = 2 /\ \A s \in 1..2 : s = 1 \/ s = 2
  BY <1>1
<1>3. Follows("reset1", WriteReset, "clear", "sent")
  BY AccessOps DEF Follows
<1> QED
  BY <1>1, <1>2, <1>3, Moves DEF Disciplined, Begins, Ends

LEMMA Discipline == \A ph \in Early : Disciplined(ph)
<1>1. Disciplined("port1") /\ Disciplined("port2") /\ Disciplined("irq")
  <2>1. /\ MayAsk("port1", "TEST_PORT_1") /\ MayAsk("port2", "TEST_PORT_2")
        /\ MayAsk("irq", "READ_CONFIG")
    BY DEF MayAsk, Questions, ReadsConfig
  <2>2. \A ph \in {"port1", "port2", "irq"} : Begins(ph) = "idle" /\ Ends(ph) = "clear"
    BY DEF Begins, Ends
  <2>3. \A ph \in {"port1", "port2", "irq"} : Mood[ph] = <<"idle", "clear", "owed", "ready", "clear">>
    BY DEF Mood
  <2> QED
    BY <2>1, <2>2, <2>3, ShortScripts, OneCommandDiscipline
<1>2. Disciplined("dualconfig") /\ Disciplined("irqwrite")
  <2>1. \A ph \in {"dualconfig", "irqwrite"} : Begins(ph) = "idle" /\ Ends(ph) = "idle"
    BY DEF Begins, Ends
  <2>2. \A ph \in {"dualconfig", "irqwrite"} : Mood[ph] = <<"idle", "clear", "config", "taken", "idle">>
    BY DEF Mood
  <2> QED
    BY <2>1, <2>2, ShortScripts, ConfigDiscipline
<1>3. Disciplined("enable1") /\ Disciplined("enable2")
  <2>1. \A ph \in {"enable1", "enable2"} : Begins(ph) = "idle" /\ Ends(ph) = "idle"
    BY DEF Begins, Ends
  <2>2. \A ph \in {"enable1", "enable2"} : Mood[ph] = <<"idle", "clear", "idle">>
    BY DEF Mood
  <2>3. \A c \in {"ENABLE_1", "ENABLE_2"} : c \in Silent /\ \A ph : MaySwitch(ph, c)
    BY DEF Silent, MaySwitch
  <2> QED
    BY <2>1, <2>2, <2>3, ShortScripts, EnableDiscipline
<1> QED
  BY <1>1, <1>2, <1>3, DisableDiscipline, SelfCheckDiscipline, RestoreDiscipline, DualDiscipline,
     Reset1Discipline DEF Early

-----------------------------------------------------------------------------
(***************************************************************************)
(* What each mood says of the controller.                                  *)
(***************************************************************************)
Nothing == reply = <<>> /\ obf = FALSE

\* A single-channel controller says nothing to the test of port 2.
Unanswered == phase = "port2" /\ hw.dual = FALSE

\* No reply is outstanding; a silent command, or the configuration byte, may be.
Quiet == /\ Nothing /\ route = "device1"
         /\ (inbuf = <<>> \/ \E c \in Silent : inbuf = <<CommandWrite(c)>>)
Idle == /\ Nothing
        /\ \/ route = "device1" /\ inbuf = <<>>
           \/ route = "device1" /\ \E c \in Silent : inbuf = <<CommandWrite(c)>>
           \/ route = "config" /\ \E b \in Byte : inbuf = <<DataWrite(b)>>
Clear == Nothing /\ inbuf = <<>> /\ route = "device1"
Owed == /\ route = "device1"
        /\ \/ Nothing /\ \E c \in Questions : MayAsk(phase, c) /\ inbuf = <<CommandWrite(c)>>
           \/ inbuf = <<>> /\ reply # <<>> /\ obf = FALSE
           \/ inbuf = <<>> /\ reply = <<>> /\ obf = TRUE /\ latch.from = "controller"
           \/ inbuf = <<>> /\ Nothing /\ Unanswered
Ready == /\ route = "device1" /\ inbuf = <<>> /\ reply = <<>>
         /\ (obf = TRUE /\ latch.from = "controller") \/ Unanswered
ConfigDue == /\ Nothing
             /\ \/ inbuf = <<CommandWrite("WRITE_CONFIG")>> /\ route = "device1"
                \/ inbuf = <<>> /\ route = "config"
Taken == Nothing /\ inbuf = <<>> /\ route = "config"

\* The reset byte is on its way to device p, or the bytes read, the one in the
\* output buffer and those still to be sent make up its answer, in order; the
\* other device has nothing to say.
InBuffer == IF obf THEN 1 ELSE 0
Heard(p) ==
    /\ Len(got[p]) + InBuffer + Len(devq[p]) = Len(hw.answer[p])
    /\ \A i \in 1..Len(got[p]) : got[p][i].byte = hw.answer[p][i]
    /\ obf => latch.byte = hw.answer[p][Len(got[p]) + 1] /\ latch.from = DeviceName(p)
    /\ \A i \in 1..Len(devq[p]) : devq[p][i] = hw.answer[p][Len(got[p]) + InBuffer + i]
Listening(p) ==
    /\ reply = <<>>
    /\ \A q \in Port \ {p} : devq[q] = <<>>
    /\ \/ /\ inbuf = <<DataWrite(BFF)>> /\ route = DeviceName(p)
          /\ obf = FALSE /\ devq[p] = <<>> /\ got[p] = <<>>
       \/ inbuf = <<>> /\ route = "device1" /\ Heard(p)

Holds(m) == \/ m = "idle" /\ Idle
            \/ m = "quiet" /\ Quiet
            \/ m = "clear" /\ Clear
            \/ m = "owed" /\ Owed
            \/ m = "ready" /\ Ready
            \/ m = "config" /\ ConfigDue
            \/ m = "taken" /\ Taken
            \/ m = "sent" /\ Listening(1)

\* The configuration byte once what is in the input buffer has been taken.
CfgToBe == IF route = "config" /\ inbuf # <<>> /\ inbuf[1].port = "data"
           THEN inbuf[1].value ELSE cfg

-----------------------------------------------------------------------------
(***************************************************************************)
(* Steps of the controller and the devices, mood by mood.                  *)
(***************************************************************************)
Mute == devq[1] = <<>> /\ devq[2] = <<>>

LEMMA Ports == 1 \in Port /\ 2 \in Port /\ Port \ {1} = {2} /\ Port \ {2} = {1}
  BY DEF Port

LEMMA WriteFields ==
    /\ \A c : CommandWrite(c).port = "command" /\ CommandWrite(c).value = c
    /\ \A b : DataWrite(b).port = "data" /\ DataWrite(b).value = b
    /\ \A c, b : CommandWrite(c) # DataWrite(b)
    /\ \A c, d : CommandWrite(c) = CommandWrite(d) => c = d
  BY DEF CommandWrite, DataWrite

\* Devices with nothing to send leave the floor to the controller.
LEMMA ControllerOnly ==
    ASSUME Orderly, Mute, HwNext
    PROVE  ControllerNext
  BY DEF HwNext, DeviceSends, CanSend, DeviceChatters, Orderly, Mute, Port

\* Nothing to take and nothing to say: the controller rests.
LEMMA Resting ==
    ASSUME inbuf = <<>>, reply = <<>>
    PROVE  ~ControllerNext
  BY DEF ControllerNext, TakeReadConfig, TakeWriteConfig, TakePortSwitch, TakeTestController,
     TakeTestPort, TakeWritePort2, TakeData, DeliverReply, Taking

\* What the controller does with a command, with a data byte and with a reply.
LEMMA TakingCommand ==
    ASSUME NEW c, inbuf = <<CommandWrite(c)>>, reply = <<>>, ControllerNext
    PROVE  /\ inbuf' = <<>> /\ UNCHANGED <<hw, obf, latch, devq, noise>>
           /\ c \in Silent => /\ UNCHANGED <<route, reply>>
                              /\ \/ cfg' = cfg
                                 \/ cfg' = cfg \cup {4} /\ c = "DISABLE_1"
                                 \/ cfg' = cfg \ {4}
                                 \/ cfg' = cfg \cup {5} /\ c = "DISABLE_2"
                                 \/ cfg' = cfg \ {5}
           /\ c \in Questions => UNCHANGED route
           /\ c = "READ_CONFIG" => reply' = <<cfg>> /\ UNCHANGED cfg
           /\ c = "WRITE_CONFIG" => route' = "config" /\ UNCHANGED <<reply, cfg>>
           /\ c = "TEST_CONTROLLER" => reply' = <<hw.selftest>>
           /\ c = "TEST_PORT_1" => reply' = <<hw.porttest[1]>> /\ UNCHANGED cfg
           /\ c = "TEST_PORT_2" => /\ \/ reply' = <<hw.porttest[2]>>
                                      \/ reply' = <<>> /\ hw.dual = FALSE
                                   /\ UNCHANGED cfg
           /\ c = "WRITE_PORT2_INPUT" => /\ route' \in {"device2", route} /\ UNCHANGED <<reply, cfg>>
                                         /\ hw.dual = TRUE => route' = "device2"
<1>1. \A d : inbuf = <<CommandWrite(d)>> => d = c
  BY WriteFields
<1>2. inbuf[1].port # "data" /\ ~DeliverReply /\ ~TakeData
  BY WriteFields DEF DeliverReply, TakeData
<1> USE DEF Silent, Questions, Taking
<1>3. CASE TakeReadConfig
  <2>1. c = "READ_CONFIG"
    BY <1>1, <1>3 DEF TakeReadConfig
  <2> QED
    BY <1>3, <2>1 DEF TakeReadConfig
<1>4. CASE TakeWriteConfig
  <2>1. c = "WRITE_CONFIG"
    BY <1>1, <1>4 DEF TakeWriteConfig
  <2> QED
    BY <1>4, <2>1 DEF TakeWriteConfig
<1>5. CASE TakePortSwitch
  <2>1. /\ \/ c = "DISABLE_1" /\ cfg' = cfg \cup {4}
           \/ c = "ENABLE_1" /\ cfg' = cfg \ {4}
           \/ c = "DISABLE_2" /\ (cfg' = cfg \cup {5} \/ cfg' = cfg)
           \/ c = "ENABLE_2" /\ (cfg' = cfg \ {5} \/ cfg' = cfg)
        /\ inbuf' = <<>> /\ UNCHANGED <<hw, route, reply, obf, latch, devq, noise>>
    BY <1>1, <1>5 DEF TakePortSwitch
  <2> QED
    BY <2>1
<1>6. CASE TakeTestController
  <2>1. c = "TEST_CONTROLLER"
    BY <1>1, <1>6 DEF TakeTestController
  <2> QED
    BY <1>6, <2>1 DEF TakeTestController
<1>7. CASE TakeTestPort
  <2>1. \/ c = "TEST_PORT_1" /\ reply' = <<hw.porttest[1]>>
        \/ c = "TEST_PORT_2" /\ hw.dual = TRUE /\ reply' = <<hw.porttest[2]>>
        \/ c = "TEST_PORT_2" /\ hw.dual = FALSE /\ reply' = <<>>
    BY <1>1, <1>7 DEF TakeTestPort
  <2> QED
    BY <1>7, <2>1 DEF TakeTestPort
<1>8. CASE TakeWritePort2
  <2>1. c = "WRITE_PORT2_INPUT"
    BY <1>1, <1>8 DEF TakeWritePort2
  <2> QED
    BY <1>8, <2>1 DEF TakeWritePort2
<1> QED
  BY <1>2, <1>3, <1>4, <1>5, <1>6, <1>7, <1>8 DEF ControllerNext

LEMMA TakingData ==
    ASSUME NEW b, inbuf = <<DataWrite(b)>>, reply = <<>>, ControllerNext
    PROVE  /\ inbuf' = <<>> /\ route' = "device1" /\ UNCHANGED <<hw, reply, obf, latch, noise>>
           /\ route = "config" => cfg' = b /\ UNCHANGED devq
           /\ \A p \in Port : route = DeviceName(p) =>
                devq' = [devq EXCEPT ![p] = hw.answer[p]] /\ UNCHANGED cfg
           /\ route # "config" => UNCHANGED cfg
<1>1. inbuf[1].port = "data" /\ inbuf[1].value = b /\ \A c : inbuf # <<CommandWrite(c)>>
  BY WriteFields
<1>2. TakeData
  BY <1>1 DEF ControllerNext, TakeReadConfig, TakeWriteConfig, TakePortSwitch, TakeTestController,
     TakeTestPort, TakeWritePort2, DeliverReply, Taking
<1> QED
  BY <1>1, <1>2 DEF TakeData, DeviceName, Port

LEMMA Delivering ==
    ASSUME reply # <<>>, ControllerNext
    PROVE  /\ obf = FALSE /\ obf' = TRUE /\ reply' = <<>>
           /\ latch'.byte = reply[1] /\ latch'.from = "controller"
           /\ UNCHANGED <<hw, inbuf, route, cfg, devq, noise>>
<1>1. DeliverReply
  BY DEF ControllerNext, TakeReadConfig, TakeWriteConfig, TakePortSwitch, TakeTestController,
     TakeTestPort, TakeWritePort2, TakeData, Taking
<1> QED
  BY <1>1 DEF DeliverReply

\* With nothing but commands in the input buffer the configuration byte stands.
LEMMA ConfigStands ==
    ASSUME route # "config" \/ inbuf = <<>> \/ \E c : inbuf = <<CommandWrite(c)>>
    PROVE  CfgToBe = cfg
<1>1. CASE route # "config" \/ inbuf = <<>>
  BY <1>1 DEF CfgToBe
<1>2. CASE \E c : inbuf = <<CommandWrite(c)>>
  <2>1. inbuf[1].port # "data"
    BY <1>2, WriteFields
  <2> QED
    BY <2>1 DEF CfgToBe
<1> QED
  BY <1>1, <1>2

LEMMA ConfigComes ==
    ASSUME NEW b, inbuf = <<DataWrite(b)>>, route = "config"
    PROVE  CfgToBe = b
<1>1. inbuf # <<>> /\ inbuf[1].port = "data" /\ inbuf[1].value = b
  BY WriteFields
<1> QED
  BY <1>1 DEF CfgToBe

LEMMA IdleStep ==
    ASSUME Idle, ControllerNext
    PROVE  /\ Clear' /\ UNCHANGED <<hw, devq>>
           /\ \A b \in {0, 1} : b \in cfg' <=> b \in CfgToBe
           /\ inbuf # <<CommandWrite("DISABLE_1")>> => (4 \in cfg' => 4 \in CfgToBe)
           /\ inbuf # <<CommandWrite("DISABLE_2")>> => (5 \in cfg' => 5 \in CfgToBe)
<1>1. CASE \E c \in Silent : inbuf = <<CommandWrite(c)>> /\ route = "device1"
  <2>1. PICK c \in Silent : inbuf = <<CommandWrite(c)>> /\ route = "device1"
    BY <1>1
  <2>2. CfgToBe = cfg
    BY <2>1, ConfigStands
  <2>3. /\ inbuf' = <<>> /\ UNCHANGED <<hw, obf, latch, devq, noise, route, reply>>
        /\ \/ cfg' = cfg
           \/ cfg' = cfg \cup {4} /\ c = "DISABLE_1"
           \/ cfg' = cfg \ {4}
           \/ cfg' = cfg \cup {5} /\ c = "DISABLE_2"
           \/ cfg' = cfg \ {5}
    BY <2>1, TakingCommand DEF Idle, Nothing
  <2>4. Clear'
    BY <2>1, <2>3 DEF Idle, Clear, Nothing
  <2>5. \A b \in {0, 1} : b \in cfg' <=> b \in cfg
    BY <2>3
  <2>6. c # "DISABLE_1" => (4 \in cfg' => 4 \in cfg)
    BY <2>3
  <2>7. c # "DISABLE_2" => (5 \in cfg' => 5 \in cfg)
    BY <2>3
  <2> QED
    BY <2>1, <2>2, <2>3, <2>4, <2>5, <2>6, <2>7
<1>2. CASE \E b \in Byte : inbuf = <<DataWrite(b)>> /\ route = "config"
  <2>1. PICK b \in Byte : inbuf = <<DataWrite(b)>> /\ route = "config"
    BY <1>2
  <2>2. CfgToBe = b
    BY <2>1, ConfigComes
  <2>3. /\ inbuf' = <<>> /\ route' = "device1" /\ UNCHANGED <<hw, reply, obf, latch, noise>>
        /\ cfg' = b /\ UNCHANGED devq
    BY <2>1, TakingData DEF Idle, Nothing
  <2> QED
    BY <2>1, <2>2, <2>3 DEF Idle, Clear, Nothing
<1>3. CASE inbuf = <<>>
  BY <1>3, Resting DEF Idle, Nothing
<1> QED
  BY <1>1, <1>2, <1>3 DEF Idle

LEMMA ConfigDueStep ==
    ASSUME ConfigDue, ControllerNext
    PROVE  Taken' /\ UNCHANGED <<hw, devq, cfg>>
<1>1. inbuf = <<CommandWrite("WRITE_CONFIG")>> /\ reply = <<>> /\ obf = FALSE
  BY Resting DEF ConfigDue, Nothing
<1> QED
  BY <1>1, TakingCommand DEF Taken, Nothing

LEMMA OwedStep ==
    ASSUME Owed, ControllerNext, UNCHANGED phase
    PROVE  /\ Owed' /\ UNCHANGED <<hw, devq>>
           /\ phase # "selfcheck" => UNCHANGED cfg
           /\ \/ phase \notin ReadsConfig
              \/ reply' = <<cfg>> /\ obf' = FALSE
              \/ reply # <<>> /\ reply' = <<>> /\ latch'.byte = reply[1]
<1>1. CASE Nothing /\ \E c \in Questions : MayAsk(phase, c) /\ inbuf = <<CommandWrite(c)>>
  <2>1. PICK c \in Questions : MayAsk(phase, c) /\ inbuf = <<CommandWrite(c)>>
    BY <1>1
  <2>2. reply = <<>> /\ obf = FALSE
    BY <1>1 DEF Nothing
  <2>3. inbuf' = <<>> /\ UNCHANGED <<hw, obf, latch, devq, noise, route>>
    BY <2>1, <2>2, TakingCommand
  <2>4. CASE c = "READ_CONFIG"
    <3>1. reply' = <<cfg>> /\ UNCHANGED cfg
      BY <2>1, <2>2, <2>4, TakingCommand
    <3>2. reply' # <<>>
      BY <3>1
    <3>3. Owed'
      BY <2>2, <2>3, <3>2 DEF Owed
    <3>4. obf' = FALSE /\ UNCHANGED <<hw, devq>>
      BY <2>2, <2>3
    <3>5. reply' = <<cfg>> /\ obf' = FALSE
      BY <3>1, <3>4
    <3>6. UNCHANGED <<hw, devq>> /\ UNCHANGED cfg
      BY <3>1, <3>4
    <3> QED
      BY <3>3, <3>5, <3>6
  <2>5. CASE c = "TEST_CONTROLLER"
    <3>1. reply' # <<>>
      <4>1. reply' = <<hw.selftest>>
        BY <2>1, <2>2, <2>5, TakingCommand
      <4> QED
        BY <4>1
    <3>2. Owed'
      BY <2>2, <2>3, <3>1 DEF Owed
    <3>3. phase = "selfcheck" /\ phase \notin ReadsConfig
      BY <2>1, <2>5 DEF MayAsk, ReadsConfig
    <3> QED
      BY <2>3, <3>2, <3>3
  <2>6. CASE c \in {"TEST_PORT_1", "TEST_PORT_2"}
    <3>1. UNCHANGED cfg /\ (reply' # <<>> \/ (reply' = <<>> /\ c = "TEST_PORT_2" /\ hw.dual = FALSE))
      <4>1. UNCHANGED cfg
        BY <2>1, <2>2, <2>6, TakingCommand
      <4>2. \/ reply' = <<hw.porttest[1]>> \/ reply' = <<hw.porttest[2]>>
            \/ reply' = <<>> /\ c = "TEST_PORT_2" /\ hw.dual = FALSE
        BY <2>1, <2>2, <2>6, TakingCommand
      <4> QED
        BY <4>1, <4>2
    <3>2. phase \notin ReadsConfig
      BY <2>1, <2>6 DEF MayAsk
    <3>3. c = "TEST_PORT_2" => phase = "port2"
      BY <2>1 DEF MayAsk
    <3>4. CASE reply' # <<>>
      <4>1. Owed'
        BY <2>2, <2>3, <3>4 DEF Owed
      <4> QED
        BY <2>3, <3>1, <3>2, <4>1
    <3>5. CASE reply' = <<>> /\ c = "TEST_PORT_2" /\ hw.dual = FALSE
      <4>1. Owed'
        BY <2>2, <2>3, <3>3, <3>5 DEF Owed, Nothing, Unanswered
      <4> QED
        BY <2>3, <3>1, <3>2, <4>1
    <3> QED
      BY <3>1, <3>4, <3>5
  <2> QED
    BY <2>4, <2>5, <2>6 DEF Questions
<1>2. CASE inbuf = <<>> /\ reply # <<>>
  <2>1. /\ obf' = TRUE /\ latch'.byte = reply[1] /\ latch'.from = "controller" /\ reply' = <<>>
        /\ UNCHANGED <<hw, inbuf, route, cfg, devq, noise>>
    BY <1>2, Delivering
  <2> QED
    BY <1>2, <2>1 DEF Owed
<1>3. CASE inbuf = <<>> /\ reply = <<>>
  BY <1>3, Resting
<1> QED
  BY <1>1, <1>2, <1>3 DEF Owed, Nothing

LEMMA ListeningStep ==
    ASSUME TypeOK, Orderly, NEW p \in Port, Listening(p), HwNext, UNCHANGED got
    PROVE  Listening(p)' /\ UNCHANGED <<hw, cfg>>
<1> DEFINE answer == hw.answer[p]
<1>1. /\ devq \in [Port -> Seq(Byte)] /\ got \in [Port -> Seq(Received)]
      /\ hw.answer \in [Port -> Seq(Byte)]
  BY MachineTypes DEF TypeOK, HwTypeOK, DriverTypeOK, Port
<1>2. answer \in Seq(Byte) /\ Len(answer) \in Nat /\ Len(got[p]) \in Nat /\ devq[p] \in Seq(Byte)
  BY <1>1
<1>3. CASE ControllerNext
  <2>1. /\ inbuf = <<DataWrite(BFF)>> /\ route = DeviceName(p)
        /\ obf = FALSE /\ got[p] = <<>> /\ reply = <<>>
    BY <1>3, Resting DEF Listening
  <2>2. /\ inbuf' = <<>> /\ route' = "device1" /\ UNCHANGED <<hw, reply, obf, latch, noise, cfg>>
        /\ devq' = [devq EXCEPT ![p] = answer]
    BY <1>3, <2>1, TakingData
  <2>3. devq'[p] = answer /\ \A q \in Port \ {p} : devq'[q] = <<>>
    BY <1>1, <2>2 DEF Listening
  <2>4. Len(got'[p]) = 0 /\ InBuffer' = 0 /\ obf' = FALSE
    BY <2>1, <2>2 DEF InBuffer
  <2>5. Heard(p)'
    BY <1>2, <2>1, <2>2, <2>3, <2>4 DEF Heard
  <2> QED
    BY <2>1, <2>2, <2>3, <2>5 DEF Listening
<1>4. CASE \E q \in Port : DeviceSends(q)
  <2>1. DeviceSends(p)
    BY <1>4 DEF DeviceSends, CanSend, Listening
  <2>2. /\ devq[p] # <<>> /\ obf = FALSE /\ obf' = TRUE
        /\ latch'.byte = Head(devq[p]) /\ latch'.from = DeviceName(p)
        /\ devq' = [devq EXCEPT ![p] = Tail(@)]
        /\ UNCHANGED <<hw, inbuf, route, reply, cfg, noise>>
    BY <2>1 DEF DeviceSends, CanSend
  <2>3. inbuf = <<>> /\ route = "device1" /\ Heard(p)
    BY <2>2 DEF Listening
  <2>4. devq'[p] = Tail(devq[p]) /\ \A q \in Port \ {p} : devq'[q] = <<>>
    BY <1>1, <2>2 DEF Listening
  <2>5. InBuffer = 0 /\ InBuffer' = 1
    BY <2>2 DEF InBuffer
  <2> DEFINE s == devq[p]
             n == Len(got[p])
  <2>6. /\ s # <<>> /\ s \in Seq(Byte) /\ Len(s) \in Nat /\ Len(s) >= 1
        /\ Head(s) = s[1] /\ Len(Tail(s)) = Len(s) - 1
        /\ \A i \in 1..Len(Tail(s)) : Tail(s)[i] = s[i + 1]
    BY <1>2, <2>2, HeadTailProperties
  <2> DEFINE b == InBuffer
  <2>7. /\ n + b + Len(s) = Len(answer) /\ b = 0 /\ n \in Nat
        /\ \A i \in 1..Len(s) : s[i] = answer[n + b + i]
    BY <1>2, <2>3, <2>5 DEF Heard
  <2> HIDE DEF s, n, b
  <2>8. /\ n + Len(s) = Len(answer) /\ \A i \in 1..Len(s) : s[i] = answer[n + i]
        /\ \A i \in 1..Len(Tail(s)) : i + 1 \in 1..Len(s) /\ n + (i + 1) = n + 1 + i
    BY <2>6, <2>7
  <2>9. s[1] = answer[n + 1] /\ n + 1 + Len(Tail(s)) = Len(answer)
    BY <2>6, <2>7, <2>8
  <2>10. \A i \in 1..Len(Tail(s)) : Tail(s)[i] = answer[n + 1 + i]
    BY <2>6, <2>7, <2>8
  <2>11. /\ Len(got'[p]) = n /\ answer' = answer /\ devq'[p] = Tail(s)
         /\ latch'.byte = s[1] /\ latch'.from = DeviceName(p)
         /\ \A i \in 1..n : got'[p][i].byte = answer[i]
    BY <2>2, <2>3, <2>4, <2>6 DEF s, n, Heard
  <2> HIDE DEF answer
  <2>12. Heard(p)'
    BY <2>5, <2>9, <2>10, <2>11 DEF Heard, answer
  <2> QED
    BY <2>2, <2>3, <2>4, <2>12 DEF Listening
<1>5. CASE \E q \in Port : DeviceChatters(q)
  BY <1>5 DEF DeviceChatters, Orderly
<1> QED
  BY <1>3, <1>4, <1>5 DEF HwNext

-----------------------------------------------------------------------------
(***************************************************************************)
(* The dialogue is kept: before every access the controller is in the mood *)
(* the script expects, and no wait runs out but the one nobody answers.    *)
(***************************************************************************)
MoodInv == phase \in Early =>
    /\ Holds(Mood[phase][step])
    /\ got[1] = <<>>
    /\ Mood[phase][step] = "sent" \/ Mute

\* The one answer an orderly machine does not give.
NoAnswer == Unanswered /\ inbuf = <<>> /\ reply = <<>> /\ obf = FALSE
PollInv == phase \in Early =>
    /\ At({"waitin", "tryin"}) => polls < InPolls
    /\ At({"waitout"}) => (polls < OutPolls \/ NoAnswer)

Dialogue == Orderly => MoodInv /\ PollInv

LEMMA QuietIsIdle == (Quiet => Idle) /\ (Clear => Idle) /\ (Clear => Quiet)
  BY DEF Quiet, Idle, Clear, Nothing

LEMMA MoodSplit ==
    ASSUME NEW m, Holds(m)
    PROVE  \/ m = "idle" /\ Idle
           \/ m = "quiet" /\ Quiet
           \/ m = "clear" /\ Clear
           \/ m = "owed" /\ Owed
           \/ m = "ready" /\ Ready
           \/ m = "config" /\ ConfigDue
           \/ m = "taken" /\ Taken
           \/ m = "sent" /\ Listening(1)
  BY DEF Holds

LEMMA HwKeepsMood ==
    ASSUME TypeOK, Orderly, Dialogue, phase \in Early, HwNext, UNCHANGED driverVars
    PROVE  MoodInv' /\ PollInv'
<1> DEFINE m == Mood[phase][step]
<1>1. /\ UNCHANGED <<phase, step, got, polls>> /\ m' = m
      /\ hw' = hw
  BY HwKeepsOutput DEF driverVars
<1>2. Holds(m) /\ got[1] = <<>> /\ (m = "sent" \/ Mute)
  BY DEF Dialogue, MoodInv
<1> HIDE DEF m
<1>3. ASSUME m # "sent" PROVE ControllerNext /\ Mute
  BY <1>2, <1>3, ControllerOnly
<1>4. ASSUME Clear \/ Ready \/ Taken, ControllerNext PROVE FALSE
  BY <1>4, Resting DEF Clear, Ready, Taken, Nothing
<1>5. UNCHANGED phase
  BY <1>1
<1>6. Holds(m)'
  <2>1. CASE m \in {"idle", "quiet"}
    <3>1. Clear'
      BY <1>2, <1>3, <2>1, MoodSplit, QuietIsIdle, IdleStep
    <3>2. Idle' /\ Quiet'
      BY <3>1 DEF Quiet, Idle, Clear, Nothing
    <3> QED
      BY <1>1, <2>1, <3>2 DEF Holds
  <2>2. CASE m = "owed"
    <3>1. Owed /\ ControllerNext
      BY <1>2, <1>3, <2>2, MoodSplit
    <3>2. Owed'
      BY <1>5, <3>1, OwedStep
    <3> QED
      BY <1>1, <2>2, <3>2 DEF Holds
  <2>3. CASE m = "config"
    <3>1. Taken'
      BY <1>2, <1>3, <2>3, MoodSplit, ConfigDueStep
    <3>2. ConfigDue'
      BY <3>1 DEF Taken, ConfigDue, Nothing
    <3> QED
      BY <1>1, <2>3, <3>2 DEF Holds
  <2>4. CASE m = "sent"
    <3>1. Listening(1)'
      BY <1>1, <1>2, <2>4, MoodSplit, ListeningStep, Ports
    <3> QED
      BY <1>1, <2>4, <3>1 DEF Holds
  <2>5. CASE m \in {"clear", "ready", "taken"}
    BY <1>2, <1>3, <1>4, <2>5, MoodSplit
  <2> QED
    BY <1>2, <2>1, <2>2, <2>3, <2>4, <2>5, MoodSplit
<1>7. m = "sent" \/ Mute'
  <2>1. CASE m \in {"idle", "quiet"}
    <3>1. UNCHANGED devq
      BY <1>2, <1>3, <2>1, MoodSplit, QuietIsIdle, IdleStep
    <3> QED
      BY <1>3, <2>1, <3>1 DEF Mute
  <2>2. CASE m = "owed"
    <3>1. Owed /\ ControllerNext
      BY <1>2, <1>3, <2>2, MoodSplit
    <3>2. UNCHANGED devq
      BY <1>5, <3>1, OwedStep
    <3> QED
      BY <1>3, <2>2, <3>2 DEF Mute
  <2>3. CASE m = "config"
    <3>1. UNCHANGED devq
      BY <1>2, <1>3, <2>3, MoodSplit, ConfigDueStep
    <3> QED
      BY <1>3, <2>3, <3>1 DEF Mute
  <2>4. CASE m \in {"clear", "ready", "taken"}
    BY <1>2, <1>3, <1>4, <2>4, MoodSplit
  <2> QED
    BY <1>2, <2>1, <2>2, <2>3, <2>4, MoodSplit
<1>8. MoodInv'
  BY <1>1, <1>2, <1>6, <1>7 DEF MoodInv, m
<1>9. ~NoAnswer
  <2>1. ASSUME NoAnswer PROVE FALSE
    <3>1. m # "sent"
      <4>1. Mood["port2"] = <<"idle", "clear", "owed", "ready", "clear">>
        BY DEF Mood
      <4>2. phase = "port2" /\ Len(Script[phase]) = 4
        BY <2>1, ShortScripts DEF NoAnswer, Unanswered
      <4>3. step \in 1..5
        BY <4>2 DEF TypeOK, DriverTypeOK
      <4>4. step \in {1, 2, 3, 4, 5}
        BY <4>3
      <4> QED
        BY <4>1, <4>2, <4>4 DEF m
    <3>2. ControllerNext /\ inbuf = <<>> /\ reply = <<>>
      BY <1>3, <2>1, <3>1 DEF NoAnswer
    <3> QED
      BY <3>2, Resting
  <2> QED
    BY <2>1
<1>10. \A ops : At(ops)' <=> At(ops)
  BY <1>1 DEF At, AtEnd
<1>11. PollInv'
  BY <1>1, <1>9, <1>10 DEF PollInv, Dialogue
<1> QED
  BY <1>8, <1>11

\* The script of the phase says what comes next.
LEMMA Follow ==
    ASSUME TypeOK, phase \in Early, ~AtEnd
    PROVE  Follows(phase, Script[phase][step], Mood[phase][step], Mood[phase][step + 1])
<1>1. step \in 1..Len(Script[phase])
  BY ScriptStep DEF TypeOK, DriverTypeOK, AtEnd
<1> QED
  BY <1>1, Discipline DEF Disciplined

\* Which moods go with which access.
LEMMA MoodOfAccess ==
    ASSUME NEW ph, NEW a, NEW m, NEW n, Follows(ph, a, m, n)
    PROVE  /\ a.op \in {"waitin", "tryin"} =>
                (m \in {"idle", "clear"} /\ n = "clear") \/ (m = "config" /\ n = "taken")
           /\ a.op = "waitout" => m = "owed" /\ n = "ready"
           /\ a.op # "tryout"
           /\ a.op = "read" => \/ m = "ready" /\ n = "clear"
                               \/ m = "quiet" /\ n = "quiet" /\ ph = "disable"
           /\ a.op = "command" =>
                /\ m \in {"quiet", "clear"}
                /\ \/ a.arg \in Silent /\ n \in {"idle", "quiet"} /\ MaySwitch(ph, a.arg)
                   \/ MayAsk(ph, a.arg) /\ n = "owed"
                   \/ a.arg = "WRITE_CONFIG" /\ n = "config"
           /\ a.op = "config" => m = "taken" /\ n = "idle"
           /\ a.op = "reset" => m = "clear" /\ n = "sent" /\ ph = "reset1"
  BY DEF Follows

LEMMA FreshWait == polls' = 0 => PollInv'
  BY PollAssumption DEF PollInv

LEMMA InputWaitKeepsMood ==
    ASSUME TypeOK, Orderly, Dialogue, phase \in Early, PollInput
    PROVE  MoodInv' /\ PollInv' /\ step' \in {step, step + 1}
<1> DEFINE m == Mood[phase][step]
           n == Mood[phase][step + 1]
<1>1. ~AtEnd /\ Script[phase][step].op \in {"waitin", "tryin"} /\ polls < InPolls
  BY DEF PollInput, At, Dialogue, PollInv
<1>2. \/ m \in {"idle", "clear"} /\ n = "clear"
      \/ m = "config" /\ n = "taken"
  BY <1>1, Follow, MoodOfAccess
<1>3. UNCHANGED <<hwVars, phase, got>>
  BY DEF PollInput, Poll
<1>4. Holds(m) /\ got[1] = <<>> /\ (m = "sent" \/ Mute)
  BY DEF Dialogue, MoodInv
<1>5. (m \in {"idle", "clear"} /\ Idle) \/ (m = "config" /\ ConfigDue)
  BY <1>2, <1>4, MoodSplit, QuietIsIdle
<1>6. obf = FALSE /\ hw.present /\ Mute
  BY <1>2, <1>4, <1>5 DEF Idle, ConfigDue, Nothing, Orderly
<1>7. CASE InputReady
  <2>1. polls' = 0 /\ step' = step + 1
    <3>1. Poll(InputReady, InPolls, InputInTime)
      BY DEF PollInput
    <3>2. WaitReturns("none")
      BY <1>1, <1>7, <3>1 DEF Poll
    <3> QED
      BY <3>2 DEF WaitReturns
  <2>2. inbuf = <<>>
    BY <1>7 DEF InputReady
  <2>3. (n = "clear" /\ Clear) \/ (n = "taken" /\ Taken)
    <3>1. \A c : inbuf # <<CommandWrite(c)>> /\ inbuf # <<DataWrite(c)>>
      BY <2>2
    <3> QED
      BY <1>2, <1>5, <2>2, <3>1 DEF Idle, ConfigDue, Clear, Taken
  <2>4. (Clear => Clear') /\ (Taken => Taken') /\ (Mute => Mute')
    BY <1>3 DEF Clear, Taken, Nothing, Mute, hwVars
  <2>5. n = Mood[phase'][step']
    BY <1>3, <2>1
  <2>6. Holds(Mood[phase][step])'
    BY <2>3, <2>4, <2>5 DEF Holds
  <2>7. Holds(Mood[phase][step])' /\ got'[1] = <<>> /\ Mute'
    BY <1>3, <1>4, <1>6, <2>4, <2>6
  <2> QED
    BY <2>1, <2>7, FreshWait DEF MoodInv
<1>8. CASE ~InputReady
  <2>1. InputInTime
    BY <1>6 DEF InputInTime
  <2>2. polls' = polls + 1 /\ polls + 1 < InPolls /\ UNCHANGED step
    <3>1. Poll(InputReady, InPolls, InputInTime)
      BY DEF PollInput
    <3>2. InPolls \in Nat /\ polls \in Nat
      BY PollAssumption DEF TypeOK, DriverTypeOK, PollLimit
    <3> QED
      BY <1>1, <1>8, <2>1, <3>1, <3>2 DEF Poll
  <2>3. MoodInv'
    <3>1. (Idle => Idle') /\ (ConfigDue => ConfigDue') /\ (Clear => Clear') /\ (Mute => Mute')
      BY <1>3 DEF Idle, ConfigDue, Clear, Nothing, Mute, hwVars
    <3>2. m = Mood[phase'][step']
      BY <1>3, <2>2
    <3>3. \/ m = "idle" /\ Idle
          \/ m = "clear" /\ Clear
          \/ m = "config" /\ ConfigDue
      BY <1>2, <1>4, MoodSplit
    <3>4. Holds(m)'
      BY <3>1, <3>2, <3>3 DEF Holds
    <3> QED
      BY <1>3, <1>4, <1>6, <3>1, <3>2, <3>4 DEF MoodInv
  <2>4. PollInv'
    <3>1. At({"waitout"})' = FALSE
      BY <1>1, <1>3, <2>2 DEF At, AtEnd
    <3> QED
      BY <2>2, <3>1 DEF PollInv
  <2> QED
    BY <2>2, <2>3, <2>4
<1> QED
  BY <1>7, <1>8
LEMMA OutputWaitKeepsMood ==
    ASSUME TypeOK, Orderly, Dialogue, phase \in Early, PollOutput
    PROVE  MoodInv' /\ PollInv' /\ step' \in {step, step + 1}
<1> DEFINE m == Mood[phase][step]
           n == Mood[phase][step + 1]
<1>1. /\ ~AtEnd /\ Script[phase][step].op = "waitout" /\ ~At({"tryin", "tryout"})
      /\ polls < OutPolls \/ NoAnswer
      /\ m = "owed" /\ n = "ready"
  <2>1. ~AtEnd /\ Script[phase][step].op \in {"waitout", "tryout"}
    BY DEF PollOutput, At
  <2>2. Script[phase][step].op # "tryout"
    BY <2>1, Follow, MoodOfAccess
  <2>3. Script[phase][step].op = "waitout"
    BY <2>1, <2>2
  <2>4. m = "owed" /\ n = "ready"
    BY <2>1, <2>3, Follow, MoodOfAccess
  <2> QED
    BY <2>1, <2>3, <2>4 DEF At, Dialogue, PollInv
<1>2. UNCHANGED <<hwVars, phase, got>>
  BY DEF PollOutput, Poll
<1>3. Holds(m) /\ got[1] = <<>> /\ Mute /\ hw.present /\ hw.prompt
  BY <1>1 DEF Dialogue, MoodInv, Orderly
<1>4. Owed
  BY <1>1, <1>3, MoodSplit
<1>5. Mute' /\ (Owed' <=> Owed) /\ (Ready' <=> Ready) /\ (NoAnswer' <=> NoAnswer)
  BY <1>2, <1>3 DEF Mute, Owed, Ready, NoAnswer, Unanswered, Nothing, hwVars
<1>6. Poll(OutputReady, OutPolls, OutputInTime)
  BY DEF PollOutput
<1>7. OutPolls \in Nat /\ polls \in Nat /\ polls <= OutPolls
  BY <1>1, PollAssumption DEF TypeOK, DriverTypeOK, PollLimit, At
<1>8. CASE OutputReady \/ polls = OutPolls
  <2>1. polls' = 0 /\ step' = step + 1
    <3>1. \E e \in Error : WaitReturns(e)
      BY <1>6, <1>7, <1>8 DEF Poll, Error
    <3> QED
      BY <1>1, <3>1 DEF WaitReturns
  <2>2. Ready
    <3>1. CASE OutputReady
      <4>1. obf = TRUE
        BY <1>3, <3>1 DEF OutputReady, TypeOK, HwTypeOK
      <4> QED
        BY <1>4, <4>1 DEF Owed, Ready, Nothing
    <3>2. CASE polls = OutPolls
      <4>1. NoAnswer
        BY <1>1, <1>7, <3>2
      <4> QED
        BY <1>4, <4>1 DEF NoAnswer, Owed, Ready
    <3> QED
      BY <1>8, <3>1, <3>2
  <2>3. Mood[phase'][step'] = "ready" /\ Ready'
    BY <1>1, <1>2, <1>5, <2>1, <2>2
  <2>4. MoodInv'
    BY <1>2, <1>3, <1>5, <2>3 DEF MoodInv, Holds
  <2> QED
    BY <2>1, <2>4, FreshWait
<1>9. CASE ~OutputReady /\ polls < OutPolls
  <2>1. polls' = polls + 1 /\ UNCHANGED step /\ (OutputInTime => polls + 1 < OutPolls)
    BY <1>6, <1>7, <1>9 DEF Poll
  <2>2. polls' < OutPolls \/ NoAnswer
    <3>1. CASE inbuf # <<>> \/ reply # <<>>
      BY <1>3, <2>1, <3>1 DEF OutputInTime
    <3>2. CASE inbuf = <<>> /\ reply = <<>>
      <4>1. ~obf /\ obf \in BOOLEAN
        BY <1>9 DEF OutputReady, TypeOK, HwTypeOK
      <4>2. \A c : inbuf # <<CommandWrite(c)>>
        BY <3>2
      <4> QED
        BY <1>4, <3>2, <4>1, <4>2 DEF Owed, NoAnswer, Nothing
    <3> QED
      BY <3>1, <3>2
  <2>3. Mood[phase'][step'] = "owed" /\ Owed'
    BY <1>1, <1>2, <1>4, <1>5, <2>1
  <2>4. MoodInv'
    BY <1>2, <1>3, <1>5, <2>3 DEF MoodInv, Holds
  <2>5. At({"waitin", "tryin"})' = FALSE
    BY <1>1, <1>2, <2>1 DEF At, AtEnd
  <2>6. PollInv'
    BY <1>5, <2>2, <2>5 DEF PollInv
  <2> QED
    BY <2>1, <2>4, <2>6
<1> QED
  BY <1>7, <1>8, <1>9

\* What a mood becomes when the access is a write or a read.
LEMMA OtherAccessKeepsMood ==
    ASSUME TypeOK, Orderly, Dialogue, phase \in Early, WriteCommand \/ WriteData \/ ReadData
    PROVE  MoodInv' /\ PollInv' /\ step' = step + 1
<1> DEFINE m == Mood[phase][step]
           n == Mood[phase][step + 1]
           a == Script[phase][step]
<1>1. ~AtEnd /\ Access
  BY DEF WriteCommand, WriteData, ReadData, At
<1>2. polls' = 0 /\ phase' = phase /\ step' = step + 1
  <2>1. polls = 0
    BY DEF WriteCommand, WriteData, ReadData, At, TypeOK, DriverTypeOK, PollLimit
  <2> QED
    BY <1>1, <2>1 DEF Access
<1>3. Holds(m) /\ got[1] = <<>> /\ (m = "sent" \/ Mute) /\ hw.present
  BY DEF Dialogue, MoodInv, Orderly
<1>4. UNCHANGED <<hw, route, reply, latch, cfg, devq, got>>
  <2>1. phase \notin ResetReads
    BY DEF Early, ResetReads
  <2> QED
    BY <2>1 DEF WriteCommand, WriteData, ReadData, CpuWrites, CpuReads
<1>5. Follows(phase, a, m, n) /\ n = Mood[phase'][step']
  BY <1>1, <1>2, Follow
<1> HIDE DEF m, n
<1>6. Holds(Mood[phase][step])' /\ m # "sent" /\ (n = "sent" \/ Mute)
  <2>1. CASE ReadData
    <3>1. a.op = "read" /\ obf' = FALSE /\ UNCHANGED inbuf
      BY <2>1 DEF ReadData, At, CpuReads
    <3>2. (m = "ready" /\ n = "clear") \/ (m = "quiet" /\ n = "quiet")
      BY <1>5, <3>1, MoodOfAccess
    <3>3. CASE m = "ready" /\ n = "clear"
      <4>1. Ready
        BY <1>3, <3>3, MoodSplit
      <4>2. Clear'
        BY <1>4, <3>1, <4>1 DEF Ready, Clear, Nothing
      <4> QED
        BY <1>3, <1>5, <3>3, <4>2 DEF Holds
    <3>4. CASE m = "quiet" /\ n = "quiet"
      <4>1. Quiet
        BY <1>3, <3>4, MoodSplit
      <4>2. Quiet'
        BY <1>4, <3>1, <4>1 DEF Quiet, Nothing
      <4> QED
        BY <1>3, <1>5, <3>4, <4>2 DEF Holds
    <3> QED
      BY <3>2, <3>3, <3>4
  <2>2. CASE WriteCommand
    <3>1. a.op = "command" /\ inbuf' = <<CommandWrite(a.arg)>> /\ UNCHANGED obf
      BY <2>2 DEF WriteCommand, At, CpuWrites
    <3>2. /\ m \in {"quiet", "clear"}
          /\ \/ a.arg \in Silent /\ n \in {"idle", "quiet"}
             \/ MayAsk(phase, a.arg) /\ n = "owed"
             \/ a.arg = "WRITE_CONFIG" /\ n = "config"
      BY <1>5, <3>1, MoodOfAccess
    <3>3. Quiet /\ Mute
      BY <1>3, <3>2, MoodSplit, QuietIsIdle
    <3>4. Nothing' /\ route' = "device1"
      BY <1>4, <3>1, <3>3 DEF Quiet, Nothing
    <3>5. CASE a.arg \in Silent /\ n \in {"idle", "quiet"}
      <4>1. Quiet'
        BY <3>1, <3>4, <3>5 DEF Quiet
      <4>2. Idle'
        BY <3>1, <3>4, <3>5 DEF Idle
      <4> QED
        BY <1>5, <3>2, <3>3, <3>5, <4>1, <4>2 DEF Holds
    <3>6. CASE MayAsk(phase, a.arg) /\ n = "owed"
      <4>1. a.arg \in Questions /\ MayAsk(phase', a.arg)
        BY <1>2, <3>6 DEF MayAsk
      <4>2. Owed'
        BY <3>1, <3>4, <4>1 DEF Owed
      <4> QED
        BY <1>5, <3>2, <3>3, <3>6, <4>2 DEF Holds
    <3>7. CASE a.arg = "WRITE_CONFIG" /\ n = "config"
      <4>1. ConfigDue'
        BY <3>1, <3>4, <3>7 DEF ConfigDue
      <4> QED
        BY <1>5, <3>2, <3>3, <3>7, <4>1 DEF Holds
    <3> QED
      BY <3>2, <3>5, <3>6, <3>7
  <2>3. CASE WriteData /\ a.op = "config"
    <3>1. inbuf' = <<DataWrite(config)>> /\ UNCHANGED obf /\ config \in Byte
      BY <2>3 DEF WriteData, At, CpuWrites, TypeOK, DriverTypeOK
    <3>2. m = "taken" /\ n = "idle" /\ Taken
      BY <1>3, <1>5, <2>3, MoodOfAccess, MoodSplit
    <3>3. Idle'
      BY <1>4, <3>1, <3>2 DEF Taken, Idle, Nothing
    <3> QED
      BY <1>3, <1>5, <3>2, <3>3 DEF Holds
  <2>4. CASE WriteData /\ a.op = "reset"
    <3>1. inbuf' = <<DataWrite(BFF)>> /\ UNCHANGED obf
      BY <2>4 DEF WriteData, At, CpuWrites
    <3>2. m = "clear" /\ n = "sent" /\ Clear /\ Mute
      BY <1>3, <1>5, <2>4, MoodOfAccess, MoodSplit
    <3>3. Listening(1)'
      BY <1>3, <1>4, <3>1, <3>2, Ports DEF Clear, Listening, Nothing, Mute, DeviceName
    <3> QED
      BY <1>5, <3>2, <3>3 DEF Holds
  <2> QED
    BY <2>1, <2>2, <2>3, <2>4 DEF WriteData, At
<1>7. got'[1] = <<>> /\ (n = "sent" \/ Mute')
  BY <1>3, <1>4, <1>6 DEF Mute
<1>8. MoodInv'
  BY <1>5, <1>6, <1>7 DEF MoodInv
<1> QED
  BY <1>2, <1>8, FreshWait
\* A decision that starts an early phase ends an earlier one.
LEMMA EarlyDecisions ==
    ASSUME Decide, phase' \in Early
    PROVE  /\ phase \in Early \ {"reset1"}
           /\ phase' = "selfcheck" => phase = "disable"
           /\ UNCHANGED <<polls, got>>
<1> USE DEF Deciding, Enter, Early
<1>1. CASE FirstConfig \/ ControllerSelfCheck \/ CheckDualChannel \/ DualConfig \/ DualDone
  BY <1>1 DEF FirstConfig, ControllerSelfCheck, CheckDualChannel, DualConfig, DualDone
<1>2. CASE Port1SelfCheck \/ Port2SelfCheck
  BY <1>2 DEF Port1SelfCheck, Port2SelfCheck
<1>3. CASE PortsEnabled \/ IrqConfig
  BY <1>3 DEF PortsEnabled, IrqConfig
<1>4. CASE ResetDevices \/ ResetSent
  BY <1>4 DEF ResetDevices, StartReset, ResetSent
<1>5. CASE FirstByte \/ SecondByte \/ FirstIdByte \/ SecondIdByte
  BY <1>5 DEF FirstByte, SecondByte, FirstIdByte, SecondIdByte, Identified, Finish
<1> QED
  BY <1>1, <1>2, <1>3, <1>4, <1>5 DEF Decide

LEMMA MoodAtEnd ==
    ASSUME TypeOK, AtEnd, phase \in Early
    PROVE  Mood[phase][step] = Ends(phase)
<1>1. step = Len(Script[phase]) + 1
  BY ScriptStep DEF TypeOK, DriverTypeOK, AtEnd
<1> QED
  BY <1>1, Discipline DEF Disciplined

LEMMA DecideKeepsMood ==
    ASSUME TypeOK, Orderly, Dialogue, Decide
    PROVE  MoodInv' /\ PollInv'
<1> SUFFICES ASSUME phase' \in Early PROVE MoodInv' /\ PollInv'
  BY DEF MoodInv, PollInv
<1>1. /\ phase \in Early /\ phase # "reset1"
      /\ phase' = "selfcheck" => phase = "disable"
      /\ polls' = polls /\ got' = got
  BY EarlyDecisions
<1>2. AtEnd /\ step' = 1 /\ UNCHANGED hwVars
  BY DecideEnters
<1>3. polls' = 0
  BY <1>1, <1>2 DEF TypeOK, DriverTypeOK, PollLimit, At
<1>4. Holds(Ends(phase)) /\ got[1] = <<>> /\ (Ends(phase) = "sent" \/ Mute)
  BY <1>1, <1>2, MoodAtEnd DEF Dialogue, MoodInv
<1>5. Ends(phase) \in {"idle", "clear"} /\ (phase = "disable" => Ends(phase) = "clear")
  BY <1>1 DEF Ends, Early
<1>6. Idle /\ Mute /\ (phase = "disable" => Clear)
  BY <1>4, <1>5, MoodSplit, QuietIsIdle
<1>7. Idle' /\ Mute' /\ (phase = "disable" => Clear')
  BY <1>2, <1>6 DEF Idle, Clear, Nothing, Mute, hwVars
<1>8. Mood[phase'][step'] = Begins(phase')
  BY <1>2, Discipline DEF Disciplined
<1>9. Holds(Mood[phase][step])'
  <2>1. CASE phase' = "selfcheck"
    BY <1>1, <1>7, <1>8, <2>1 DEF Begins, Holds
  <2>2. CASE phase' # "selfcheck"
    BY <1>7, <1>8, <2>2 DEF Begins, Holds
  <2> QED
    BY <2>1, <2>2
<1> QED
  BY <1>1, <1>3, <1>4, <1>7, <1>9, FreshWait DEF MoodInv

LEMMA MachineStands == [Next]_vars => hw' = hw
<1>1. Decide \/ PortAccess => hw' = hw
  BY DecideEnters, AccessKeeps DEF hwVars
<1> QED
  BY <1>1, HwKeepsOutput DEF Next, Driver, vars, hwVars

\* On an orderly machine the controller is always in the mood the script
\* expects, and only the answer of a missing channel is waited for in vain
\* (the order of the port accesses in ps2_init).
THEOREM DialogueIsKept == Spec => []Dialogue
<1>1. Init => Dialogue
  <2> SUFFICES ASSUME Init PROVE MoodInv /\ PollInv
    BY DEF Dialogue
  <2>1. phase = "disable" /\ step = 1 /\ polls = 0 /\ got[1] = <<>>
    BY DEF Init, Port
  <2>2. Idle /\ Mute
    BY DEF Init, HwInit, Idle, Nothing, Mute, Port
  <2>3. Mood["disable"][1] = "idle"
    BY DEF Mood
  <2> QED
    BY <2>1, <2>2, <2>3, PollAssumption DEF MoodInv, Holds, PollInv
<1>2. TypeOK /\ Dialogue /\ [Next]_vars => Dialogue'
  <2> SUFFICES ASSUME TypeOK, Dialogue, [Next]_vars, Orderly' PROVE MoodInv' /\ PollInv'
    BY DEF Dialogue
  <2>1. Orderly
    BY MachineStands DEF Orderly
  <2>2. CASE PortAccess
    <3>1. phase' = phase
      BY <2>2, AccessKeeps
    <3>2. CASE phase \in Early
      BY <2>1, <2>2, <3>2, InputWaitKeepsMood, OutputWaitKeepsMood, OtherAccessKeepsMood
      DEF PortAccess
    <3> QED
      BY <3>1, <3>2 DEF MoodInv, PollInv
  <2>3. CASE Decide
    BY <2>1, <2>3, DecideKeepsMood
  <2>4. CASE HwNext /\ UNCHANGED driverVars
    <3>1. phase' = phase
      BY <2>4 DEF driverVars
    <3>2. CASE phase \in Early
      BY <2>1, <2>4, <3>2, HwKeepsMood
    <3> QED
      BY <3>1, <3>2 DEF MoodInv, PollInv
  <2>5. CASE UNCHANGED vars
    <3>1. MoodInv /\ PollInv
      BY <2>1 DEF Dialogue
    <3>2. MoodInv' <=> MoodInv
      BY <2>5 DEF vars, hwVars, driverVars, MoodInv, Holds, Mute, Idle, Quiet, Clear, Owed,
         Ready, ConfigDue, Taken, Listening, Heard, Nothing, InBuffer, Unanswered
    <3>3. PollInv' <=> PollInv
      BY <2>5 DEF vars, hwVars, driverVars, PollInv, NoAnswer, Unanswered, At, AtEnd
    <3> QED
      BY <3>1, <3>2, <3>3
  <2> QED
    BY <2>2, <2>3, <2>4, <2>5 DEF Next, Driver
<1> QED
  BY <1>1, <1>2, TypeCorrect, PTL DEF Spec
=============================================================================
