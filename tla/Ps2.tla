--------------------------------- MODULE Ps2 ---------------------------------
(***************************************************************************)
(* The PS/2 driver, kernel/src/io/ps2/ps2.c: ps2_init and everything it    *)
(* calls, one port access or one poll of the status register at a time,    *)
(* against the controller and the devices of I8042.                        *)
(*                                                                          *)
(* The driver is straight-line port traffic between a few decisions.  Each *)
(* stretch of traffic is a phase with a script of port accesses; `step'    *)
(* walks through it, and when the script is over the phase's own action    *)
(* takes the decision the C code takes there and enters the next phase.    *)
(* Interrupts stay disabled while ps2_init runs (nothing in the kernel     *)
(* executes sti), so the only other actors are the controller and devices. *)
(***************************************************************************)
EXTENDS I8042

CONSTANTS
    InPolls,    \* polls before ps2_wait_input_ready gives up (100000000)
    OutPolls    \* polls before ps2_wait_output_ready gives up (10000)

ASSUME PollAssumption == InPolls \in Nat \ {0} /\ OutPolls \in Nat \ {0}

VARIABLES
    phase,    \* which stretch of the driver is running
    step,     \* next access of the phase's script
    polls,    \* unsuccessful polls of the wait in progress
    error,    \* what the last wait returned
    in,       \* the last byte read from port 0x60, and where it came from
    config,   \* the local `config' of the function that is running
    is_dual,  \* ps2_is_dual_channel
    valid,    \* ps2_is_port1_valid, ps2_is_port2_valid
    device,   \* the device ps2_reset_device works on
    status,   \* the status of ps2_device1 and ps2_device2
    type,     \* their type
    got       \* per device, the bytes its reset has read: out, response, device_id_1 and _2

driverVars == <<phase, step, polls, error, in, config, is_dual, valid, device, status, type, got>>
vars == <<hwVars, driverVars>>

Error == {"none", "timeout"}
DeviceStatus == {"not_connected", "self_check_fail", "no_device_id", "okay"}
DeviceType == {"unknown", "none", "00", "03"}

INTERRUPT_BIT(p) == p - 1
CLOCK_1_BIT == 4
CLOCK_2_BIT == 5
TRANSLATE_1_BIT == 5

(***************************************************************************)
(* The accesses scripts are made of.  "try" variants are the checked waits *)
(* of ps2_device_write_data and ps2_device_read_data: on a timeout the     *)
(* function returns at once, which ends the script.                        *)
(***************************************************************************)
WaitIn == [op |-> "waitin"]
WaitOut == [op |-> "waitout"]
TryIn == [op |-> "tryin"]
TryOut == [op |-> "tryout"]
Cmd(c) == [op |-> "command", arg |-> c]
WriteConfigByte == [op |-> "config"]
WriteReset == [op |-> "reset"]
Read == [op |-> "read"]

Send(c) == <<WaitIn, Cmd(c)>>
\* Mutant: the reply is read without waiting for it.
QueryUnwaited(c) == Send(c) \o <<Read>>
Query(c) == Send(c) \o <<WaitOut, Read>>
SetConfig == Send("WRITE_CONFIG") \o <<WaitIn, WriteConfigByte>>
DeviceRead == <<TryOut, Read>>

Script ==
    [disable    |-> Send("DISABLE_1") \o Send("DISABLE_2") \o <<Read>>
                    \o <<Cmd("READ_CONFIG"), WaitOut, Read>>,
     selfcheck  |-> <<Cmd("WRITE_CONFIG"), WaitIn, WriteConfigByte>>
                    \o Query("READ_CONFIG") \o Query("TEST_CONTROLLER"),
     restore    |-> SetConfig \o Send("ENABLE_2") \o Query("READ_CONFIG"),
     dual       |-> Send("DISABLE_2") \o Query("READ_CONFIG"),
     dualconfig |-> SetConfig,
     port1      |-> Query("TEST_PORT_1"),
     port2      |-> Query("TEST_PORT_2"),
     enable1    |-> Send("ENABLE_1"),
     enable2    |-> Send("ENABLE_2"),
     irq        |-> Query("READ_CONFIG"),
     irqwrite   |-> SetConfig,
     reset1     |-> <<TryIn, WriteReset>>,
     reset2     |-> <<TryIn, Cmd("WRITE_PORT2_INPUT"), TryIn, WriteReset>>,
     ack        |-> DeviceRead,
     bat        |-> DeviceRead,
     id1        |-> DeviceRead,
     id2        |-> DeviceRead,
     done       |-> <<>>,
     failed     |-> <<>>]

Phase == DOMAIN Script
Stopped == phase \in {"done", "failed"}
ResetReads == {"ack", "bat", "id1", "id2"}

AtEnd == step > Len(Script[phase])
At(ops) == ~AtEnd /\ Script[phase][step].op \in ops
Enter(ph) == phase' = ph /\ step' = 1 /\ UNCHANGED <<polls, error, in, got>>

-----------------------------------------------------------------------------
(***************************************************************************)
(* The waits.  Both loops poll once more than `timeout' counts, and report *)
(* a timeout whenever the counter is used up, even if that last poll found *)
(* the buffer ready.                                                       *)
(***************************************************************************)
\* Mutant: ps2_device_read_data ignores what the wait returns.
WaitIgnored(e) == error' = e /\ polls' = 0 /\ step' = step + 1

WaitReturns(e) ==
    /\ error' = e
    /\ polls' = 0
    /\ step' = IF e = "timeout" /\ At({"tryin", "tryout"})
               THEN Len(Script[phase]) + 1 ELSE step + 1

\* Mutant: the loop condition tests `timeout-- >= 0', one poll too many.
PollOnceMore(ready, limit, inTime) ==
    /\ \/ ready /\ WaitReturns(IF polls < limit THEN "none" ELSE "timeout")
       \/ ~ready /\ polls > limit /\ WaitReturns("timeout")
       \/ ~ready /\ polls <= limit /\ polls' = polls + 1 /\ UNCHANGED <<step, error>>
    /\ UNCHANGED <<hwVars, phase, in, config, is_dual, valid, device, status, type, got>>

\* Mutant: the counter is reset on every round of the loop.
PollForever(ready, limit, inTime) ==
    /\ \/ ready /\ WaitReturns("none")
       \/ ~ready /\ polls' = 1 /\ UNCHANGED <<step, error>>
    /\ UNCHANGED <<hwVars, phase, in, config, is_dual, valid, device, status, type, got>>

Poll(ready, limit, inTime) ==
    /\ \/ ready /\ WaitReturns(IF polls < limit THEN "none" ELSE "timeout")
       \/ ~ready /\ polls = limit /\ WaitReturns("timeout")
       \/ /\ ~ready /\ polls < limit
          /\ inTime => polls + 1 < limit
          /\ polls' = polls + 1
          /\ UNCHANGED <<step, error>>
    /\ UNCHANGED <<hwVars, phase, in, config, is_dual, valid, device, status, type, got>>

\* Timing assumption: 100000000 polls are enough for a controller that is there
\* and not itself held up by an output buffer the driver has not read.
InputInTime == hw.present /\ ~(obf /\ reply # <<>>)

\* Timing assumption: on a prompt machine 10000 polls are enough for a reply
\* that is due, on a quick one for a device that has a byte to send.
OutputInTime ==
    \/ hw.present /\ hw.prompt /\ (inbuf # <<>> \/ reply # <<>>)
    \/ hw.present /\ hw.quick /\ \E p \in Port : CanSend(p)

PollInput == At({"waitin", "tryin"}) /\ Poll(InputReady, InPolls, InputInTime)
PollOutput == At({"waitout", "tryout"}) /\ Poll(OutputReady, OutPolls, OutputInTime)

(***************************************************************************)
(* The port accesses.                                                      *)
(***************************************************************************)
Access == step' = step + 1
          /\ UNCHANGED <<phase, polls, error, config, is_dual, valid, device, status, type>>

WriteCommand ==
    /\ At({"command"})
    /\ CpuWrites(CommandWrite(Script[phase][step].arg))
    /\ Access /\ UNCHANGED <<in, got>>

WriteData ==
    /\ \/ At({"config"}) /\ CpuWrites(DataWrite(config))
       \/ At({"reset"}) /\ CpuWrites(DataWrite(BFF))
    /\ Access /\ UNCHANGED <<in, got>>

ReadData ==
    /\ At({"read"})
    /\ in' = DataPort
    /\ got' = IF phase \in ResetReads THEN [got EXCEPT ![device] = Append(@, DataPort)] ELSE got
    /\ CpuReads
    /\ Access

-----------------------------------------------------------------------------
(***************************************************************************)
(* The decisions, one action per place where ps2.c computes something from *)
(* what it read.                                                           *)
(***************************************************************************)
Deciding(ph) == phase = ph /\ AtEnd /\ UNCHANGED hwVars

\* Mutant: port 1's interrupt bit is left as the firmware had it.
FirstConfigKeepsIrq ==
    /\ Deciding("disable")
    /\ config' = in.byte \ {TRANSLATE_1_BIT, CLOCK_1_BIT}
    /\ Enter("selfcheck")
    /\ UNCHANGED <<is_dual, valid, device, status, type>>

\* config &= ~(TRANSLATE_1 | CLOCK_1 | INTERRUPT_1), in ps2_init.
FirstConfig ==
    /\ Deciding("disable")
    /\ config' = in.byte \ {TRANSLATE_1_BIT, CLOCK_1_BIT, INTERRUPT_BIT(1)}
    /\ Enter("selfcheck")
    /\ UNCHANGED <<is_dual, valid, device, status, type>>

\* Mutant: a failed self-check is logged and ps2_init goes on.
ControllerSelfCheckLogged ==
    /\ Deciding("selfcheck")
    /\ Enter("restore")
    /\ UNCHANGED <<config, is_dual, valid, device, status, type>>

ControllerSelfCheck ==
    /\ Deciding("selfcheck")
    /\ Enter(IF in.byte = B55 THEN "restore" ELSE "failed")
    /\ UNCHANGED <<config, is_dual, valid, device, status, type>>

CheckDualChannel ==
    /\ Deciding("restore")
    /\ is_dual' = (CLOCK_2_BIT \notin in.byte)
    /\ Enter(IF is_dual' THEN "dual" ELSE "port1")
    /\ UNCHANGED <<config, valid, device, status, type>>

DualConfig ==
    /\ Deciding("dual")
    /\ config' = in.byte \ {INTERRUPT_BIT(2), CLOCK_2_BIT}
    /\ Enter("dualconfig")
    /\ UNCHANGED <<is_dual, valid, device, status, type>>

DualDone ==
    /\ Deciding("dualconfig")
    /\ Enter("port1")
    /\ UNCHANGED <<config, is_dual, valid, device, status, type>>

Port1SelfCheck ==
    /\ Deciding("port1")
    /\ valid' = [valid EXCEPT ![1] = (in.byte = B00)]
    /\ Enter("port2")
    /\ UNCHANGED <<config, is_dual, device, status, type>>

\* The second iteration of ps2_ports_self_check, and ps2_init's test after it.
Port2SelfCheck ==
    /\ Deciding("port2")
    /\ valid' = [valid EXCEPT ![2] = (in.byte = B00)]
    /\ \/ valid'[1] /\ Enter("enable1")
       \/ ~valid'[1] /\ valid'[2] /\ Enter("enable2")
       \/ ~valid'[1] /\ ~valid'[2] /\ Enter("failed")
    /\ UNCHANGED <<config, is_dual, device, status, type>>

PortsEnabled ==
    /\ \/ Deciding("enable1") /\ Enter(IF valid[2] THEN "enable2" ELSE "irq")
       \/ Deciding("enable2") /\ Enter("irq")
    /\ UNCHANGED <<config, is_dual, valid, device, status, type>>

IrqConfig ==
    /\ Deciding("irq")
    /\ config' = in.byte \cup {INTERRUPT_BIT(p) : p \in {q \in Port : valid[q]}}
    /\ Enter("irqwrite")
    /\ UNCHANGED <<is_dual, valid, device, status, type>>

\* ps2_reset_device begins: the status is not_connected until it knows better.
StartReset(d, ph) ==
    /\ device' = d
    /\ status' = [status EXCEPT ![d] = "not_connected"]
    /\ Enter(ph)
    /\ UNCHANGED <<config, is_dual, valid, type>>

ResetDevices == Deciding("irqwrite") /\ StartReset(1, "reset1")

\* The result of ps2_device_write_data is not looked at.
ResetSent ==
    /\ Deciding("reset1") \/ Deciding("reset2")
    /\ Enter("ack")
    /\ UNCHANGED <<config, is_dual, valid, device, status, type>>

\* ps2_reset_device returns with status s: the other device's turn, or the end.
Finish(s) ==
    \/ /\ device = 1
       /\ device' = 2
       /\ status' = [status EXCEPT ![1] = s, ![2] = "not_connected"]
       /\ Enter("reset2")
    \/ /\ device = 2
       /\ status' = [status EXCEPT ![2] = s]
       /\ Enter("done")
       /\ UNCHANGED device

FirstByte ==
    /\ Deciding("ack")
    /\ \/ error = "timeout" /\ Finish("not_connected")
       \/ error = "none" /\ in.byte = BFC /\ Finish("self_check_fail")
       \/ /\ error = "none" /\ in.byte # BFC
          /\ Enter("bat") /\ UNCHANGED <<device, status>>
    /\ UNCHANGED <<config, is_dual, valid, type>>

\* Mutant: only one order of the two bytes is known.
ResetOkayInOrder(first, second) == first = BFA /\ second = BAA
\* Mutant: the second byte is not looked at.
ResetOkayFirstOnly(first, second) == first \in {BFA, BAA}

ResetOkay(first, second) == {first, second} = {BFA, BAA}

SecondByte ==
    /\ Deciding("bat")
    /\ \/ /\ error = "timeout" \/ ~ResetOkay(got[device][1].byte, in.byte)
          /\ Finish("self_check_fail")
       \/ /\ error = "none" /\ ResetOkay(got[device][1].byte, in.byte)
          /\ Enter("id1") /\ UNCHANGED <<device, status>>
    /\ UNCHANGED <<config, is_dual, valid, type>>

\* Mutant: both id bytes are read into one variable, the second over the first.
DeviceIdOverwritten(bytes) == {bytes[i].byte : i \in 4..Len(bytes)} \ {B00}

\* The device id is put together from the bytes that came; a byte that did not
\* come counts as 0x00, and only the id 0x0000 is known.
DeviceId(bytes) == {bytes[i].byte : i \in 3..Len(bytes)} \ {B00}

Identified ==
    /\ type' = [type EXCEPT ![device] = IF DeviceId(got[device]) = {} THEN "00" ELSE "unknown"]
    /\ Finish("okay")

FirstIdByte ==
    /\ Deciding("id1")
    /\ \/ error = "timeout" /\ Identified
       \/ error = "none" /\ Enter("id2") /\ UNCHANGED <<device, status, type>>
    /\ UNCHANGED <<config, is_dual, valid>>

SecondIdByte ==
    /\ Deciding("id2")
    /\ Identified
    /\ UNCHANGED <<config, is_dual, valid>>

Init ==
    /\ HwInit
    /\ phase = "disable" /\ step = 1 /\ polls = 0
    /\ error = "none"
    /\ in = [byte |-> B00, from |-> "none"]
    /\ config = {}
    /\ is_dual = FALSE
    /\ valid = [p \in Port |-> FALSE]
    /\ device = 1
    /\ status = [p \in Port |-> "not_connected"]
    /\ type = [p \in Port |-> "unknown"]
    /\ got = [p \in Port |-> <<>>]

PortAccess == PollInput \/ PollOutput \/ WriteCommand \/ WriteData \/ ReadData

Decide ==
    \/ FirstConfig \/ ControllerSelfCheck \/ CheckDualChannel \/ DualConfig \/ DualDone
    \/ Port1SelfCheck \/ Port2SelfCheck \/ PortsEnabled \/ IrqConfig
    \/ ResetDevices \/ ResetSent \/ FirstByte \/ SecondByte \/ FirstIdByte \/ SecondIdByte

Driver == PortAccess \/ Decide

Next == Driver \/ (HwNext /\ UNCHANGED driverVars)

Spec == Init /\ [][Next]_vars

(***************************************************************************)
(* The CPU keeps executing, a controller that is there keeps working, and  *)
(* a quick device sends what it has to send.  Nothing is asked of a device *)
(* that is not quick.                                                      *)
(***************************************************************************)
QuickDeviceSends == hw.quick /\ \E p \in Port : DeviceSends(p)

Fairness == /\ WF_vars(Driver)
            /\ WF_vars(ControllerNext /\ UNCHANGED driverVars)
            /\ WF_vars(QuickDeviceSends /\ UNCHANGED driverVars)
FairSpec == Spec /\ Fairness

-----------------------------------------------------------------------------
(***************************************************************************)
(* Properties.                                                             *)
(***************************************************************************)
\* Type invariant: the driver's variables and the hardware's keep their types,
\* no script is left half-way, and no wait polls more often than its bound.
PollLimit == IF At({"waitin", "tryin"}) THEN InPolls
             ELSE IF At({"waitout", "tryout"}) THEN OutPolls ELSE 0

DriverTypeOK ==
    /\ phase \in Phase /\ step \in 1..(Len(Script[phase]) + 1)
    /\ polls \in 0..PollLimit
    /\ error \in Error
    /\ in \in Received
    /\ config \in Byte
    /\ is_dual \in BOOLEAN
    /\ valid \in [Port -> BOOLEAN]
    /\ device \in Port
    /\ status \in [Port -> DeviceStatus]
    /\ type \in [Port -> DeviceType]
    /\ got \in [Port -> Seq(Received)]

TypeOK == HwTypeOK /\ DriverTypeOK

\* An orderly machine replies to commands in time and sends nothing unasked; a
\* well-behaved one also has two channels and devices that answer in time.
Orderly == hw.present /\ hw.prompt /\ ~hw.noisy
WellBehaved == Orderly /\ hw.dual /\ hw.quick

\* A byte ps2_device_read_data hands to ps2_reset_device is fresh on every
\* machine: what the wait saw still holds when port 0x60 is read, and after a
\* timeout nothing is read (ps2_device_read_data, ps2_reset_device).
CheckedReadIsFresh ==
    phase \in ResetReads /\ At({"read"}) => OutputReady

\* On a well-behaved machine every read after the initial flush finds a fresh
\* byte from the party that was asked: the controller up to the port checks,
\* then the device being reset (the order of waits and reads in ps2_init).
FlushStep == 5
Asked == IF phase \in ResetReads THEN DeviceName(device) ELSE "controller"
RepliesFromPartyAsked ==
    WellBehaved /\ At({"read"}) /\ ~(phase = "disable" /\ step = FlushStep)
        => OutputReady /\ DataPort.from = Asked

\* What a device's answer to a reset says about it.
Acked(a) == Len(a) >= 2 /\ {a[1], a[2]} = {BFA, BAA}
Verdict(a) == IF a = <<>> THEN "not_connected"
              ELSE IF Acked(a) THEN "okay" ELSE "self_check_fail"

\* The type the driver has for a device with that answer: that of the id in the
\* third and fourth byte, where a byte not sent counts as 0x00.  A device without
\* an okay keeps the type it has at boot.
IdType(a) == IF {a[i] : i \in DOMAIN a \cap {3, 4}} \subseteq {B00} THEN "00" ELSE "unknown"
Typed(a) == IF Acked(a) THEN IdType(a) ELSE "unknown"

\* On a well-behaved machine, which has two channels, ps2_init ends with that fact,
\* the ports that passed their test, and for each device what its own answer
\* says: whether it passed its reset, and the type of the id it sent.  It gives
\* up only when a self-test failed (ps2_init and all the functions it calls).
\* Two things this does not say, because they are not so: that is_dual is false
\* on a controller with one channel (MissingPort2IsNoticed), and that a device
\* with the type of a mouse, 00, has sent an id at all, as ps2.c:41 has it.
ReportMatchesMachine ==
    /\ WellBehaved /\ phase = "done" =>
        /\ is_dual
        /\ valid = [p \in Port |-> hw.porttest[p] = B00]
        /\ status = [p \in Port |-> Verdict(hw.answer[p])]
        /\ type = [p \in Port |-> Typed(hw.answer[p])]
    /\ WellBehaved /\ phase = "failed" =>
        \/ hw.selftest # B55
        \/ \A p \in Port : hw.porttest[p] # B00

\* However slow the devices are, an orderly machine never has its first device
\* declared okay unless that device acknowledged the reset (ps2_reset_device).
Device1NeverFalselyOkay ==
    Orderly /\ status[1] = "okay" => Acked(hw.answer[1])

\* Without a controller the driver gives up at the self-check and believes in
\* no port (ps2_init on a floating bus).
AbsentControllerFails ==
    ~hw.present => /\ phase \in {"disable", "selfcheck", "failed"}
                   /\ \A p \in Port : ~valid[p]

\* Its inductive form: from the flush on, the last byte read is 0xFF, which is
\* not the answer of a passed self-check (the reads of ps2_init).
AbsentInv ==
    ~hw.present => /\ phase \in {"disable", "selfcheck", "failed"}
                   /\ \A p \in Port : ~valid[p]
                   /\ phase # "disable" \/ step > FlushStep => in.byte = BFF

\* On an orderly machine the controller raises interrupts for exactly the valid
\* ports once ps2_enable_ports has run, and none for port 1 between the
\* self-check and then (the configuration bytes written by ps2_init,
\* ps2_check_dual_channel and ps2_enable_ports).
IrqFollowsValidity ==
    Orderly =>
        /\ phase \in {"ack", "bat", "id1", "id2", "reset2", "done"} =>
              \A p \in Port : INTERRUPT_BIT(p) \in cfg <=> valid[p]
        /\ phase \in {"dual", "dualconfig", "port1", "port2", "enable1", "enable2", "irq"} =>
              INTERRUPT_BIT(1) \notin cfg

\* The comments at ps2.c:68, 72 and 257: ps2_is_dual_channel says whether two channels
\* are supported, ps2_is_port2_valid whether port 2 has passed the self-test, and
\* without a response nothing is connected.  So on a controller with one channel
\* ps2_init ends with no second channel, no second port and no second device
\* (ps2_check_dual_channel after ps2_init has cleared the bit it tests,
\* ps2_ports_self_check, ps2_reset_devices).
MissingPort2IsNoticed ==
    phase = "done" /\ ~hw.dual => ~is_dual /\ ~valid[2] /\ status[2] = "not_connected"

\* The comments at ps2.c:251 and 257: after the reset come the response bytes, and
\* without a response nothing is connected.  So ps2_init finds no device connected,
\* in order or not, on the strength of bytes of the other device alone, a late
\* answer or a movement (ps2_device_read_data, called by ps2_reset_device with
\* both ports enabled).
OtherDeviceConnectsNothing ==
    \A p \in Port : status[p] # "not_connected" =>
        \E k \in DOMAIN got[p] : got[p][k].from # DeviceName(3 - p)

\* The comment at ps2.c:98: ps2_input_ready must be true before port 0x60 or
\* 0x64 is written (ps2_init's writes).
WritesWaitForInputReady ==
    hw.present /\ At({"command", "config", "reset"}) => InputReady

\* The comment at ps2.c:329: both ports are disabled so that the devices do not
\* interfere with the initialisation.  Port 1 is switched off before anything is
\* read, so no byte of its device is read as the answer to a command (every read
\* of ps2_init after the flush and before the resets).
Device1DoesNotInterfere ==
    At({"read"}) /\ phase \notin ResetReads /\ ~(phase = "disable" /\ step = FlushStep)
        => DataPort.from # "device1"

\* ps2_init returns, whatever the controller and the devices do or fail to do:
\* every wait is bounded.
Termination == <>Stopped
=============================================================================
