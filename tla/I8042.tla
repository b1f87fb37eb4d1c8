-------------------------------- MODULE I8042 --------------------------------
(***************************************************************************)
(* The PS/2 controller and the two devices behind it, as the driver in     *)
(* kernel/src/io/ps2/ps2.c uses them.  None of this is code of the          *)
(* repository: it is the world the driver runs in, so every definition is  *)
(* external.  The world is kept permissive.  A device may be missing, mute, *)
(* slow or chatty, the self-tests may fail, the second channel may not be   *)
(* built in, and there may be no controller at all.                         *)
(*                                                                          *)
(* A byte is the set of its one bits, so that the driver's masks            *)
(* (config &= ~..., config |= ...) are set operations.                      *)
(***************************************************************************)
EXTENDS Naturals, Sequences

CONSTANTS
    Machines,   \* the machines the driver may be booted on (see Machine)
    Scancodes,  \* bytes a device may send unasked
    MaxNoise    \* bound: how many bytes are sent unasked

Port == {1, 2}
Byte == SUBSET (0..7)

Command == {"DISABLE_1", "DISABLE_2", "ENABLE_1", "ENABLE_2",
            "TEST_CONTROLLER", "TEST_PORT_1", "TEST_PORT_2",
            "READ_CONFIG", "WRITE_CONFIG", "WRITE_PORT2_INPUT"}

(***************************************************************************)
(* What a machine is.  present: there is a controller; without one the bus *)
(* floats and every port reads 0xFF.  dual: the second channel exists.     *)
(* prompt: the controller replies before the driver's poll count runs out. *)
(* quick: so do the devices.  noisy: a device may send bytes unasked.      *)
(* selftest, porttest: the results of the self-tests.  answer[p]: what the *)
(* device on port p sends after a reset, empty when nothing answers there. *)
(* bios: the configuration byte the firmware left behind.                  *)
(***************************************************************************)
Machine == [present : BOOLEAN, dual : BOOLEAN, prompt : BOOLEAN,
            quick : BOOLEAN, noisy : BOOLEAN, selftest : Byte,
            porttest : [Port -> Byte], answer : [Port -> Seq(Byte)],
            bios : Byte]

ASSUME MachineAssumption == Machines \subseteq Machine
ASSUME NoiseAssumption == Scancodes \subseteq Byte /\ MaxNoise \in Nat

B00 == {}                        \* 0x00
B55 == {0, 2, 4, 6}              \* 0x55
BAA == {1, 3, 5, 7}              \* 0xAA
BFA == {1, 3, 4, 5, 6, 7}        \* 0xFA
BFC == {2, 3, 4, 5, 6, 7}        \* 0xFC
BFF == 0..7                      \* 0xFF

VARIABLES
    hw,      \* the machine booted on, chosen once
    inbuf,   \* the input buffer: at most one write not yet taken (IBF)
    route,   \* where the next byte written to 0x60 goes
    reply,   \* at most one controller reply not yet in the output buffer
    obf,     \* output buffer full
    latch,   \* the byte port 0x60 reads, and who sent it; it survives a read
    cfg,     \* the configuration byte
    devq,    \* bytes each device still has to send
    noise    \* bytes sent unasked so far

hwVars == <<hw, inbuf, route, reply, obf, latch, cfg, devq, noise>>

Sender == {"none", "controller", "device1", "device2"}
DeviceName(p) == IF p = 1 THEN "device1" ELSE "device2"

CommandWrite(c) == [port |-> "command", value |-> c]
DataWrite(b) == [port |-> "data", value |-> b]
Written == {CommandWrite(c) : c \in Command} \cup {DataWrite(b) : b \in Byte}

Received == [byte : Byte, from : Sender]

(***************************************************************************)
(* What the CPU sees: status bits 1 and 0, and the byte at port 0x60.      *)
(***************************************************************************)
InputReady == hw.present /\ inbuf = <<>>
OutputReady == hw.present => obf
DataPort == IF hw.present THEN latch ELSE [byte |-> BFF, from |-> "none"]

\* An IN from 0x60 empties the output buffer; the latch keeps its value.
CpuReads == obf' = FALSE /\ UNCHANGED <<hw, inbuf, route, reply, latch, cfg, devq, noise>>

\* An OUT replaces whatever the controller has not taken yet.
CpuWrites(w) == inbuf' = <<w>> /\ UNCHANGED <<hw, route, reply, obf, latch, cfg, devq, noise>>

HwInit ==
    /\ hw \in Machines
    /\ inbuf = <<>>
    /\ route = "device1"
    /\ reply = <<>>
    /\ obf = FALSE
    /\ latch = [byte |-> B00, from |-> "none"]
    /\ cfg = hw.bios
    /\ devq = [p \in Port |-> <<>>]
    /\ noise = 0

-----------------------------------------------------------------------------
(***************************************************************************)
(* The controller takes one write at a time, and not before its previous   *)
(* reply has left for the output buffer.                                   *)
(***************************************************************************)
Taking(w) == /\ hw.present
             /\ reply = <<>>
             /\ inbuf = <<w>>
             /\ inbuf' = <<>>

TakeReadConfig ==
    /\ Taking(CommandWrite("READ_CONFIG"))
    /\ reply' = <<cfg>>
    /\ UNCHANGED <<hw, route, obf, latch, cfg, devq, noise>>

TakeWriteConfig ==
    /\ Taking(CommandWrite("WRITE_CONFIG"))
    /\ route' = "config"
    /\ UNCHANGED <<hw, reply, obf, latch, cfg, devq, noise>>

\* The second channel's commands mean nothing to a single-channel controller.
TakePortSwitch ==
    /\ \/ Taking(CommandWrite("DISABLE_1")) /\ cfg' = cfg \cup {4}
       \/ Taking(CommandWrite("ENABLE_1")) /\ cfg' = cfg \ {4}
       \/ /\ Taking(CommandWrite("DISABLE_2"))
          /\ cfg' = IF hw.dual THEN cfg \cup {5} ELSE cfg
       \/ /\ Taking(CommandWrite("ENABLE_2"))
          /\ cfg' = IF hw.dual THEN cfg \ {5} ELSE cfg
    /\ UNCHANGED <<hw, route, reply, obf, latch, devq, noise>>

\* The self-test may put the configuration byte back to the firmware's.
TakeTestController ==
    /\ Taking(CommandWrite("TEST_CONTROLLER"))
    /\ reply' = <<hw.selftest>>
    /\ cfg' \in {cfg, hw.bios}
    /\ UNCHANGED <<hw, route, obf, latch, devq, noise>>

TakeTestPort ==
    /\ \/ Taking(CommandWrite("TEST_PORT_1")) /\ reply' = <<hw.porttest[1]>>
       \/ /\ Taking(CommandWrite("TEST_PORT_2"))
          /\ reply' = IF hw.dual THEN <<hw.porttest[2]>> ELSE <<>>
    /\ UNCHANGED <<hw, route, obf, latch, cfg, devq, noise>>

TakeWritePort2 ==
    /\ Taking(CommandWrite("WRITE_PORT2_INPUT"))
    /\ route' = IF hw.dual THEN "device2" ELSE route
    /\ UNCHANGED <<hw, reply, obf, latch, cfg, devq, noise>>

\* A data byte is the new configuration or goes to a device.  The one byte the
\* driver sends to a device is the reset: it makes the device drop what it had
\* not sent and answer.
TakeData ==
    /\ hw.present /\ reply = <<>>
    /\ inbuf # <<>> /\ inbuf[1].port = "data" /\ inbuf' = <<>>
    /\ \/ /\ route = "config"
          /\ cfg' = inbuf[1].value
          /\ UNCHANGED devq
       \/ \E p \in Port :
            /\ route = DeviceName(p)
            /\ devq' = [devq EXCEPT ![p] = hw.answer[p]]
            /\ UNCHANGED cfg
    /\ route' = "device1"
    /\ UNCHANGED <<hw, reply, obf, latch, noise>>

DeliverReply ==
    /\ reply # <<>>
    /\ ~obf
    /\ obf' = TRUE
    /\ latch' = [byte |-> reply[1], from |-> "controller"]
    /\ reply' = <<>>
    /\ UNCHANGED <<hw, inbuf, route, cfg, devq, noise>>

(***************************************************************************)
(* A device sends when its clock runs, the output buffer is empty and the  *)
(* controller has nothing of its own to say.                               *)
(***************************************************************************)
CanSend(p) == devq[p] # <<>> /\ (3 + p) \notin cfg

DeviceSends(p) ==
    /\ CanSend(p)
    /\ ~obf
    /\ reply = <<>>
    /\ obf' = TRUE
    /\ latch' = [byte |-> Head(devq[p]), from |-> DeviceName(p)]
    /\ devq' = [devq EXCEPT ![p] = Tail(@)]
    /\ UNCHANGED <<hw, inbuf, route, reply, cfg, noise>>

\* A key is pressed, the mouse is moved.
DeviceChatters(p) ==
    /\ hw.present /\ hw.noisy /\ hw.answer[p] # <<>>
    /\ noise < MaxNoise
    /\ noise' = noise + 1
    /\ \E b \in Scancodes : devq' = [devq EXCEPT ![p] = Append(@, b)]
    /\ UNCHANGED <<hw, inbuf, route, reply, obf, latch, cfg>>

ControllerNext ==
    \/ TakeReadConfig \/ TakeWriteConfig \/ TakePortSwitch \/ TakeTestController
    \/ TakeTestPort \/ TakeWritePort2 \/ TakeData \/ DeliverReply

HwNext ==
    \/ ControllerNext
    \/ \E p \in Port : DeviceSends(p) \/ DeviceChatters(p)

HwTypeOK ==
    /\ hw \in Machines
    /\ inbuf \in {<<>>} \cup {<<w>> : w \in Written}
    /\ route \in {"device1", "device2", "config"}
    /\ reply \in {<<>>} \cup {<<b>> : b \in Byte}
    /\ obf \in BOOLEAN
    /\ latch \in Received
    /\ cfg \in Byte
    /\ devq \in [Port -> Seq(Byte)]
    /\ noise \in 0..MaxNoise
=============================================================================
