---- MODULE GbaLink ----
(***************************************************************************)
(* The cartridge's end of the serial link: the READY loop of sign_loop,    *)
(* the opcode handlers and the TXRESULT wait of src/state.c, over          *)
(* link/protocol.c and link/uart.c.                                        *)
(*                                                                         *)
(* A byte that steers the protocol is one message; a payload, an answer    *)
(* with its marker and a result are one message each.  A message is a      *)
(* record of what it is and the request it belongs to.  The UART keeps     *)
(* four bytes for a device that is not reading, so of a longer message     *)
(* only its first bytes are left: JUNK, bytes of any value.                *)
(***************************************************************************)
EXTENDS Naturals, Sequences

CONSTANTS
    Tx,         \* requests sent as TX_RLP or TX_RLP_META
    Sign,       \* PERSONAL_SIGN requests
    Typed,      \* TYPED_DATA requests
    Connect,    \* CONNECT_REQUESTs
    Query,      \* GET_ADDRESS and GET_POLICY
    Beat,       \* the heartbeat
    Nobody,     \* what bytes of no request belong to
    FifoBytes,  \* depth of the UART's receive FIFO
    MaxFaults   \* bound on disturbances in a behaviour

Asking == Tx \cup Sign \cup Typed \cup Connect  \* shown to the user
Req    == Asking \cup Query

ASSUME KindsAssumption ==
    /\ Tx \cap Sign = {} /\ (Tx \cup Sign) \cap Typed = {}
    /\ (Tx \cup Sign \cup Typed) \cap Connect = {}
    /\ Asking \cap Query = {}
    /\ Beat \notin Req /\ Nobody \notin Req \cup {Beat}
ASSUME BoundsAssumption == FifoBytes \in Nat \ {0} /\ MaxFaults \in Nat

VARIABLES
    dev,        \* where the firmware is
    cur,        \* request being handled
    rx,         \* received, not yet read
    wire,       \* sent, not yet fetched by the host
    behind,     \* a READY was sent since rx was last empty
    approved,   \* requests the user has said A to
    faults      \* disturbances so far

devVars == <<dev, cur, rx, wire, behind, approved, faults>>

Msg(m, r) == [m |-> m, r |-> r]
Incoming == {"ACK", "OP", "BODY", "RESULT", "HASH", "JUNK"}
Answers  == {"SIG", "OK", "DATA", "REJECT"}
Outgoing == Answers \cup {"READY", "CANCEL", "DONE"}

ToDevice == [m : Incoming, r : Req \cup {Beat, Nobody}]
ToHost   == [m : Outgoing, r : Req \cup {Nobody}]

READY  == Msg("READY", Nobody)
CANCEL == Msg("CANCEL", Nobody)
DONE   == Msg("DONE", Nobody)
JUNK   == Msg("JUNK", Nobody)

Marker(r) == IF r \in Query THEN "DATA" ELSE IF r \in Connect THEN "OK" ELSE "SIG"

\* Busy-spin reads keep up with the line; the two loops that poll read one
\* byte a frame; everything else does not read.
Spinning == {"opcode", "payload", "partial", "hash"}
Polling  == {"ready", "result"}
Dead     == {"off", "locked"}
Phases   == Spinning \cup Polling \cup Dead \cup {"away", "confirm", "shown"}

DevInit ==
    /\ dev = "ready" /\ cur = Nobody
    /\ rx = <<>> /\ wire = <<>> /\ behind = FALSE
    /\ approved = {} /\ faults = 0

DevTypeOK ==
    /\ dev \in Phases
    /\ cur \in Req \cup {Nobody}
    /\ rx \in Seq(ToDevice) /\ Len(rx) <= FifoBytes
    /\ wire \in Seq(ToHost) /\ behind \in BOOLEAN
    /\ approved \subseteq Asking
    /\ faults \in 0..MaxFaults

----
(* The UART *)

\* The payload and result of a request are longer than the FIFO.
FifoFull == rx # <<>> /\ (Len(rx) = FifoBytes \/ rx[Len(rx)].m = "JUNK")

\* The host's bytes x arrive; a busy-spin read has made room for them.
Receive(x) ==
    /\ dev \in Spinning => Len(rx) < FifoBytes
    /\ rx' = IF dev \in Dead \/ (FifoFull /\ dev \notin Spinning) THEN rx
             ELSE IF x.m \in {"BODY", "HASH"} /\ dev \notin Spinning
                  THEN Append(rx, JUNK)
                  ELSE Append(rx, x)

\* The loop looks at one byte a round and sends a pulse every 30 rounds: the
\* few bytes of the FIFO are read before the next pulse.
KeepsUp == behind' = (behind /\ rx' # <<>>)

Sent(s) == wire' = wire \o s

Fault == faults < MaxFaults /\ faults' = faults + 1

Arrived(m) == rx # <<>> /\ Head(rx).m \in m
AnyBytes   == {"BODY", "HASH", "JUNK"}     \* whose values may be anything

----
(* The READY loop: a pulse every half second, then a look at one byte *)

\* Pulses behind one that is still unread are left out.
PulseReady ==
    /\ dev = "ready" /\ wire = <<>> /\ rx = <<>>
    /\ Sent(<<READY>>)
    /\ UNCHANGED <<dev, cur, rx, behind, approved, faults>>

\* The half second ends while the host is reacting to the last pulse, or on
\* the first round after a screen, with bytes that came in the meantime.
SecondPulse ==
    /\ dev = "ready" /\ ~behind /\ Fault
    /\ Sent(<<READY>>) /\ behind' = (rx # <<>>)
    /\ UNCHANGED <<dev, cur, rx, approved>>

IgnoreByte ==
    /\ dev = "ready" /\ Arrived(Incoming \ {"ACK"})
    /\ rx' = Tail(rx)
    /\ UNCHANGED <<dev, cur, wire, approved, faults>>

ReadAck ==
    /\ dev = "ready"
    /\ \/ Arrived({"ACK"}) /\ rx' = Tail(rx)
       \/ Arrived({"JUNK"}) /\ rx' = rx       \* 0xBB among other bytes
    /\ dev' = "opcode"
    /\ UNCHANGED <<cur, wire, approved, faults>>

\* Mutant of OpcodeTimeout: the read of the opcode has no timeout.
OpcodeNoTimeout ==
    /\ dev = "opcode" /\ rx = <<>>
    /\ UNCHANGED <<dev, cur, rx, wire, approved, faults>>

OpcodeTimeout ==
    /\ dev = "opcode" /\ rx = <<>>
    /\ dev' = "ready"
    /\ UNCHANGED <<cur, rx, wire, approved, faults>>

----
(* Opcodes without a payload, and unknown ones *)

handle_heartbeat ==
    /\ dev = "opcode" /\ Arrived({"OP"}) /\ Head(rx).r = Beat
    /\ rx' = Tail(rx) /\ dev' = "ready"
    /\ Sent(<<DONE>>)
    /\ UNCHANGED <<cur, approved, faults>>

handle_query ==
    /\ dev = "opcode" /\ Arrived({"OP"}) /\ Head(rx).r \in Query
    /\ rx' = Tail(rx) /\ dev' = "ready"
    /\ Sent(<<Msg("DATA", Head(rx).r), DONE>>)
    /\ UNCHANGED <<cur, approved, faults>>

UnknownOpcode ==
    /\ dev = "opcode" /\ Arrived(Incoming \ {"OP"})
    /\ rx' = Tail(rx) /\ dev' = "ready"
    /\ Sent(<<CANCEL, DONE>>)
    /\ UNCHANGED <<cur, approved, faults>>

----
(* Opcodes with a payload *)

BeginPayload ==
    /\ dev = "opcode"
    /\ \/ /\ Arrived({"OP"}) /\ Head(rx).r \in Asking
          /\ cur' = Head(rx).r /\ dev' = "payload"
       \/ /\ Arrived(AnyBytes)      \* read as one of these opcodes
          /\ cur' = Nobody /\ dev' = "partial"
    /\ rx' = Tail(rx)
    /\ UNCHANGED <<wire, approved, faults>>

WholePayload == dev = "payload" /\ Arrived({"BODY"}) /\ Head(rx).r = cur

ShowRequest ==
    /\ WholePayload
    /\ rx' = Tail(rx) /\ dev' = "confirm"
    /\ UNCHANGED <<cur, wire, approved, faults>>

\* The chain lock: expected and got instead of an answer, after the notice.
RejectChain ==
    /\ WholePayload /\ cur \in Tx \cup Typed
    /\ rx' = Tail(rx) /\ dev' = "ready" /\ cur' = Nobody
    /\ Sent(<<Msg("REJECT", cur), DONE>>)
    /\ UNCHANGED <<approved, faults>>

MalformedTx ==
    /\ WholePayload /\ cur \in Tx
    /\ rx' = Tail(rx) /\ dev' = "ready" /\ cur' = Nobody
    /\ Sent(<<CANCEL, DONE>>)
    /\ UNCHANGED <<approved, faults>>

\* How the handler of cur returns when protocol_recv_lenprefixed fails.
RecvFailed ==
    /\ dev' = "ready" /\ cur' = Nobody
    /\ \/ cur \in Tx \cup {Nobody} /\ wire' = wire
       \/ cur \notin Tx /\ Sent(<<CANCEL, DONE>>)
    /\ UNCHANGED <<approved, faults>>

\* A length of zero, or over the cap: what follows it stays in the line.  The
\* host has not checked the length of anything but an origin.
BadLength ==
    /\ dev \in {"payload", "partial"} /\ Arrived(AnyBytes)
    /\ WholePayload => cur \notin Connect
    /\ rx' \in {Tail(rx), <<JUNK>> \o Tail(rx)}
    /\ RecvFailed

\* Bytes that are not the payload of cur, or not all of it.
SwallowBytes ==
    /\ dev \in {"payload", "partial"} /\ rx # <<>> /\ ~WholePayload
    /\ rx' = Tail(rx) /\ dev' = "partial"
    /\ UNCHANGED <<cur, wire, approved, faults>>

PayloadTimeout ==
    /\ dev \in {"payload", "partial"} /\ rx = <<>>
    /\ RecvFailed /\ UNCHANGED rx

----
(* The confirmation screens, which wait for a key without a timeout *)

Approve ==
    /\ dev = "confirm"
    /\ approved' = approved \cup {cur}
    /\ Sent(<<Msg(Marker(cur), cur), DONE>>)
    /\ dev' = IF cur \in Tx THEN "result" ELSE "ready"
    /\ cur' = Nobody
    /\ UNCHANGED <<rx, faults>>

\* B, or eth_sign_hash fails after A.
Refuse ==
    /\ dev = "confirm"
    /\ Sent(<<CANCEL, DONE>>)
    /\ dev' = "ready" /\ cur' = Nobody
    /\ UNCHANGED <<rx, approved, faults>>

----
(* await_and_show_tx_result *)

IgnoreInResult ==
    /\ dev = "result" /\ Arrived(Incoming \ {"RESULT"})
    /\ rx' = Tail(rx)
    /\ UNCHANGED <<dev, cur, wire, approved, faults>>

ReadResult ==
    /\ dev = "result" /\ Arrived({"RESULT", "JUNK"})
    /\ rx' = Tail(rx) /\ dev' = "hash"
    /\ UNCHANGED <<cur, wire, approved, faults>>

\* Thirty seconds without TXRESULT, or B.
LeaveResult ==
    /\ dev = "result" /\ dev' = "ready"
    /\ UNCHANGED <<cur, rx, wire, approved, faults>>

ReadHash ==
    /\ dev = "hash" /\ rx # <<>>
    /\ rx' = Tail(rx)
    /\ \/ dev' = "shown"
       \/ Head(rx).m # "HASH" /\ dev' = "ready"
    /\ UNCHANGED <<cur, wire, approved, faults>>

HashTimeout ==
    /\ dev = "hash" /\ rx = <<>> /\ dev' = "ready"
    /\ UNCHANGED <<cur, rx, wire, approved, faults>>

Dismiss ==
    /\ dev = "shown" /\ dev' = "ready"
    /\ UNCHANGED <<cur, rx, wire, approved, faults>>

----
(* Keys of the READY screen, and power *)

OpenWipeScreen ==
    /\ dev = "ready" /\ dev' = "away" /\ Fault
    /\ UNCHANGED <<cur, rx, wire, approved>>

CancelWipe ==
    /\ dev = "away" /\ dev' = "ready"
    /\ UNCHANGED <<cur, rx, wire, approved, faults>>

\* START, or SELECT and A held: the loop that only waits for a reset.
LockOrWipe ==
    /\ dev \in {"ready", "away"} /\ dev' = "locked"
    /\ rx' = <<>>
    /\ UNCHANGED <<cur, wire, approved, faults>>

PowerOff ==
    /\ dev # "off" /\ dev' = "off" /\ Fault
    /\ rx' = <<>> /\ cur' = Nobody
    /\ UNCHANGED <<wire, approved>>

\* Boot, PIN and address screens of module Wallet, then uart_init.
PowerOn ==
    /\ dev = "off" /\ dev' = "ready"
    /\ UNCHANGED <<cur, rx, wire, approved, faults>>

----
\* Steps the firmware takes on its own, or when bytes are there.
DeviceStep ==
    /\ \/ IgnoreByte \/ ReadAck
       \/ handle_heartbeat \/ handle_query \/ UnknownOpcode
       \/ BeginPayload \/ ShowRequest \/ RejectChain \/ MalformedTx
       \/ BadLength \/ SwallowBytes
       \/ IgnoreInResult \/ ReadResult \/ ReadHash
    /\ KeepsUp

\* Reads that give up.
DeviceTimeout == (OpcodeTimeout \/ PayloadTimeout \/ HashTimeout) /\ KeepsUp

\* Screens a user eventually answers.
UserAnswers ==
    (Approve \/ Refuse \/ LeaveResult \/ Dismiss \/ CancelWipe \/ PowerOn) /\ KeepsUp

Disturbances == SecondPulse \/ ((OpenWipeScreen \/ LockOrWipe \/ PowerOff) /\ KeepsUp)

====
