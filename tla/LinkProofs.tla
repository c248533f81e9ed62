---- MODULE LinkProofs ----
(***************************************************************************)
(* Proofs about module SerialLink, for every set of requests of each kind, *)
(* every depth of the FIFO and every bound on disturbances, orphaned reads *)
(* and waiting operations.                                                 *)
(***************************************************************************)
EXTENDS SerialLink, SequenceTheorems, TLAPS

----
(* The inductive invariant *)

\* What the operation at work has still to read, the oldest message first.
Stream == buf \o wire

\* Steps of an operation that has read its READY.
Answering == {"opcode", "body", "marker", "done"}

\* The firmware between two requests.
Calm == {"ready", "opcode", "partial", "away"} \cup Dead

Opcode(x) == x.m = "OP" /\ x.r # Beat
NoOpcode == \A i \in DOMAIN rx : ~Opcode(rx[i])

\* Nothing of an earlier request is left in the cartridge, so that it will
\* answer none before a new opcode.
Clean == cur = Nobody /\ dev \in Calm /\ NoOpcode

\* The request being handled, and bytes for a cartridge that does not listen.
PhaseInv ==
    /\ dev \in {"payload", "confirm"} => cur \in Asking
    /\ dev \notin {"payload", "confirm", "partial"} => cur = Nobody
    /\ dev \in Dead => rx = <<>>

\* Which operations reach which step, and what they have read by then.
StepInv ==
    /\ port = "closed" => queue = <<>> /\ sw.st = "idle"
    /\ step \in {"ready"} \cup Answering => Running.op \in {"ask", "beat"}
    /\ step \in {"result", "hash"} => Running.op = "result"
    /\ step = "body" => Running.r \in Asking
    /\ step = "marker" => Running.op = "ask"
    /\ step # "done" => got = DONE
    /\ step = "done" =>
          got.m \in IF Running.op = "ask" THEN Accepted(Running.r) ELSE {"DONE"}

\* Orphaned reads come before the operation's own.
OrphanInv ==
    /\ step = "ready" /\ buf # <<>> => orphans = 0
    /\ step \in Answering => orphans = 0

\* Unless a READY has overtaken them, an opcode is alone in the FIFO, or
\* behind its ACK while the wipe screen is open.
OpcodeInv ==
    ~behind => \A i \in DOMAIN rx : Opcode(rx[i]) =>
        /\ dev \in Calm
        /\ i = 1 \/ (i = 2 /\ rx[1].m = "ACK" /\ dev \in {"ready", "away"})

\* A READY the operation at work may act on was sent when nothing was left of
\* earlier requests, and no answer to one of them follows it: any READY but
\* the first, which an orphaned read will take.
ReadyInv ==
    step = "ready" =>
        /\ \A i \in DOMAIN Stream : Stream[i].m = "READY" =>
              /\ i > 1 \/ orphans = 0 =>
                    /\ Clean
                    /\ \A j \in DOMAIN Stream : j > i => Stream[j].m \notin Answers
              /\ behind \/ rx = <<>>
        /\ Stream # <<>> \/ orphans = 0 => behind \/ NoOpcode

\* After it, the cartridge has nothing to answer until the opcode comes.
AckInv ==
    step = "opcode" =>
        /\ Clean
        /\ behind \/ rx = <<>> \/ (Len(rx) = 1 /\ rx[1].m = "ACK")
        /\ \A i \in DOMAIN Stream : Stream[i].m \notin Answers

\* From then on the cartridge knows of no other request.
OwnInv ==
    step \in Answering =>
        /\ cur \in {Nobody, Running.r}
        /\ \A i \in DOMAIN rx : Opcode(rx[i]) => rx[i].r = Running.r
        /\ \A i \in DOMAIN Stream : Stream[i].m \in Answers => Stream[i].r = Running.r
        /\ got.m \in Answers => got.r = Running.r

OnlyBeats(q) == \A i \in DOMAIN q : q[i].op = "beat"
Positive == {"sig", "ok", "data"}

\* What the worker waits for is in the queue, or answered; nothing but a
\* heartbeat was queued after it, and none starts inside the window.
WorkerInv ==
    /\ sw.st = "asked" =>
          \/ /\ reply.r = sw.r /\ OnlyBeats(queue)
             /\ reply.out \in Positive /\ sw.r \in Tx => window /\ step = "idle"
          \/ /\ reply.r # sw.r
             /\ \E j \in DOMAIN queue :
                   /\ queue[j] = Job("ask", sw.r)
                   /\ \A i \in DOMAIN queue :
                         /\ i < j => queue[i].r # sw.r
                         /\ i > j => queue[i].op = "beat"
    /\ sw.st = "due" => window /\ step = "idle" /\ OnlyBeats(queue)
    /\ sw.st = "overdue" => OnlyBeats(queue)
    /\ sw.st \in {"due", "overdue", "told"} => sw.r \in Tx
    /\ sw.st # "idle" => outcome[sw.r] = "asked"
    /\ reply.out \in {"ok", "data"} => reply.r \notin Tx
    /\ \A r \in Req : outcome[r] = NotAsked =>
          reply.r # r /\ \A i \in DOMAIN queue : queue[i].r # r

LinkInv ==
    /\ TypeOK /\ PhaseInv /\ StepInv /\ OrphanInv
    /\ OpcodeInv /\ ReadyInv /\ AckInv /\ OwnInv /\ WorkerInv

----
(* Sequences *)

\* What is left behind the head of a sequence.
LEMMA Behead ==
    ASSUME NEW S, NEW s \in Seq(S), s # <<>>
    PROVE  /\ Head(s) \in S /\ Head(s) = s[1]
           /\ Tail(s) \in Seq(S)
           /\ Len(s) \in Nat \ {0} /\ Len(Tail(s)) = Len(s) - 1
           /\ DOMAIN s = 1..Len(s) /\ DOMAIN Tail(s) = 1..(Len(s) - 1)
           /\ \A i \in DOMAIN Tail(s) : i + 1 \in DOMAIN s /\ Tail(s)[i] = s[i + 1]
  OBVIOUS

\* Two sequences one behind the other.
LEMMA Behind ==
    ASSUME NEW S, NEW s \in Seq(S), NEW t \in Seq(S)
    PROVE  /\ s \o t \in Seq(S)
           /\ Len(s) \in Nat /\ Len(t) \in Nat /\ Len(s \o t) = Len(s) + Len(t)
           /\ DOMAIN s = 1..Len(s) /\ DOMAIN t = 1..Len(t)
           /\ DOMAIN (s \o t) = 1..(Len(s) + Len(t))
           /\ \A i \in 1..Len(s) : (s \o t)[i] = s[i]
           /\ \A i \in (Len(s) + 1)..(Len(s) + Len(t)) :
                 i - Len(s) \in DOMAIN t /\ (s \o t)[i] = t[i - Len(s)]
  OBVIOUS

----
(* The cartridge *)

\* Every step the cartridge takes.
CartridgeNext ==
    DeviceStep \/ PulseReady \/ DeviceTimeout \/ UserAnswers \/ Disturbances

\* The bytes behind the one that is read, or left of it by a length that is
\* refused.
LEMMA RxTail ==
    ASSUME DevTypeOK, rx # <<>>
    PROVE  /\ Head(rx) \in ToDevice /\ Head(rx) = rx[1]
           /\ Tail(rx) \in Seq(ToDevice) /\ Len(Tail(rx)) <= FifoBytes
           /\ Len(rx) \in Nat \ {0} /\ Len(Tail(rx)) = Len(rx) - 1
           /\ DOMAIN rx = 1..Len(rx) /\ DOMAIN Tail(rx) = 1..(Len(rx) - 1)
           /\ \A i \in DOMAIN Tail(rx) : i + 1 \in DOMAIN rx /\ Tail(rx)[i] = rx[i + 1]
  BY Behead, BoundsAssumption DEF DevTypeOK

\* A byte that is garbled keeps its place in the receive queue.
LEMMA RxRejunked ==
    ASSUME DevTypeOK, rx # <<>>
    PROVE  /\ <<JUNK>> \o Tail(rx) \in Seq(ToDevice)
           /\ Len(<<JUNK>> \o Tail(rx)) = Len(rx)
           /\ DOMAIN (<<JUNK>> \o Tail(rx)) = 1..Len(rx)
           /\ (<<JUNK>> \o Tail(rx))[1] = JUNK
           /\ \A i \in 2..Len(rx) : (<<JUNK>> \o Tail(rx))[i] = rx[i]
  <1>1. JUNK \in ToDevice
    BY DEF JUNK, Msg, ToDevice, Incoming
  <1>2. <<JUNK>> \in Seq(ToDevice) /\ Len(<<JUNK>>) = 1 /\ <<JUNK>>[1] = JUNK
    BY <1>1
  <1> QED
    BY <1>2, RxTail, Behind

\* A request whose payload did not come whole is answered by CANCEL, or by
\* nothing.
LEMMA FailureSends ==
    ASSUME DevTypeOK, RecvFailed
    PROVE  /\ wire' = wire \/ wire' = wire \o <<CANCEL, DONE>>
           /\ wire' \in Seq(ToHost)
  <1>1. CANCEL \in ToHost /\ DONE \in ToHost
    BY DEF CANCEL, DONE, Msg, ToHost, Outgoing
  <1>2. <<CANCEL, DONE>> \in Seq(ToHost)
    BY <1>1
  <1>3. wire' = wire \/ wire' = wire \o <<CANCEL, DONE>>
    BY DEF RecvFailed, Sent
  <1>4. wire \in Seq(ToHost) /\ wire \o <<CANCEL, DONE>> \in Seq(ToHost)
    BY <1>2 DEF DevTypeOK
  <1> QED
    BY <1>3, <1>4

\* What the handlers of the firmware send keeps its type, and so does what they
\* leave unread.
LEMMA CartridgeTyped ==
    ASSUME DevTypeOK, PhaseInv, CartridgeNext
    PROVE  DevTypeOK'
  <1> USE RxTail, RxRejunked, BoundsAssumption
      DEF DevTypeOK, PhaseInv, ToHost, Msg, READY, CANCEL, DONE, Sent,
          Arrived, Outgoing, Answers, Phases, Spinning, Polling, Dead, Req
  <1>1. ASSUME IgnoreByte, KeepsUp PROVE DevTypeOK'
    BY <1>1 DEF KeepsUp, IgnoreByte
  <1>2. ASSUME ReadAck, KeepsUp PROVE DevTypeOK'
    BY <1>2 DEF KeepsUp, ReadAck
  <1>3. ASSUME handle_heartbeat, KeepsUp PROVE DevTypeOK'
    BY <1>3 DEF KeepsUp, handle_heartbeat
  <1>4. ASSUME handle_query, KeepsUp PROVE DevTypeOK'
    BY <1>4 DEF KeepsUp, handle_query
  <1>5. ASSUME UnknownOpcode, KeepsUp PROVE DevTypeOK'
    BY <1>5 DEF KeepsUp, UnknownOpcode
  <1>6. ASSUME BeginPayload, KeepsUp PROVE DevTypeOK'
    BY <1>6 DEF KeepsUp, BeginPayload
  <1>7. ASSUME ShowRequest, KeepsUp PROVE DevTypeOK'
    BY <1>7 DEF KeepsUp, ShowRequest, WholePayload
  <1>8. ASSUME RejectChain, KeepsUp PROVE DevTypeOK'
    BY <1>8 DEF KeepsUp, RejectChain, WholePayload
  <1>9. ASSUME MalformedTx, KeepsUp PROVE DevTypeOK'
    BY <1>9 DEF KeepsUp, MalformedTx, WholePayload
  <1>10. ASSUME BadLength, KeepsUp PROVE DevTypeOK'
    <2>1. rx' \in Seq(ToDevice) /\ Len(rx') <= FifoBytes
      BY <1>10 DEF BadLength
    <2>2. wire' \in Seq(ToHost) /\ UNCHANGED <<approved, faults>> /\ dev' = "ready" /\ cur' = Nobody
      BY <1>10, FailureSends DEF BadLength, RecvFailed
    <2> QED
      BY <1>10, <2>1, <2>2 DEF KeepsUp
  <1>11. ASSUME SwallowBytes, KeepsUp PROVE DevTypeOK'
    BY <1>11 DEF KeepsUp, SwallowBytes, WholePayload
  <1>12. ASSUME IgnoreInResult, KeepsUp PROVE DevTypeOK'
    BY <1>12 DEF KeepsUp, IgnoreInResult
  <1>13. ASSUME ReadResult, KeepsUp PROVE DevTypeOK'
    BY <1>13 DEF KeepsUp, ReadResult
  <1>14. ASSUME ReadHash, KeepsUp PROVE DevTypeOK'
    BY <1>14 DEF KeepsUp, ReadHash
  <1>15. ASSUME OpcodeTimeout, KeepsUp PROVE DevTypeOK'
    BY <1>15 DEF KeepsUp, OpcodeTimeout
  <1>16. ASSUME PayloadTimeout, KeepsUp PROVE DevTypeOK'
    <2>1. wire' \in Seq(ToHost) /\ UNCHANGED <<rx, approved, faults>> /\ dev' = "ready" /\ cur' = Nobody
      BY <1>16, FailureSends DEF PayloadTimeout, RecvFailed
    <2> QED
      BY <1>16, <2>1 DEF KeepsUp
  <1>17. ASSUME HashTimeout, KeepsUp PROVE DevTypeOK'
    BY <1>17 DEF KeepsUp, HashTimeout
  <1>18. ASSUME Approve, KeepsUp PROVE DevTypeOK'
    BY <1>18 DEF KeepsUp, Approve, Marker
  <1>19. ASSUME Refuse, KeepsUp PROVE DevTypeOK'
    BY <1>19 DEF KeepsUp, Refuse
  <1>20. ASSUME LeaveResult, KeepsUp PROVE DevTypeOK'
    BY <1>20 DEF KeepsUp, LeaveResult
  <1>21. ASSUME Dismiss, KeepsUp PROVE DevTypeOK'
    BY <1>21 DEF KeepsUp, Dismiss
  <1>22. ASSUME CancelWipe, KeepsUp PROVE DevTypeOK'
    BY <1>22 DEF KeepsUp, CancelWipe
  <1>23. ASSUME PowerOn, KeepsUp PROVE DevTypeOK'
    BY <1>23 DEF KeepsUp, PowerOn
  <1>24. ASSUME OpenWipeScreen, KeepsUp PROVE DevTypeOK'
    BY <1>24 DEF KeepsUp, OpenWipeScreen, Fault
  <1>25. ASSUME LockOrWipe, KeepsUp PROVE DevTypeOK'
    BY <1>25 DEF KeepsUp, LockOrWipe
  <1>26. ASSUME PowerOff, KeepsUp PROVE DevTypeOK'
    BY <1>26 DEF KeepsUp, PowerOff, Fault
  <1>27. ASSUME PulseReady PROVE DevTypeOK'
    BY <1>27 DEF PulseReady
  <1>28. ASSUME SecondPulse PROVE DevTypeOK'
    BY <1>28 DEF SecondPulse, Fault
  <1> QED
    BY <1>1, <1>2, <1>3, <1>4, <1>5, <1>6, <1>7, <1>8, <1>9, <1>10, <1>11, <1>12, <1>13, <1>14, <1>15, <1>16, <1>17, <1>18, <1>19, <1>20, <1>21, <1>22, <1>23, <1>24, <1>25, <1>26, <1>27, <1>28
       DEF CartridgeNext, DeviceStep, DeviceTimeout, UserAnswers, Disturbances

\* Only requests of the user's are handled, and only by their own handler.
LEMMA CartridgePhase ==
    ASSUME DevTypeOK, PhaseInv, CartridgeNext
    PROVE  PhaseInv'
  <1> USE DEF DevTypeOK, PhaseInv, Dead
  <1>1. ASSUME IgnoreByte, KeepsUp PROVE PhaseInv'
    BY <1>1 DEF KeepsUp, IgnoreByte
  <1>2. ASSUME ReadAck, KeepsUp PROVE PhaseInv'
    BY <1>2 DEF KeepsUp, ReadAck
  <1>3. ASSUME handle_heartbeat, KeepsUp PROVE PhaseInv'
    BY <1>3 DEF KeepsUp, handle_heartbeat
  <1>4. ASSUME handle_query, KeepsUp PROVE PhaseInv'
    BY <1>4 DEF KeepsUp, handle_query
  <1>5. ASSUME UnknownOpcode, KeepsUp PROVE PhaseInv'
    BY <1>5 DEF KeepsUp, UnknownOpcode
  <1>6. ASSUME BeginPayload, KeepsUp PROVE PhaseInv'
    BY <1>6 DEF KeepsUp, BeginPayload
  <1>7. ASSUME ShowRequest, KeepsUp PROVE PhaseInv'
    BY <1>7 DEF KeepsUp, ShowRequest, WholePayload
  <1>8. ASSUME RejectChain, KeepsUp PROVE PhaseInv'
    BY <1>8 DEF KeepsUp, RejectChain, WholePayload
  <1>9. ASSUME MalformedTx, KeepsUp PROVE PhaseInv'
    BY <1>9 DEF KeepsUp, MalformedTx, WholePayload
  <1>10. ASSUME BadLength, KeepsUp PROVE PhaseInv'
    BY <1>10 DEF KeepsUp, BadLength, RecvFailed, WholePayload
  <1>11. ASSUME SwallowBytes, KeepsUp PROVE PhaseInv'
    BY <1>11 DEF KeepsUp, SwallowBytes, WholePayload
  <1>12. ASSUME IgnoreInResult, KeepsUp PROVE PhaseInv'
    BY <1>12 DEF KeepsUp, IgnoreInResult
  <1>13. ASSUME ReadResult, KeepsUp PROVE PhaseInv'
    BY <1>13 DEF KeepsUp, ReadResult
  <1>14. ASSUME ReadHash, KeepsUp PROVE PhaseInv'
    BY <1>14 DEF KeepsUp, ReadHash
  <1>15. ASSUME OpcodeTimeout, KeepsUp PROVE PhaseInv'
    BY <1>15 DEF KeepsUp, OpcodeTimeout
  <1>16. ASSUME PayloadTimeout, KeepsUp PROVE PhaseInv'
    BY <1>16 DEF KeepsUp, PayloadTimeout, RecvFailed
  <1>17. ASSUME HashTimeout, KeepsUp PROVE PhaseInv'
    BY <1>17 DEF KeepsUp, HashTimeout
  <1>18. ASSUME Approve, KeepsUp PROVE PhaseInv'
    BY <1>18 DEF KeepsUp, Approve, Marker
  <1>19. ASSUME Refuse, KeepsUp PROVE PhaseInv'
    BY <1>19 DEF KeepsUp, Refuse
  <1>20. ASSUME LeaveResult, KeepsUp PROVE PhaseInv'
    BY <1>20 DEF KeepsUp, LeaveResult
  <1>21. ASSUME Dismiss, KeepsUp PROVE PhaseInv'
    BY <1>21 DEF KeepsUp, Dismiss
  <1>22. ASSUME CancelWipe, KeepsUp PROVE PhaseInv'
    BY <1>22 DEF KeepsUp, CancelWipe
  <1>23. ASSUME PowerOn, KeepsUp PROVE PhaseInv'
    BY <1>23 DEF KeepsUp, PowerOn
  <1>24. ASSUME OpenWipeScreen, KeepsUp PROVE PhaseInv'
    BY <1>24 DEF KeepsUp, OpenWipeScreen, Fault
  <1>25. ASSUME LockOrWipe, KeepsUp PROVE PhaseInv'
    BY <1>25 DEF KeepsUp, LockOrWipe
  <1>26. ASSUME PowerOff, KeepsUp PROVE PhaseInv'
    BY <1>26 DEF KeepsUp, PowerOff, Fault
  <1>27. ASSUME PulseReady PROVE PhaseInv'
    BY <1>27 DEF PulseReady
  <1>28. ASSUME SecondPulse PROVE PhaseInv'
    BY <1>28 DEF SecondPulse, Fault
  <1> QED
    BY <1>1, <1>2, <1>3, <1>4, <1>5, <1>6, <1>7, <1>8, <1>9, <1>10, <1>11, <1>12, <1>13, <1>14, <1>15, <1>16, <1>17, <1>18, <1>19, <1>20, <1>21, <1>22, <1>23, <1>24, <1>25, <1>26, <1>27, <1>28
       DEF CartridgeNext, DeviceStep, DeviceTimeout, UserAnswers, Disturbances

\* A byte is read: the opcode behind it moves up.
LEMMA OpcodeMovesUp ==
    ASSUME DevTypeOK, OpcodeInv, KeepsUp, rx # <<>>, rx' = Tail(rx)
    PROVE  ~behind' => \A i \in DOMAIN rx' : Opcode(rx'[i]) =>
              i = 1 /\ rx[1].m = "ACK" /\ dev \in {"ready", "away"}
  <1> SUFFICES ASSUME ~behind', NEW i \in DOMAIN rx', Opcode(rx'[i])
               PROVE  i = 1 /\ rx[1].m = "ACK" /\ dev \in {"ready", "away"}
    OBVIOUS
  <1>1. i \in Nat /\ i > 0 /\ i + 1 \in DOMAIN rx /\ rx'[i] = rx[i + 1] /\ rx' # <<>>
    BY RxTail
  <1>2. ~behind
    BY <1>1 DEF KeepsUp
  <1>3. Opcode(rx[i + 1])
    BY <1>1
  <1> QED
    BY <1>1, <1>2, <1>3 DEF OpcodeInv

\* No step moves an opcode away from its place behind the ACK.
LEMMA CartridgeOpcode ==
    ASSUME DevTypeOK, PhaseInv, OpcodeInv, CartridgeNext
    PROVE  OpcodeInv'
  <1> USE RxTail, RxRejunked
      DEF DevTypeOK, PhaseInv, OpcodeInv, Arrived, Incoming, AnyBytes, Opcode, Calm, Dead, JUNK, Msg
  <1>1. ASSUME IgnoreByte, KeepsUp PROVE OpcodeInv'
    <2>1. rx # <<>> /\ rx' = Tail(rx)
      BY <1>1 DEF IgnoreByte
    <2> QED
      BY <1>1, <2>1, OpcodeMovesUp DEF IgnoreByte
  <1>2. ASSUME ReadAck, KeepsUp PROVE OpcodeInv'
    <2>1. CASE rx' = Tail(rx)
      BY <1>2, <2>1, OpcodeMovesUp DEF ReadAck
    <2>2. CASE rx' = rx /\ Head(rx).m = "JUNK"
      BY <1>2, <2>2 DEF ReadAck, KeepsUp
    <2> QED
      BY <1>2, <2>1, <2>2 DEF ReadAck
  <1>3. ASSUME handle_heartbeat, KeepsUp PROVE OpcodeInv'
    <2>1. rx # <<>> /\ rx' = Tail(rx)
      BY <1>3 DEF handle_heartbeat
    <2> QED
      BY <1>3, <2>1, OpcodeMovesUp DEF handle_heartbeat
  <1>4. ASSUME handle_query, KeepsUp PROVE OpcodeInv'
    <2>1. rx # <<>> /\ rx' = Tail(rx)
      BY <1>4 DEF handle_query
    <2> QED
      BY <1>4, <2>1, OpcodeMovesUp DEF handle_query
  <1>5. ASSUME UnknownOpcode, KeepsUp PROVE OpcodeInv'
    <2>1. rx # <<>> /\ rx' = Tail(rx)
      BY <1>5 DEF UnknownOpcode
    <2> QED
      BY <1>5, <2>1, OpcodeMovesUp DEF UnknownOpcode
  <1>6. ASSUME BeginPayload, KeepsUp PROVE OpcodeInv'
    <2>1. rx # <<>> /\ rx' = Tail(rx)
      BY <1>6 DEF BeginPayload
    <2> QED
      BY <1>6, <2>1, OpcodeMovesUp DEF BeginPayload
  <1>7. ASSUME ShowRequest, KeepsUp PROVE OpcodeInv'
    <2>1. rx # <<>> /\ rx' = Tail(rx)
      BY <1>7 DEF ShowRequest, WholePayload
    <2> QED
      BY <1>7, <2>1, OpcodeMovesUp DEF ShowRequest, WholePayload
  <1>8. ASSUME RejectChain, KeepsUp PROVE OpcodeInv'
    <2>1. rx # <<>> /\ rx' = Tail(rx)
      BY <1>8 DEF RejectChain, WholePayload
    <2> QED
      BY <1>8, <2>1, OpcodeMovesUp DEF RejectChain, WholePayload
  <1>9. ASSUME MalformedTx, KeepsUp PROVE OpcodeInv'
    <2>1. rx # <<>> /\ rx' = Tail(rx)
      BY <1>9 DEF MalformedTx, WholePayload
    <2> QED
      BY <1>9, <2>1, OpcodeMovesUp DEF MalformedTx, WholePayload
  <1>10. ASSUME BadLength, KeepsUp PROVE OpcodeInv'
    <2>1. dev \in {"payload", "partial"} /\ rx # <<>> /\ dev' = "ready"
          /\ ~Opcode(rx[1])
      BY <1>10 DEF BadLength, RecvFailed
    <2>2. CASE rx' = Tail(rx)
      BY <1>10, <2>1, <2>2, OpcodeMovesUp
    <2>3. CASE rx' = <<JUNK>> \o Tail(rx)
      <3>1. \A i \in DOMAIN rx' : ~Opcode(rx'[i]) \/ (i \in 2..Len(rx) /\ rx'[i] = rx[i])
        BY <2>1, <2>3
      <3>2. ~behind' => ~behind
        BY <1>10, <2>1, <2>3 DEF KeepsUp
      <3> QED
        BY <2>1, <3>1, <3>2
    <2> QED
      BY <1>10, <2>2, <2>3 DEF BadLength
  <1>11. ASSUME SwallowBytes, KeepsUp PROVE OpcodeInv'
    <2>1. rx # <<>> /\ rx' = Tail(rx)
      BY <1>11 DEF SwallowBytes, WholePayload
    <2> QED
      BY <1>11, <2>1, OpcodeMovesUp DEF SwallowBytes, WholePayload
  <1>12. ASSUME IgnoreInResult, KeepsUp PROVE OpcodeInv'
    <2>1. rx # <<>> /\ rx' = Tail(rx)
      BY <1>12 DEF IgnoreInResult
    <2> QED
      BY <1>12, <2>1, OpcodeMovesUp DEF IgnoreInResult
  <1>13. ASSUME ReadResult, KeepsUp PROVE OpcodeInv'
    <2>1. rx # <<>> /\ rx' = Tail(rx)
      BY <1>13 DEF ReadResult
    <2> QED
      BY <1>13, <2>1, OpcodeMovesUp DEF ReadResult
  <1>14. ASSUME ReadHash, KeepsUp PROVE OpcodeInv'
    <2>1. rx # <<>> /\ rx' = Tail(rx)
      BY <1>14 DEF ReadHash
    <2> QED
      BY <1>14, <2>1, OpcodeMovesUp DEF ReadHash
  <1>15. ASSUME OpcodeTimeout, KeepsUp PROVE OpcodeInv'
    BY <1>15 DEF KeepsUp, OpcodeTimeout
  <1>16. ASSUME PayloadTimeout, KeepsUp PROVE OpcodeInv'
    BY <1>16 DEF KeepsUp, PayloadTimeout, RecvFailed
  <1>17. ASSUME HashTimeout, KeepsUp PROVE OpcodeInv'
    BY <1>17 DEF KeepsUp, HashTimeout
  <1>18. ASSUME Approve, KeepsUp PROVE OpcodeInv'
    BY <1>18 DEF KeepsUp, Approve, Marker
  <1>19. ASSUME Refuse, KeepsUp PROVE OpcodeInv'
    BY <1>19 DEF KeepsUp, Refuse
  <1>20. ASSUME LeaveResult, KeepsUp PROVE OpcodeInv'
    BY <1>20 DEF KeepsUp, LeaveResult
  <1>21. ASSUME Dismiss, KeepsUp PROVE OpcodeInv'
    BY <1>21 DEF KeepsUp, Dismiss
  <1>22. ASSUME CancelWipe, KeepsUp PROVE OpcodeInv'
    BY <1>22 DEF KeepsUp, CancelWipe
  <1>23. ASSUME PowerOn, KeepsUp PROVE OpcodeInv'
    BY <1>23 DEF KeepsUp, PowerOn
  <1>24. ASSUME OpenWipeScreen, KeepsUp PROVE OpcodeInv'
    BY <1>24 DEF KeepsUp, OpenWipeScreen, Fault
  <1>25. ASSUME LockOrWipe, KeepsUp PROVE OpcodeInv'
    BY <1>25 DEF KeepsUp, LockOrWipe
  <1>26. ASSUME PowerOff, KeepsUp PROVE OpcodeInv'
    BY <1>26 DEF KeepsUp, PowerOff, Fault
  <1>27. ASSUME PulseReady PROVE OpcodeInv'
    BY <1>27 DEF PulseReady
  <1>28. ASSUME SecondPulse PROVE OpcodeInv'
    BY <1>28 DEF SecondPulse, Fault
  <1> QED
    BY <1>1, <1>2, <1>3, <1>4, <1>5, <1>6, <1>7, <1>8, <1>9, <1>10, <1>11, <1>12, <1>13, <1>14, <1>15, <1>16, <1>17, <1>18, <1>19, <1>20, <1>21, <1>22, <1>23, <1>24, <1>25, <1>26, <1>27, <1>28
       DEF CartridgeNext, DeviceStep, DeviceTimeout, UserAnswers, Disturbances

\* What is left in the FIFO after a step of the cartridge.
Reads ==
    /\ rx = <<>> => rx' = <<>>
    /\ Len(rx) = 1 /\ rx[1].m = "ACK" => rx' \in {rx, <<>>}
    /\ behind' \/ ~behind \/ rx' = <<>>
    /\ \A i \in DOMAIN rx' : Opcode(rx'[i]) => \E j \in DOMAIN rx : rx[j] = rx'[i]

\* It reads in order, one byte or the rest of a message at a time.
LEMMA CartridgeReads ==
    ASSUME DevTypeOK, CartridgeNext
    PROVE  Reads
  <1>1. \/ rx' \in {rx, <<>>}
        \/ rx # <<>> /\ rx' = Tail(rx)
        \/ rx # <<>> /\ rx[1].m # "ACK" /\ rx' = <<JUNK>> \o Tail(rx)
    BY RxTail DEF CartridgeNext, DeviceStep, DeviceTimeout, UserAnswers, Disturbances,
           IgnoreByte, ReadAck, handle_heartbeat, handle_query, UnknownOpcode,
           BeginPayload, ShowRequest, RejectChain, MalformedTx, BadLength,
           SwallowBytes, IgnoreInResult, ReadResult, ReadHash, OpcodeTimeout,
           PayloadTimeout, HashTimeout, Approve, Refuse, LeaveResult, Dismiss,
           CancelWipe, PowerOn, OpenWipeScreen, LockOrWipe, PowerOff,
           PulseReady, SecondPulse, WholePayload, Arrived, AnyBytes
  <1>2. behind' \/ ~behind \/ rx' = <<>>
    BY DEF CartridgeNext, DeviceStep, DeviceTimeout, UserAnswers, Disturbances,
           KeepsUp, PulseReady, SecondPulse
  <1>3. CASE rx' \in {rx, <<>>}
    BY <1>2, <1>3 DEF Reads
  <1>4. CASE rx # <<>> /\ rx' = Tail(rx)
    <2>1. Len(rx) = 1 => rx' = <<>>
      BY <1>4, RxTail DEF DevTypeOK
    <2>2. \A i \in DOMAIN rx' : \E j \in DOMAIN rx : rx[j] = rx'[i]
      BY <1>4, RxTail
    <2> QED
      BY <1>2, <1>4, <2>1, <2>2 DEF Reads
  <1>5. CASE rx # <<>> /\ rx[1].m # "ACK" /\ rx' = <<JUNK>> \o Tail(rx)
    <2>1. ASSUME NEW i \in DOMAIN rx', Opcode(rx'[i])
          PROVE  \E j \in DOMAIN rx : rx[j] = rx'[i]
      <3>1. i \in 1..Len(rx) /\ i # 1
        BY <1>5, <2>1, RxRejunked DEF Opcode, JUNK, Msg
      <3>2. i \in 2..Len(rx) /\ i \in DOMAIN rx
        BY <1>5, <3>1, RxTail
      <3> QED
        BY <1>5, <3>2, RxRejunked
    <2> QED
      BY <1>2, <1>5, <2>1 DEF Reads
  <1> QED
    BY <1>1, <1>3, <1>4, <1>5

\* What it sends: from a clean state no answers, otherwise only answers to
\* the requests it knows of; a READY from the loop only; and nothing at all
\* while an opcode is left, unless a READY has overtaken it.
OnlyOf(r) ==
    /\ cur \in {Nobody, r}
    /\ \A i \in DOMAIN rx : Opcode(rx[i]) => rx[i].r = r

Sends(s) ==
    /\ wire' = wire \o s
    /\ Clean => /\ cur' = Nobody /\ dev' \in Calm
                /\ \A i \in DOMAIN s : s[i].m \notin Answers
    /\ \A r : OnlyOf(r) => /\ cur' \in {Nobody, r}
                           /\ \A i \in DOMAIN s : s[i].m \in Answers => s[i].r = r
    /\ \A i \in DOMAIN s : s[i].m = "READY" =>
          /\ Len(s) = 1 /\ dev' = "ready" /\ cur' = Nobody /\ rx' = rx
          /\ rx = <<>> \/ (~behind /\ behind' = (rx # <<>>))
    /\ s # <<>> => behind' \/ NoOpcode'

\* A handler that sends anything has read the opcode before.
LEMMA SendLeavesNone ==
    ASSUME DevTypeOK, PhaseInv, OpcodeInv, KeepsUp,
           dev \in {"opcode", "payload", "partial", "confirm"},
           \/ rx' = rx /\ (rx = <<>> \/ dev = "confirm")
           \/ rx # <<>> /\ rx' = Tail(rx)
           \/ rx # <<>> /\ rx[1].m # "OP" /\ rx' = <<JUNK>> \o Tail(rx)
    PROVE  behind' \/ NoOpcode'
  <1> SUFFICES ASSUME ~behind', rx' # <<>>
               PROVE  NoOpcode'
    BY DEF NoOpcode
  <1>1. ~behind
    BY DEF KeepsUp
  <1>2. CASE rx' = rx /\ (rx = <<>> \/ dev = "confirm")
    BY <1>1, <1>2 DEF OpcodeInv, NoOpcode, Calm, Dead
  <1>3. CASE rx # <<>> /\ rx' = Tail(rx)
    BY <1>3, OpcodeMovesUp DEF NoOpcode
  <1>4. CASE rx # <<>> /\ rx[1].m # "OP" /\ rx' = <<JUNK>> \o Tail(rx)
    <2>1. ASSUME NEW i \in DOMAIN rx', Opcode(rx'[i])
          PROVE  FALSE
      <3>1. DOMAIN rx' = 1..Len(rx) /\ rx'[1] = JUNK
        BY <1>4, RxRejunked
      <3>2. Len(rx) \in Nat /\ DOMAIN rx = 1..Len(rx)
        BY <1>4, RxTail
      <3>3. ~Opcode(JUNK)
        BY DEF Opcode, JUNK, Msg
      <3>4. i \in 2..Len(rx) /\ i \in DOMAIN rx
        BY ONLY <2>1, <3>1, <3>2, <3>3
      <3>5. rx'[i] = rx[i]
        BY <1>4, <3>4, RxRejunked
      <3>6. i = 2 /\ dev \in {"ready", "away"}
        BY ONLY OpcodeInv, <1>1, <2>1, <3>4, <3>5 DEF OpcodeInv
      <3> QED
        BY <3>6
    <2> QED
      BY <2>1 DEF NoOpcode
  <1> QED
    BY <1>2, <1>3, <1>4

\* One message, or an answer and DONE.
LEMMA CartridgeSends ==
    ASSUME DevTypeOK, PhaseInv, OpcodeInv, CartridgeNext
    PROVE  \E s \in Seq(ToHost) : Sends(s)
  <1>pair. ASSUME NEW b \in ToHost, wire' = wire \o <<b, DONE>>, cur' = Nobody,
               behind' \/ NoOpcode', b.m # "READY",
               Clean => dev' \in Calm /\ b.m \notin Answers,
               \A r : OnlyOf(r) /\ b.m \in Answers => b.r = r
        PROVE  \E s \in Seq(ToHost) : Sends(s)
    <2>1. DONE \in ToHost /\ DONE.m \notin Answers \cup {"READY"}
      BY DEF DONE, Msg, ToHost, Outgoing, Answers
    <2>2. <<b, DONE>> \in Seq(ToHost) /\ \A i \in DOMAIN <<b, DONE>> : <<b, DONE>>[i] \in {b, DONE}
      BY <2>1
    <2>3. Sends(<<b, DONE>>)
      BY ONLY <1>pair, <2>1, <2>2 DEF Sends
    <2> QED
      BY <2>2, <2>3
  <1>done. ASSUME wire' = wire \o <<DONE>>, cur' = Nobody, dev' \in Calm, behind' \/ NoOpcode'
        PROVE  \E s \in Seq(ToHost) : Sends(s)
    <2>1. DONE \in ToHost /\ DONE.m \notin Answers \cup {"READY"}
      BY DEF DONE, Msg, ToHost, Outgoing, Answers
    <2>2. <<DONE>> \in Seq(ToHost) /\ \A i \in DOMAIN <<DONE>> : <<DONE>>[i] = DONE
      BY <2>1
    <2>3. Sends(<<DONE>>)
      BY ONLY <1>done, <2>1, <2>2 DEF Sends
    <2> QED
      BY <2>2, <2>3
  <1>seqs. <<>> \in Seq(ToHost) /\ <<READY>> \in Seq(ToHost)
    BY DEF READY, Msg, ToHost, Outgoing
  <1>msgs. /\ \A m, r : Msg(m, r).m = m /\ Msg(m, r).r = r
        /\ READY.m = "READY" /\ CANCEL \in ToHost /\ CANCEL.m = "CANCEL"
        /\ "CANCEL" \notin Answers /\ "READY" \notin Answers
    BY DEF Msg, READY, CANCEL, ToHost, Outgoing, Answers
  <1>1. ASSUME IgnoreByte, KeepsUp PROVE \E s \in Seq(ToHost) : Sends(s)
    <2>1. Sends(<<>>)
      BY <1>1, RxTail, KindsAssumption DEF Sends, Clean, OnlyOf, NoOpcode, Opcode, Calm, Dead, DevTypeOK, PhaseInv, Arrived, AnyBytes, KeepsUp, IgnoreByte
    <2> QED
      BY <2>1, <1>seqs
  <1>2. ASSUME ReadAck, KeepsUp PROVE \E s \in Seq(ToHost) : Sends(s)
    <2>1. Sends(<<>>)
      BY <1>2, RxTail, KindsAssumption DEF Sends, Clean, OnlyOf, NoOpcode, Opcode, Calm, Dead, DevTypeOK, PhaseInv, Arrived, AnyBytes, KeepsUp, ReadAck
    <2> QED
      BY <2>1, <1>seqs
  <1>3. ASSUME handle_heartbeat, KeepsUp PROVE \E s \in Seq(ToHost) : Sends(s)
    <2>1. behind' \/ NoOpcode'
      BY <1>3, RxTail, SendLeavesNone DEF Arrived, KeepsUp, handle_heartbeat
    <2> QED
      BY <1>3, <2>1, <1>done DEF PhaseInv, Sent, Calm, handle_heartbeat
  <1>4. ASSUME handle_query, KeepsUp PROVE \E s \in Seq(ToHost) : Sends(s)
    <2>1. behind' \/ NoOpcode'
      BY <1>4, RxTail, SendLeavesNone DEF Arrived, Incoming, AnyBytes, KeepsUp, handle_query
    <2>2. wire' = wire \o <<Msg("DATA", Head(rx).r), DONE>> /\ cur' = Nobody
      BY <1>4, <1>msgs DEF PhaseInv, Sent, Dead, handle_query
    <2>3. Msg("DATA", Head(rx).r) \in ToHost /\ Msg("DATA", Head(rx).r).m # "READY"
      BY <1>4, RxTail, <1>msgs DEF Msg, Req, Arrived, ToDevice, ToHost, Outgoing, Answers, handle_query
    <2>4. Clean => dev' \in Calm /\ Msg("DATA", Head(rx).r).m \notin Answers
      BY <1>4, RxTail, KindsAssumption, <1>msgs DEF PhaseInv, Req, Arrived, Clean, Calm, NoOpcode, Opcode, KeepsUp, handle_query
    <2>5. \A r : OnlyOf(r) /\ Msg("DATA", Head(rx).r).m \in Answers => Msg("DATA", Head(rx).r).r = r
      BY <1>4, RxTail, KindsAssumption, <1>msgs DEF PhaseInv, Req, Arrived, OnlyOf, Opcode, KeepsUp, handle_query
    <2> QED
      BY <2>1, <2>2, <2>3, <2>4, <2>5, <1>pair, <1>done
  <1>5. ASSUME UnknownOpcode, KeepsUp PROVE \E s \in Seq(ToHost) : Sends(s)
    <2>1. behind' \/ NoOpcode'
      BY <1>5, RxTail, SendLeavesNone DEF Arrived, Incoming, AnyBytes, KeepsUp, UnknownOpcode
    <2>2. wire' = wire \o <<CANCEL, DONE>> /\ cur' = Nobody
      BY <1>5, <1>msgs DEF PhaseInv, Sent, Dead, UnknownOpcode
    <2>3. CANCEL \in ToHost /\ CANCEL.m # "READY"
      BY <1>5, RxTail, <1>msgs DEF PhaseInv, Req, Arrived, Incoming, ToDevice, ToHost, Outgoing, Answers, KeepsUp, UnknownOpcode
    <2>4. Clean => dev' \in Calm /\ CANCEL.m \notin Answers
      BY <1>5, RxTail, KindsAssumption, <1>msgs DEF PhaseInv, Req, Arrived, Clean, Calm, NoOpcode, Opcode, KeepsUp, UnknownOpcode
    <2>5. \A r : OnlyOf(r) /\ CANCEL.m \in Answers => CANCEL.r = r
      BY <1>5, RxTail, KindsAssumption, <1>msgs DEF PhaseInv, Req, Arrived, OnlyOf, Opcode, KeepsUp, UnknownOpcode
    <2> QED
      BY <2>1, <2>2, <2>3, <2>4, <2>5, <1>pair, <1>done
  <1>6. ASSUME BeginPayload, KeepsUp PROVE \E s \in Seq(ToHost) : Sends(s)
    <2>1. rx # <<>> /\ 1 \in DOMAIN rx /\ Head(rx) = rx[1] /\ wire' = wire /\ cur = Nobody
      BY <1>6, RxTail DEF BeginPayload, Arrived, PhaseInv
    <2>2. ASSUME rx[1].m = "OP", rx[1].r \in Asking, cur' = rx[1].r
          PROVE  Sends(<<>>)
      <3>1. Opcode(rx[1])
        BY <2>2, KindsAssumption DEF Opcode, Req
      <3> QED
        BY <2>1, <2>2, <3>1 DEF Sends, Clean, NoOpcode, OnlyOf, DevTypeOK
    <2>3. ASSUME cur' = Nobody, dev' = "partial"
          PROVE  Sends(<<>>)
      BY <2>1, <2>3 DEF Sends, Clean, OnlyOf, Calm, DevTypeOK
    <2>4. Sends(<<>>)
      BY <1>6, <2>1, <2>2, <2>3 DEF BeginPayload, Arrived
    <2> QED
      BY <2>4, <1>seqs
  <1>7. ASSUME ShowRequest, KeepsUp PROVE \E s \in Seq(ToHost) : Sends(s)
    <2>1. Sends(<<>>)
      BY <1>7, RxTail, KindsAssumption DEF Sends, Clean, OnlyOf, NoOpcode, Opcode, Calm, Dead, DevTypeOK, PhaseInv, Arrived, AnyBytes, KeepsUp, ShowRequest, WholePayload
    <2> QED
      BY <2>1, <1>seqs
  <1>8. ASSUME RejectChain, KeepsUp PROVE \E s \in Seq(ToHost) : Sends(s)
    <2>1. behind' \/ NoOpcode'
      BY <1>8, RxTail, SendLeavesNone DEF Arrived, Incoming, AnyBytes, KeepsUp, RejectChain, WholePayload
    <2>2. wire' = wire \o <<Msg("REJECT", cur), DONE>> /\ cur' = Nobody
      BY <1>8, <1>msgs DEF Sent, KeepsUp, RejectChain, WholePayload
    <2>3. Msg("REJECT", cur) \in ToHost /\ Msg("REJECT", cur).m # "READY"
      BY <1>8, RxTail, <1>msgs DEF Msg, PhaseInv, Req, ToHost, Outgoing, Answers, RejectChain, WholePayload
    <2>4. Clean => dev' \in Calm /\ Msg("REJECT", cur).m \notin Answers
      BY <1>8, RxTail, KindsAssumption, <1>msgs DEF PhaseInv, Req, Arrived, Clean, Calm, NoOpcode, Opcode, KeepsUp, RejectChain, WholePayload
    <2>5. \A r : OnlyOf(r) /\ Msg("REJECT", cur).m \in Answers => Msg("REJECT", cur).r = r
      BY <1>8, RxTail, KindsAssumption, <1>msgs DEF PhaseInv, Req, Arrived, OnlyOf, Opcode, KeepsUp, RejectChain, WholePayload
    <2> QED
      BY <2>1, <2>2, <2>3, <2>4, <2>5, <1>pair, <1>done
  <1>9. ASSUME MalformedTx, KeepsUp PROVE \E s \in Seq(ToHost) : Sends(s)
    <2>1. behind' \/ NoOpcode'
      BY <1>9, RxTail, SendLeavesNone DEF Arrived, Incoming, AnyBytes, KeepsUp, MalformedTx, WholePayload
    <2>2. wire' = wire \o <<CANCEL, DONE>> /\ cur' = Nobody
      BY <1>9, <1>msgs DEF Sent, KeepsUp, MalformedTx, WholePayload
    <2>3. CANCEL \in ToHost /\ CANCEL.m # "READY"
      BY <1>9, RxTail, <1>msgs DEF PhaseInv, Req, Arrived, Incoming, ToDevice, ToHost, Outgoing, Answers, KeepsUp, MalformedTx, WholePayload
    <2>4. Clean => dev' \in Calm /\ CANCEL.m \notin Answers
      BY <1>9, RxTail, KindsAssumption, <1>msgs DEF PhaseInv, Req, Arrived, Clean, Calm, NoOpcode, Opcode, KeepsUp, MalformedTx, WholePayload
    <2>5. \A r : OnlyOf(r) /\ CANCEL.m \in Answers => CANCEL.r = r
      BY <1>9, RxTail, KindsAssumption, <1>msgs DEF PhaseInv, Req, Arrived, OnlyOf, Opcode, KeepsUp, MalformedTx, WholePayload
    <2> QED
      BY <2>1, <2>2, <2>3, <2>4, <2>5, <1>pair, <1>done
  <1>10. ASSUME BadLength, KeepsUp PROVE \E s \in Seq(ToHost) : Sends(s)
    <2>1. CASE wire' = wire
      <3>1. Sends(<<>>)
        BY <1>10, <2>1, RxTail, KindsAssumption DEF Sends, Clean, OnlyOf, NoOpcode, Opcode, Calm, DevTypeOK, PhaseInv, KeepsUp, BadLength, RecvFailed, WholePayload
      <3> QED
        BY <3>1, <1>seqs
    <2>2. CASE wire' = wire \o <<CANCEL, DONE>>
      <3>1. behind' \/ NoOpcode'
        BY <1>10, <2>2, RxTail, SendLeavesNone DEF Arrived, Incoming, AnyBytes, KeepsUp, BadLength, RecvFailed, WholePayload
      <3>2. wire' = wire \o <<CANCEL, DONE>> /\ cur' = Nobody
        BY <1>10, <2>2, <1>msgs DEF Sent, KeepsUp, BadLength, RecvFailed, WholePayload
      <3>3. CANCEL \in ToHost /\ CANCEL.m # "READY"
        BY <1>10, <2>2, RxTail, <1>msgs DEF PhaseInv, Req, Arrived, Incoming, ToDevice, ToHost, Outgoing, Answers, KeepsUp, BadLength, RecvFailed, WholePayload
      <3>4. Clean => dev' \in Calm /\ CANCEL.m \notin Answers
        BY <1>10, <2>2, RxTail, KindsAssumption, <1>msgs DEF PhaseInv, Req, Arrived, Clean, Calm, NoOpcode, Opcode, KeepsUp, BadLength, RecvFailed, WholePayload
      <3>5. \A r : OnlyOf(r) /\ CANCEL.m \in Answers => CANCEL.r = r
        BY <1>10, <2>2, RxTail, KindsAssumption, <1>msgs DEF PhaseInv, Req, Arrived, OnlyOf, Opcode, KeepsUp, BadLength, RecvFailed, WholePayload
      <3> QED
        BY <3>1, <3>2, <3>3, <3>4, <3>5, <1>pair, <1>done
    <2> QED
      BY <1>10, <2>1, <2>2, FailureSends DEF BadLength
  <1>11. ASSUME SwallowBytes, KeepsUp PROVE \E s \in Seq(ToHost) : Sends(s)
    <2>1. Sends(<<>>)
      BY <1>11, RxTail, KindsAssumption DEF Sends, Clean, OnlyOf, NoOpcode, Opcode, Calm, Dead, DevTypeOK, PhaseInv, Arrived, AnyBytes, KeepsUp, SwallowBytes, WholePayload
    <2> QED
      BY <2>1, <1>seqs
  <1>12. ASSUME IgnoreInResult, KeepsUp PROVE \E s \in Seq(ToHost) : Sends(s)
    <2>1. Sends(<<>>)
      BY <1>12, RxTail, KindsAssumption DEF Sends, Clean, OnlyOf, NoOpcode, Opcode, Calm, Dead, DevTypeOK, PhaseInv, Arrived, AnyBytes, KeepsUp, IgnoreInResult
    <2> QED
      BY <2>1, <1>seqs
  <1>13. ASSUME ReadResult, KeepsUp PROVE \E s \in Seq(ToHost) : Sends(s)
    <2>1. Sends(<<>>)
      BY <1>13, RxTail, KindsAssumption DEF Sends, Clean, OnlyOf, NoOpcode, Opcode, Calm, Dead, DevTypeOK, PhaseInv, Arrived, AnyBytes, KeepsUp, ReadResult
    <2> QED
      BY <2>1, <1>seqs
  <1>14. ASSUME ReadHash, KeepsUp PROVE \E s \in Seq(ToHost) : Sends(s)
    <2>1. Sends(<<>>)
      BY <1>14, RxTail, KindsAssumption DEF Sends, Clean, OnlyOf, NoOpcode, Opcode, Calm, Dead, DevTypeOK, PhaseInv, Arrived, AnyBytes, KeepsUp, ReadHash
    <2> QED
      BY <2>1, <1>seqs
  <1>15. ASSUME OpcodeTimeout, KeepsUp PROVE \E s \in Seq(ToHost) : Sends(s)
    <2>1. Sends(<<>>)
      BY <1>15, RxTail, KindsAssumption DEF Sends, Clean, OnlyOf, NoOpcode, Opcode, Calm, Dead, DevTypeOK, PhaseInv, Arrived, AnyBytes, KeepsUp, OpcodeTimeout
    <2> QED
      BY <2>1, <1>seqs
  <1>16. ASSUME PayloadTimeout, KeepsUp PROVE \E s \in Seq(ToHost) : Sends(s)
    <2>1. CASE wire' = wire
      <3>1. Sends(<<>>)
        BY <1>16, <2>1, RxTail, KindsAssumption DEF Sends, Clean, OnlyOf, NoOpcode, Opcode, Calm, DevTypeOK, PhaseInv, KeepsUp, PayloadTimeout, RecvFailed
      <3> QED
        BY <3>1, <1>seqs
    <2>2. CASE wire' = wire \o <<CANCEL, DONE>>
      <3>1. behind' \/ NoOpcode'
        BY <1>16, <2>2, RxTail, SendLeavesNone DEF Arrived, Incoming, AnyBytes, KeepsUp, PayloadTimeout, RecvFailed
      <3>2. wire' = wire \o <<CANCEL, DONE>> /\ cur' = Nobody
        BY <1>16, <2>2, <1>msgs DEF Sent, KeepsUp, PayloadTimeout, RecvFailed
      <3>3. CANCEL \in ToHost /\ CANCEL.m # "READY"
        BY <1>16, <2>2, RxTail, <1>msgs DEF PhaseInv, Req, Arrived, Incoming, ToDevice, ToHost, Outgoing, Answers, KeepsUp, PayloadTimeout, RecvFailed
      <3>4. Clean => dev' \in Calm /\ CANCEL.m \notin Answers
        BY <1>16, <2>2, RxTail, KindsAssumption, <1>msgs DEF PhaseInv, Req, Arrived, Clean, Calm, NoOpcode, Opcode, KeepsUp, PayloadTimeout, RecvFailed
      <3>5. \A r : OnlyOf(r) /\ CANCEL.m \in Answers => CANCEL.r = r
        BY <1>16, <2>2, RxTail, KindsAssumption, <1>msgs DEF PhaseInv, Req, Arrived, OnlyOf, Opcode, KeepsUp, PayloadTimeout, RecvFailed
      <3> QED
        BY <3>1, <3>2, <3>3, <3>4, <3>5, <1>pair, <1>done
    <2> QED
      BY <1>16, <2>1, <2>2, FailureSends DEF PayloadTimeout
  <1>17. ASSUME HashTimeout, KeepsUp PROVE \E s \in Seq(ToHost) : Sends(s)
    <2>1. Sends(<<>>)
      BY <1>17, RxTail, KindsAssumption DEF Sends, Clean, OnlyOf, NoOpcode, Opcode, Calm, Dead, DevTypeOK, PhaseInv, Arrived, AnyBytes, KeepsUp, HashTimeout
    <2> QED
      BY <2>1, <1>seqs
  <1>18. ASSUME Approve, KeepsUp PROVE \E s \in Seq(ToHost) : Sends(s)
    <2>1. behind' \/ NoOpcode'
      BY <1>18, RxTail, SendLeavesNone DEF Arrived, Incoming, AnyBytes, KeepsUp, Approve, Marker
    <2>2. wire' = wire \o <<Msg(Marker(cur), cur), DONE>> /\ cur' = Nobody
      BY <1>18, <1>msgs DEF Sent, KeepsUp, Approve, Marker
    <2>3. Msg(Marker(cur), cur) \in ToHost /\ Msg(Marker(cur), cur).m # "READY"
      BY <1>18, RxTail, <1>msgs DEF Msg, PhaseInv, Req, ToHost, Outgoing, Answers, Approve, Marker
    <2>4. Clean => dev' \in Calm /\ Msg(Marker(cur), cur).m \notin Answers
      BY <1>18, RxTail, KindsAssumption, <1>msgs DEF PhaseInv, Req, Arrived, Clean, Calm, NoOpcode, Opcode, KeepsUp, Approve, Marker
    <2>5. \A r : OnlyOf(r) /\ Msg(Marker(cur), cur).m \in Answers => Msg(Marker(cur), cur).r = r
      BY <1>18, RxTail, KindsAssumption, <1>msgs DEF PhaseInv, Req, Arrived, OnlyOf, Opcode, KeepsUp, Approve, Marker
    <2> QED
      BY <2>1, <2>2, <2>3, <2>4, <2>5, <1>pair, <1>done
  <1>19. ASSUME Refuse, KeepsUp PROVE \E s \in Seq(ToHost) : Sends(s)
    <2>1. behind' \/ NoOpcode'
      BY <1>19, RxTail, SendLeavesNone DEF Arrived, Incoming, AnyBytes, KeepsUp, Refuse
    <2>2. wire' = wire \o <<CANCEL, DONE>> /\ cur' = Nobody
      BY <1>19, <1>msgs DEF Sent, KeepsUp, Refuse
    <2>3. CANCEL \in ToHost /\ CANCEL.m # "READY"
      BY <1>19, RxTail, <1>msgs DEF PhaseInv, Req, Arrived, Incoming, ToDevice, ToHost, Outgoing, Answers, KeepsUp, Refuse
    <2>4. Clean => dev' \in Calm /\ CANCEL.m \notin Answers
      BY <1>19, RxTail, KindsAssumption, <1>msgs DEF PhaseInv, Req, Arrived, Clean, Calm, NoOpcode, Opcode, KeepsUp, Refuse
    <2>5. \A r : OnlyOf(r) /\ CANCEL.m \in Answers => CANCEL.r = r
      BY <1>19, RxTail, KindsAssumption, <1>msgs DEF PhaseInv, Req, Arrived, OnlyOf, Opcode, KeepsUp, Refuse
    <2> QED
      BY <2>1, <2>2, <2>3, <2>4, <2>5, <1>pair, <1>done
  <1>20. ASSUME LeaveResult, KeepsUp PROVE \E s \in Seq(ToHost) : Sends(s)
    <2>1. Sends(<<>>)
      BY <1>20, RxTail, KindsAssumption DEF Sends, Clean, OnlyOf, NoOpcode, Opcode, Calm, Dead, DevTypeOK, PhaseInv, Arrived, AnyBytes, KeepsUp, LeaveResult
    <2> QED
      BY <2>1, <1>seqs
  <1>21. ASSUME Dismiss, KeepsUp PROVE \E s \in Seq(ToHost) : Sends(s)
    <2>1. Sends(<<>>)
      BY <1>21, RxTail, KindsAssumption DEF Sends, Clean, OnlyOf, NoOpcode, Opcode, Calm, Dead, DevTypeOK, PhaseInv, Arrived, AnyBytes, KeepsUp, Dismiss
    <2> QED
      BY <2>1, <1>seqs
  <1>22. ASSUME CancelWipe, KeepsUp PROVE \E s \in Seq(ToHost) : Sends(s)
    <2>1. Sends(<<>>)
      BY <1>22, RxTail, KindsAssumption DEF Sends, Clean, OnlyOf, NoOpcode, Opcode, Calm, Dead, DevTypeOK, PhaseInv, Arrived, AnyBytes, KeepsUp, CancelWipe
    <2> QED
      BY <2>1, <1>seqs
  <1>23. ASSUME PowerOn, KeepsUp PROVE \E s \in Seq(ToHost) : Sends(s)
    <2>1. Sends(<<>>)
      BY <1>23, RxTail, KindsAssumption DEF Sends, Clean, OnlyOf, NoOpcode, Opcode, Calm, Dead, DevTypeOK, PhaseInv, Arrived, AnyBytes, KeepsUp, PowerOn
    <2> QED
      BY <2>1, <1>seqs
  <1>24. ASSUME OpenWipeScreen, KeepsUp PROVE \E s \in Seq(ToHost) : Sends(s)
    <2>1. Sends(<<>>)
      BY <1>24, RxTail, KindsAssumption DEF Sends, Clean, OnlyOf, NoOpcode, Opcode, Calm, Dead, DevTypeOK, PhaseInv, Arrived, AnyBytes, KeepsUp, OpenWipeScreen, Fault
    <2> QED
      BY <2>1, <1>seqs
  <1>25. ASSUME LockOrWipe, KeepsUp PROVE \E s \in Seq(ToHost) : Sends(s)
    <2>1. Sends(<<>>)
      BY <1>25, RxTail, KindsAssumption DEF Sends, Clean, OnlyOf, NoOpcode, Opcode, Calm, Dead, DevTypeOK, PhaseInv, Arrived, AnyBytes, KeepsUp, LockOrWipe
    <2> QED
      BY <2>1, <1>seqs
  <1>26. ASSUME PowerOff, KeepsUp PROVE \E s \in Seq(ToHost) : Sends(s)
    <2>1. Sends(<<>>)
      BY <1>26, RxTail, KindsAssumption DEF Sends, Clean, OnlyOf, NoOpcode, Opcode, Calm, Dead, DevTypeOK, PhaseInv, Arrived, AnyBytes, KeepsUp, PowerOff, Fault
    <2> QED
      BY <2>1, <1>seqs
  <1>27. ASSUME PulseReady PROVE \E s \in Seq(ToHost) : Sends(s)
    <2>1. <<READY>>[1] = READY /\ DOMAIN <<READY>> = {1} /\ Len(<<READY>>) = 1
      OBVIOUS
    <2>2. behind' \/ NoOpcode'
      BY <1>27 DEF NoOpcode, DevTypeOK, PulseReady
    <2>3. Sends(<<READY>>)
      BY <1>27, <2>1, <2>2, <1>msgs DEF Sends, Sent, Clean, Calm, OnlyOf, PhaseInv, DevTypeOK, PulseReady
    <2> QED
      BY <2>3, <1>seqs
  <1>28. ASSUME SecondPulse PROVE \E s \in Seq(ToHost) : Sends(s)
    <2>1. <<READY>>[1] = READY /\ DOMAIN <<READY>> = {1} /\ Len(<<READY>>) = 1
      OBVIOUS
    <2>2. behind' \/ NoOpcode'
      <3>1. CASE rx = <<>>
        BY <1>28, <3>1 DEF NoOpcode, SecondPulse
      <3>2. CASE rx # <<>>
        BY <1>28, <3>2 DEF SecondPulse
      <3> QED
        BY <3>1, <3>2
    <2>3. Sends(<<READY>>)
      BY <1>28, <2>1, <2>2, <1>msgs DEF Sends, Sent, Clean, Calm, OnlyOf, PhaseInv, DevTypeOK, SecondPulse, Fault
    <2> QED
      BY <2>3, <1>seqs
  <1> QED
    BY <1>1, <1>2, <1>3, <1>4, <1>5, <1>6, <1>7, <1>8, <1>9, <1>10, <1>11, <1>12, <1>13, <1>14, <1>15, <1>16, <1>17, <1>18, <1>19, <1>20, <1>21, <1>22, <1>23, <1>24, <1>25, <1>26, <1>27, <1>28
       DEF CartridgeNext, DeviceStep, DeviceTimeout, UserAnswers, Disturbances

\* What was clean stays so, and no new opcode appears.
LEMMA CartridgeCalms ==
    ASSUME Reads, NEW s, Sends(s)
    PROVE  /\ NoOpcode => NoOpcode'
           /\ Clean => Clean'
           /\ behind \/ NoOpcode => behind' \/ NoOpcode'
           /\ behind \/ rx = <<>> => behind' \/ rx' = <<>>
           /\ \A r : OnlyOf(r) => OnlyOf(r)'
  <1>1. NoOpcode => NoOpcode'
    BY DEF Reads, NoOpcode
  <1>2. Clean => Clean'
    BY <1>1 DEF Sends, Clean
  <1>3. rx' = <<>> => NoOpcode'
    BY DEF NoOpcode
  <1>4. \A r : OnlyOf(r) => OnlyOf(r)'
    BY DEF Reads, Sends, OnlyOf
  <1> QED
    BY <1>1, <1>2, <1>3, <1>4 DEF Reads

\* What it sends comes behind what is still to be read.
LEMMA StreamGrows ==
    ASSUME buf \in Seq(ToHost), wire \in Seq(ToHost), buf' = buf,
           NEW s \in Seq(ToHost), wire' = wire \o s
    PROVE  /\ Stream \in Seq(ToHost) /\ Stream' = Stream \o s
           /\ Len(Stream) \in Nat /\ DOMAIN Stream = 1..Len(Stream)
           /\ Len(s) \in Nat /\ DOMAIN s = 1..Len(s)
           /\ DOMAIN Stream' = 1..(Len(Stream) + Len(s))
           /\ \A i \in 1..Len(Stream) : Stream'[i] = Stream[i]
           /\ \A i \in DOMAIN Stream' : i \notin 1..Len(Stream) =>
                 /\ i > Len(Stream) /\ i - Len(Stream) \in DOMAIN s
                 /\ Stream'[i] = s[i - Len(Stream)]
           /\ \A i, j \in DOMAIN Stream' :
                 i > Len(Stream) /\ Len(s) = 1 => ~(j > i)
  <1>1. Stream \in Seq(ToHost)
    BY Behind DEF Stream
  <1>2. Stream' = Stream \o s
    BY ConcatAssociative DEF Stream
  <1>3. /\ Len(Stream) \in Nat /\ Len(s) \in Nat
        /\ DOMAIN Stream = 1..Len(Stream) /\ DOMAIN s = 1..Len(s)
        /\ DOMAIN Stream' = 1..(Len(Stream) + Len(s))
    BY <1>1, <1>2, Behind
  <1>4. \A i \in 1..Len(Stream) : Stream'[i] = Stream[i]
    BY <1>1, <1>2, Behind
  <1>5. \A i \in (Len(Stream) + 1)..(Len(Stream) + Len(s)) :
           i - Len(Stream) \in DOMAIN s /\ Stream'[i] = s[i - Len(Stream)]
    BY <1>1, <1>2, Behind
  <1>6. ASSUME NEW i \in DOMAIN Stream', i \notin 1..Len(Stream)
        PROVE  i > Len(Stream) /\ i \in (Len(Stream) + 1)..(Len(Stream) + Len(s))
    BY <1>3, <1>6
  <1>7. ASSUME NEW i \in DOMAIN Stream', NEW j \in DOMAIN Stream',
               i > Len(Stream), Len(s) = 1
        PROVE  ~(j > i)
    BY <1>3, <1>7
  <1> QED
    BY <1>1, <1>2, <1>3, <1>4, <1>5, <1>6, <1>7

\* While an operation waits for READY.
LEMMA CartridgeReady ==
    ASSUME DevTypeOK, buf \in Seq(ToHost), ReadyInv, Reads,
           NEW s \in Seq(ToHost), Sends(s), UNCHANGED <<step, buf, orphans>>
    PROVE  ReadyInv'
  <1> SUFFICES ASSUME step = "ready"
               PROVE  ReadyInv'
    BY DEF ReadyInv
  <1>1. wire \in Seq(ToHost) /\ wire' = wire \o s
    BY DEF DevTypeOK, Sends
  <1>2. ASSUME NEW i \in DOMAIN Stream', Stream'[i].m = "READY"
        PROVE  /\ i > 1 \/ orphans = 0 =>
                     /\ Clean'
                     /\ \A j \in DOMAIN Stream' : j > i => Stream'[j].m \notin Answers
               /\ behind' \/ rx' = <<>>
    <2>1. CASE i \in 1..Len(Stream)
      <3>1. i \in DOMAIN Stream /\ Stream[i].m = "READY"
        BY <1>1, <1>2, <2>1, StreamGrows
      <3>2. behind' \/ rx' = <<>>
        BY <3>1, CartridgeCalms DEF ReadyInv
      <3>3. ASSUME i > 1 \/ orphans = 0
            PROVE  Clean /\ \A j \in DOMAIN Stream : j > i => Stream[j].m \notin Answers
        BY <3>1, <3>3 DEF ReadyInv
      <3>4. ASSUME Clean, \A j \in DOMAIN Stream : j > i => Stream[j].m \notin Answers,
                   NEW j \in DOMAIN Stream', j > i
            PROVE  Stream'[j].m \notin Answers
        <4>1. CASE j \in 1..Len(Stream)
          BY <1>1, <3>4, <4>1, StreamGrows
        <4>2. CASE j \notin 1..Len(Stream)
          <5>1. j - Len(Stream) \in DOMAIN s /\ Stream'[j] = s[j - Len(Stream)]
            BY <1>1, <3>4, <4>2, StreamGrows
          <5> QED
            BY <3>4, <5>1 DEF Sends
        <4> QED
          BY <4>1, <4>2
      <3> QED
        BY <3>2, <3>3, <3>4, CartridgeCalms
    <2>2. CASE i \notin 1..Len(Stream)
      <3>1. i - Len(Stream) \in DOMAIN s /\ s[i - Len(Stream)].m = "READY" /\ i > Len(Stream)
        BY <1>1, <1>2, <2>2, StreamGrows
      <3>2. /\ Len(s) = 1 /\ dev' = "ready" /\ cur' = Nobody /\ rx' = rx
            /\ rx = <<>> \/ (~behind /\ behind' = (rx # <<>>))
        BY <3>1 DEF Sends
      <3>3. \A j \in DOMAIN Stream' : ~(j > i)
        BY <1>1, <3>1, <3>2, StreamGrows
      <3>4. behind' \/ rx' = <<>>
        BY <3>2
      <3>5. i > 1 => Stream # <<>>
        BY <1>1, <3>1, <3>2, StreamGrows, SMTT(30)
      <3>6. ASSUME i > 1 \/ orphans = 0 PROVE NoOpcode'
        <4>1. behind \/ NoOpcode
          BY <3>5, <3>6 DEF ReadyInv
        <4>2. CASE rx = <<>>
          BY <3>2, <4>2 DEF NoOpcode
        <4>3. CASE ~behind
          BY <3>2, <4>1, <4>3 DEF NoOpcode
        <4> QED
          BY <3>2, <4>2, <4>3
      <3>7. i > 1 \/ orphans = 0 => Clean'
        BY <3>2, <3>6 DEF Clean, Calm
      <3> QED
        BY <3>3, <3>4, <3>7
    <2> QED
      BY <2>1, <2>2
  <1>3. ASSUME Stream' # <<>> \/ orphans = 0 PROVE behind' \/ NoOpcode'
    <2>1. CASE s # <<>>
      BY <2>1 DEF Sends
    <2>2. CASE s = <<>>
      <3>1. Stream' = Stream
        BY <1>1, <2>2, StreamGrows, ConcatEmptySeq
      <3> QED
        BY <1>3, <3>1, CartridgeCalms DEF ReadyInv
    <2> QED
      BY <2>1, <2>2
  <1> QED
    BY <1>2, <1>3 DEF ReadyInv

\* From the ACK to the end of the answer.
LEMMA CartridgeAnswers ==
    ASSUME DevTypeOK, buf \in Seq(ToHost), AckInv, OwnInv, Reads,
           NEW s \in Seq(ToHost), Sends(s), UNCHANGED <<step, buf, queue, got>>
    PROVE  AckInv' /\ OwnInv'
  <1>1. wire \in Seq(ToHost) /\ wire' = wire \o s
    BY DEF DevTypeOK, Sends
  <1>2. ASSUME step = "opcode"
        PROVE  AckInv'
    <2>1. Clean' /\ Clean
      BY <1>2, CartridgeCalms DEF AckInv
    <2>2. behind' \/ rx' = <<>> \/ (Len(rx') = 1 /\ rx'[1].m = "ACK")
      BY <1>2 DEF AckInv, Reads
    <2>3. ASSUME NEW i \in DOMAIN Stream'
          PROVE  Stream'[i].m \notin Answers
      <3>1. CASE i \in 1..Len(Stream)
        BY <1>1, <1>2, <3>1, StreamGrows DEF AckInv
      <3>2. CASE i \notin 1..Len(Stream)
        <4>1. i - Len(Stream) \in DOMAIN s /\ Stream'[i] = s[i - Len(Stream)]
          BY <1>1, <2>3, <3>2, StreamGrows
        <4> QED
          BY <2>1, <4>1 DEF Sends
      <3> QED
        BY <3>1, <3>2
    <2> QED
      BY <2>1, <2>2, <2>3 DEF AckInv
  <1>3. ASSUME step \in Answering
        PROVE  OwnInv'
    <2>1. OnlyOf(Running.r) /\ OnlyOf(Running.r)' /\ Running' = Running
      <3>1. OnlyOf(Running.r)
        BY <1>3 DEF OwnInv, OnlyOf
      <3>2. cur' \in {Nobody, Running.r}
        BY <3>1 DEF Sends
      <3>3. \A i \in DOMAIN rx' : Opcode(rx'[i]) => rx'[i].r = Running.r
        BY <3>1 DEF Reads, OnlyOf
      <3> QED
        BY <3>1, <3>2, <3>3 DEF OnlyOf, Running
    <2>2. ASSUME NEW i \in DOMAIN Stream', Stream'[i].m \in Answers
          PROVE  Stream'[i].r = Running.r
      <3>1. CASE i \in 1..Len(Stream)
        <4>1. i \in DOMAIN Stream /\ Stream'[i] = Stream[i]
          BY <1>1, <3>1, StreamGrows
        <4> QED
          BY <1>3, <2>2, <4>1 DEF OwnInv
      <3>2. CASE i \notin 1..Len(Stream)
        <4>1. i - Len(Stream) \in DOMAIN s /\ Stream'[i] = s[i - Len(Stream)]
          BY <1>1, <2>2, <3>2, StreamGrows
        <4> QED
          BY <2>1, <2>2, <4>1 DEF Sends
      <3> QED
        BY <3>1, <3>2
    <2>3. got'.m \in Answers => got'.r = Running.r
      BY <1>3 DEF OwnInv
    <2> QED
      BY <2>1, <2>2, <2>3 DEF OwnInv, OnlyOf
  <1> QED
    BY <1>2, <1>3 DEF AckInv, OwnInv

\* Every step of the cartridge keeps the invariant.
LEMMA CartridgeKeeps ==
    ASSUME LinkInv, CartridgeNext, UNCHANGED <<hostVars, swVars>>
    PROVE  LinkInv'
  <1> USE DEF LinkInv, TypeOK, hostVars, swVars
  <1>1. TypeOK'
    BY CartridgeTyped DEF HostTypeOK
  <1>2. PhaseInv' /\ OpcodeInv'
    BY CartridgePhase, CartridgeOpcode
  <1>3. StepInv' /\ OrphanInv' /\ WorkerInv'
    BY DEF StepInv, OrphanInv, WorkerInv, OnlyBeats, Running
  <1>4. buf \in Seq(ToHost)
    BY DEF HostTypeOK
  <1>5. Reads
    BY CartridgeReads
  <1>6. PICK s \in Seq(ToHost) : Sends(s)
    BY CartridgeSends
  <1>7. ReadyInv'
    BY <1>4, <1>5, <1>6, CartridgeReady
  <1>8. AckInv' /\ OwnInv'
    BY <1>4, <1>5, <1>6, CartridgeAnswers
  <1> QED
    BY <1>1, <1>2, <1>3, <1>7, <1>8

----
(* The lock *)

\* An operation joins the queue: the one at work stays where it is.
LEMMA QueueGrows ==
    ASSUME HostTypeOK, NEW job \in Jobs, Enqueue(job)
    PROVE  /\ queue' \in Seq(Jobs) /\ Len(queue') <= MaxWaiting /\ queue' # <<>>
           /\ Len(queue) \in Nat /\ DOMAIN queue = 1..Len(queue)
           /\ DOMAIN queue' = 1..(Len(queue) + 1)
           /\ queue'[Len(queue) + 1] = job
           /\ \A i \in DOMAIN queue : queue'[i] = queue[i]
           /\ queue # <<>> => Running' = Running
  <1>1. queue \in Seq(Jobs) /\ queue' = Append(queue, job) /\ Len(queue) < MaxWaiting
    BY DEF HostTypeOK, Enqueue
  <1>2. /\ queue' \in Seq(Jobs) /\ queue' # <<>>
        /\ Len(queue) \in Nat /\ DOMAIN queue = 1..Len(queue)
        /\ Len(queue') = Len(queue) + 1 /\ DOMAIN queue' = 1..(Len(queue) + 1)
        /\ queue'[Len(queue) + 1] = job
        /\ \A i \in DOMAIN queue : queue'[i] = queue[i]
    BY <1>1, AppendProperties, LenProperties
  <1>3. Len(queue') <= MaxWaiting
    BY <1>1, <1>2, HostBoundsAssumption
  <1>4. queue # <<>> => Running' = Running
    BY <1>1, <1>2, Behead DEF Running
  <1> QED
    BY <1>2, <1>3, <1>4

\* The operation at work leaves it.
LEMMA QueueShrinks ==
    ASSUME HostTypeOK, queue # <<>>
    PROVE  /\ Running \in Jobs /\ Running = queue[1] /\ 1 \in DOMAIN queue
           /\ Tail(queue) \in Seq(Jobs) /\ Len(Tail(queue)) <= MaxWaiting
           /\ Len(queue) \in Nat \ {0} /\ DOMAIN queue = 1..Len(queue)
           /\ DOMAIN Tail(queue) = 1..(Len(queue) - 1)
           /\ \A i \in DOMAIN Tail(queue) :
                 i + 1 \in DOMAIN queue /\ Tail(queue)[i] = queue[i + 1]
  <1>1. queue \in Seq(Jobs) /\ Len(queue) <= MaxWaiting
    BY DEF HostTypeOK
  <1> QED
    BY <1>1, Behead, HostBoundsAssumption DEF Running

\* What a job is about.
LEMMA JobKinds ==
    ASSUME NEW j \in Jobs
    PROVE  /\ j.op = "ask" => j.r \in Req /\ j = Job("ask", j.r)
           /\ j.op = "beat" => j.r = Beat /\ j.r \notin Req
           /\ j.op = "result" => j.r \in Tx /\ j.r \in Req
           /\ j.op \in {"ask", "beat", "result"}
  BY KindsAssumption DEF Jobs, Job, Req, Asking

\* The lock passes on: the worker's answer, if it is the worker's.
LEMMA FinishKeepsWorker ==
    ASSUME TypeOK, WorkerInv, queue # <<>>, NEW out \in Outcomes, Finish(out), UNCHANGED swVars,
           Running.op # "beat" /\ Running.r \in Tx => out \notin {"ok", "data"},
           Running.op = "result" => out # "sig"
    PROVE  WorkerInv'
  <1> USE DEF TypeOK, swVars
  <1>1. /\ Running \in Jobs /\ Running = queue[1] /\ 1 \in DOMAIN queue
        /\ Len(queue) \in Nat \ {0} /\ DOMAIN queue = 1..Len(queue)
        /\ DOMAIN queue' = 1..(Len(queue) - 1) /\ queue' = Tail(queue)
        /\ \A i \in DOMAIN queue' : i + 1 \in DOMAIN queue /\ queue'[i] = queue[i + 1]
    BY QueueShrinks DEF Finish
  <1>2. /\ step' = "idle" /\ sw' = sw /\ outcome' = outcome
        /\ Running.op # "result" => window' = (window \/ (out = "sig" /\ Running.r \in Tx))
        /\ Running.op = "beat" => reply' = reply
        /\ Running.op # "beat" => reply'.r = Running.r /\ reply'.out = out
    BY DEF Finish
  <1>3. OnlyBeats(queue) => OnlyBeats(queue') /\ Running.op = "beat"
    BY <1>1 DEF OnlyBeats
  <1>4. Running.op = "beat" => Running.r \notin Req
    BY <1>1, JobKinds
  <1>5. ASSUME sw.st = "asked", reply.r = sw.r, OnlyBeats(queue),
               reply.out \in Positive /\ sw.r \in Tx => window /\ step = "idle"
        PROVE  /\ reply'.r = sw'.r /\ OnlyBeats(queue')
               /\ reply'.out \in Positive /\ sw'.r \in Tx => window' /\ step' = "idle"
    BY <1>2, <1>3, <1>5
  <1>6. ASSUME sw.st = "asked", reply.r # sw.r, NEW j \in DOMAIN queue,
               queue[j] = Job("ask", sw.r),
               \A i \in DOMAIN queue : /\ i < j => queue[i].r # sw.r
                                       /\ i > j => queue[i].op = "beat"
        PROVE  \/ /\ reply'.r = sw'.r /\ OnlyBeats(queue')
                  /\ reply'.out \in Positive /\ sw'.r \in Tx => window' /\ step' = "idle"
               \/ /\ reply'.r # sw'.r
                  /\ \E k \in DOMAIN queue' :
                        /\ queue'[k] = Job("ask", sw'.r)
                        /\ \A i \in DOMAIN queue' :
                              /\ i < k => queue'[i].r # sw'.r
                              /\ i > k => queue'[i].op = "beat"
    <2>1. CASE j = 1
      <3>1. Running.op = "ask" /\ Running.r = sw.r
        BY <1>1, <1>6, <2>1 DEF Job
      <3>2. OnlyBeats(queue')
        BY <1>1, <1>6, <2>1 DEF OnlyBeats
      <3>3. reply'.out \in Positive /\ sw'.r \in Tx => window' /\ step' = "idle"
        BY <1>2, <3>1 DEF Positive
      <3> QED
        BY <1>2, <3>1, <3>2, <3>3
    <2>2. CASE j # 1
      <3>1. j - 1 \in DOMAIN queue' /\ queue'[j - 1] = Job("ask", sw'.r)
        BY <1>1, <1>2, <1>6, <2>2
      <3>2. ASSUME NEW i \in DOMAIN queue'
            PROVE  /\ i < j - 1 => queue'[i].r # sw'.r
                   /\ i > j - 1 => queue'[i].op = "beat"
        <4>1. i \in Int /\ j \in Int /\ i + 1 \in DOMAIN queue /\ queue'[i] = queue[i + 1]
          BY <1>1, <1>6
        <4> QED
          BY <1>2, <1>6, <4>1
      <3>3. reply'.r # sw'.r
        <4>1. Running.r # sw.r
          BY <1>1, <1>6, <2>2
        <4> QED
          BY <1>2, <1>6, <4>1
      <3> QED
        BY <3>1, <3>2, <3>3
    <2> QED
      BY <2>1, <2>2
  <1>7. sw'.st = "due" => window' /\ step' = "idle" /\ OnlyBeats(queue')
    BY <1>2, <1>3 DEF WorkerInv
  <1>8. sw'.st = "overdue" => OnlyBeats(queue')
    BY <1>2, <1>3 DEF WorkerInv
  <1>9. reply'.out \in {"ok", "data"} => reply'.r \notin Tx
    BY <1>2 DEF WorkerInv
  <1>10. ASSUME NEW r \in Req, outcome'[r] = NotAsked
         PROVE  reply'.r # r /\ \A i \in DOMAIN queue' : queue'[i].r # r
    <2>1. reply.r # r /\ \A i \in DOMAIN queue : queue[i].r # r
      BY <1>2, <1>10 DEF WorkerInv
    <2> QED
      BY <1>1, <1>2, <2>1
  <1>11. sw'.st = "asked" =>
            \/ /\ reply'.r = sw'.r /\ OnlyBeats(queue')
               /\ reply'.out \in Positive /\ sw'.r \in Tx => window' /\ step' = "idle"
            \/ /\ reply'.r # sw'.r
               /\ \E k \in DOMAIN queue' :
                     /\ queue'[k] = Job("ask", sw'.r)
                     /\ \A i \in DOMAIN queue' :
                           /\ i < k => queue'[i].r # sw'.r
                           /\ i > k => queue'[i].op = "beat"
    BY <1>2, <1>5, <1>6 DEF WorkerInv
  <1> QED
    BY <1>2, <1>7, <1>8, <1>9, <1>10, <1>11 DEF WorkerInv

----
(* The worker *)

\* A step that leaves the line and the operation at work alone.
LEMMA SameLine ==
    ASSUME LinkInv, UNCHANGED <<dev, cur, rx, wire, behind, step, buf, orphans, got>>,
           step # "idle" => Running' = Running
    PROVE  PhaseInv' /\ OrphanInv' /\ OpcodeInv' /\ ReadyInv' /\ AckInv' /\ OwnInv'
  <1> USE DEF LinkInv
  <1>1. Stream' = Stream /\ (Clean <=> Clean') /\ (NoOpcode <=> NoOpcode')
    BY DEF Stream, Clean, NoOpcode
  <1>2. PhaseInv' /\ OrphanInv' /\ OpcodeInv'
    BY DEF PhaseInv, OrphanInv, OpcodeInv
  <1>3. ReadyInv'
    BY <1>1 DEF ReadyInv
  <1>4. AckInv'
    BY <1>1 DEF AckInv
  <1>5. OwnInv'
    BY <1>1 DEF OwnInv, Answering
  <1> QED
    BY <1>2, <1>3, <1>4, <1>5

\* A request is put behind what the page has still to do.
LEMMA SubmitKeeps ==
    ASSUME LinkInv, NEW r \in Req, Submit(r)
    PROVE  LinkInv'
  <1> USE DEF LinkInv, TypeOK, WorkerOnly, HostOnly, At, Settle
  <1>1. Job("ask", r) \in Jobs
    BY DEF Job, Jobs
  <1>2. /\ queue' \in Seq(Jobs) /\ Len(queue') <= MaxWaiting /\ queue' # <<>>
        /\ Len(queue) \in Nat /\ DOMAIN queue = 1..Len(queue)
        /\ DOMAIN queue' = 1..(Len(queue) + 1)
        /\ queue'[Len(queue) + 1] = Job("ask", r)
        /\ \A i \in DOMAIN queue : queue'[i] = queue[i]
        /\ queue # <<>> => Running' = Running
    BY <1>1, QueueGrows DEF Submit
  <1>3. /\ sw.st = "idle" /\ outcome[r] = NotAsked /\ port # "closed"
        /\ sw' = [st |-> "asked", r |-> r] /\ outcome' = [outcome EXCEPT ![r] = "asked"]
        /\ UNCHANGED <<dev, cur, rx, wire, behind, approved, faults>>
        /\ UNCHANGED <<port, step, buf, orphans, skips, got, window, reply>>
    BY DEF Submit
  <1>4. step # "idle" => Running' = Running
    BY <1>2 DEF HostTypeOK
  <1>5. TypeOK'
    BY <1>2, <1>3 DEF DevTypeOK, HostTypeOK
  <1>6. StepInv'
    BY <1>3, <1>4 DEF StepInv, Answering
  <1>7. WorkerInv'
    <2>1. reply.r # r /\ \A i \in DOMAIN queue : queue[i].r # r
      BY <1>3 DEF WorkerInv
    <2>2. \E j \in DOMAIN queue' :
             /\ queue'[j] = Job("ask", sw'.r)
             /\ \A i \in DOMAIN queue' :
                   /\ i < j => queue'[i].r # sw'.r
                   /\ i > j => queue'[i].op = "beat"
      <3>1. Len(queue) + 1 \in DOMAIN queue' /\ queue'[Len(queue) + 1] = Job("ask", sw'.r)
        BY <1>2, <1>3
      <3>2. \A i \in DOMAIN queue' :
               /\ i < Len(queue) + 1 => queue'[i].r # sw'.r
               /\ i > Len(queue) + 1 => queue'[i].op = "beat"
        BY <1>2, <1>3, <2>1
      <3> QED
        BY <3>1, <3>2
    <2>3. ASSUME NEW x \in Req, outcome'[x] = NotAsked
          PROVE  reply'.r # x /\ \A i \in DOMAIN queue' : queue'[i].r # x
      <3>1. x # r /\ outcome[x] = NotAsked
        BY <1>3, <2>3 DEF NotAsked
      <3>2. reply.r # x /\ \A i \in DOMAIN queue : queue[i].r # x
        BY <3>1 DEF WorkerInv
      <3> QED
        BY <1>2, <1>3, <3>1, <3>2 DEF Job
    <2>4. outcome'[sw'.r] = "asked"
      BY <1>3
    <2>5. reply'.out \in {"ok", "data"} => reply'.r \notin Tx
      BY <1>3 DEF WorkerInv
    <2> QED
      BY <1>3, <2>1, <2>2, <2>3, <2>4, <2>5 DEF WorkerInv
  <1> QED
    BY <1>3, <1>4, <1>5, <1>6, <1>7, SameLine

\* The result of a broadcast is put there.
LEMMA TellKeeps ==
    ASSUME LinkInv, Tell
    PROVE  LinkInv'
  <1> USE DEF LinkInv, TypeOK, WorkerOnly, HostOnly, At
  <1>1. sw.r \in Tx /\ sw.r \in Req /\ sw.st \in {"due", "overdue"}
    BY DEF Tell, WorkerInv, Req, Asking
  <1>2. Job("result", sw.r) \in Jobs
    BY <1>1 DEF Job, Jobs
  <1>3. /\ queue' \in Seq(Jobs) /\ Len(queue') <= MaxWaiting /\ queue' # <<>>
        /\ Len(queue) \in Nat /\ DOMAIN queue = 1..Len(queue)
        /\ DOMAIN queue' = 1..(Len(queue) + 1)
        /\ queue'[Len(queue) + 1] = Job("result", sw.r)
        /\ \A i \in DOMAIN queue : queue'[i] = queue[i]
        /\ queue # <<>> => Running' = Running
    BY <1>2, QueueGrows DEF Tell
  <1>4. /\ sw' = [st |-> "told", r |-> sw.r] /\ outcome' = outcome
        /\ UNCHANGED <<dev, cur, rx, wire, behind, approved, faults>>
        /\ UNCHANGED <<port, step, buf, orphans, skips, got, window, reply>>
    BY DEF Tell
  <1>5. step # "idle" => Running' = Running
    BY <1>3 DEF HostTypeOK
  <1>6. TypeOK'
    BY <1>1, <1>3, <1>4 DEF DevTypeOK, HostTypeOK
  <1>7. StepInv'
    BY <1>1, <1>4, <1>5 DEF StepInv, Answering
  <1>8. WorkerInv'
    <2>1. outcome[sw.r] = "asked"
      BY <1>1 DEF WorkerInv
    <2>2. ASSUME NEW x \in Req, outcome'[x] = NotAsked
          PROVE  reply'.r # x /\ \A i \in DOMAIN queue' : queue'[i].r # x
      <3>1. x # sw.r /\ outcome[x] = NotAsked
        BY <1>4, <2>1, <2>2 DEF NotAsked
      <3>2. reply.r # x /\ \A i \in DOMAIN queue : queue[i].r # x
        BY <3>1 DEF WorkerInv
      <3> QED
        BY <1>3, <1>4, <3>1, <3>2 DEF Job
    <2>3. reply'.out \in {"ok", "data"} => reply'.r \notin Tx
      BY <1>4 DEF WorkerInv
    <2> QED
      BY <1>1, <1>4, <2>1, <2>2, <2>3 DEF WorkerInv
  <1> QED
    BY <1>4, <1>5, <1>6, <1>7, <1>8, SameLine

\* A response is taken, or thrown away.
LEMMA RepliesKeep ==
    ASSUME LinkInv, Fails \/ Succeeds \/ Told \/ StaleReply
    PROVE  LinkInv'
  <1> USE DEF LinkInv, TypeOK, WorkerOnly, HostOnly, At, Settle, Granted, Refused
  <1>1. /\ UNCHANGED <<dev, cur, rx, wire, behind, approved, faults>>
        /\ UNCHANGED <<port, queue, step, buf, orphans, skips, got, window>>
        /\ Running' = Running /\ reply' = NoReply
    BY DEF Fails, Succeeds, Told, StaleReply, Running
  <1>2. NoReply.r \notin Req /\ NoReply.out \notin {"ok", "data"} \cup Positive
    BY KindsAssumption DEF NoReply, Positive
  <1>3. \/ sw' = [st |-> "idle", r |-> Nobody] /\ sw.r \in Req
           /\ \E o \in {"cancelled", "failed", "signed", "allowed", "read"} :
                 outcome' = [outcome EXCEPT ![sw.r] = o]
        \/ /\ sw' = [st |-> "due", r |-> sw.r] /\ outcome' = outcome
           /\ sw.st = "asked" /\ sw.r \in Tx /\ sw.r \in Req
           /\ reply.r = sw.r /\ reply.out \in Positive
        \/ sw' = sw /\ outcome' = outcome /\ reply.r # sw.r
    <2>1. CASE Fails
      BY <2>1 DEF Fails, Answered
    <2>2. CASE Succeeds
      BY <2>2 DEF Succeeds, Answered, Positive, Req, Asking
    <2>3. CASE Told
      BY <2>3 DEF Told
    <2>4. CASE StaleReply
      BY <2>4 DEF StaleReply, swVars
    <2> QED
      BY <2>1, <2>2, <2>3, <2>4
  <1>4. TypeOK'
    <2>1. DevTypeOK' /\ HostTypeOK'
      BY <1>1 DEF DevTypeOK, HostTypeOK
    <2>2. /\ sw' \in [st : {"idle"}, r : {Nobody}] \cup [st : {"asked", "due", "overdue", "told"}, r : Req]
          /\ outcome' \in [Req -> {NotAsked, "asked"} \cup Granted \cup Refused]
      BY <1>3
    <2> QED
      BY <2>1, <2>2
  <1>5. StepInv'
    BY <1>1, <1>3 DEF StepInv
  <1>6. WorkerInv'
    <2>1. ASSUME NEW x \in Req, outcome'[x] = NotAsked
          PROVE  reply'.r # x /\ \A i \in DOMAIN queue' : queue'[i].r # x
      <3>1. outcome[x] = NotAsked
        BY <1>3, <2>1 DEF NotAsked
      <3> QED
        BY <1>1, <1>2, <3>1 DEF WorkerInv
    <2>2. CASE sw' = [st |-> "idle", r |-> Nobody]
      BY <1>1, <1>2, <2>1, <2>2 DEF WorkerInv
    <2>3. CASE /\ sw' = [st |-> "due", r |-> sw.r] /\ outcome' = outcome
               /\ sw.st = "asked" /\ sw.r \in Tx
               /\ reply.r = sw.r /\ reply.out \in Positive
      <3>1. OnlyBeats(queue) /\ window /\ step = "idle" /\ outcome[sw.r] = "asked"
        BY <2>3 DEF WorkerInv
      <3>2. OnlyBeats(queue')
        BY <1>1, <3>1
      <3> QED
        BY <1>1, <1>2, <2>1, <2>3, <3>1, <3>2 DEF WorkerInv
    <2>4. CASE sw' = sw /\ outcome' = outcome /\ reply.r # sw.r
      <3>1. sw.st = "asked" => reply'.r # sw.r
        BY <1>1, <1>2
      <3>2. OnlyBeats(queue) <=> OnlyBeats(queue')
        BY <1>1
      <3> QED
        BY <1>1, <1>2, <2>1, <2>4, <3>1, <3>2 DEF WorkerInv
    <2> QED
      BY <1>3, <2>2, <2>3, <2>4
  <1> QED
    BY <1>1, <1>4, <1>5, <1>6, SameLine

\* A heartbeat is queued.
LEMMA TickKeeps ==
    ASSUME LinkInv, TickStep
    PROVE  LinkInv'
  <1> USE DEF LinkInv, TypeOK, HostOnly, swVars
  <1>1. Job("beat", Beat) \in Jobs
    BY DEF Jobs
  <1>2. /\ queue' \in Seq(Jobs) /\ Len(queue') <= MaxWaiting /\ queue' # <<>>
        /\ Len(queue) \in Nat /\ DOMAIN queue = 1..Len(queue)
        /\ DOMAIN queue' = 1..(Len(queue) + 1)
        /\ queue'[Len(queue) + 1] = Job("beat", Beat)
        /\ \A i \in DOMAIN queue : queue'[i] = queue[i]
        /\ queue # <<>> => Running' = Running
    BY <1>1, QueueGrows DEF TickStep, heartbeatTick
  <1>3. /\ port # "closed" /\ ~window
        /\ UNCHANGED <<sw, outcome, dev, cur, rx, wire, behind, approved, faults>>
        /\ UNCHANGED <<port, step, buf, orphans, skips, got, window, reply>>
    BY DEF TickStep, heartbeatTick
  <1>4. step # "idle" => Running' = Running
    BY <1>2 DEF HostTypeOK
  <1>5. TypeOK'
    BY <1>2, <1>3 DEF DevTypeOK, HostTypeOK
  <1>6. StepInv'
    BY <1>3, <1>4 DEF StepInv, Answering
  <1>7. queue'[Len(queue) + 1].op = "beat" /\ queue'[Len(queue) + 1].r \notin Req
    BY <1>2, KindsAssumption DEF Job
  <1>8. OnlyBeats(queue) => OnlyBeats(queue')
    BY <1>2, <1>7 DEF OnlyBeats
  <1>9. WorkerInv'
    <2>1. ASSUME NEW x \in Req, outcome'[x] = NotAsked
          PROVE  reply'.r # x /\ \A i \in DOMAIN queue' : queue'[i].r # x
      BY <1>2, <1>3, <1>7, <2>1 DEF WorkerInv
    <2>2. ASSUME NEW j \in DOMAIN queue, queue[j] = Job("ask", sw.r),
                 \A i \in DOMAIN queue : /\ i < j => queue[i].r # sw.r
                                         /\ i > j => queue[i].op = "beat"
          PROVE  /\ j \in DOMAIN queue' /\ queue'[j] = Job("ask", sw'.r)
                 /\ \A i \in DOMAIN queue' : /\ i < j => queue'[i].r # sw'.r
                                             /\ i > j => queue'[i].op = "beat"
      BY <1>2, <1>3, <1>7, <2>2
    <2>3. sw.st = "asked" =>
            \/ /\ reply'.r = sw'.r /\ OnlyBeats(queue')
               /\ reply'.out \in Positive /\ sw'.r \in Tx => window' /\ step' = "idle"
            \/ /\ reply'.r # sw'.r
               /\ \E k \in DOMAIN queue' :
                     /\ queue'[k] = Job("ask", sw'.r)
                     /\ \A i \in DOMAIN queue' :
                           /\ i < k => queue'[i].r # sw'.r
                           /\ i > k => queue'[i].op = "beat"
      BY <1>3, <1>8, <2>2 DEF WorkerInv
    <2> QED
      BY <1>3, <1>8, <2>1, <2>3 DEF WorkerInv
  <1> QED
    BY <1>3, <1>4, <1>5, <1>6, <1>9, SameLine

\* The worker is stopped: what it had asked for goes on without it.
LEMMA RestartKeeps ==
    ASSUME LinkInv, WorkerRestart
    PROVE  LinkInv'
  <1> USE DEF LinkInv, TypeOK, At, Settle, hostVars, Fault
  <1>1. /\ UNCHANGED <<dev, cur, rx, wire, behind, approved>>
        /\ UNCHANGED <<port, queue, step, buf, orphans, skips, got, window, reply>>
        /\ Running' = Running
        /\ sw.r \in Req /\ sw' = [st |-> "idle", r |-> Nobody]
        /\ outcome' = [outcome EXCEPT ![sw.r] = "dropped"]
        /\ faults' \in 0..MaxFaults
    BY BoundsAssumption DEF WorkerRestart, Running, DevTypeOK
  <1>2. TypeOK'
    BY <1>1 DEF DevTypeOK, HostTypeOK, Refused, Granted
  <1>3. StepInv' /\ WorkerInv'
    <2>1. ASSUME NEW x \in Req, outcome'[x] = NotAsked
          PROVE  outcome[x] = NotAsked
      BY <1>1, <2>1 DEF NotAsked
    <2> QED
      BY <1>1, <2>1 DEF StepInv, WorkerInv
  <1> QED
    BY <1>1, <1>2, <1>3, SameLine

\* The window's timer goes off.
LEMMA WindowKeeps ==
    ASSUME LinkInv, WindowClosed
    PROVE  LinkInv'
  <1> USE DEF LinkInv, TypeOK, HostOnly
  <1>1. /\ UNCHANGED <<dev, cur, rx, wire, behind, approved, faults, outcome>>
        /\ UNCHANGED <<port, queue, step, buf, orphans, skips, got, reply>>
        /\ Running' = Running /\ window' = FALSE
        /\ sw.st = "asked" => reply.r # sw.r
        /\ sw' = IF sw.st = "due" THEN [sw EXCEPT !.st = "overdue"] ELSE sw
    BY DEF WindowClosed, WindowTimeout, Running, Answered
  <1>2. TypeOK'
    BY <1>1 DEF DevTypeOK, HostTypeOK
  <1>3. StepInv'
    BY <1>1 DEF StepInv
  <1>4. OnlyBeats(queue) <=> OnlyBeats(queue')
    BY <1>1
  <1>5. WorkerInv'
    <2>1. CASE sw.st = "due"
      <3>1. sw'.st = "overdue" /\ sw'.r = sw.r
        BY <1>1, <2>1
      <3> QED
        BY <1>1, <1>4, <2>1, <3>1 DEF WorkerInv
    <2>2. CASE sw.st # "due"
      BY <1>1, <1>4, <2>2 DEF WorkerInv
    <2> QED
      BY <2>1, <2>2
  <1> QED
    BY <1>1, <1>2, <1>3, <1>5, SameLine

\* The page starts anew, with the worker.
LEMMA ReloadKeeps ==
    ASSUME LinkInv, ExtensionReload
    PROVE  LinkInv'
  <1> USE DEF LinkInv, TypeOK, At, Fault
  <1>1. /\ UNCHANGED <<dev, cur, rx, wire, behind, approved>>
        /\ port' = "closed" /\ queue' = <<>> /\ step' = "idle" /\ buf' = <<>>
        /\ orphans' = 0 /\ skips' = 0 /\ got' = DONE /\ window' = FALSE /\ reply' = NoReply
        /\ sw' = [st |-> "idle", r |-> Nobody]
        /\ outcome' = [r \in Req |-> IF r = sw.r THEN "dropped" ELSE outcome[r]]
        /\ faults' \in 0..MaxFaults
    BY BoundsAssumption DEF ExtensionReload, Reload, DevTypeOK
  <1>2. TypeOK'
    <2>1. DevTypeOK'
      BY <1>1 DEF DevTypeOK
    <2>2. DONE \in ToHost
      BY DEF DONE, Msg, ToHost, Outgoing
    <2>3. <<>> \in Seq(Jobs) /\ Len(<<>>) = 0 /\ <<>> \in Seq(ToHost)
      OBVIOUS
    <2>4. 0 \in 0..MaxOrphans /\ 0 \in 0..(ReadySkips - 1) /\ 0 <= MaxWaiting
      BY HostBoundsAssumption
    <2>5. HostTypeOK'
      BY <1>1, <2>2, <2>3, <2>4 DEF HostTypeOK
    <2>6. outcome' \in [Req -> {NotAsked, "asked"} \cup Granted \cup Refused]
      BY <1>1 DEF Refused
    <2> QED
      BY <1>1, <2>1, <2>5, <2>6
  <1>3. StepInv' /\ OrphanInv' /\ ReadyInv' /\ AckInv' /\ OwnInv'
    BY <1>1 DEF StepInv, OrphanInv, ReadyInv, AckInv, OwnInv, Answering
  <1>4. PhaseInv' /\ OpcodeInv'
    BY <1>1 DEF PhaseInv, OpcodeInv
  <1>5. WorkerInv'
    <2>1. NoReply.r \notin Req /\ NoReply.out \notin {"ok", "data"}
      BY KindsAssumption DEF NoReply
    <2> QED
      BY <1>1, <2>1 DEF WorkerInv
  <1> QED
    BY <1>2, <1>3, <1>4, <1>5

\* The session is opened, before anything is asked.
LEMMA OpenKeeps ==
    ASSUME LinkInv, Connected
    PROVE  LinkInv'
  <1> USE DEF LinkInv, TypeOK, HostOnly, swVars
  <1>1. /\ UNCHANGED <<dev, cur, rx, behind, approved, faults, sw, outcome>>
        /\ UNCHANGED <<queue, step, skips, got, window, reply>>
        /\ port = "closed" /\ port' = "open" /\ wire' = <<>> /\ buf' = <<>>
        /\ orphans' = Orphaned(0)
    BY DEF Connected, OpenPort
  <1>2. step = "idle" /\ step' = "idle"
    BY <1>1 DEF StepInv, HostTypeOK
  <1>3. orphans' \in 0..MaxOrphans
    BY <1>1, HostBoundsAssumption DEF Orphaned
  <1>4. TypeOK'
    BY <1>1, <1>3 DEF DevTypeOK, HostTypeOK
  <1>5. StepInv' /\ OrphanInv' /\ ReadyInv' /\ AckInv' /\ OwnInv'
    BY <1>1, <1>2 DEF StepInv, OrphanInv, ReadyInv, AckInv, OwnInv, Answering
  <1>6. PhaseInv' /\ OpcodeInv'
    BY <1>1 DEF PhaseInv, OpcodeInv
  <1>7. WorkerInv'
    BY <1>1 DEF WorkerInv, OnlyBeats
  <1> QED
    BY <1>4, <1>5, <1>6, <1>7

----
(* Reading *)

\* A chunk goes to the operation, or an orphaned read takes it.
LEMMA FetchShifts ==
    ASSUME buf \in Seq(ToHost), wire \in Seq(ToHost), orphans \in Nat, Fetch
    PROVE  /\ wire' \in Seq(ToHost) /\ buf' \in Seq(ToHost)
           /\ orphans = 0 => Stream' = Stream /\ orphans' = 0
           /\ orphans > 0 => orphans' = orphans - 1 /\ buf' = buf
           /\ orphans > 0 /\ buf = <<>> =>
                 /\ Stream # <<>>
                 /\ \E n \in Nat \ {0} : \A i \in DOMAIN Stream' :
                       /\ i \in Nat \ {0} /\ i + n \in DOMAIN Stream
                       /\ Stream'[i] = Stream[i + n]
  <1>1. PICK n \in 1..Len(wire) :
          /\ wire' = SubSeq(wire, n + 1, Len(wire))
          /\ IF orphans > 0
             THEN orphans' = orphans - 1 /\ buf' = buf
             ELSE orphans' = orphans /\ buf' = SubSeq(wire, 1, n)
    BY DEF Fetch
  <1>2. /\ Len(wire) \in Nat /\ n \in Nat /\ n > 0 /\ n <= Len(wire)
        /\ DOMAIN wire = 1..Len(wire) /\ \A i \in 1..Len(wire) : wire[i] \in ToHost
    OBVIOUS
  <1>3. /\ wire' \in Seq(ToHost)
        /\ Len(wire') = Len(wire) - n /\ DOMAIN wire' = 1..(Len(wire) - n)
        /\ \A i \in 1..(Len(wire) - n) : wire'[i] = wire[i + n]
    <2>1. n + 1 \in Int /\ Len(wire) \in Int /\ \A i \in (n + 1)..Len(wire) : wire[i] \in ToHost
      BY <1>2
    <2>2. /\ wire' \in Seq(ToHost)
          /\ Len(wire') = IF n + 1 <= Len(wire) THEN Len(wire) - (n + 1) + 1 ELSE 0
          /\ \A i \in 1..(Len(wire) - (n + 1) + 1) : wire'[i] = wire[(n + 1) + i - 1]
      BY <1>1, <2>1, SubSeqProperties
    <2>3. Len(wire') = Len(wire) - n /\ DOMAIN wire' = 1..(Len(wire) - n)
      <3>1. n \in Nat /\ Len(wire) \in Nat /\ n <= Len(wire)
        BY ONLY <1>2
      <3>2. Len(wire') = IF n + 1 <= Len(wire) THEN Len(wire) - (n + 1) + 1 ELSE 0
        BY ONLY <2>2
      <3>3. Len(wire') = Len(wire) - n
        BY ONLY <3>1, <3>2
      <3>4. wire' \in Seq(ToHost)
        BY ONLY <2>2
      <3> QED
        BY ONLY <3>3, <3>4, LenProperties
    <2>4. ASSUME NEW i \in 1..(Len(wire) - n)
          PROVE  wire'[i] = wire[i + n]
      <3>1. i \in 1..(Len(wire) - (n + 1) + 1) /\ (n + 1) + i - 1 = i + n
        BY <1>2
      <3> QED
        BY <2>2, <3>1
    <2> QED
      BY <2>2, <2>3, <2>4
  <1>4. SubSeq(wire, 1, n) \in Seq(ToHost)
    BY <1>2
  <1>5. buf' \in Seq(ToHost)
    BY <1>1, <1>4
  <1>6. ASSUME orphans = 0 PROVE Stream' = Stream
    <2>1. buf = <<>>
      BY <1>6 DEF Fetch
    <2>2. Stream = wire
      BY <2>1, ConcatEmptySeq DEF Stream
    <2>3. Stream' = SubSeq(wire, 1, n) \o SubSeq(wire, n + 1, Len(wire))
      <3>1. wire' = SubSeq(wire, n + 1, Len(wire)) /\ buf' = SubSeq(wire, 1, n)
        BY <1>1, <1>6
      <3> QED
        BY <3>1 DEF Stream
    <2>4. SubSeq(wire, 1, n) \o SubSeq(wire, n + 1, Len(wire)) = SubSeq(wire, 1, Len(wire))
      <3>1. 1 \in 1..(Len(wire) + 1) /\ n \in (1 - 1)..Len(wire) /\ Len(wire) \in n..Len(wire)
        BY <1>2
      <3> QED
        BY <3>1, ConcatAdjacentSubSeq
    <2>5. SubSeq(wire, 1, Len(wire)) = wire
      BY SubSeqFull
    <2> QED
      BY <2>2, <2>3, <2>4, <2>5
  <1>7. ASSUME orphans > 0, buf = <<>>
        PROVE  Stream = wire /\ Stream' = wire' /\ Stream # <<>>
    <2>1. buf' = <<>> /\ wire # <<>>
      BY <1>1, <1>2, <1>7
    <2> QED
      BY <1>3, <1>7, <2>1, ConcatEmptySeq DEF Stream
  <1>8. ASSUME orphans > 0, buf = <<>>, NEW i \in DOMAIN Stream'
        PROVE  i \in Nat \ {0} /\ i + n \in DOMAIN Stream /\ Stream'[i] = Stream[i + n]
    <2>1. i \in 1..(Len(wire) - n)
      BY <1>3, <1>7, <1>8
    <2>2. i \in Nat \ {0} /\ i + n \in 1..Len(wire)
      BY <1>2, <2>1
    <2> QED
      BY <1>2, <1>3, <1>7, <1>8, <2>1, <2>2
  <1>9. ASSUME orphans > 0, buf = <<>>
        PROVE  \E k \in Nat \ {0} : \A i \in DOMAIN Stream' :
                  /\ i \in Nat \ {0} /\ i + k \in DOMAIN Stream
                  /\ Stream'[i] = Stream[i + k]
    <2>1. \A i \in DOMAIN Stream' :
             /\ i \in Nat \ {0} /\ i + n \in DOMAIN Stream
             /\ Stream'[i] = Stream[i + n]
      BY <1>8, <1>9
    <2>2. n \in Nat \ {0}
      BY ONLY <1>2
    <2> QED
      BY ONLY <2>1, <2>2
  <1>10. (orphans = 0 => orphans' = 0) /\ (orphans > 0 => orphans' = orphans - 1 /\ buf' = buf)
    BY <1>1
  <1> QED
    BY ONLY <1>3, <1>5, <1>6, <1>7, <1>9, <1>10

\* Every chunk an orphaned read takes brings the operation nearer to a READY
\* that was sent after everything of earlier requests.
LEMMA FetchKeeps ==
    ASSUME LinkInv, FetchStep
    PROVE  LinkInv'
  <1> USE DEF LinkInv, TypeOK, HostOnly, swVars
  <1>1. buf \in Seq(ToHost) /\ wire \in Seq(ToHost) /\ orphans \in Nat /\ orphans <= MaxOrphans
    BY HostBoundsAssumption DEF DevTypeOK, HostTypeOK
  <1>2. /\ UNCHANGED <<dev, cur, rx, behind, approved, faults, sw, outcome>>
        /\ UNCHANGED <<port, queue, step, skips, got, window, reply>>
        /\ Running' = Running /\ (Clean <=> Clean') /\ (NoOpcode <=> NoOpcode')
    BY DEF FetchStep, Fetch, Running, Clean, NoOpcode
  <1>3. /\ wire' \in Seq(ToHost) /\ buf' \in Seq(ToHost)
        /\ orphans = 0 => Stream' = Stream /\ orphans' = 0
        /\ orphans > 0 => orphans' = orphans - 1 /\ buf' = buf
        /\ orphans > 0 /\ buf = <<>> =>
              /\ Stream # <<>>
              /\ \E n \in Nat \ {0} : \A i \in DOMAIN Stream' :
                    /\ i \in Nat \ {0} /\ i + n \in DOMAIN Stream
                    /\ Stream'[i] = Stream[i + n]
    BY <1>1, FetchShifts DEF FetchStep
  <1>4. orphans' \in 0..MaxOrphans
    BY <1>1, <1>3, HostBoundsAssumption
  <1>5. TypeOK'
    BY <1>2, <1>3, <1>4 DEF DevTypeOK, HostTypeOK
  <1>6. StepInv' /\ PhaseInv' /\ OpcodeInv' /\ WorkerInv'
    BY <1>2 DEF StepInv, PhaseInv, OpcodeInv, WorkerInv, OnlyBeats
  <1>7. OrphanInv'
    <2>1. CASE orphans = 0
      BY <1>2, <1>3, <2>1 DEF OrphanInv
    <2>2. CASE orphans > 0
      BY <1>1, <1>2, <1>3, <2>2 DEF OrphanInv
    <2> QED
      BY <1>1, <2>1, <2>2
  <1>8. ReadyInv'
    <2>1. CASE orphans = 0
      BY <1>2, <1>3, <2>1 DEF ReadyInv
    <2>2. CASE orphans > 0 /\ step = "ready"
      <3>1. buf = <<>>
        BY <2>2 DEF OrphanInv
      <3>2. PICK n \in Nat \ {0} : \A i \in DOMAIN Stream' :
               /\ i \in Nat \ {0} /\ i + n \in DOMAIN Stream
               /\ Stream'[i] = Stream[i + n]
        BY <1>3, <2>2, <3>1
      <3>3. ASSUME NEW i \in DOMAIN Stream', Stream'[i].m = "READY"
            PROVE  /\ Clean'
                   /\ \A j \in DOMAIN Stream' : j > i => Stream'[j].m \notin Answers
                   /\ behind' \/ rx' = <<>>
        <4>1. /\ i \in Nat \ {0} /\ i + n \in DOMAIN Stream /\ i + n > 1
              /\ Stream[i + n].m = "READY"
          BY <3>2, <3>3
        <4>2. /\ Clean
              /\ behind \/ rx = <<>>
              /\ \A j \in DOMAIN Stream : j > i + n => Stream[j].m \notin Answers
          BY <2>2, <4>1 DEF ReadyInv
        <4>3. ASSUME NEW j \in DOMAIN Stream', j > i
              PROVE  Stream'[j].m \notin Answers
          <5>1. j \in Nat /\ j + n \in DOMAIN Stream /\ j + n > i + n /\ Stream'[j] = Stream[j + n]
            BY <3>2, <4>1, <4>3
          <5> QED
            BY <4>2, <5>1
        <4>4. behind' \/ rx' = <<>>
          BY <1>2, <4>2
        <4>5. Clean'
          BY <1>2, <4>2
        <4> QED
          BY ONLY <4>3, <4>4, <4>5
      <3>4. behind' \/ NoOpcode'
        BY <1>2, <1>3, <2>2, <3>1 DEF ReadyInv
      <3> QED
        BY <1>2, <3>3, <3>4 DEF ReadyInv
    <2> QED
      BY <1>1, <1>2, <2>1, <2>2 DEF ReadyInv
  <1>9. AckInv' /\ OwnInv'
    <2>1. CASE step \in Answering
      <3>1. orphans = 0
        BY <2>1 DEF OrphanInv
      <3> QED
        BY <1>2, <1>3, <3>1 DEF AckInv, OwnInv
    <2>2. CASE step \notin Answering
      BY <1>2, <2>2 DEF AckInv, OwnInv, Answering
    <2> QED
      BY <2>1, <2>2
  <1> QED
    BY <1>5, <1>6, <1>7, <1>8, <1>9

\* The bridge takes what is on the wire with it.
LEMMA UnplugKeeps ==
    ASSUME LinkInv, BridgeLost
    PROVE  LinkInv'
  <1> USE DEF LinkInv, TypeOK, HostOnly, swVars
  <1>1. /\ UNCHANGED <<dev, cur, rx, behind, approved, faults, sw, outcome>>
        /\ UNCHANGED <<queue, step, buf, orphans, skips, got, window, reply>>
        /\ port = "open" /\ port' = "lost" /\ wire' = <<>>
        /\ Running' = Running /\ (Clean <=> Clean') /\ (NoOpcode <=> NoOpcode')
    BY DEF BridgeLost, Unplug, Running, Clean, NoOpcode
  <1>2. buf \in Seq(ToHost) /\ wire \in Seq(ToHost)
    BY DEF DevTypeOK, HostTypeOK
  <1>3. Stream' = buf /\ \A i \in DOMAIN buf : i \in DOMAIN Stream /\ Stream[i] = buf[i]
    BY <1>1, <1>2, Behind, ConcatEmptySeq DEF Stream
  <1>4. buf # <<>> => Stream # <<>>
    BY <1>2, Behind DEF Stream
  <1>5. TypeOK'
    BY <1>1 DEF DevTypeOK, HostTypeOK
  <1>6. StepInv' /\ PhaseInv' /\ OpcodeInv' /\ WorkerInv' /\ OrphanInv'
    BY <1>1 DEF StepInv, PhaseInv, OpcodeInv, WorkerInv, OnlyBeats, OrphanInv
  <1>7. ReadyInv'
    BY <1>1, <1>3, <1>4 DEF ReadyInv
  <1>8. AckInv' /\ OwnInv'
    BY <1>1, <1>3 DEF AckInv, OwnInv
  <1> QED
    BY <1>5, <1>6, <1>7, <1>8

----
(* The operation at work *)

\* A step of an operation that leaves the queue alone.
LEMMA WorkerStays ==
    ASSUME WorkerInv, step # "idle", UNCHANGED <<queue, reply, window, sw, outcome>>
    PROVE  WorkerInv'
  <1>1. OnlyBeats(queue) <=> OnlyBeats(queue')
    OBVIOUS
  <1>2. sw.st # "due" /\ (sw.st = "asked" /\ reply.r = sw.r => ~(reply.out \in Positive /\ sw.r \in Tx))
    <2>1. CASE sw.st = "asked" /\ reply.r = sw.r
      BY <2>1 DEF WorkerInv
    <2>2. CASE ~(sw.st = "asked" /\ reply.r = sw.r)
      BY <2>2 DEF WorkerInv
    <2> QED
      BY <2>1, <2>2
  <1> QED
    BY <1>1, <1>2 DEF WorkerInv

\* Nothing is written: the cartridge has what it had.
LEMMA RxStays ==
    ASSUME DevTypeOK, PhaseInv, OpcodeInv, HostOnly, KeepsUp, rx' = rx
    PROVE  /\ PhaseInv' /\ OpcodeInv'
           /\ rx' \in Seq(ToDevice) /\ Len(rx') <= FifoBytes /\ behind' \in BOOLEAN
           /\ \A i \in DOMAIN rx' : Opcode(rx'[i]) => i \in DOMAIN rx /\ rx'[i] = rx[i]
  <1>1. ~behind' => ~behind \/ rx = <<>>
    BY DEF KeepsUp
  <1>2. behind' \in BOOLEAN
    BY DEF KeepsUp
  <1> QED
    BY <1>1, <1>2 DEF DevTypeOK, PhaseInv, OpcodeInv, HostOnly

\* What is written reaches the FIFO whole, in part, or not at all.
LEMMA ReceiveAdds ==
    ASSUME DevTypeOK, NEW x \in ToDevice, Receive(x)
    PROVE  /\ rx' \in Seq(ToDevice) /\ Len(rx') <= FifoBytes
           /\ dev \in Dead => rx' = rx
           /\ rx' = rx \/ rx' = Append(rx, JUNK) \/ rx' = Append(rx, x)
           /\ x.m \notin {"BODY", "HASH"} => rx' = rx \/ rx' = Append(rx, x)
           /\ Len(rx) \in Nat /\ DOMAIN rx = 1..Len(rx)
           /\ rx' # rx => DOMAIN rx' = 1..(Len(rx) + 1) /\ Len(rx') = Len(rx) + 1
           /\ \A i \in DOMAIN rx' :
                 \/ i \in DOMAIN rx /\ rx'[i] = rx[i]
                 \/ i = Len(rx) + 1 /\ rx'[i] \in {JUNK, x}
  <1>1. rx \in Seq(ToDevice) /\ Len(rx) \in Nat /\ Len(rx) <= FifoBytes /\ DOMAIN rx = 1..Len(rx)
        /\ FifoBytes \in Nat \ {0}
    BY BoundsAssumption DEF DevTypeOK
  <1>2. JUNK \in ToDevice
    BY DEF JUNK, Msg, ToDevice, Incoming
  <1>3. /\ dev \in Dead => rx' = rx
        /\ rx' = rx \/ rx' = Append(rx, JUNK) \/ rx' = Append(rx, x)
        /\ x.m \notin {"BODY", "HASH"} => rx' = rx \/ rx' = Append(rx, x)
    BY DEF Receive
  <1>4. rx' = rx \/ Len(rx) < FifoBytes
    <2>1. CASE dev \in Spinning
      BY <2>1 DEF Receive
    <2>2. CASE dev \notin Spinning
      <3>1. rx' = rx \/ ~FifoFull
        BY <2>2 DEF Receive
      <3>2. ~FifoFull => rx = <<>> \/ Len(rx) # FifoBytes
        BY DEF FifoFull
      <3>3. rx = <<>> => Len(rx) = 0
        OBVIOUS
      <3>4. Len(rx) \in Nat /\ Len(rx) <= FifoBytes /\ FifoBytes \in Nat \ {0}
        BY <1>1
      <3> QED
        BY ONLY <3>1, <3>2, <3>3, <3>4
    <2> QED
      BY <2>1, <2>2
  <1>5. ASSUME NEW y \in ToDevice, rx' = Append(rx, y)
        PROVE  /\ rx' \in Seq(ToDevice) /\ Len(rx') = Len(rx) + 1
               /\ DOMAIN rx' = 1..(Len(rx) + 1)
               /\ \A i \in DOMAIN rx' :
                     \/ i \in DOMAIN rx /\ rx'[i] = rx[i]
                     \/ i = Len(rx) + 1 /\ rx'[i] = y
    <2>1. rx' \in Seq(ToDevice) /\ Len(rx') = Len(rx) + 1
      BY <1>1, <1>5, AppendProperties
    <2>2. DOMAIN rx' = 1..(Len(rx) + 1)
      BY <2>1, LenProperties
    <2>3. (\A i \in 1..Len(rx) : rx'[i] = rx[i]) /\ rx'[Len(rx) + 1] = y
      BY <1>1, <1>5, AppendProperties
    <2>4. ASSUME NEW i \in DOMAIN rx'
          PROVE  \/ i \in DOMAIN rx /\ rx'[i] = rx[i]
                 \/ i = Len(rx) + 1 /\ rx'[i] = y
      BY <1>1, <2>2, <2>3
    <2> QED
      BY <2>1, <2>2, <2>4
  <1>6. CASE rx' = rx
    BY ONLY <1>1, <1>3, <1>6
  <1>7. ASSUME NEW y \in {JUNK, x}, rx' = Append(rx, y), Len(rx) < FifoBytes
        PROVE  /\ rx' \in Seq(ToDevice) /\ Len(rx') = Len(rx) + 1
               /\ Len(rx') <= FifoBytes /\ DOMAIN rx' = 1..(Len(rx) + 1)
               /\ \A i \in DOMAIN rx' :
                     \/ i \in DOMAIN rx /\ rx'[i] = rx[i]
                     \/ i = Len(rx) + 1 /\ rx'[i] \in {JUNK, x}
    <2>1. y \in ToDevice
      BY ONLY <1>2, <1>7, x \in ToDevice
    <2>2. /\ rx' \in Seq(ToDevice) /\ Len(rx') = Len(rx) + 1
          /\ DOMAIN rx' = 1..(Len(rx) + 1)
          /\ \A i \in DOMAIN rx' :
                \/ i \in DOMAIN rx /\ rx'[i] = rx[i]
                \/ i = Len(rx) + 1 /\ rx'[i] = y
      BY ONLY <1>5, <1>7, <2>1
    <2>3. Len(rx) \in Nat /\ FifoBytes \in Nat
      BY ONLY <1>1
    <2>4. Len(rx') <= FifoBytes
      BY ONLY <1>7, <2>2, <2>3
    <2> QED
      BY ONLY <1>7, <2>2, <2>4
  <1>8. CASE rx' # rx
    <2>1. PICK y \in {JUNK, x} : rx' = Append(rx, y)
      BY ONLY <1>3, <1>8
    <2>2. Len(rx) < FifoBytes
      BY ONLY <1>4, <1>8
    <2> QED
      BY ONLY <1>1, <1>3, <1>7, <2>1, <2>2
  <1> QED
    BY <1>6, <1>8

\* Nor does anything but an opcode bring an opcode.
LEMMA ReceiveKeeps ==
    ASSUME DevTypeOK, PhaseInv, OpcodeInv, HostOnly, KeepsUp,
           NEW x \in ToDevice, ~Opcode(x), Receive(x)
    PROVE  /\ PhaseInv' /\ OpcodeInv'
           /\ rx' \in Seq(ToDevice) /\ Len(rx') <= FifoBytes /\ behind' \in BOOLEAN
           /\ \A i \in DOMAIN rx' : Opcode(rx'[i]) => i \in DOMAIN rx /\ rx'[i] = rx[i]
  <1>1. /\ rx' \in Seq(ToDevice) /\ Len(rx') <= FifoBytes
        /\ dev \in Dead => rx' = rx
        /\ Len(rx) \in Nat /\ DOMAIN rx = 1..Len(rx)
        /\ \A i \in DOMAIN rx' :
              \/ i \in DOMAIN rx /\ rx'[i] = rx[i]
              \/ i = Len(rx) + 1 /\ rx'[i] \in {JUNK, x}
    BY ReceiveAdds
  <1>2. ~Opcode(JUNK)
    BY DEF Opcode, JUNK, Msg
  <1>3. \A i \in DOMAIN rx' : Opcode(rx'[i]) => i \in DOMAIN rx /\ rx'[i] = rx[i]
    BY <1>1, <1>2
  <1>4. PhaseInv'
    BY <1>1 DEF PhaseInv, HostOnly
  <1>5. ASSUME ~behind', NEW i \in DOMAIN rx', Opcode(rx'[i])
        PROVE  /\ dev' \in Calm
               /\ i = 1 \/ (i = 2 /\ rx'[1].m = "ACK" /\ dev' \in {"ready", "away"})
    <2>1. i \in DOMAIN rx /\ Opcode(rx[i]) /\ rx'[i] = rx[i]
      BY <1>3, <1>5
    <2>2. ~behind
      <3>1. rx' # <<>>
        BY <1>5
      <3> QED
        BY <1>5, <3>1 DEF KeepsUp
    <2>3. /\ dev \in Calm
          /\ i = 1 \/ (i = 2 /\ rx[1].m = "ACK" /\ dev \in {"ready", "away"})
      BY <2>1, <2>2 DEF OpcodeInv
    <2>4. ASSUME i = 2 PROVE rx'[1] = rx[1]
      <3>1. 1 \in DOMAIN rx /\ 1 # Len(rx) + 1 /\ 1 \in DOMAIN rx'
        <4>1. 2 <= Len(rx)
          BY <1>1, <2>1, <2>4
        <4>2. 2 \in DOMAIN rx' /\ DOMAIN rx' = 1..Len(rx')
          BY <1>1, <1>5, <2>4, LenProperties
        <4>3. Len(rx') \in Nat
          BY <1>1, LenProperties
        <4> QED
          BY <1>1, <4>1, <4>2, <4>3
      <3> QED
        BY <1>1, <3>1
    <2> QED
      BY <2>3, <2>4 DEF HostOnly
  <1>6. OpcodeInv'
    BY <1>5 DEF OpcodeInv
  <1>7. behind' \in BOOLEAN
    BY DEF KeepsUp
  <1> QED
    BY <1>1, <1>3, <1>4, <1>6, <1>7

\* A message is taken from the buffer.
LEMMA BufTail ==
    ASSUME buf \in Seq(ToHost), wire \in Seq(ToHost), NEW m, Next1(m), wire' = wire
    PROVE  /\ buf # <<>> /\ Head(buf) \in ToHost /\ Head(buf).m \in m
           /\ buf' \in Seq(ToHost)
           /\ Stream # <<>> /\ 1 \in DOMAIN Stream /\ Stream[1] = Head(buf)
           /\ \A i \in DOMAIN Stream' :
                 i + 1 \in DOMAIN Stream /\ i + 1 > 1 /\ Stream'[i] = Stream[i + 1]
  <1>1. buf # <<>> /\ buf' = Tail(buf) /\ Head(buf).m \in m
    BY DEF Next1
  <1>2. /\ Head(buf) \in ToHost /\ Head(buf) = buf[1]
        /\ buf' \in Seq(ToHost)
        /\ Len(buf) \in Nat \ {0} /\ Len(buf') = Len(buf) - 1
        /\ DOMAIN buf' = 1..(Len(buf) - 1)
        /\ \A i \in DOMAIN buf' : i + 1 \in DOMAIN buf /\ buf'[i] = buf[i + 1]
    BY <1>1, Behead
  <1>3. /\ Len(wire) \in Nat
        /\ DOMAIN Stream = 1..(Len(buf) + Len(wire))
        /\ \A i \in 1..Len(buf) : Stream[i] = buf[i]
        /\ \A i \in (Len(buf) + 1)..(Len(buf) + Len(wire)) : Stream[i] = wire[i - Len(buf)]
    BY Behind DEF Stream
  <1>4. /\ DOMAIN Stream' = 1..(Len(buf') + Len(wire))
        /\ \A i \in 1..Len(buf') : Stream'[i] = buf'[i]
        /\ \A i \in (Len(buf') + 1)..(Len(buf') + Len(wire)) : Stream'[i] = wire[i - Len(buf')]
    <2>1. Stream' = buf' \o wire
      BY DEF Stream
    <2> QED
      BY <1>2, <2>1, Behind
  <1>5. 1 \in DOMAIN Stream /\ Stream[1] = Head(buf)
    <2>1. 1 \in 1..Len(buf) /\ 1 \in 1..(Len(buf) + Len(wire))
      BY <1>2, <1>3
    <2> QED
      BY <1>2, <1>3, <2>1
  <1>6. ASSUME NEW i \in DOMAIN Stream'
        PROVE  i + 1 \in DOMAIN Stream /\ i + 1 > 1 /\ Stream'[i] = Stream[i + 1]
    <2>1. i \in Nat \ {0} /\ i + 1 \in 1..(Len(buf) + Len(wire))
      BY <1>2, <1>3, <1>4, <1>6
    <2>2. CASE i \in 1..Len(buf')
      <3>1. i \in DOMAIN buf' /\ i + 1 \in 1..Len(buf)
        BY <1>2, <2>2
      <3> QED
        BY <1>2, <1>3, <1>4, <2>1, <2>2, <3>1
    <2>3. CASE i \notin 1..Len(buf')
      <3>1. /\ i \in (Len(buf') + 1)..(Len(buf') + Len(wire))
            /\ i + 1 \in (Len(buf) + 1)..(Len(buf) + Len(wire))
            /\ i - Len(buf') = (i + 1) - Len(buf)
        BY <1>2, <1>3, <1>4, <1>6, <2>1, <2>3
      <3>2. Stream'[i] = wire[i - Len(buf')]
        BY ONLY <1>4, <3>1
      <3>3. Stream[i + 1] = wire[(i + 1) - Len(buf)]
        BY ONLY <1>3, <3>1
      <3>4. i + 1 \in DOMAIN Stream /\ i + 1 > 1
        BY ONLY <1>3, <2>1
      <3> QED
        BY ONLY <3>1, <3>2, <3>3, <3>4
    <2> QED
      BY <2>2, <2>3
  <1> QED
    BY <1>1, <1>2, <1>5, <1>6

\* The operation ends: what is on the line belongs to nobody.
LEMMA FinishKeeps ==
    ASSUME LinkInv, HostOnly, UNCHANGED swVars, queue # <<>>, port # "closed",
           NEW out \in Outcomes, Finish(out),
           Running.op # "beat" /\ Running.r \in Tx => out \notin {"ok", "data"},
           Running.op = "result" => out # "sig",
           PhaseInv', OpcodeInv',
           rx' \in Seq(ToDevice), Len(rx') <= FifoBytes, behind' \in BOOLEAN,
           buf' \in Seq(ToHost), wire' \in Seq(ToHost), orphans' \in 0..MaxOrphans
    PROVE  LinkInv'
  <1>1. TypeOK /\ WorkerInv /\ HostTypeOK /\ DevTypeOK
    BY DEF LinkInv, TypeOK
  <1>2. WorkerInv'
    BY <1>1, FinishKeepsWorker
  <1>3. /\ Running \in Jobs
        /\ Tail(queue) \in Seq(Jobs) /\ Len(Tail(queue)) <= MaxWaiting
    BY <1>1, QueueShrinks
  <1>4. /\ step' = "idle" /\ queue' = Tail(queue) /\ skips' = 0 /\ got' = DONE /\ port' = port
        /\ window' \in BOOLEAN
        /\ reply' = IF Running.op = "beat" THEN reply
                    ELSE [out |-> out, r |-> Running.r, of |-> got.r]
    BY DEF Finish
  <1>5. DevTypeOK'
    BY <1>1 DEF DevTypeOK, HostOnly
  <1>6. reply' \in Replies \cup {NoReply}
    <2>1. CASE Running.op = "beat"
      BY <1>1, <1>4, <2>1 DEF HostTypeOK
    <2>2. CASE Running.op # "beat"
      <3>1. Running.r \in Req
        BY <1>3, <2>2, JobKinds
      <3>2. got.r \in Req \cup {Nobody}
        BY <1>1 DEF HostTypeOK, ToHost
      <3> QED
        BY <1>4, <2>2, <3>1, <3>2 DEF Replies
    <2> QED
      BY <2>1, <2>2
  <1>7. HostTypeOK'
    <2>1. DONE \in ToHost
      BY DEF DONE, Msg, ToHost, Outgoing
    <2>2. 0 \in 0..(ReadySkips - 1)
      BY HostBoundsAssumption
    <2>3. port \in {"closed", "open", "lost"}
      BY <1>1 DEF HostTypeOK
    <2> QED
      BY ONLY <1>3, <1>4, <1>6, <2>1, <2>2, <2>3, buf' \in Seq(ToHost), orphans' \in 0..MaxOrphans
         DEF HostTypeOK
  <1>8. TypeOK'
    BY <1>1, <1>5, <1>7 DEF TypeOK, swVars
  <1>9. StepInv' /\ OrphanInv' /\ ReadyInv' /\ AckInv' /\ OwnInv'
    BY <1>4 DEF StepInv, OrphanInv, ReadyInv, AckInv, OwnInv, Answering
  <1> QED
    BY <1>2, <1>8, <1>9 DEF LinkInv

\* The ways an operation ends without an answer, nothing being written.
LEMMA EndsKeep ==
    ASSUME LinkInv, HostOnly, KeepsUp, UNCHANGED swVars,
           \/ SkipBeat \/ PortLost \/ NotReady \/ UnexpectedMarker \/ NotDone \/ ArgumentTooLong
           \/ ReadTimeout /\ UNCHANGED rx
    PROVE  LinkInv'
  <1>1. DevTypeOK /\ HostTypeOK /\ PhaseInv /\ OpcodeInv /\ StepInv
    BY DEF LinkInv, TypeOK
  <1>2. buf \in Seq(ToHost) /\ wire \in Seq(ToHost) /\ orphans \in 0..MaxOrphans
    BY <1>1 DEF DevTypeOK, HostTypeOK
  <1>3. /\ queue # <<>> /\ rx' = rx /\ wire' = wire
        /\ buf' = buf \/ (buf # <<>> /\ buf' = Tail(buf))
        /\ orphans' = orphans \/ orphans' = Orphaned(orphans)
        /\ Finish("error") \/ (Finish("sent") /\ Running.op = "beat")
    BY <1>1 DEF SkipBeat, PortLost, NotReady, UnexpectedMarker, NotDone, ArgumentTooLong, ReadTimeout,
           Next1, Unread, Idle, HostTypeOK, Reading
  <1>4. buf' \in Seq(ToHost)
    BY <1>2, <1>3, Behead
  <1>5. orphans' \in 0..MaxOrphans
    BY <1>2, <1>3, HostBoundsAssumption DEF Orphaned
  <1>6. /\ PhaseInv' /\ OpcodeInv'
        /\ rx' \in Seq(ToDevice) /\ Len(rx') <= FifoBytes /\ behind' \in BOOLEAN
    BY <1>1, <1>3, RxStays
  <1>7. port # "closed"
    BY <1>1, <1>3 DEF StepInv
  <1>8. CASE Finish("error")
    <2>1. "error" \in Outcomes /\ "error" \notin {"ok", "data", "sig"}
      BY DEF Outcomes
    <2> QED
      BY <1>2, <1>3, <1>4, <1>5, <1>6, <1>7, <1>8, <2>1, FinishKeeps
  <1>9. CASE Finish("sent") /\ Running.op = "beat"
    <2>1. "sent" \in Outcomes /\ "sent" \notin {"ok", "data", "sig"}
      BY DEF Outcomes
    <2> QED
      BY <1>2, <1>3, <1>4, <1>5, <1>6, <1>7, <1>9, <2>1, FinishKeeps
  <1> QED
    BY <1>3, <1>8, <1>9

\* Nothing that is on the line survives the drain, but the read that saw the
\* silence does.
LEMMA DrainKeeps ==
    ASSUME LinkInv, HostOnly, KeepsUp, UNCHANGED swVars, Drain
    PROVE  LinkInv'
  <1>1. DevTypeOK /\ HostTypeOK /\ PhaseInv /\ OpcodeInv /\ StepInv /\ WorkerInv
    BY DEF LinkInv, TypeOK
  <1>2. /\ step = "idle" /\ queue # <<>> /\ port = "open"
        /\ Running.op = "ask" \/ (Running.op = "beat" /\ ~window)
        /\ buf' = <<>> /\ wire' = <<>> /\ rx' = rx
        /\ step' = "ready" /\ UNCHANGED <<port, queue, window, reply, skips, got, sw, outcome>>
        /\ Running' = Running
    BY DEF Drain, Idle, Goto, swVars, Running
  <1>3. orphans' \in 0..MaxOrphans /\ orphans' # 0
    <2>1. orphans \in Nat /\ orphans <= MaxOrphans /\ MaxOrphans \in Nat \ {0}
      BY <1>1, HostBoundsAssumption DEF HostTypeOK
    <2>2. CASE wire = <<>>
      <3>1. orphans' = Orphaned(orphans)
        BY <2>2 DEF Drain
      <3> QED
        BY <2>1, <3>1 DEF Orphaned
    <2>3. CASE wire # <<>>
      <3>1. PICK c \in 1..Len(wire) : orphans' = IF orphans > c THEN Orphaned(orphans - c) ELSE 1
        BY <2>3 DEF Drain
      <3>2. c \in Nat \ {0}
        BY <1>1, <3>1 DEF DevTypeOK
      <3> QED
        BY <2>1, <3>1, <3>2 DEF Orphaned
    <2> QED
      BY <2>2, <2>3
  <1>4. /\ PhaseInv' /\ OpcodeInv'
        /\ rx' \in Seq(ToDevice) /\ Len(rx') <= FifoBytes /\ behind' \in BOOLEAN
    BY <1>1, <1>2, RxStays
  <1>5. TypeOK'
    <2>1. DevTypeOK'
      BY <1>1, <1>2, <1>4 DEF DevTypeOK, HostOnly
    <2>2. HostTypeOK'
      BY <1>1, <1>2, <1>3 DEF HostTypeOK, Reading
    <2> QED
      BY <1>2, <2>1, <2>2 DEF LinkInv, TypeOK
  <1>6. StepInv'
    BY <1>1, <1>2 DEF StepInv, Answering
  <1>7. OrphanInv' /\ AckInv' /\ OwnInv'
    BY <1>2 DEF OrphanInv, AckInv, OwnInv, Answering
  <1>8. ReadyInv'
    <2>1. Stream' = <<>>
      BY <1>2, ConcatEmptySeq DEF Stream
    <2> QED
      BY <1>3, <2>1 DEF ReadyInv
  <1>9. WorkerInv'
    <2>1. OnlyBeats(queue) => Running.op = "beat"
      BY <1>1, <1>2, QueueShrinks DEF OnlyBeats
    <2>2. /\ sw.st # "due"
          /\ sw.st = "asked" /\ reply.r = sw.r => ~(reply.out \in Positive /\ sw.r \in Tx)
      <3>1. sw.st # "due"
        BY <1>1, <1>2, <2>1 DEF WorkerInv
      <3>2. ASSUME sw.st = "asked", reply.r = sw.r
            PROVE  ~(reply.out \in Positive /\ sw.r \in Tx)
        <4>1. OnlyBeats(queue) /\ (reply.out \in Positive /\ sw.r \in Tx => window)
          BY <1>1, <3>2 DEF WorkerInv
        <4> QED
          BY <1>2, <2>1, <4>1
      <3> QED
        BY <3>1, <3>2
    <2>3. OnlyBeats(queue) <=> OnlyBeats(queue')
      BY <1>2
    <2> QED
      BY <1>1, <1>2, <2>2, <2>3 DEF WorkerInv
  <1> QED
    BY <1>4, <1>5, <1>6, <1>7, <1>8, <1>9 DEF LinkInv

\* A READY the operation acts on: the cartridge has nothing left to say.
LEMMA ReadyKeeps ==
    ASSUME LinkInv, HostOnly, KeepsUp, UNCHANGED swVars, ReadReady
    PROVE  LinkInv'
  <1>1. DevTypeOK /\ HostTypeOK /\ PhaseInv /\ OpcodeInv /\ StepInv /\ OrphanInv /\ ReadyInv /\ WorkerInv
    BY DEF LinkInv, TypeOK
  <1>2. /\ step = "ready" /\ Next1({"READY"}) /\ Receive(Msg("ACK", Nobody))
        /\ step' = "opcode" /\ UNCHANGED <<port, queue, window, reply, skips, got, sw, outcome>>
        /\ orphans' = orphans /\ wire' = wire /\ Running' = Running
    BY DEF ReadReady, Put, Goto, Unread, swVars, Running
  <1>3. buf \in Seq(ToHost) /\ wire \in Seq(ToHost)
    BY <1>1 DEF DevTypeOK, HostTypeOK
  <1>4. /\ buf # <<>> /\ Head(buf) \in ToHost /\ Head(buf).m = "READY"
        /\ buf' \in Seq(ToHost)
        /\ 1 \in DOMAIN Stream /\ Stream[1] = Head(buf)
        /\ \A i \in DOMAIN Stream' :
              i + 1 \in DOMAIN Stream /\ i + 1 > 1 /\ Stream'[i] = Stream[i + 1]
    BY <1>2, <1>3, BufTail
  <1>5. orphans = 0
    BY <1>1, <1>2, <1>4 DEF OrphanInv
  <1>6. /\ Clean
        /\ \A j \in DOMAIN Stream : j > 1 => Stream[j].m \notin Answers
        /\ behind \/ rx = <<>>
    BY <1>1, <1>2, <1>4, <1>5 DEF ReadyInv
  <1>7. Msg("ACK", Nobody) \in ToDevice /\ ~Opcode(Msg("ACK", Nobody)) /\ Msg("ACK", Nobody).m = "ACK"
    BY DEF Msg, ToDevice, Incoming, Opcode
  <1>8. /\ PhaseInv' /\ OpcodeInv'
        /\ rx' \in Seq(ToDevice) /\ Len(rx') <= FifoBytes /\ behind' \in BOOLEAN
        /\ \A i \in DOMAIN rx' : Opcode(rx'[i]) => i \in DOMAIN rx /\ rx'[i] = rx[i]
    BY <1>1, <1>2, <1>7, ReceiveKeeps
  <1>9. TypeOK'
    <2>1. DevTypeOK'
      BY <1>1, <1>2, <1>8 DEF DevTypeOK, HostOnly
    <2>2. HostTypeOK'
      BY <1>1, <1>2, <1>4 DEF HostTypeOK, Writing
    <2> QED
      BY <1>2, <2>1, <2>2 DEF LinkInv, TypeOK
  <1>10. StepInv' /\ OrphanInv'
    BY <1>1, <1>2, <1>5 DEF StepInv, Answering, OrphanInv
  <1>11. Clean'
    BY <1>6, <1>8 DEF Clean, NoOpcode, HostOnly
  <1>12. \A i \in DOMAIN Stream' : Stream'[i].m \notin Answers
    BY <1>4, <1>6
  <1>13. AckInv'
    <2>1. rx' = rx \/ rx' = Append(rx, Msg("ACK", Nobody))
      BY <1>1, <1>2, <1>7, ReceiveAdds
    <2>2. behind' \/ rx' = <<>> \/ (Len(rx') = 1 /\ rx'[1].m = "ACK")
      <3>1. CASE behind
        BY <3>1 DEF KeepsUp
      <3>2. CASE rx = <<>>
        BY <1>7, <2>1, <3>2
      <3> QED
        BY <1>6, <3>1, <3>2
    <2> QED
      BY <1>11, <1>12, <2>2 DEF AckInv
  <1>14. OwnInv'
    <2>1. got = DONE
      BY <1>1, <1>2 DEF StepInv
    <2>2. DONE.m \notin Answers
      BY DEF DONE, Msg, Answers
    <2>3. cur' = Nobody /\ \A i \in DOMAIN rx' : ~Opcode(rx'[i])
      BY <1>11 DEF Clean, NoOpcode
    <2> QED
      BY <1>2, <1>12, <2>1, <2>2, <2>3 DEF OwnInv
  <1>15. ReadyInv'
    BY <1>2 DEF ReadyInv
  <1>16. WorkerInv'
    BY <1>1, <1>2, WorkerStays
  <1> QED
    BY <1>8, <1>9, <1>10, <1>13, <1>14, <1>15, <1>16 DEF LinkInv

\* From now on it can only answer this request.
LEMMA OpcodeKeeps ==
    ASSUME LinkInv, HostOnly, KeepsUp, UNCHANGED swVars, WriteOpcode, Polled
    PROVE  LinkInv'
  <1>1. DevTypeOK /\ HostTypeOK /\ PhaseInv /\ OpcodeInv /\ StepInv /\ OrphanInv /\ AckInv /\ WorkerInv
    BY DEF LinkInv, TypeOK
  <1>2. /\ step = "opcode" /\ Receive(Msg("OP", Running.r))
        /\ step' = IF Running.r \in Asking THEN "body"
                   ELSE IF Running.r \in Query THEN "marker" ELSE "done"
        /\ UNCHANGED <<port, queue, window, reply, skips, got, buf, sw, outcome>>
        /\ orphans' = orphans /\ wire' = wire /\ Running' = Running
    BY DEF WriteOpcode, Put, Goto, Unread, swVars, Running
  <1>3. Stream' = Stream
    BY <1>2 DEF Stream
  <1>4. /\ Clean
        /\ behind \/ rx = <<>> \/ (Len(rx) = 1 /\ rx[1].m = "ACK")
        /\ \A i \in DOMAIN Stream : Stream[i].m \notin Answers
    BY <1>1, <1>2 DEF AckInv
  <1>5. Running \in Jobs /\ queue # <<>> /\ Running.op \in {"ask", "beat"}
    BY <1>1, <1>2, QueueShrinks DEF HostTypeOK, StepInv, Answering
  <1>6. /\ Running.op = "ask" => Running.r \in Req
        /\ Running.op = "beat" => Running.r = Beat /\ Running.r \notin Req
        /\ Running.r \in Req \cup {Beat}
    BY <1>5, JobKinds
  <1>7. Msg("OP", Running.r) \in ToDevice /\ Msg("OP", Running.r).m = "OP" /\ Msg("OP", Running.r).r = Running.r
    BY <1>6 DEF Msg, ToDevice, Incoming
  <1>8. /\ rx' \in Seq(ToDevice) /\ Len(rx') <= FifoBytes
        /\ dev \in Dead => rx' = rx
        /\ rx' = rx \/ rx' = Append(rx, Msg("OP", Running.r))
        /\ Len(rx) \in Nat /\ DOMAIN rx = 1..Len(rx)
        /\ rx' # rx => DOMAIN rx' = 1..(Len(rx) + 1) /\ Len(rx') = Len(rx) + 1
        /\ \A i \in DOMAIN rx' :
              \/ i \in DOMAIN rx /\ rx'[i] = rx[i]
              \/ i = Len(rx) + 1 /\ rx'[i] \in {JUNK, Msg("OP", Running.r)}
    BY <1>1, <1>2, <1>7, ReceiveAdds
  <1>9. ~Opcode(JUNK)
    BY DEF Opcode, JUNK, Msg
  <1>10. behind' \in BOOLEAN
    BY DEF KeepsUp
  <1>11. ASSUME NEW i \in DOMAIN rx', Opcode(rx'[i])
         PROVE  i = Len(rx) + 1 /\ rx'[i].r = Running.r
    BY <1>4, <1>7, <1>8, <1>9, <1>11 DEF Clean, NoOpcode
  <1>12. TypeOK'
    <2>1. DevTypeOK'
      BY <1>1, <1>2, <1>8, <1>10 DEF DevTypeOK, HostOnly
    <2>2. HostTypeOK'
      BY <1>1, <1>2 DEF HostTypeOK, Writing, Reading
    <2> QED
      BY <1>2, <2>1, <2>2 DEF LinkInv, TypeOK
  <1>13. PhaseInv'
    BY <1>1, <1>8 DEF PhaseInv, HostOnly
  <1>14. OpcodeInv'
    <2> SUFFICES ASSUME ~behind', NEW i \in DOMAIN rx', Opcode(rx'[i])
                 PROVE  /\ dev' \in Calm
                        /\ i = 1 \/ (i = 2 /\ rx'[1].m = "ACK" /\ dev' \in {"ready", "away"})
      BY DEF OpcodeInv
    <2>1. i = Len(rx) + 1 /\ rx' # rx /\ rx' # <<>>
      BY <1>4, <1>8, <1>11 DEF Clean, NoOpcode
    <2>2. ~behind
      BY <2>1 DEF KeepsUp
    <2>3. dev' \in Calm /\ dev' = dev
      BY <1>4 DEF Clean, HostOnly
    <2>4. CASE rx = <<>>
      BY <2>1, <2>3, <2>4
    <2>5. CASE Len(rx) = 1 /\ rx[1].m = "ACK"
      <3>1. rx # <<>>
        BY <2>5
      <3>2. dev \notin Dead /\ dev \notin Polling \cup Spinning
        BY <1>1, <3>1 DEF PhaseInv, Polled
      <3>3. dev = "away"
        BY <2>3, <3>2 DEF Calm, Polling, Spinning
      <3>4. i = 2 /\ 1 \in DOMAIN rx' /\ 1 # Len(rx) + 1
        BY <1>8, <2>1, <2>5
      <3>5. rx'[1] = rx[1]
        BY <1>8, <3>4
      <3> QED
        BY <2>3, <2>5, <3>3, <3>4, <3>5
    <2> QED
      BY <1>4, <2>2, <2>4, <2>5
  <1>15. step' \in {"body", "marker", "done"} /\ step' # "ready" /\ step' # "opcode" /\ step' \in Answering
    BY <1>2 DEF Answering
  <1>16. orphans' = 0 /\ got = DONE
    BY <1>1, <1>2 DEF OrphanInv, StepInv, Answering
  <1>17. StepInv'
    <2>1. step' = "marker" => Running.op = "ask"
      BY <1>2, <1>5, <1>6 DEF Req
    <2>2. step' = "done" => Running.op # "ask"
      BY <1>2, <1>6 DEF Req
    <2>3. DONE.m = "DONE"
      BY DEF DONE, Msg
    <2>4. step' = "body" => Running.r \in Asking
      BY <1>2
    <2> QED
      BY <1>1, <1>2, <1>5, <1>15, <1>16, <2>1, <2>2, <2>3, <2>4 DEF StepInv
  <1>18. OrphanInv' /\ ReadyInv' /\ AckInv'
    BY <1>15, <1>16 DEF OrphanInv, ReadyInv, AckInv
  <1>19. OwnInv'
    <2>1. cur' = Nobody
      BY <1>4 DEF Clean, HostOnly
    <2>2. DONE.m \notin Answers
      BY DEF DONE, Msg, Answers
    <2> QED
      BY <1>2, <1>3, <1>4, <1>11, <1>16, <2>1, <2>2 DEF OwnInv
  <1>20. WorkerInv'
    BY <1>1, <1>2, WorkerStays
  <1> QED
    BY <1>12, <1>13, <1>14, <1>17, <1>18, <1>19, <1>20 DEF LinkInv

\* The payload follows the opcode.
LEMMA BodyKeeps ==
    ASSUME LinkInv, HostOnly, KeepsUp, UNCHANGED swVars, WriteBody
    PROVE  LinkInv'
  <1>1. DevTypeOK /\ HostTypeOK /\ PhaseInv /\ OpcodeInv /\ StepInv /\ OrphanInv /\ OwnInv /\ WorkerInv
    BY DEF LinkInv, TypeOK
  <1>2. /\ step = "body" /\ Receive(Msg("BODY", Running.r)) /\ step' = "marker"
        /\ UNCHANGED <<port, queue, window, reply, skips, got, buf, sw, outcome>>
        /\ orphans' = orphans /\ wire' = wire /\ Running' = Running
    BY DEF WriteBody, Put, Goto, Unread, swVars, Running
  <1>3. Running \in Jobs /\ Running.r \in Req /\ Running.op \in {"ask", "beat"}
    BY <1>1, <1>2, QueueShrinks DEF HostTypeOK, StepInv, Answering, Req
  <1>4. Running.op = "ask"
    BY <1>3, JobKinds
  <1>5. Msg("BODY", Running.r) \in ToDevice /\ ~Opcode(Msg("BODY", Running.r))
    BY <1>3 DEF Msg, ToDevice, Incoming, Opcode
  <1>6. /\ PhaseInv' /\ OpcodeInv'
        /\ rx' \in Seq(ToDevice) /\ Len(rx') <= FifoBytes /\ behind' \in BOOLEAN
        /\ \A i \in DOMAIN rx' : Opcode(rx'[i]) => i \in DOMAIN rx /\ rx'[i] = rx[i]
    BY <1>1, <1>2, <1>5, ReceiveKeeps
  <1>7. TypeOK'
    <2>1. DevTypeOK'
      BY <1>1, <1>2, <1>6 DEF DevTypeOK, HostOnly
    <2>2. HostTypeOK'
      BY <1>1, <1>2 DEF HostTypeOK, Writing, Reading
    <2> QED
      BY <1>2, <2>1, <2>2 DEF LinkInv, TypeOK
  <1>8. orphans' = 0 /\ got = DONE
    BY <1>1, <1>2 DEF OrphanInv, StepInv, Answering
  <1>9. StepInv'
    BY <1>1, <1>2, <1>3, <1>4, <1>8 DEF StepInv, Answering
  <1>10. OrphanInv' /\ ReadyInv' /\ AckInv'
    BY <1>2, <1>8 DEF OrphanInv, ReadyInv, AckInv
  <1>11. OwnInv'
    <2>1. Stream' = Stream /\ cur' = cur
      BY <1>2 DEF Stream, HostOnly
    <2>2. /\ cur \in {Nobody, Running.r}
          /\ \A i \in DOMAIN rx : Opcode(rx[i]) => rx[i].r = Running.r
          /\ \A i \in DOMAIN Stream : Stream[i].m \in Answers => Stream[i].r = Running.r
          /\ got.m \in Answers => got.r = Running.r
      BY <1>1, <1>2 DEF OwnInv, Answering
    <2> QED
      BY <1>2, <1>6, <2>1, <2>2 DEF OwnInv
  <1>12. WorkerInv'
    BY <1>1, <1>2, WorkerStays
  <1> QED
    BY <1>6, <1>7, <1>9, <1>10, <1>11, <1>12 DEF LinkInv

\* A READY from before the cartridge read the ACK is skipped, or the answer is
\* taken.
LEMMA MarkerKeeps ==
    ASSUME LinkInv, HostOnly, KeepsUp, UNCHANGED swVars, SkipReady \/ ReadMarker
    PROVE  LinkInv'
  <1>1. DevTypeOK /\ HostTypeOK /\ PhaseInv /\ OpcodeInv /\ StepInv /\ OrphanInv /\ OwnInv /\ WorkerInv
    BY DEF LinkInv, TypeOK
  <1>2. /\ step = "marker" /\ Next1(Outgoing)
        /\ orphans' = orphans /\ wire' = wire /\ rx' = rx
    BY DEF SkipReady, ReadMarker, Unread, Next1, Accepted, Marker, Outgoing, Answers
  <1>3. /\ buf # <<>> /\ Head(buf) \in ToHost
        /\ buf' \in Seq(ToHost)
        /\ 1 \in DOMAIN Stream /\ Stream[1] = Head(buf)
        /\ \A i \in DOMAIN Stream' :
              i + 1 \in DOMAIN Stream /\ i + 1 > 1 /\ Stream'[i] = Stream[i + 1]
    BY <1>1, <1>2, BufTail DEF DevTypeOK, HostTypeOK
  <1>4. /\ PhaseInv' /\ OpcodeInv'
        /\ rx' \in Seq(ToDevice) /\ Len(rx') <= FifoBytes /\ behind' \in BOOLEAN
    BY <1>1, <1>2, RxStays
  <1>5. queue # <<>> /\ Running.op = "ask" /\ port # "closed" /\ orphans = 0 /\ got = DONE
    BY <1>1, <1>2 DEF HostTypeOK, StepInv, OrphanInv, Answering
  <1>6. CASE SkipReady /\ Finish("error")
    <2>1. "error" \in Outcomes /\ "error" \notin {"ok", "data", "sig"}
      BY DEF Outcomes
    <2>2. wire' \in Seq(ToHost) /\ orphans' \in 0..MaxOrphans
      BY <1>1, <1>2 DEF DevTypeOK, HostTypeOK
    <2> QED
      BY <1>3, <1>4, <1>5, <1>6, <2>1, <2>2, FinishKeeps
  <1>7. CASE \/ /\ skips' \in 0..(ReadySkips - 1) /\ got' = got /\ step' = "marker"
                /\ UNCHANGED <<port, queue, window, reply>>
             \/ /\ got' = Head(buf) /\ Head(buf).m \in Accepted(Running.r) /\ step' = "done"
                /\ UNCHANGED <<port, queue, window, reply, skips>>
    <2>1. UNCHANGED <<port, queue, window, reply, sw, outcome>> /\ Running' = Running
      BY <1>7 DEF swVars, Running
    <2>2. TypeOK'
      <3>1. DevTypeOK'
        BY <1>1, <1>2, <1>4 DEF DevTypeOK, HostOnly
      <3>2. HostTypeOK'
        BY <1>1, <1>2, <1>3, <1>7, <2>1 DEF HostTypeOK, Reading
      <3> QED
        BY <2>1, <3>1, <3>2 DEF LinkInv, TypeOK
    <2>3. StepInv'
      BY <1>1, <1>2, <1>5, <1>7, <2>1 DEF StepInv, Answering
    <2>4. OrphanInv' /\ ReadyInv' /\ AckInv'
      BY <1>2, <1>5, <1>7 DEF OrphanInv, ReadyInv, AckInv
    <2>5. OwnInv'
      <3>1. /\ cur \in {Nobody, Running.r}
            /\ \A i \in DOMAIN rx : Opcode(rx[i]) => rx[i].r = Running.r
            /\ \A i \in DOMAIN Stream : Stream[i].m \in Answers => Stream[i].r = Running.r
            /\ got.m \in Answers => got.r = Running.r
        BY <1>1, <1>2 DEF OwnInv, Answering
      <3>2. cur' \in {Nobody, Running.r} /\ \A i \in DOMAIN rx' : Opcode(rx'[i]) => rx'[i].r = Running.r
        BY <1>2, <3>1 DEF HostOnly
      <3>3. \A i \in DOMAIN Stream' : Stream'[i].m \in Answers => Stream'[i].r = Running.r
        BY <1>3, <3>1
      <3>4. got'.m \in Answers => got'.r = Running.r
        BY <1>3, <1>7, <3>1
      <3> QED
        BY <2>1, <3>2, <3>3, <3>4 DEF OwnInv
    <2>6. WorkerInv'
      BY <1>1, <1>2, <2>1, WorkerStays
    <2> QED
      BY <1>4, <2>2, <2>3, <2>4, <2>5, <2>6 DEF LinkInv
  <1>8. \/ SkipReady /\ Finish("error")
        \/ /\ skips' \in 0..(ReadySkips - 1) /\ got' = got /\ step' = "marker"
           /\ UNCHANGED <<port, queue, window, reply>>
        \/ /\ got' = Head(buf) /\ Head(buf).m \in Accepted(Running.r) /\ step' = "done"
           /\ UNCHANGED <<port, queue, window, reply, skips>>
    <2>1. CASE SkipReady
      <3>1. skips \in 0..(ReadySkips - 1) /\ ReadySkips \in Nat
        BY <1>1, HostBoundsAssumption DEF HostTypeOK
      <3>2. skips < ReadySkips - 1 => skips + 1 \in 0..(ReadySkips - 1)
        BY <3>1
      <3> QED
        BY <2>1, <3>2 DEF SkipReady, Goto
    <2>2. CASE ReadMarker
      BY <2>2 DEF ReadMarker, Goto, Next1
    <2> QED
      BY <2>1, <2>2
  <1> QED
    BY <1>6, <1>7, <1>8

\* The answer is complete: no transaction gets an answer that only a
\* connection or a query can get.
LEMMA DoneKeeps ==
    ASSUME LinkInv, HostOnly, KeepsUp, UNCHANGED swVars, ReadDone
    PROVE  LinkInv'
  <1>1. DevTypeOK /\ HostTypeOK /\ PhaseInv /\ OpcodeInv /\ StepInv
    BY DEF LinkInv, TypeOK
  <1>2. /\ step = "done" /\ Finish(OutcomeOf(got.m))
        /\ orphans' = orphans /\ wire' = wire /\ rx' = rx
        /\ buf # <<>> /\ buf' = Tail(buf)
    BY DEF ReadDone, Unread, Next1
  <1>3. queue # <<>> /\ Running.op \in {"ask", "beat"} /\ port # "closed"
        /\ got.m \in IF Running.op = "ask" THEN Accepted(Running.r) ELSE {"DONE"}
    BY <1>1, <1>2 DEF HostTypeOK, StepInv, Answering
  <1>4. buf' \in Seq(ToHost) /\ wire' \in Seq(ToHost) /\ orphans' \in 0..MaxOrphans
    BY <1>1, <1>2, Behead DEF DevTypeOK, HostTypeOK
  <1>5. /\ PhaseInv' /\ OpcodeInv'
        /\ rx' \in Seq(ToDevice) /\ Len(rx') <= FifoBytes /\ behind' \in BOOLEAN
    BY <1>1, <1>2, RxStays
  <1>6. Running.r \in Tx => Marker(Running.r) = "SIG"
    BY KindsAssumption DEF Marker, Req, Asking
  <1>7. got.m \in {"SIG", "OK", "DATA", "CANCEL", "REJECT", "DONE"}
    BY <1>3 DEF Accepted, Marker
  <1>8. OutcomeOf(got.m) \in Outcomes
    BY <1>7 DEF OutcomeOf, Outcomes
  <1>9. Running.op # "beat" /\ Running.r \in Tx => OutcomeOf(got.m) \notin {"ok", "data"}
    BY <1>3, <1>6 DEF Accepted, OutcomeOf
  <1>10. Running.op # "result"
    BY <1>3
  <1> QED
    BY <1>2, <1>3, <1>4, <1>5, <1>8, <1>9, <1>10, FinishKeeps

\* The broadcast's result is sent without a word from the cartridge.
LEMMA ResultKeeps ==
    ASSUME LinkInv, HostOnly, KeepsUp, UNCHANGED swVars, BeginResult \/ WriteResult
    PROVE  LinkInv'
  <1>1. DevTypeOK /\ HostTypeOK /\ PhaseInv /\ OpcodeInv /\ StepInv /\ WorkerInv
    BY DEF LinkInv, TypeOK
  <1>2. /\ step' \in {"result", "hash"} /\ queue # <<>> /\ Running.op = "result" /\ port # "closed"
        /\ UNCHANGED <<port, queue, reply, buf, skips, got, orphans, wire, sw, outcome>>
        /\ Running' = Running
    BY <1>1 DEF BeginResult, WriteResult, Idle, Goto, Unread, swVars, Running, StepInv, HostTypeOK
  <1>3. /\ PhaseInv' /\ OpcodeInv'
        /\ rx' \in Seq(ToDevice) /\ Len(rx') <= FifoBytes /\ behind' \in BOOLEAN
    <2>1. CASE BeginResult
      BY <1>1, <2>1, RxStays DEF BeginResult
    <2>2. CASE WriteResult
      <3>1. Running \in Jobs /\ Running.r \in Req
        BY <1>1, <1>2, QueueShrinks, JobKinds
      <3>2. Msg("RESULT", Running.r) \in ToDevice /\ ~Opcode(Msg("RESULT", Running.r))
        BY <3>1 DEF Msg, ToDevice, Incoming, Opcode
      <3>3. Receive(Msg("RESULT", Running.r))
        BY <2>2 DEF WriteResult, Put
      <3> QED
        BY <1>1, <3>2, <3>3, ReceiveKeeps
    <2> QED
      BY <2>1, <2>2
  <1>4. window' \in BOOLEAN /\ (step # "idle" => window' = window)
    BY <1>1 DEF BeginResult, WriteResult, Idle, Goto, HostTypeOK
  <1>5. TypeOK'
    <2>1. DevTypeOK'
      BY <1>1, <1>2, <1>3 DEF DevTypeOK, HostOnly
    <2>2. HostTypeOK'
      BY <1>1, <1>2, <1>4 DEF HostTypeOK, Writing
    <2> QED
      BY <1>2, <2>1, <2>2 DEF LinkInv, TypeOK
  <1>6. step # "done" /\ got = DONE
    BY <1>1, <1>2 DEF StepInv, BeginResult, WriteResult, Idle
  <1>7. StepInv'
    BY <1>1, <1>2, <1>6 DEF StepInv, Answering
  <1>8. OrphanInv' /\ ReadyInv' /\ AckInv' /\ OwnInv'
    BY <1>2 DEF OrphanInv, ReadyInv, AckInv, OwnInv, Answering
  <1>9. WorkerInv'
    <2>1. ~OnlyBeats(queue)
      BY <1>1, <1>2, QueueShrinks DEF OnlyBeats
    <2>2. ~OnlyBeats(queue')
      BY <1>2, <2>1
    <2> QED
      BY <1>1, <1>2, <2>1, <2>2 DEF WorkerInv
  <1> QED
    BY <1>3, <1>5, <1>7, <1>8, <1>9 DEF LinkInv

\* Its hash ends it.
LEMMA HashKeeps ==
    ASSUME LinkInv, HostOnly, KeepsUp, UNCHANGED swVars, WriteHash
    PROVE  LinkInv'
  <1>1. DevTypeOK /\ HostTypeOK /\ PhaseInv /\ OpcodeInv /\ StepInv
    BY DEF LinkInv, TypeOK
  <1>2. /\ step = "hash" /\ Receive(Msg("HASH", Running.r)) /\ Finish("sent")
        /\ buf' = buf /\ orphans' = orphans /\ wire' = wire
    BY DEF WriteHash, Put, Unread
  <1>3. queue # <<>> /\ Running.op = "result" /\ port # "closed"
    BY <1>1, <1>2 DEF HostTypeOK, StepInv
  <1>4. Running \in Jobs /\ Running.r \in Req
    BY <1>1, <1>3, QueueShrinks, JobKinds
  <1>5. Msg("HASH", Running.r) \in ToDevice /\ ~Opcode(Msg("HASH", Running.r))
    BY <1>4 DEF Msg, ToDevice, Incoming, Opcode
  <1>6. /\ PhaseInv' /\ OpcodeInv'
        /\ rx' \in Seq(ToDevice) /\ Len(rx') <= FifoBytes /\ behind' \in BOOLEAN
    BY <1>1, <1>2, <1>5, ReceiveKeeps
  <1>7. buf' \in Seq(ToHost) /\ wire' \in Seq(ToHost) /\ orphans' \in 0..MaxOrphans
    BY <1>1, <1>2 DEF DevTypeOK, HostTypeOK
  <1>8. "sent" \in Outcomes /\ "sent" \notin {"ok", "data", "sig"}
    BY DEF Outcomes
  <1> QED
    BY <1>2, <1>3, <1>6, <1>7, <1>8, FinishKeeps

\* Every step of the operation at work.
LEMMA HostKeeps ==
    ASSUME LinkInv, HostStep
    PROVE  LinkInv'
  <1>1. HostOnly /\ KeepsUp /\ UNCHANGED swVars
    BY DEF HostStep
  <1>2. CASE SkipBeat \/ PortLost \/ NotReady \/ UnexpectedMarker \/ NotDone \/ ArgumentTooLong
             \/ (ReadTimeout /\ UNCHANGED rx)
    BY <1>1, <1>2, EndsKeep
  <1>3. CASE Drain
    BY <1>1, <1>3, DrainKeeps
  <1>4. CASE ReadReady
    BY <1>1, <1>4, ReadyKeeps
  <1>5. CASE WriteOpcode /\ Polled
    BY <1>1, <1>5, OpcodeKeeps
  <1>6. CASE WriteBody
    BY <1>1, <1>6, BodyKeeps
  <1>7. CASE SkipReady \/ ReadMarker
    BY <1>1, <1>7, MarkerKeeps
  <1>8. CASE ReadDone
    BY <1>1, <1>8, DoneKeeps
  <1>9. CASE BeginResult \/ WriteResult
    BY <1>1, <1>9, ResultKeeps
  <1>10. CASE WriteHash
    BY <1>1, <1>10, HashKeeps
  <1>11. WriteOpcode => step = "opcode"
    BY DEF WriteOpcode
  <1> QED
    BY <1>2, <1>3, <1>4, <1>5, <1>6, <1>7, <1>8, <1>9, <1>10, <1>11 DEF HostStep, Host, ReadStep

----
(* The whole link *)

\* Power on, and no session.
LEMMA InitKeeps == Init => LinkInv
  <1> SUFFICES ASSUME Init
               PROVE  LinkInv
    OBVIOUS
  <1> USE DEF Init, DevInit, HostInit
  <1>1. DevTypeOK
    <2>1. <<>> \in Seq(ToDevice) /\ Len(<<>>) = 0 /\ <<>> \in Seq(ToHost)
      OBVIOUS
    <2>2. 0 <= FifoBytes /\ 0 \in 0..MaxFaults
      BY BoundsAssumption
    <2>3. dev \in Phases /\ cur \in Req \cup {Nobody} /\ approved \subseteq Asking
      BY DEF Phases, Polling
    <2> QED
      BY <2>1, <2>2, <2>3 DEF DevTypeOK
  <1>2. HostTypeOK
    <2>1. DONE \in ToHost
      BY DEF DONE, Msg, ToHost, Outgoing
    <2>2. <<>> \in Seq(Jobs) /\ Len(<<>>) = 0 /\ <<>> \in Seq(ToHost)
      OBVIOUS
    <2>3. 0 \in 0..MaxOrphans /\ 0 \in 0..(ReadySkips - 1) /\ 0 <= MaxWaiting
      BY HostBoundsAssumption
    <2> QED
      BY <2>1, <2>2, <2>3 DEF HostTypeOK
  <1>3. TypeOK
    BY <1>1, <1>2 DEF TypeOK
  <1>4. PhaseInv /\ OpcodeInv
    BY DEF PhaseInv, OpcodeInv
  <1>5. StepInv /\ OrphanInv /\ ReadyInv /\ AckInv /\ OwnInv
    BY DEF StepInv, OrphanInv, ReadyInv, AckInv, OwnInv, Answering
  <1>6. WorkerInv
    <2>1. NoReply.r \notin Req /\ NoReply.out \notin {"ok", "data"}
      BY KindsAssumption DEF NoReply
    <2> QED
      BY <2>1 DEF WorkerInv
  <1> QED
    BY <1>3, <1>4, <1>5, <1>6 DEF LinkInv

\* No step of the worker, the page, the cartridge or the user undoes it.
LEMMA NextKeeps ==
    ASSUME LinkInv, [Next]_vars
    PROVE  LinkInv'
  <1>1. CASE UNCHANGED vars
    <2>1. /\ UNCHANGED <<dev, cur, rx, wire, behind, step, buf, orphans, got>>
          /\ UNCHANGED <<approved, faults, port, queue, skips, window, reply, sw, outcome>>
          /\ Running' = Running
      BY <1>1 DEF vars, devVars, hostVars, swVars, Running
    <2>2. TypeOK'
      BY <2>1 DEF LinkInv, TypeOK, DevTypeOK, HostTypeOK
    <2>3. StepInv'
      BY <2>1 DEF LinkInv, StepInv
    <2>4. OnlyBeats(queue) <=> OnlyBeats(queue')
      BY <2>1
    <2>5. WorkerInv'
      BY <2>1, <2>4 DEF LinkInv, WorkerInv
    <2> QED
      BY <2>1, <2>2, <2>3, <2>5, SameLine DEF LinkInv
  <1>2. CASE Connected
    BY <1>2, OpenKeeps
  <1>3. CASE \E r \in Req : Submit(r)
    BY <1>3, SubmitKeeps
  <1>4. CASE Worker
    BY <1>4, RepliesKeep, TellKeeps DEF Worker
  <1>5. CASE WorkerRestart
    BY <1>5, RestartKeeps
  <1>6. CASE WindowClosed
    BY <1>6, WindowKeeps
  <1>7. CASE ExtensionReload
    BY <1>7, ReloadKeeps
  <1>8. CASE BridgeLost
    BY <1>8, UnplugKeeps
  <1>9. CASE HostStep
    BY <1>9, HostKeeps
  <1>10. CASE FetchStep
    BY <1>10, FetchKeeps
  <1>11. CASE TickStep
    BY <1>11, TickKeeps
  <1>12. CASE Device \/ GiveUp \/ User \/ Disturb
    <2>1. CartridgeNext /\ UNCHANGED <<hostVars, swVars>>
      BY <1>12 DEF Device, GiveUp, User, Disturb, CartridgeNext
    <2> QED
      BY <2>1, CartridgeKeeps
  <1> QED
    BY <1>1, <1>2, <1>3, <1>4, <1>5, <1>6, <1>7, <1>8, <1>9, <1>10, <1>11, <1>12 DEF Next

\* The invariant of the link.
LEMMA LinkIsInvariant == Spec => []LinkInv
  <1>1. Init => LinkInv
    BY InitKeeps
  <1>2. LinkInv /\ [Next]_vars => LinkInv'
    BY NextKeeps
  <1> QED
    BY <1>1, <1>2, PTL DEF Spec

\* What the handlers, the operations and the worker store keeps its type:
\* the FIFO never holds more than it has room for.
THEOREM LinkTyped == Spec => []TypeOK
  <1>1. LinkInv => TypeOK
    BY DEF LinkInv
  <1> QED
    BY <1>1, LinkIsInvariant, PTL

\* When an operation writes its request, no read that drain or a timeout left
\* behind is still waiting to swallow the answer.
THEOREM OrphansAreFed == Spec => []NoOrphanStealsAnswer
  <1>1. LinkInv => NoOrphanStealsAnswer
    BY DEF LinkInv, TypeOK, HostTypeOK, StepInv, OrphanInv, NoOrphanStealsAnswer, Answering, Writing
  <1> QED
    BY <1>1, LinkIsInvariant, PTL

\* Every answer an operation can read was sent for its own request, whatever
\* was cut short before it: the bytes carry no request number.
THEOREM AnswersBelong == Spec => []AnswersAreOwn
  <1>1. ASSUME LinkInv PROVE AnswersAreOwn
    <2> SUFFICES ASSUME step \in {"marker", "done"}, NEW x \in Coming, x.m \in Answers
                 PROVE  x.r = Running.r
      BY DEF AnswersAreOwn
    <2>1. /\ \A i \in DOMAIN Stream : Stream[i].m \in Answers => Stream[i].r = Running.r
          /\ got.m \in Answers => got.r = Running.r
      BY <1>1 DEF LinkInv, OwnInv, Answering
    <2>2. buf \in Seq(ToHost) /\ wire \in Seq(ToHost)
      BY <1>1 DEF LinkInv, TypeOK, DevTypeOK, HostTypeOK
    <2>3. CASE x = got
      BY <2>1, <2>3
    <2>4. ASSUME NEW i \in DOMAIN buf, x = buf[i]
          PROVE  x.r = Running.r
      <3>1. i \in DOMAIN Stream /\ Stream[i] = x
        BY <2>2, <2>4, Behind DEF Stream
      <3> QED
        BY <2>1, <3>1
    <2>5. ASSUME NEW i \in DOMAIN wire, x = wire[i]
          PROVE  x.r = Running.r
      <3>1. Len(buf) + i \in DOMAIN Stream /\ Stream[Len(buf) + i] = x
        BY <2>2, <2>5, Behind DEF Stream
      <3> QED
        BY <2>1, <3>1
    <2> QED
      BY <2>3, <2>4, <2>5 DEF Coming
  <1> QED
    BY <1>1, LinkIsInvariant, PTL

\* Inside the window no heartbeat holds the lock or is on the line, although
\* the timer and the worker look at the window at different moments.
THEOREM HeartbeatWaits == Spec => []HeartbeatSparesResult
  <1>1. LinkInv => HeartbeatSparesResult
    BY DEF LinkInv, WorkerInv, HeartbeatSparesResult
  <1> QED
    BY <1>1, LinkIsInvariant, PTL

(***************************************************************************)
(* SerialLink implements SigningService: what a dApp is granted was asked  *)
(* for, and approved by the user, whatever happens on the line, in the     *)
(* page and to the worker in between.                                      *)
(***************************************************************************)
\* What the cartridge knows of requests, the worker has been asked for.
Known(r) == r \in Req => outcome[r] # NotAsked

AskedInv ==
    /\ Known(cur)
    /\ \A i \in DOMAIN rx : Opcode(rx[i]) => Known(rx[i].r)
    /\ \A r \in approved : Known(r)

\* A signature, or the OK of a connection, and what the page and the worker
\* make of it, comes after the user's A.
Consented(x) == x.m \in {"SIG", "OK"} => x.r \in approved

GrantInv ==
    /\ \A x \in Coming : Consented(x)
    /\ reply.out \in {"sig", "ok"} => reply.of = reply.r /\ reply.r \in approved
    /\ reply.out = "data" => reply.r \in Query
    /\ sw.st \in {"due", "overdue", "told"} => sw.r \in approved

ServiceInv == LinkInv /\ AskedInv /\ GrantInv

----
(* The cartridge *)

\* What it handles next is what an opcode named.
LEMMA CartridgeCur ==
    ASSUME DevTypeOK, PhaseInv, CartridgeNext
    PROVE  \/ cur' \in {cur, Nobody}
           \/ \E i \in DOMAIN rx : Opcode(rx[i]) /\ cur' = rx[i].r
  <1>1. CASE BeginPayload
    <2>1. rx # <<>> => 1 \in DOMAIN rx /\ Head(rx) = rx[1]
      BY RxTail
    <2>2. \A r \in Asking : r # Beat
      BY KindsAssumption DEF Req
    <2> QED
      BY <1>1, <2>1, <2>2 DEF BeginPayload, Arrived, Opcode
  <1>2. CASE ~BeginPayload
    BY <1>2 DEF CartridgeNext, DeviceStep, DeviceTimeout, UserAnswers, Disturbances,
           IgnoreByte, ReadAck, handle_heartbeat, handle_query, UnknownOpcode,
           ShowRequest, RejectChain, MalformedTx, BadLength,
           SwallowBytes, IgnoreInResult, ReadResult, ReadHash, OpcodeTimeout,
           PayloadTimeout, HashTimeout, Approve, Refuse, LeaveResult, Dismiss,
           CancelWipe, PowerOn, OpenWipeScreen, LockOrWipe, PowerOff,
           PulseReady, SecondPulse, RecvFailed
  <1> QED
    BY <1>1, <1>2

\* Only A on a confirmation screen approves.
LEMMA CartridgeApproves ==
    ASSUME CartridgeNext, ~Approve
    PROVE  approved' = approved
  BY DEF CartridgeNext, DeviceStep, DeviceTimeout, UserAnswers, Disturbances,
         IgnoreByte, ReadAck, handle_heartbeat, handle_query, UnknownOpcode, BeginPayload,
         ShowRequest, RejectChain, MalformedTx, BadLength,
         SwallowBytes, IgnoreInResult, ReadResult, ReadHash, OpcodeTimeout,
         PayloadTimeout, HashTimeout, Refuse, LeaveResult, Dismiss,
         CancelWipe, PowerOn, OpenWipeScreen, LockOrWipe, PowerOff,
         PulseReady, SecondPulse, RecvFailed

\* And what is sent without it is neither a signature nor a permission.
LEMMA CartridgeSilence ==
    ASSUME DevTypeOK, PhaseInv, CartridgeNext, ~Approve
    PROVE  \E s \in Seq(ToHost) :
              wire' = wire \o s /\ \A i \in DOMAIN s : s[i].m \notin {"SIG", "OK"}
  <1> DEFINE Mute(s) == s \in Seq(ToHost) /\ \A i \in DOMAIN s : s[i].m \notin {"SIG", "OK"}
  <1>0. /\ \A m, r : Msg(m, r).m = m
        /\ \A m \in Outgoing, r \in Req \cup {Nobody} : Msg(m, r) \in ToHost
    BY DEF Msg, ToHost
  <1>1. /\ DONE \in ToHost /\ DONE.m \notin {"SIG", "OK"}
        /\ READY \in ToHost /\ READY.m \notin {"SIG", "OK"}
        /\ CANCEL \in ToHost /\ CANCEL.m \notin {"SIG", "OK"}
    BY DEF DONE, READY, CANCEL, Msg, ToHost, Outgoing
  <1>2. ASSUME NEW b \in ToHost, b.m \notin {"SIG", "OK"}
        PROVE  Mute(<<b, DONE>>)
    BY <1>1, <1>2
  <1>3. Mute(<<>>) /\ Mute(<<READY>>) /\ Mute(<<DONE>>)
    BY <1>1
  <1>4. wire \in Seq(ToHost) => wire = wire \o <<>>
    OBVIOUS
  <1>5. CASE handle_query
    <2>1. Head(rx).r \in Req /\ Sent(<<Msg("DATA", Head(rx).r), DONE>>)
      BY <1>5 DEF handle_query, Req
    <2>2. Msg("DATA", Head(rx).r) \in ToHost /\ Msg("DATA", Head(rx).r).m = "DATA"
      BY <1>0, <2>1 DEF Outgoing, Answers
    <2> QED
      BY <1>2, <2>1, <2>2 DEF Sent
  <1>6. CASE RejectChain
    <2>1. cur \in Req /\ Sent(<<Msg("REJECT", cur), DONE>>)
      BY <1>6 DEF RejectChain, WholePayload, PhaseInv, Req
    <2>2. Msg("REJECT", cur) \in ToHost /\ Msg("REJECT", cur).m = "REJECT"
      BY <1>0, <2>1 DEF Outgoing, Answers
    <2> QED
      BY <1>2, <2>1, <2>2 DEF Sent
  <1>7. CASE ~handle_query /\ ~RejectChain
    <2>1. \/ wire' = wire \/ Sent(<<READY>>) \/ Sent(<<DONE>>) \/ Sent(<<CANCEL, DONE>>)
      BY <1>7 DEF CartridgeNext, DeviceStep, DeviceTimeout, UserAnswers, Disturbances,
             IgnoreByte, ReadAck, handle_heartbeat, UnknownOpcode, BeginPayload,
             ShowRequest, MalformedTx, BadLength,
             SwallowBytes, IgnoreInResult, ReadResult, ReadHash, OpcodeTimeout,
             PayloadTimeout, HashTimeout, Refuse, LeaveResult, Dismiss,
             CancelWipe, PowerOn, OpenWipeScreen, LockOrWipe, PowerOff,
             PulseReady, SecondPulse, RecvFailed
    <2>2. CASE wire' = wire
      BY <1>3, <1>4, <2>2 DEF DevTypeOK
    <2>3. CASE Sent(<<READY>>) \/ Sent(<<DONE>>) \/ Sent(<<CANCEL, DONE>>)
      BY <1>1, <1>2, <1>3, <2>3 DEF Sent
    <2> QED
      BY <2>1, <2>2, <2>3
  <1> QED
    BY <1>5, <1>6, <1>7

\* The cartridge's steps.
LEMMA CartridgeServes ==
    ASSUME ServiceInv, CartridgeNext, UNCHANGED <<hostVars, swVars>>
    PROVE  AskedInv' /\ GrantInv'
  <1>1. DevTypeOK /\ PhaseInv /\ AskedInv /\ GrantInv /\ buf \in Seq(ToHost)
    BY DEF ServiceInv, LinkInv, TypeOK, HostTypeOK
  <1>2. UNCHANGED <<buf, got, reply, sw, outcome>>
    BY DEF hostVars, swVars
  <1>3. \A r : Known(r) => Known(r)'
    BY <1>2 DEF Known
  <1>4. Known(Nobody)'
    BY KindsAssumption DEF Known
  <1>5. \A i \in DOMAIN rx' : Opcode(rx'[i]) => \E j \in DOMAIN rx : rx[j] = rx'[i]
    BY <1>1, CartridgeReads DEF Reads
  <1>6. Known(cur)' /\ \A i \in DOMAIN rx' : Opcode(rx'[i]) => (rx'[i].r \in Req => outcome'[rx'[i].r] # NotAsked)
    <2>1. Known(cur)'
      BY <1>1, <1>2, <1>4, CartridgeCur DEF AskedInv, Known
    <2>2. ASSUME NEW i \in DOMAIN rx', Opcode(rx'[i])
          PROVE  (rx'[i].r \in Req => outcome'[rx'[i].r] # NotAsked)
      BY <1>1, <1>2, <1>5, <2>2 DEF AskedInv, Known
    <2> QED
      BY <2>1, <2>2
  <1>7. \E s \in Seq(ToHost) : wire' = wire \o s /\ \A i \in DOMAIN s : Consented(s[i])'
    <2>1. CASE Approve
      <3>1. cur \in Req /\ approved' = approved \cup {cur} /\ wire' = wire \o <<Msg(Marker(cur), cur), DONE>>
        BY <1>1, <2>1 DEF Approve, PhaseInv, Sent, Req
      <3>2. Msg(Marker(cur), cur) \in ToHost /\ Msg(Marker(cur), cur).r = cur
        BY <3>1 DEF Msg, Marker, ToHost, Outgoing, Answers
      <3>3. DONE \in ToHost /\ DONE.m \notin {"SIG", "OK"}
        BY DEF DONE, Msg, ToHost, Outgoing
      <3>4. /\ <<Msg(Marker(cur), cur), DONE>> \in Seq(ToHost)
            /\ \A i \in DOMAIN <<Msg(Marker(cur), cur), DONE>> :
                  <<Msg(Marker(cur), cur), DONE>>[i] \in {Msg(Marker(cur), cur), DONE}
        BY <3>2, <3>3
      <3> QED
        BY <3>1, <3>2, <3>3, <3>4 DEF Consented
    <2>2. CASE ~Approve
      BY <1>1, <2>2, CartridgeSilence DEF Consented
    <2> QED
      BY <2>1, <2>2
  <1>8. approved \subseteq approved' /\ \A r \in approved' : r \in approved \/ r = cur
    <2>1. CASE Approve
      BY <2>1 DEF Approve
    <2>2. CASE ~Approve
      BY <2>2, CartridgeApproves
    <2> QED
      BY <2>1, <2>2
  <1>9. AskedInv'
    <2>1. \A r \in approved' : Known(r)'
      BY <1>1, <1>3, <1>8 DEF AskedInv
    <2> QED
      BY <1>6, <2>1 DEF AskedInv, Known
  <1>10. GrantInv'
    <2>1. PICK s \in Seq(ToHost) : wire' = wire \o s /\ \A i \in DOMAIN s : Consented(s[i])'
      BY <1>7
    <2>2. \A i \in DOMAIN wire' : wire'[i] \in Coming \/ \E j \in DOMAIN s : wire'[i] = s[j]
      <3>1. wire \in Seq(ToHost)
        BY <1>1 DEF DevTypeOK
      <3>2. /\ DOMAIN wire' = 1..(Len(wire) + Len(s)) /\ DOMAIN wire = 1..Len(wire)
            /\ Len(wire) \in Nat /\ Len(s) \in Nat
            /\ \A i \in 1..Len(wire) : wire'[i] = wire[i]
            /\ \A i \in (Len(wire) + 1)..(Len(wire) + Len(s)) :
                  i - Len(wire) \in DOMAIN s /\ wire'[i] = s[i - Len(wire)]
        BY <2>1, <3>1, Behind
      <3>3. ASSUME NEW i \in DOMAIN wire'
            PROVE  i \in 1..Len(wire) \/ i \in (Len(wire) + 1)..(Len(wire) + Len(s))
        BY ONLY <3>2, <3>3
      <3>4. \A i \in DOMAIN wire : wire[i] \in Coming
        BY DEF Coming
      <3> QED
        BY ONLY <3>2, <3>3, <3>4
    <2>3. \A x \in Coming' : x \in Coming \/ \E j \in DOMAIN s : x = s[j]
      BY <1>2, <2>2 DEF Coming
    <2>4. \A x \in Coming' : Consented(x)'
      <3>1. \A x \in Coming : x.m \in {"SIG", "OK"} => x.r \in approved
        BY <1>1 DEF GrantInv, Consented
      <3>2. \A j \in DOMAIN s : s[j].m \in {"SIG", "OK"} => s[j].r \in approved'
        BY <2>1 DEF Consented
      <3>3. \A x \in Coming' : x.m \in {"SIG", "OK"} => x.r \in approved'
        BY ONLY <1>8, <2>3, <3>1, <3>2
      <3> QED
        BY <3>3 DEF Consented
    <2>5. /\ reply'.out \in {"sig", "ok"} => reply'.of = reply'.r /\ reply'.r \in approved'
          /\ reply'.out = "data" => reply'.r \in Query
          /\ sw'.st \in {"due", "overdue", "told"} => sw'.r \in approved'
      BY <1>1, <1>2, <1>8 DEF GrantInv
    <2> QED
      BY <2>4, <2>5 DEF GrantInv
  <1> QED
    BY <1>9, <1>10

----
(* The page *)

\* What an operation writes is about its own request.
LEMMA HostWrites ==
    ASSUME LinkInv, HostStep
    PROVE  \A i \in DOMAIN rx' : Opcode(rx'[i]) =>
              \/ \E j \in DOMAIN rx : rx[j] = rx'[i]
              \/ queue # <<>> /\ rx'[i].r = Running.r
  <1>1. DevTypeOK /\ HostTypeOK /\ StepInv
    BY DEF LinkInv, TypeOK
  <1>2. rx' = rx \/ \E x \in ToDevice : Receive(x) /\ (Opcode(x) => x.r = Running.r /\ queue # <<>>)
    <2>1. ASSUME NEW m \in Incoming, Receive(Msg(m, Running.r)), step \in {"opcode", "body", "result", "hash"}
          PROVE  \E x \in ToDevice : Receive(x) /\ (Opcode(x) => x.r = Running.r /\ queue # <<>>)
      <3>1. queue # <<>> /\ Running \in Jobs
        BY <1>1, <2>1, QueueShrinks DEF HostTypeOK
      <3>2. Running.r \in Req \cup {Beat}
        BY <3>1, JobKinds DEF Jobs, Job
      <3>3. Msg(m, Running.r) \in ToDevice /\ Msg(m, Running.r).r = Running.r
        BY <2>1, <3>2 DEF Msg, ToDevice
      <3> QED
        BY <2>1, <3>1, <3>3
    <2>2. CASE ReadReady
      <3>1. Receive(Msg("ACK", Nobody)) /\ Msg("ACK", Nobody) \in ToDevice /\ ~Opcode(Msg("ACK", Nobody))
        BY <2>2 DEF ReadReady, Put, Msg, ToDevice, Incoming, Opcode
      <3> QED
        BY <3>1
    <2>3. CASE WriteOpcode
      BY <2>1, <2>3 DEF WriteOpcode, Put, Incoming
    <2>4. CASE WriteBody
      BY <2>1, <2>4 DEF WriteBody, Put, Incoming
    <2>5. CASE WriteResult
      BY <2>1, <2>5 DEF WriteResult, Put, Incoming
    <2>6. CASE WriteHash
      BY <2>1, <2>6 DEF WriteHash, Put, Incoming
    <2>7. CASE ~(ReadReady \/ WriteOpcode \/ WriteBody \/ WriteResult \/ WriteHash)
      BY <2>7 DEF HostStep, Host, ReadStep, Drain, SkipBeat, PortLost, NotReady,
             SkipReady, ReadMarker, UnexpectedMarker, ReadDone, NotDone, BeginResult, ArgumentTooLong
    <2> QED
      BY <2>2, <2>3, <2>4, <2>5, <2>6, <2>7
  <1>3. CASE rx' = rx
    BY <1>3
  <1>4. ASSUME NEW x \in ToDevice, Receive(x), Opcode(x) => x.r = Running.r /\ queue # <<>>
        PROVE  \A i \in DOMAIN rx' : Opcode(rx'[i]) =>
                  \/ \E j \in DOMAIN rx : rx[j] = rx'[i]
                  \/ queue # <<>> /\ rx'[i].r = Running.r
    <2>1. \A i \in DOMAIN rx' :
             \/ i \in DOMAIN rx /\ rx'[i] = rx[i]
             \/ i = Len(rx) + 1 /\ rx'[i] \in {JUNK, x}
      BY <1>1, <1>4, ReceiveAdds
    <2>2. ~Opcode(JUNK)
      BY DEF Opcode, JUNK, Msg
    <2> QED
      BY <1>4, <2>1, <2>2
  <1> QED
    BY <1>2, <1>3, <1>4

\* It reads no message twice, and makes an answer of no other.
LEMMA HostHears ==
    ASSUME LinkInv, HostStep
    PROVE  /\ \A x \in Coming' : x \in Coming \/ x = DONE
           /\ \/ reply' = reply
              \/ reply'.out \notin {"sig", "ok", "data"}
              \/ /\ step = "done" /\ Running.op # "beat"
                 /\ reply' = [out |-> OutcomeOf(got.m), r |-> Running.r, of |-> got.r]
  <1>1. buf \in Seq(ToHost)
    BY DEF LinkInv, TypeOK, HostTypeOK
  <1>2. /\ wire' \in {wire, <<>>}
        /\ buf' \in {buf, <<>>} \/ (buf # <<>> /\ buf' = Tail(buf))
        /\ got' \in {got, DONE} \/ (buf # <<>> /\ got' = Head(buf))
    BY DEF HostStep, Host, ReadStep, Drain, SkipBeat, PortLost, ReadReady, NotReady,
           SkipReady, ReadMarker, UnexpectedMarker, ReadDone, NotDone, BeginResult,
           WriteOpcode, WriteResult, WriteBody, ArgumentTooLong, WriteHash, ReadTimeout,
           Finish, Goto, Next1, Unread
  <1>3. buf # <<>> =>
           /\ Head(buf) = buf[1] /\ 1 \in DOMAIN buf
           /\ \A i \in DOMAIN Tail(buf) : i + 1 \in DOMAIN buf /\ Tail(buf)[i] = buf[i + 1]
    BY <1>1, Behead
  <1>4. \A x \in Coming' : x \in Coming \/ x = DONE
    <2>1. \A i \in DOMAIN buf : buf[i] \in Coming
      BY DEF Coming
    <2>2. \A i \in DOMAIN buf' : buf'[i] \in Coming
      BY <1>2, <1>3, <2>1
    <2>3. \A i \in DOMAIN wire' : wire'[i] \in Coming
      BY <1>2 DEF Coming
    <2>4. got' \in Coming \/ got' = DONE
      BY <1>2, <1>3, <2>1 DEF Coming
    <2> QED
      BY <2>2, <2>3, <2>4 DEF Coming
  <1>5. ASSUME NEW out, Finish(out), out \notin {"sig", "ok", "data"}
        PROVE  reply' = reply \/ reply'.out \notin {"sig", "ok", "data"}
    BY <1>5 DEF Finish
  <1>6. CASE ReadDone
    BY <1>4, <1>6 DEF ReadDone, Finish
  <1>7. CASE ~ReadDone
    <2>1. reply' = reply \/ Finish("error") \/ Finish("sent")
      BY <1>7 DEF HostStep, Host, ReadStep, Drain, SkipBeat, PortLost, ReadReady, NotReady,
             SkipReady, ReadMarker, UnexpectedMarker, NotDone, BeginResult,
             WriteOpcode, WriteResult, WriteBody, ArgumentTooLong, WriteHash, ReadTimeout, Goto
    <2>2. "error" \notin {"sig", "ok", "data"} /\ "sent" \notin {"sig", "ok", "data"}
      OBVIOUS
    <2>3. reply' = reply \/ reply'.out \notin {"sig", "ok", "data"}
      BY ONLY <1>5, <2>1, <2>2
    <2> QED
      BY ONLY <1>4, <2>3
  <1> QED
    BY <1>6, <1>7

\* The page's steps: an answer with a signature is the one to its own request.
LEMMA HostServes ==
    ASSUME ServiceInv, HostStep
    PROVE  AskedInv' /\ GrantInv'
  <1>1. LinkInv /\ WorkerInv /\ StepInv /\ OwnInv /\ HostTypeOK /\ AskedInv /\ GrantInv
    BY DEF ServiceInv, LinkInv, TypeOK
  <1>2. UNCHANGED <<cur, approved, sw, outcome>>
    BY DEF HostStep, HostOnly, swVars
  <1>3. queue # <<>> => Running \in Jobs /\ (Running.r \in Req => outcome[Running.r] # NotAsked)
    BY <1>1, QueueShrinks DEF WorkerInv
  <1>4. AskedInv'
    <2>1. \A i \in DOMAIN rx' : Opcode(rx'[i]) => (rx'[i].r \in Req => outcome[rx'[i].r] # NotAsked)
      BY <1>1, <1>3, HostWrites DEF AskedInv, Known
    <2> QED
      BY <1>1, <1>2, <2>1 DEF AskedInv, Known
  <1>5. \A x \in Coming' : Consented(x)'
    <2>1. DONE.m \notin {"SIG", "OK"}
      BY DEF DONE, Msg
    <2> QED
      BY <1>1, <1>2, <2>1, HostHears DEF GrantInv, Consented
  <1>6. /\ reply'.out \in {"sig", "ok"} => reply'.of = reply'.r /\ reply'.r \in approved
        /\ reply'.out = "data" => reply'.r \in Query
    <2>1. CASE reply' = reply \/ reply'.out \notin {"sig", "ok", "data"}
      BY <1>1, <2>1 DEF GrantInv
    <2>2. CASE /\ step = "done" /\ Running.op # "beat"
               /\ reply' = [out |-> OutcomeOf(got.m), r |-> Running.r, of |-> got.r]
      <3>1. Running.op = "ask" /\ got.m \in Accepted(Running.r)
        BY <1>1, <2>2 DEF StepInv, Answering
      <3>2. got.m \in Answers => got.r = Running.r
        BY <1>1, <2>2 DEF OwnInv, Answering
      <3>3. got \in Coming
        BY DEF Coming
      <3>4. OutcomeOf(got.m) \in {"sig", "ok"} => got.m \in {"SIG", "OK"}
        BY <3>1 DEF OutcomeOf, Accepted, Marker
      <3>5. OutcomeOf(got.m) = "data" => got.m = "DATA"
        BY <3>1 DEF OutcomeOf, Accepted, Marker
      <3>6. got.m = "DATA" => Running.r \in Query
        BY <3>1 DEF Accepted, Marker
      <3>7. got.m \in {"SIG", "OK"} => got.r \in approved /\ got.r = Running.r
        BY <1>1, <3>2, <3>3 DEF GrantInv, Consented, Answers
      <3> QED
        BY <2>2, <3>4, <3>5, <3>6, <3>7
    <2> QED
      BY <1>1, <2>1, <2>2, HostHears
  <1> QED
    BY <1>1, <1>2, <1>4, <1>5, <1>6 DEF GrantInv

\* A chunk that is fetched, kept or lost.
LEMMA FetchServes ==
    ASSUME ServiceInv, FetchStep
    PROVE  AskedInv' /\ GrantInv'
  <1>1. AskedInv /\ GrantInv /\ wire \in Seq(ToHost)
    BY DEF ServiceInv, LinkInv, TypeOK, DevTypeOK
  <1>2. UNCHANGED <<cur, rx, approved, sw, outcome, got, reply>>
    BY DEF FetchStep, Fetch, HostOnly, swVars
  <1>3. PICK n \in 1..Len(wire) :
          /\ wire' = SubSeq(wire, n + 1, Len(wire))
          /\ buf' = buf \/ buf' = SubSeq(wire, 1, n)
    BY DEF FetchStep, Fetch
  <1>4. /\ Len(wire) \in Nat /\ n \in Nat /\ DOMAIN wire = 1..Len(wire)
        /\ \A i \in DOMAIN wire : wire[i] \in Coming
        /\ \A i \in DOMAIN buf : buf[i] \in Coming
    BY <1>1, <1>3 DEF Coming
  <1>5. \A i \in DOMAIN SubSeq(wire, n + 1, Len(wire)) : SubSeq(wire, n + 1, Len(wire))[i] \in Coming
    BY <1>1, <1>3, <1>4
  <1>6. \A i \in DOMAIN SubSeq(wire, 1, n) : SubSeq(wire, 1, n)[i] \in Coming
    BY <1>1, <1>3, <1>4
  <1>7. Coming' \subseteq Coming
    <2>1. (\A i \in DOMAIN wire' : wire'[i] \in Coming) /\ (\A i \in DOMAIN buf' : buf'[i] \in Coming)
      BY ONLY <1>3, <1>4, <1>5, <1>6
    <2>2. got' \in Coming
      BY <1>2 DEF Coming
    <2> QED
      BY ONLY <2>1, <2>2 DEF Coming
  <1> QED
    BY <1>1, <1>2, <1>7 DEF AskedInv, GrantInv, Known, Consented

----
(* The worker *)

\* What the worker does about a request neither forgets one that was made nor
\* takes one for approved.
LEMMA WorkerServes ==
    ASSUME ServiceInv,
           \/ Connected \/ (\E r \in Req : Submit(r)) \/ Worker
           \/ WorkerRestart \/ WindowClosed \/ ExtensionReload \/ BridgeLost \/ TickStep
    PROVE  AskedInv' /\ GrantInv'
  <1>1. TypeOK /\ WorkerInv /\ AskedInv /\ GrantInv
    BY DEF ServiceInv, LinkInv
  <1>2. UNCHANGED <<cur, rx, approved>>
    BY DEF Connected, OpenPort, Submit, Worker, Fails, Succeeds, Tell, Told, StaleReply,
           WorkerRestart, WindowClosed, ExtensionReload, BridgeLost, TickStep, WorkerOnly, HostOnly
  <1>3. wire' \in {wire, <<>>} /\ buf' \in {buf, <<>>} /\ got' \in {got, DONE} /\ reply' \in {reply, NoReply}
    BY DEF Connected, OpenPort, Submit, Worker, Fails, Succeeds, Tell, Told, StaleReply,
           WorkerRestart, WindowClosed, WindowTimeout, ExtensionReload, Reload, BridgeLost, Unplug,
           TickStep, heartbeatTick, WorkerOnly, HostOnly, hostVars
  <1>4. \A r \in Req : outcome[r] # NotAsked => outcome'[r] # NotAsked
    BY <1>1 DEF TypeOK, Connected, Submit, Worker, Fails, Succeeds, Tell, Told, StaleReply,
           WorkerRestart, WindowClosed, ExtensionReload, BridgeLost, TickStep, swVars, Settle, NotAsked
  <1>5. \/ sw' = sw \/ sw'.st \in {"idle", "asked"}
        \/ sw'.r = sw.r /\ sw.st \in {"due", "overdue"}
        \/ /\ sw'.r = sw.r /\ sw.st = "asked" /\ reply.r = sw.r /\ sw.r \in Tx
           /\ reply.out \in {"sig", "ok", "data"}
    BY <1>1 DEF TypeOK, Connected, Submit, Worker, Fails, Succeeds, Tell, Told, StaleReply, At, Answered,
           WorkerRestart, WindowClosed, ExtensionReload, BridgeLost, TickStep, swVars
  <1>6. AskedInv'
    BY <1>1, <1>2, <1>4 DEF AskedInv, Known
  <1>7. \A x \in Coming' : Consented(x)'
    <2>1. DONE.m \notin {"SIG", "OK"}
      BY DEF DONE, Msg
    <2>2. \A x \in Coming' : x \in Coming \/ x = DONE
      BY <1>3 DEF Coming
    <2> QED
      BY <1>1, <1>2, <2>1, <2>2 DEF GrantInv, Consented
  <1>8. /\ reply'.out \in {"sig", "ok"} => reply'.of = reply'.r /\ reply'.r \in approved
        /\ reply'.out = "data" => reply'.r \in Query
    BY <1>1, <1>3 DEF GrantInv, NoReply
  <1>9. sw'.st \in {"due", "overdue", "told"} => sw'.r \in approved
    <2>1. Tx \cap Query = {}
      BY KindsAssumption DEF Asking
    <2> QED
      BY <1>1, <1>5, <2>1 DEF GrantInv
  <1> QED
    BY <1>2, <1>6, <1>7, <1>8, <1>9 DEF GrantInv

----
(* Every step *)

\* Nothing is asked for or approved at first.
LEMMA ServiceStarts == Init => ServiceInv
  <1> SUFFICES ASSUME Init
               PROVE  AskedInv /\ GrantInv
    BY InitKeeps DEF ServiceInv
  <1>1. /\ cur = Nobody /\ rx = <<>> /\ approved = {} /\ wire = <<>> /\ buf = <<>>
        /\ got = DONE /\ reply = NoReply /\ sw.st = "idle"
    BY DEF Init, DevInit, HostInit
  <1>2. AskedInv
    BY <1>1, KindsAssumption DEF AskedInv, Known
  <1>3. \A x \in Coming : x = DONE
    BY <1>1 DEF Coming
  <1> QED
    BY <1>1, <1>2, <1>3 DEF GrantInv, Consented, DONE, Msg, NoReply

\* No step of the three programs undoes the invariant.
LEMMA ServiceContinues ==
    ASSUME ServiceInv, [Next]_vars
    PROVE  ServiceInv'
  <1>1. LinkInv'
    BY NextKeeps DEF ServiceInv
  <1>2. AskedInv' /\ GrantInv'
    <2>1. CASE HostStep
      BY <2>1, HostServes
    <2>2. CASE FetchStep
      BY <2>2, FetchServes
    <2>3. CASE Device \/ GiveUp \/ User \/ Disturb
      <3>1. CartridgeNext /\ UNCHANGED <<hostVars, swVars>>
        BY <2>3 DEF Device, GiveUp, User, Disturb, CartridgeNext
      <3> QED
        BY <3>1, CartridgeServes
    <2>4. CASE \/ Connected \/ (\E r \in Req : Submit(r)) \/ Worker
               \/ WorkerRestart \/ WindowClosed \/ ExtensionReload \/ BridgeLost \/ TickStep
      BY <2>4, WorkerServes
    <2>5. CASE UNCHANGED vars
      <3>1. UNCHANGED <<cur, rx, approved, wire, buf, got, reply, sw, outcome>>
        BY <2>5 DEF vars, devVars, hostVars, swVars
      <3>2. Coming' = Coming
        BY <3>1 DEF Coming
      <3> QED
        BY <3>1, <3>2 DEF ServiceInv, AskedInv, GrantInv, Known, Consented
    <2> QED
      BY <2>1, <2>2, <2>3, <2>4, <2>5 DEF Next
  <1> QED
    BY <1>1, <1>2 DEF ServiceInv

----
(* The refinement *)

\* Nothing the service promises about changes.
LEMMA ServiceStutters ==
    ASSUME UNCHANGED <<outcome, approved>>
    PROVE  UNCHANGED Service!vars
  BY DEF Service!vars

\* One action of the service.
LEMMA ServiceActs ==
    ASSUME NEW r \in Asking,
           Service!Ask(r) \/ Service!Approve(r) \/ Service!Grant(r) \/ Service!Refuse(r)
    PROVE  [Service!Next]_Service!vars
  <1>1. Service!Next
    BY ONLY Service!Ask(r) \/ Service!Approve(r) \/ Service!Grant(r) \/ Service!Refuse(r)
       DEF Service!Next
  <1> QED
    BY ONLY <1>1

\* A request that is settled, or one that needs no approval.
LEMMA ServiceSettles ==
    ASSUME ServiceInv, sw.st # "idle", NEW o \in Granted \cup Refused, Settle(sw.r, o),
           approved' = approved,
           o \in Granted /\ sw.r \in Asking => sw.r \in approved
    PROVE  [Service!Next]_Service!vars
  <1>1. /\ sw.r \in Req /\ outcome[sw.r] = "asked"
        /\ outcome \in [Req -> {NotAsked, "asked"} \cup Granted \cup Refused]
    BY DEF ServiceInv, LinkInv, TypeOK, WorkerInv
  <1>2. outcome' = [outcome EXCEPT ![sw.r] = o]
    BY DEF Settle
  <1>3. "asked" \notin Granted \cup Refused /\ NotAsked # "asked" /\ NotAsked \notin Granted \cup Refused
        /\ Granted \cap Refused = {}
    BY DEF Granted, Refused, NotAsked
  <1>4. \A r \in Asking : r \in Req /\ (r # sw.r => outcome'[r] = outcome[r])
    BY <1>1, <1>2 DEF Req
  <1>5. outcome'[sw.r] = o
    BY <1>1, <1>2
  <1>6. CASE sw.r \notin Asking
    BY <1>4, <1>6 DEF Service!vars
  <1>7. CASE sw.r \in Asking /\ o \in Granted
    <2>1. PICK r \in Asking : r = sw.r
      BY <1>7
    <2>2. Service!Grant(r)
      BY <1>1, <1>3, <1>4, <1>5, <1>7, <2>1 DEF Service!Grant
    <2> QED
      BY <2>2, ServiceActs
  <1>8. CASE sw.r \in Asking /\ o \in Refused
    <2>1. PICK r \in Asking : r = sw.r
      BY <1>8
    <2>2. Service!Refuse(r)
      BY <1>1, <1>3, <1>4, <1>5, <1>8, <2>1 DEF Service!Refuse
    <2> QED
      BY <2>2, ServiceActs
  <1> QED
    BY <1>6, <1>7, <1>8

\* A request that is made.
LEMMA ServiceAsks ==
    ASSUME TypeOK, NEW r \in Req, Submit(r)
    PROVE  [Service!Next]_Service!vars
  <1>1. /\ outcome \in [Req -> {NotAsked, "asked"} \cup Granted \cup Refused]
        /\ outcome' = [outcome EXCEPT ![r] = "asked"] /\ outcome[r] = NotAsked /\ approved' = approved
    BY DEF TypeOK, Submit, Settle, WorkerOnly, HostOnly
  <1>2. "asked" \notin Granted \cup Refused /\ NotAsked # "asked" /\ NotAsked \notin Granted \cup Refused
    BY DEF Granted, Refused, NotAsked
  <1>3. \A x \in Asking : x \in Req /\ (x # r => outcome'[x] = outcome[x])
    BY <1>1 DEF Req
  <1>4. outcome'[r] = "asked"
    BY <1>1
  <1>5. CASE r \notin Asking
    BY <1>1, <1>3, <1>5 DEF Service!vars
  <1>6. CASE r \in Asking
    <2>1. Service!Ask(r)
      BY <1>1, <1>2, <1>3, <1>4, <1>6 DEF Service!Ask
    <2> QED
      BY <1>6, <2>1, ServiceActs
  <1> QED
    BY <1>5, <1>6

\* A request that is approved.
LEMMA ServiceApproves ==
    ASSUME ServiceInv, CartridgeNext, UNCHANGED <<hostVars, swVars>>
    PROVE  [Service!Next]_Service!vars
  <1>1. outcome' = outcome
    BY DEF swVars
  <1>2. CASE Approve
    <2>1. cur \in Asking /\ outcome[cur] # NotAsked /\ approved' = approved \cup {cur}
      BY <1>2 DEF Approve, ServiceInv, LinkInv, PhaseInv, AskedInv, Known, Req
    <2>2. Service!Approve(cur)
      BY <1>1, <2>1 DEF Service!Approve
    <2> QED
      BY <2>1, <2>2, ServiceActs
  <1>3. CASE ~Approve
    BY <1>1, <1>3, CartridgeApproves, ServiceStutters
  <1> QED
    BY <1>2, <1>3

\* A response that settles a request: only the user's approval makes it a
\* success.
LEMMA ServiceReplies ==
    ASSUME ServiceInv, Worker
    PROVE  [Service!Next]_Service!vars
  <1>1. WorkerInv /\ GrantInv /\ TypeOK
    BY DEF ServiceInv, LinkInv
  <1>2. approved' = approved
    BY DEF Worker, Fails, Succeeds, Tell, Told, StaleReply, WorkerOnly, HostOnly
  <1>3. CASE Fails
    <2>1. PICK o \in {"cancelled", "failed"} : Settle(sw.r, o)
      BY <1>3 DEF Fails
    <2>2. sw.st # "idle" /\ o \in Refused /\ o \notin Granted
      BY <1>3 DEF Fails, Answered, Refused, Granted
    <2> QED
      BY <1>2, <2>1, <2>2, ServiceSettles
  <1>4. CASE Succeeds /\ sw.r \notin Tx
    <2>1. PICK o \in Granted : Settle(sw.r, o)
      BY <1>4 DEF Succeeds, Granted
    <2>2. sw.r \in Asking => sw.r \in approved
      <3>1. reply.r = sw.r /\ reply.out \in {"sig", "ok", "data"}
        BY <1>4 DEF Succeeds, Answered
      <3>2. sw.r \in Asking => sw.r \notin Query
        BY KindsAssumption
      <3> QED
        BY <1>1, <3>1, <3>2 DEF GrantInv
    <2>3. sw.st # "idle"
      BY <1>4 DEF Succeeds, Answered
    <2> QED
      BY <1>2, <2>1, <2>2, <2>3, ServiceSettles
  <1>5. CASE Told
    <2>1. PICK o \in {"signed", "failed"} : Settle(sw.r, o)
      BY <1>5 DEF Told
    <2>2. sw.st # "idle" /\ sw.r \in approved /\ o \in Granted \cup Refused
      BY <1>1, <1>5 DEF Told, GrantInv, Granted, Refused
    <2> QED
      BY <1>2, <2>1, <2>2, ServiceSettles
  <1>6. CASE (Succeeds /\ sw.r \in Tx) \/ Tell \/ StaleReply
    <2>1. outcome' = outcome
      BY <1>6 DEF Succeeds, Tell, StaleReply, swVars
    <2> QED
      BY <1>2, <2>1, ServiceStutters
  <1> QED
    BY <1>3, <1>4, <1>5, <1>6 DEF Worker

\* A request that is dropped with the worker.
LEMMA ServiceDrops ==
    ASSUME ServiceInv, WorkerRestart \/ ExtensionReload
    PROVE  [Service!Next]_Service!vars
  <1>1. approved' = approved /\ "dropped" \in Refused /\ "dropped" \notin Granted
    BY DEF WorkerRestart, ExtensionReload, Refused, Granted
  <1>2. TypeOK
    BY DEF ServiceInv, LinkInv
  <1>3. CASE WorkerRestart
    <2>1. sw.st # "idle" /\ Settle(sw.r, "dropped")
      BY <1>3 DEF WorkerRestart
    <2> QED
      BY <1>1, <2>1, ServiceSettles
  <1>4. CASE ExtensionReload
    <2>1. outcome' = [r \in Req |-> IF r = sw.r THEN "dropped" ELSE outcome[r]]
      BY <1>4 DEF ExtensionReload
    <2>2. CASE sw.st = "idle"
      <3>1. sw.r \notin Req
        BY <1>2, <2>2, KindsAssumption DEF TypeOK
      <3>2. outcome' = outcome
        BY <1>2, <2>1, <3>1 DEF TypeOK
      <3> QED
        BY <1>1, <3>2, ServiceStutters
    <2>3. CASE sw.st # "idle"
      <3>1. Settle(sw.r, "dropped")
        BY <1>2, <2>1 DEF TypeOK, Settle
      <3> QED
        BY <1>1, <2>3, <3>1, ServiceSettles
    <2> QED
      BY <2>2, <2>3
  <1> QED
    BY <1>3, <1>4

\* Every behaviour of the three programs together is one of the service.
THEOREM LinkImplementsService == Spec => ImplementsSigningService
  <1>1. Init => Service!Init
    <2> SUFFICES ASSUME Init
                 PROVE  Service!Init
      OBVIOUS
    <2>1. approved = {} /\ \A r \in Asking : outcome[r] = NotAsked
      BY DEF Init, DevInit, Req
    <2>2. NotAsked \notin Granted \cup Refused
      BY DEF NotAsked, Granted, Refused
    <2> QED
      BY <2>1, <2>2 DEF Service!Init
  <1>2. ServiceInv /\ [Next]_vars => [Service!Next]_Service!vars
    <2> SUFFICES ASSUME ServiceInv, [Next]_vars
                 PROVE  [Service!Next]_Service!vars
      OBVIOUS
    <2>1. CASE \E r \in Req : Submit(r)
      BY <2>1, ServiceAsks DEF ServiceInv, LinkInv
    <2>2. CASE Device \/ GiveUp \/ User \/ Disturb
      <3>1. CartridgeNext /\ UNCHANGED <<hostVars, swVars>>
        BY <2>2 DEF Device, GiveUp, User, Disturb, CartridgeNext
      <3> QED
        BY <3>1, ServiceApproves
    <2>3. CASE Worker
      BY <2>3, ServiceReplies
    <2>4. CASE WorkerRestart \/ ExtensionReload
      BY <2>4, ServiceDrops
    <2>5. CASE UNCHANGED vars \/ Connected \/ WindowClosed \/ BridgeLost \/ HostStep \/ FetchStep \/ TickStep
      <3>1. UNCHANGED <<outcome, approved>>
        BY <2>5 DEF vars, devVars, swVars, Connected, WindowClosed, BridgeLost, HostStep, FetchStep,
               TickStep, HostOnly
      <3> QED
        BY <3>1, ServiceStutters
    <2> QED
      BY <2>1, <2>2, <2>3, <2>4, <2>5 DEF Next
  <1>3. Spec => []ServiceInv
    <2>1. Init => ServiceInv
      BY ServiceStarts
    <2>2. ServiceInv /\ [Next]_vars => ServiceInv'
      BY ServiceContinues
    <2> QED
      BY <2>1, <2>2, PTL DEF Spec
  <1> QED
    BY <1>1, <1>2, <1>3, PTL DEF Spec, ImplementsSigningService, Service!Spec
====
