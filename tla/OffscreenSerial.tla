---- MODULE OffscreenSerial ----
(***************************************************************************)
(* The host's end of the serial link, extension/src/offscreen/serial.ts:   *)
(* the port session, its lock, the protocol operations, the heartbeat      *)
(* timer and the TXRESULT window.  Bytes reach the cartridge by            *)
(* GbaLink!Receive and come back over GbaLink!wire, fetched in chunks.     *)
(*                                                                         *)
(* A read that times out is not cancelled: reader.read() stays queued and  *)
(* the chunk it gets later is thrown away.  Such reads are counted in      *)
(* orphans.                                                                *)
(***************************************************************************)
EXTENDS GbaLink

CONSTANTS
    ReadySkips,     \* READYs drainUntil skips before it gives up (32)
    MaxOrphans,     \* bound on orphaned reads
    MaxWaiting      \* bound on operations waiting for the lock

ASSUME HostBoundsAssumption ==
    ReadySkips \in Nat \ {0} /\ MaxOrphans \in Nat \ {0} /\ MaxWaiting \in Nat \ {0}

VARIABLES
    port,       \* closed, open, or lost with currentSession still set
    queue,      \* operations in lock order, the first one running
    step,       \* where the running operation is
    buf,        \* rxBuffer
    orphans,    \* reads whose chunk will be thrown away
    skips,      \* READYs skipped by drainUntil
    got,        \* the answer drainUntil returned
    window,     \* inTxResultWindow
    reply       \* response not yet seen by the service worker

hostVars == <<port, queue, step, buf, orphans, skips, got, window, reply>>

Job(op, r) == [op |-> op, r |-> r]
Jobs == [op : {"ask"}, r : Req] \cup {Job("beat", Beat)} \cup [op : {"result"}, r : Tx]
Outcomes == {"sig", "ok", "data", "cancel", "reject", "error", "sent"}
NoReply == [out |-> "none", r |-> Nobody, of |-> Nobody]
Replies == [out : Outcomes, r : Req, of : Req \cup {Nobody}]

Reading == {"ready", "marker", "done"}
Writing == {"opcode", "body", "result", "hash"}

HostInit ==
    /\ port = "closed" /\ queue = <<>> /\ step = "idle"
    /\ buf = <<>> /\ orphans = 0 /\ skips = 0 /\ got = DONE
    /\ window = FALSE /\ reply = NoReply

HostTypeOK ==
    /\ port \in {"closed", "open", "lost"}
    /\ queue \in Seq(Jobs) /\ Len(queue) <= MaxWaiting
    /\ step \in {"idle"} \cup Reading \cup Writing
    /\ step # "idle" => queue # <<>>
    /\ buf \in Seq(ToHost)
    /\ orphans \in 0..MaxOrphans
    /\ skips \in 0..(ReadySkips - 1)
    /\ got \in ToHost
    /\ window \in BOOLEAN
    /\ reply \in Replies \cup {NoReply}

Running == Head(queue)
Idle == step = "idle" /\ queue # <<>>
Orphaned(n) == IF n < MaxOrphans THEN n + 1 ELSE n

----
(* Lock and session *)

\* withLock: wait behind the operations already there.
Enqueue(job) == Len(queue) < MaxWaiting /\ queue' = Append(queue, job)

\* openSession: settle, then drain what the bridge printed at boot.
OpenPort ==
    /\ port = "closed" /\ port' = "open"
    /\ wire' = <<>> /\ buf' = <<>> /\ orphans' = Orphaned(0)
    /\ UNCHANGED <<queue, step, skips, got, window, reply>>

HeartbeatPending == \E i \in DOMAIN queue : queue[i].op = "beat"

heartbeatTick ==
    /\ port # "closed" /\ ~HeartbeatPending /\ ~window
    /\ Enqueue(Job("beat", Beat))
    /\ UNCHANGED <<port, step, buf, orphans, skips, got, window, reply>>

\* The operation ends and the lock passes on.
Finish(out) ==
    /\ step' = "idle" /\ queue' = Tail(queue)
    /\ skips' = 0 /\ got' = DONE
    /\ window' = /\ Running.op # "result"
                 /\ window \/ (out = "sig" /\ Running.r \in Tx)
    /\ reply' = IF Running.op = "beat" THEN reply
                ELSE [out |-> out, r |-> Running.r, of |-> got.r]
    /\ UNCHANGED port

Goto(s) == step' = s /\ UNCHANGED <<port, queue, window, reply>>

----
(* Reading *)

\* A chunk arrives: any number of the messages on the wire.  The oldest
\* orphaned read takes it, if there is one.
Fetch ==
    /\ port = "open" /\ wire # <<>>
    /\ orphans > 0 \/ (step \in Reading /\ buf = <<>>)
    /\ \E n \in 1..Len(wire) :
          /\ wire' = SubSeq(wire, n + 1, Len(wire))
          /\ IF orphans > 0
             THEN orphans' = orphans - 1 /\ buf' = buf
             ELSE orphans' = orphans /\ buf' = SubSeq(wire, 1, n)
    /\ UNCHANGED <<port, queue, step, skips, got, window, reply>>

\* Writing is only possible on a live port.
Put(x) == port = "open" /\ Receive(x)

Next1(m) == buf # <<>> /\ Head(buf).m \in m /\ buf' = Tail(buf)
Unread == UNCHANGED <<orphans, wire>>

\* Mutant of ReadTimeout: the reads of an answer have no timeout.
AnswerNoTimeout ==
    /\ step = "ready" /\ buf = <<>>
    /\ orphans' = Orphaned(orphans)
    /\ Finish("error")
    /\ UNCHANGED <<buf, wire>>

\* read() throws after thirty seconds.
ReadTimeout ==
    /\ step \in Reading /\ buf = <<>>
    /\ orphans' = Orphaned(orphans)
    /\ Finish("error")
    /\ UNCHANGED <<buf, wire>>

----
(* Operations *)

\* Mutant of Drain: ACK is written without waiting for READY.
AckAtOnce ==
    /\ Idle /\ port = "open"
    /\ Running.op = "ask" \/ (Running.op = "beat" /\ ~window)
    /\ buf' = <<>> /\ wire' = <<>>
    /\ orphans' = Orphaned(orphans)
    /\ Receive(Msg("ACK", Nobody))
    /\ Goto("opcode")
    /\ UNCHANGED <<skips, got>>

\* Mutant of Drain: the window is not looked at again under the lock.
DrainInWindow ==
    /\ Idle /\ port = "open" /\ Running.op \in {"ask", "beat"}
    /\ buf' = <<>> /\ wire' = <<>>
    /\ orphans' = Orphaned(orphans)
    /\ Goto("ready")
    /\ UNCHANGED <<skips, got, rx>>

\* drain(30): throw away what has arrived; the read that sees the silence is
\* itself orphaned.  A chunk on the wire goes to an orphan if there is one.
Drain ==
    /\ Idle /\ port = "open"
    /\ Running.op = "ask" \/ (Running.op = "beat" /\ ~window)
    /\ buf' = <<>> /\ wire' = <<>>
    /\ \/ wire = <<>> /\ orphans' = Orphaned(orphans)
       \/ wire # <<>> /\ \E c \in 1..Len(wire) :
             orphans' = IF orphans > c THEN Orphaned(orphans - c) ELSE 1
    /\ Goto("ready")
    /\ UNCHANGED <<skips, got, rx>>

\* The heartbeat looks at the window again once it has the lock.
SkipBeat ==
    /\ Idle /\ Running.op = "beat" /\ window
    /\ Finish("sent")
    /\ UNCHANGED <<buf, rx>> /\ Unread

\* Reads and writes on a lost port throw.
PortLost ==
    /\ port = "lost" /\ queue # <<>>
    /\ Finish("error")
    /\ UNCHANGED <<buf, rx>> /\ Unread

\* waitFirstReady, then ACK.
ReadReady ==
    /\ step = "ready" /\ Next1({"READY"})
    /\ Put(Msg("ACK", Nobody))
    /\ Goto("opcode")
    /\ UNCHANGED <<skips, got>> /\ Unread

NotReady ==
    /\ step = "ready" /\ Next1(Outgoing \ {"READY"})
    /\ Finish("error")
    /\ UNCHANGED rx /\ Unread

WriteOpcode ==
    /\ step = "opcode"
    /\ Put(Msg("OP", Running.r))
    /\ Goto(IF Running.r \in Asking THEN "body"
            ELSE IF Running.r \in Query THEN "marker" ELSE "done")
    /\ UNCHANGED <<buf, skips, got>> /\ Unread

WriteBody ==
    /\ step = "body"
    /\ Put(Msg("BODY", Running.r))
    /\ Goto("marker")
    /\ UNCHANGED <<buf, skips, got>> /\ Unread

\* The metadata is too long, after the ACK; the origin, after the opcode.
ArgumentTooLong ==
    /\ \/ step = "opcode" /\ Running.r \in Tx
       \/ step = "body" /\ Running.r \in Connect
    /\ Finish("error")
    /\ UNCHANGED <<buf, rx>> /\ Unread

Accepted(r) == {Marker(r), "CANCEL"} \cup (IF r \in Tx THEN {"REJECT"} ELSE {})

\* Mutant of SkipReady: one READY too many.
SkipOneMore ==
    /\ step = "marker" /\ Next1({"READY"})
    /\ \/ skips < ReadySkips /\ skips' = skips + 1 /\ got' = got /\ Goto("marker")
       \/ skips = ReadySkips /\ Finish("error")
    /\ UNCHANGED rx /\ Unread

\* drainUntil
SkipReady ==
    /\ step = "marker" /\ Next1({"READY"})
    /\ \/ skips < ReadySkips - 1 /\ skips' = skips + 1 /\ got' = got /\ Goto("marker")
       \/ skips = ReadySkips - 1 /\ Finish("error")
    /\ UNCHANGED rx /\ Unread

ReadMarker ==
    /\ step = "marker" /\ Next1(Accepted(Running.r))
    /\ got' = Head(buf)
    /\ Goto("done")
    /\ UNCHANGED <<skips, rx>> /\ Unread

UnexpectedMarker ==
    /\ step = "marker" /\ Next1(Outgoing \ ({"READY"} \cup Accepted(Running.r)))
    /\ Finish("error")
    /\ UNCHANGED rx /\ Unread

\* Mutant of OutcomeOf: opConnectRequest returns TRUE whatever the marker.
AnyMarkerAllows(m) ==
    CASE Running.r \in Connect -> "ok"
      [] m = "SIG" -> "sig"
      [] m = "DATA" -> "data"
      [] m = "REJECT" -> "reject"
      [] m = "CANCEL" -> "cancel"
      [] OTHER -> "sent"

OutcomeOf(m) ==
    CASE m = "SIG" -> "sig"
      [] m = "OK" -> "ok"
      [] m = "DATA" -> "data"
      [] m = "REJECT" -> "reject"
      [] m = "CANCEL" -> IF Running.r \in Query THEN "error" ELSE "cancel"
      [] m = "DONE" -> "sent"      \* heartbeat

\* The byte after the answer.  After a CANCEL most operations do not compare it.
ReadDone ==
    /\ step = "done"
    /\ \/ Next1({"DONE"})
       \/ got.m = "CANCEL" /\ Running.r \notin Connect /\ Next1(Outgoing)
    /\ Finish(OutcomeOf(got.m))
    /\ UNCHANGED rx /\ Unread

NotDone ==
    /\ step = "done" /\ Next1(Outgoing \ {"DONE"})
    /\ got.m # "CANCEL" \/ Running.r \in Connect
    /\ Finish("error")
    /\ UNCHANGED rx /\ Unread

\* opSendTxResult writes without waiting for READY.
BeginResult ==
    /\ Idle /\ port = "open" /\ Running.op = "result"
    /\ window' = FALSE /\ step' = "result"
    /\ UNCHANGED <<port, queue, reply, buf, skips, got, rx>> /\ Unread

WriteResult ==
    /\ step = "result"
    /\ Put(Msg("RESULT", Running.r))
    /\ Goto("hash")
    /\ UNCHANGED <<buf, skips, got>> /\ Unread

WriteHash ==
    /\ step = "hash"
    /\ Put(Msg("HASH", Running.r))
    /\ Finish("sent")
    /\ UNCHANGED buf /\ Unread

----
(* The window's safety timer, and what can happen to the page and the port *)

WindowTimeout ==
    /\ window /\ window' = FALSE
    /\ UNCHANGED <<port, queue, step, buf, orphans, skips, got, reply>>

\* The bridge resets or its cable is pulled; currentSession stays set.
Unplug ==
    /\ port = "open" /\ port' = "lost"
    /\ wire' = <<>>
    /\ UNCHANGED <<queue, step, buf, orphans, skips, got, window, reply>>

\* The extension is reloaded: the page and everything in it is gone.
Reload ==
    /\ port' = "closed" /\ queue' = <<>> /\ step' = "idle"
    /\ buf' = <<>> /\ orphans' = 0 /\ skips' = 0 /\ got' = DONE
    /\ window' = FALSE /\ reply' = NoReply
    /\ UNCHANGED wire

----
\* Steps of the page that touch neither the device's state nor its screen.
ReadStep ==
    \/ Drain \/ SkipBeat \/ PortLost \/ ReadReady \/ NotReady
    \/ SkipReady \/ ReadMarker \/ UnexpectedMarker \/ ReadDone \/ NotDone
    \/ BeginResult

WriteStep == WriteOpcode \/ WriteBody \/ ArgumentTooLong \/ WriteResult \/ WriteHash

====
