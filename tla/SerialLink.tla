---- MODULE SerialLink ----
(***************************************************************************)
(* The service worker, the offscreen page and the cartridge together:      *)
(* background/methods/*.ts and serial-bridge.ts over OffscreenSerial over  *)
(* GbaLink.  The worker holds its own lock for a whole request, so it asks *)
(* for one operation at a time; heartbeats come between.                   *)
(***************************************************************************)
EXTENDS OffscreenSerial

CONSTANT
    Unplugging      \* whether the bridge may be unplugged

VARIABLES
    sw,         \* what the worker is doing, and for which request
    outcome     \* what became of each request

swVars == <<sw, outcome>>
vars == <<devVars, hostVars, swVars>>

At(s, r) == sw' = [st |-> s, r |-> r]
NotAsked == "none"
Granted  == {"signed", "allowed", "read"}
Refused  == {"cancelled", "failed", "dropped"}

Init ==
    /\ DevInit /\ HostInit
    /\ sw = [st |-> "idle", r |-> Nobody]
    /\ outcome = [r \in Req |-> NotAsked]

TypeOK ==
    /\ DevTypeOK /\ HostTypeOK
    /\ sw \in [st : {"idle"}, r : {Nobody}] \cup [st : {"asked", "due", "overdue", "told"}, r : Req]
    /\ outcome \in [Req -> {NotAsked, "asked"} \cup Granted \cup Refused]

Settle(r, o) == outcome' = [outcome EXCEPT ![r] = o]
HostOnly == UNCHANGED <<dev, cur, approved, faults>>
WorkerOnly == HostOnly /\ UNCHANGED <<rx, wire, behind, port, step, buf, orphans, skips, got>>

----
(* The service worker *)

\* withGbaSession: sb-open is a no-op while a session is set, lost or not.
Connected == OpenPort /\ HostOnly /\ UNCHANGED <<rx, behind, swVars>>

Submit(r) ==
    /\ sw.st = "idle" /\ outcome[r] = NotAsked /\ port # "closed"
    /\ Enqueue(Job("ask", r))
    /\ At("asked", r) /\ Settle(r, "asked")
    /\ WorkerOnly /\ UNCHANGED <<window, reply>>

Answered == sw.st = "asked" /\ reply.r = sw.r

\* recoverRecid: the signature is of the digest asked for.
Own == reply.of = sw.r

\* Cancelled in the popup, refused, rejected, or an error: nothing more is
\* sent, though a signing cartridge waits for its TXRESULT.
Fails ==
    /\ Answered
    /\ \/ /\ sw.r \in Tx \cup Sign \cup Typed /\ reply.out # "error"
          /\ Settle(sw.r, "cancelled")
       \/ Settle(sw.r, "failed") /\ (reply.out \notin {"sig", "ok", "data"} \/ ~Own)
    /\ At("idle", Nobody) /\ reply' = NoReply
    /\ WorkerOnly /\ UNCHANGED <<queue, window>>

\* Mutant of Succeeds: a transaction without a signature goes on.
SucceedsUnsigned ==
    /\ Answered /\ sw.r \in Tx /\ reply.out \in {"sig", "cancel"}
    /\ At("due", sw.r) /\ outcome' = outcome
    /\ reply' = NoReply
    /\ WorkerOnly /\ UNCHANGED <<queue, window>>

Succeeds ==
    /\ Answered /\ reply.out \in {"sig", "ok", "data"}
    /\ reply.out = "sig" => Own
    /\ IF sw.r \in Tx
       THEN At("due", sw.r) /\ outcome' = outcome
       ELSE /\ At("idle", Nobody)
            /\ Settle(sw.r, CASE sw.r \in Connect -> "allowed"
                              [] sw.r \in Query -> "read"
                              [] OTHER -> "signed")
    /\ reply' = NoReply
    /\ WorkerOnly /\ UNCHANGED <<queue, window>>

\* eth_sendRawTransaction has answered, or failed: tell the cartridge.
Tell ==
    /\ sw.st \in {"due", "overdue"}
    /\ Enqueue(Job("result", sw.r))
    /\ At("told", sw.r) /\ UNCHANGED outcome
    /\ WorkerOnly /\ UNCHANGED <<window, reply>>

\* sendTxResult has returned, its failure is ignored; a failed broadcast is
\* an error all the same.
Told ==
    /\ sw.st = "told" /\ reply.r = sw.r
    /\ At("idle", Nobody) /\ \E o \in {"signed", "failed"} : Settle(sw.r, o)
    /\ reply' = NoReply
    /\ WorkerOnly /\ UNCHANGED <<queue, window>>

\* A response to a worker that is gone.
StaleReply ==
    /\ reply # NoReply /\ reply.r # sw.r
    /\ reply' = NoReply
    /\ WorkerOnly /\ UNCHANGED <<queue, window, swVars>>

\* Chrome stops the worker: what it was waiting for is forgotten, what it
\* asked the page to do goes on.
WorkerRestart ==
    /\ sw.st # "idle" /\ Fault
    /\ At("idle", Nobody) /\ Settle(sw.r, "dropped")
    /\ UNCHANGED <<dev, cur, rx, wire, behind, approved, hostVars>>

\* The window runs out, perhaps while the transaction is still being
\* broadcast; a response reaches the worker long before that.
WindowClosed ==
    /\ WindowTimeout /\ ~Answered
    /\ sw' = IF sw.st = "due" THEN [sw EXCEPT !.st = "overdue"] ELSE sw
    /\ HostOnly /\ UNCHANGED <<rx, wire, behind, outcome>>

\* Reloading the extension takes the worker with it.
ExtensionReload ==
    /\ Reload /\ Fault
    /\ At("idle", Nobody)
    /\ outcome' = [r \in Req |-> IF r = sw.r THEN "dropped" ELSE outcome[r]]
    /\ UNCHANGED <<dev, cur, rx, behind, approved>>

BridgeLost ==
    /\ Unplugging /\ Unplug
    /\ HostOnly /\ UNCHANGED <<rx, behind, swVars>>

----
(* Timing the code relies on *)

\* 50 ms after the ACK and 25 ms after TXRESULT a device that polls once a
\* frame has read what was there.
Polled == dev \in Polling \cup Spinning => rx = <<>>

\* Nothing is coming for thirty seconds: the cartridge waits for the user,
\* for the host, or for power.
Silent ==
    /\ wire = <<>>
    /\ dev # "ready"
    /\ dev \in Spinning => rx = <<>>

\* The host reacts to a READY within the half second to the next one; when
\* it does not, that is SecondPulse.
Reacted == step \notin Writing /\ buf = <<>>

Host ==
    \/ ReadStep
    \/ (WriteOpcode \/ WriteResult) /\ (step = "opcode" => Polled)
    \/ WriteBody \/ ArgumentTooLong
    \/ WriteHash /\ Polled
    \/ Silent /\ ReadTimeout /\ UNCHANGED rx

HostStep == Host /\ HostOnly /\ KeepsUp /\ UNCHANGED swVars
FetchStep == Fetch /\ HostOnly /\ UNCHANGED <<rx, behind, swVars>>
TickStep == heartbeatTick /\ HostOnly /\ UNCHANGED <<rx, wire, behind, swVars>>

Device == (DeviceStep \/ (Reacted /\ PulseReady)) /\ UNCHANGED <<hostVars, swVars>>
\* A read gives up only when the host is not in the middle of a message.
GiveUp == step \notin Writing /\ DeviceTimeout /\ UNCHANGED <<hostVars, swVars>>
User == UserAnswers /\ UNCHANGED <<hostVars, swVars>>
Disturb == Disturbances /\ UNCHANGED <<hostVars, swVars>>

Worker == Fails \/ Succeeds \/ Tell \/ Told \/ StaleReply

Next ==
    \/ Connected \/ \E r \in Req : Submit(r)
    \/ Worker \/ WorkerRestart \/ WindowClosed \/ ExtensionReload \/ BridgeLost
    \/ HostStep \/ FetchStep \/ TickStep
    \/ Device \/ GiveUp \/ User \/ Disturb

Spec == Init /\ [][Next]_vars

\* Program steps happen, timers fire, and the user answers every screen.
\* What dApps ask and every disturbance may not happen at all.
Fairness ==
    /\ WF_vars(Worker) /\ WF_vars(WindowClosed)
    /\ WF_vars(HostStep) /\ WF_vars(FetchStep) /\ WF_vars(TickStep)
    /\ WF_vars(Device) /\ WF_vars(GiveUp) /\ WF_vars(User)

FairSpec == Spec /\ Fairness

----
(* Safety *)

\* A read orphaned by drain or by a timeout never swallows an answer: all of
\* them have been fed READYs by the time an operation writes its request.
NoOrphanStealsAnswer ==
    step \in Writing \cup {"marker", "done"} /\ Running.op = "ask" => orphans = 0

Coming == {buf[i] : i \in DOMAIN buf} \cup {wire[i] : i \in DOMAIN wire} \cup {got}

\* Whatever an operation may take for its answer was sent for its request,
\* also after timeouts, power cycles and reloads in the middle of others.
AnswersAreOwn ==
    step \in {"marker", "done"} /\ Running.op = "ask"
        => \A x \in Coming : x.m \in Answers => x.r = Running.r

\* While the worker still owes the cartridge a TXRESULT and the window is
\* open, no heartbeat is on the line or holds the lock.
HeartbeatSparesResult ==
    sw.st = "due" /\ step # "idle" => Running.op # "beat"

Service == INSTANCE SigningService WITH
    Req      <- Asking,
    asked    <- {r \in Asking : outcome[r] # NotAsked},
    granted  <- {r \in Asking : outcome[r] \in Granted},
    refused  <- {r \in Asking : outcome[r] \in Refused}

\* Only requests the user approved on the cartridge are granted, and only
\* requests dApps made are shown there.
ImplementsSigningService == Service!Spec

----
(* Liveness *)

\* Every request is settled, whatever the user, the line and the page do.
EveryRequestSettles ==
    \A r \in Req : outcome[r] = "asked" ~> outcome[r] # "asked"

HeartbeatAnswered ==
    step = "done" /\ Running.op = "beat" /\ buf # <<>> /\ Head(buf) = DONE

\* When the disturbances stop the two ends find each other again, unless the
\* wallet is locked or no session is opened.
LinkRecovers ==
    []<>HeartbeatAnswered \/ <>[](dev = "locked") \/ <>[](port = "closed")

====
