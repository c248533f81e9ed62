---- MODULE ExtensionProofs ----
(***************************************************************************)
(* Theorems about ExtensionState, for any number of handlers, origins,     *)
(* keys and chains.  The inductive invariant says, beside the properties,  *)
(* what each handler in progress carries from one await to the next: what  *)
(* it loaded, what it read and what it is about to write.                  *)
(***************************************************************************)
EXTENDS ExtensionState, TLAPS

TxPcs == {"txAddr", "txNet", "txShown", "txConfirm", "txOpen", "txSign", "txSend"}

\* A request is one of its handler's.
Req(x) ==
    /\ x.op = "tx"
    /\ x.pc \in {"txOpen", "txSign", "txSend", "load", "save"}

Sess(x) ==
    \/ x.op = "connect" /\ x.pc = "policy"
    \/ Req(x) /\ x.pc # "txOpen"

\* Which handler can be at which await.
Shape(x) ==
    /\ x.pc = "idle" => x = Idle
    /\ x.setter # "none" <=> x.pc \in {"load", "save"}
    /\ x.pc \in TxPcs => x.op = "tx"
    /\ x.op = "tx" => /\ x.pc \in TxPcs \cup {"load", "save"}
                      /\ x.setter \in {"none", "setGbaPolicyChainId"}
    /\ x.pc = "policy" => x.op \in {"connect", "refresh"}
    /\ x.pc \in {"reqAddr", "reqAuth", "askUser"} \/ x.setter = "authorizeOrigin"
       => x.op = "request"
    /\ x.op = "connect" => x.pc \in {"policy", "load", "save"}

\* Whom a handler answers and what it has read of the cartridge.
Serves(x, ap) ==
    /\ \/ x.pc \in {"accAuth", "accAddr", "reqAddr", "reqAuth", "askUser", "answer"}
       \/ x.setter \in {"authorizeOrigin", "revokeOrigin"}
       => x.org \in Origins
    /\ x.pc \in {"accAddr", "answer"} \/ x.setter = "authorizeOrigin" => x.org \in ap

Knows(x, rep) ==
    /\ x.addr \in rep \cup {None}
    /\ \/ x.pc \in {"reqAuth", "askUser", "answer"} \/ x.op = "connect"
       \/ x.setter \in {"authorizeOrigin", "setAddress"}
       => x.addr \in Wallets
    /\ x.setter \in {"setAddress", "setGbaPolicyChainId"}
       => x.net \in (rep \cap Chains) \cup {Unknown}

\* What storage may hold, and so what a handler may have loaded.
Honest(s, ap, rep) ==
    /\ s \in State
    /\ s.origins \subseteq ap
    /\ s.addr \in rep \cup {None}
    /\ s.lock \in rep \cup {Unknown}

Sound(x, ap, rep) ==
    x \in Job /\ Shape(x) /\ Serves(x, ap) /\ Knows(x, rep) /\ Honest(x.snap, ap, rep)

\* What events may have told.
Heard(t, rep) ==
    /\ t \in [addrs: SUBSET Wallets, chain: Chains \cup {Unknown}]
    /\ t.addrs \subseteq rep
    /\ t.chain \in rep \cup {Unknown}

World ==
    /\ holder \in Jobs \cup {None}
    /\ active \in Jobs \cup {None}
    /\ cart \in [addr: Wallets, lock: Chains]
    /\ approved \subseteq Origins
    /\ reported \subseteq Wallets \cup Chains
    /\ revoked \subseteq Origins
    /\ Heard(told, reported)

Handlers ==
    /\ job \in [Jobs -> Job]
    /\ \A j \in Jobs : Sound(job[j], approved, reported)

Exclusive ==
    \A j \in Jobs : /\ Req(job[j]) <=> active = j
                    /\ Sess(job[j]) <=> holder = j

IInv == World /\ Handlers /\ Honest(store, approved, reported) /\ Exclusive

----
\* An idle handler carries nothing.
LEMMA IdleSound ==
    ASSUME NEW ap, NEW rep
    PROVE  Sound(Idle, ap, rep) /\ ~Req(Idle) /\ ~Sess(Idle)
<1>1. NoState \in State /\ Honest(NoState, ap, rep)
  BY DEF NoState, State, Honest, Unknown
<1>2. Idle \in Job
  BY <1>1 DEF Idle, Job, Pcs, Setters, Unknown
<1>3. Shape(Idle) /\ Serves(Idle, ap) /\ Knows(Idle, rep) /\ ~Req(Idle) /\ ~Sess(Idle)
  BY DEF Shape, Serves, Knows, Req, Sess, Idle, TxPcs
<1> QED BY <1>1, <1>2, <1>3 DEF Sound, Idle

\* What a handler may carry it may still carry when more is approved or told.
LEMMA SoundGrows ==
    ASSUME NEW x, NEW ap, NEW rep, NEW ap2, NEW rep2,
           Sound(x, ap, rep), ap \subseteq ap2, rep \subseteq rep2
    PROVE  Sound(x, ap2, rep2)
<1>1. Serves(x, ap2)
  BY DEF Sound, Serves
<1>2. Knows(x, rep2)
  BY DEF Sound, Knows
<1>3. Honest(x.snap, ap2, rep2)
  BY DEF Sound, Honest
<1> QED BY <1>1, <1>2, <1>3 DEF Sound

LEMMA HeardGrows ==
    ASSUME NEW t, NEW rep, NEW rep2, Heard(t, rep), rep \subseteq rep2
    PROVE  Heard(t, rep2)
  BY DEF Heard

\* A step of one handler: it is enough to look at that handler.
LEMMA OneHandler ==
    ASSUME IInv, NEW j \in Jobs, NEW y,
           job' = [job EXCEPT ![j] = y],
           World', Honest(store', approved', reported'),
           approved \subseteq approved', reported \subseteq reported',
           Sound(y, approved', reported'),
           \A k \in Jobs \ {j} : (active' = k <=> active = k) /\ (holder' = k <=> holder = k),
           Req(y) <=> active' = j, Sess(y) <=> holder' = j
    PROVE  IInv'
<1>1. job \in [Jobs -> Job] /\ y \in Job
  BY DEF IInv, Handlers, Sound
<1>2. /\ job' \in [Jobs -> Job]
      /\ \A k \in Jobs : job'[k] = IF k = j THEN y ELSE job[k]
  BY <1>1
<1>3. \A k \in Jobs : Sound(job'[k], approved', reported')
  <2> SUFFICES ASSUME NEW k \in Jobs, k # j
               PROVE  Sound(job[k], approved', reported')
    BY <1>2
  <2>1. Sound(job[k], approved, reported)
    BY DEF IInv, Handlers
  <2> QED BY <2>1, SoundGrows
<1>4. \A k \in Jobs : /\ Req(job'[k]) <=> active' = k
                      /\ Sess(job'[k]) <=> holder' = k
  <2> SUFFICES ASSUME NEW k \in Jobs, k # j
               PROVE  /\ Req(job[k]) <=> active' = k
                      /\ Sess(job[k]) <=> holder' = k
    BY <1>2
  <2> QED BY DEF IInv, Exclusive
<1> QED BY <1>2, <1>3, <1>4 DEF IInv, Handlers, Exclusive

\* What the invariant says of the handler that moves.
LEMMA Mover ==
    ASSUME IInv, NEW j \in Jobs
    PROVE  /\ job \in [Jobs -> Job]
           /\ job[j] \in Job
           /\ Shape(job[j])
           /\ Serves(job[j], approved)
           /\ Knows(job[j], reported)
           /\ Honest(job[j].snap, approved, reported)
           /\ Req(job[j]) <=> active = j
           /\ Sess(job[j]) <=> holder = j
  BY DEF IInv, Handlers, Sound, Exclusive

\* A handler goes on alone: storage, lock and active request stay.
LEMMA QuietStep ==
    ASSUME IInv, NEW j \in Jobs, NEW y,
           job' = [job EXCEPT ![j] = y],
           UNCHANGED <<store, holder, active, cart, history>>,
           Sound(y, approved, reported),
           Req(y) <=> Req(job[j]), Sess(y) <=> Sess(job[j])
    PROVE  IInv'
<1>1. World' /\ Honest(store', approved', reported')
  BY DEF IInv, World, Honest, history
<1>2. /\ approved \subseteq approved' /\ reported \subseteq reported'
      /\ Sound(y, approved', reported')
      /\ Req(y) <=> active' = j
      /\ Sess(y) <=> holder' = j
  BY Mover DEF history
<1> QED BY <1>1, <1>2, OneHandler

\* A handler ends, whatever it held.
LEMMA EndStep ==
    ASSUME IInv, NEW j \in Jobs,
           Finish(j), cart' = cart, Honest(store', approved', reported'),
           approved \subseteq approved', reported \subseteq reported',
           approved' \subseteq Origins, reported' \subseteq Wallets \cup Chains,
           revoked' \subseteq Origins, Heard(told', reported')
    PROVE  IInv'
<1>1. World'
  BY DEF IInv, World, Finish, Release, Finally
<1>2. job' = [job EXCEPT ![j] = Idle]
  BY DEF Finish, End
<1>3. /\ \A k \in Jobs \ {j} : (active' = k <=> active = k) /\ (holder' = k <=> holder = k)
      /\ active' # j /\ holder' # j
  BY NoneAssumption DEF Finish, Release, Finally
<1> QED BY <1>1, <1>2, <1>3, IdleSound, OneHandler

\* A handler that holds nothing just returns.
LEMMA ReturnStep ==
    ASSUME IInv, NEW j \in Jobs,
           End(j), UNCHANGED <<store, holder, active, cart, history>>,
           ~Req(job[j]), ~Sess(job[j])
    PROVE  IInv'
  BY IdleSound, QuietStep DEF End

----
(* The setters *)

\* What a setter writes over what it loaded may be stored.
LEMMA WrittenHonest ==
    ASSUME IInv, NEW j \in Jobs, At(j, "save")
    PROVE  Honest(Written(job[j]), approved, reported)
<1> DEFINE x == job[j]
<1>1. /\ x \in Job /\ Honest(x.snap, approved, reported)
      /\ x.setter \in Setters \ {"none"}
  BY Mover DEF Shape, At, Job
<1>2. CASE x.setter = "setAddress"
  <2>1. Written(x) = [x.snap EXCEPT !.addr = x.addr]
    BY <1>2 DEF Written, setAddress
  <2>2. x.addr \in reported \cup {None} /\ x.addr \in Wallets \cup {None}
    BY <1>1, Mover DEF Knows, Job
  <2> QED BY <1>1, <2>1, <2>2 DEF Honest, State
<1>3. CASE x.setter = "clearAddress"
  BY <1>1, <1>3 DEF Written, clearAddress, Honest, State
<1>4. CASE x.setter = "authorizeOrigin"
  <2>1. Written(x) = [x.snap EXCEPT !.origins = @ \cup {x.org}]
    BY <1>4 DEF Written, authorizeOrigin
  <2>2. x.org \in Origins /\ x.org \in approved
    BY <1>4, Mover DEF Serves
  <2> QED BY <1>1, <2>1, <2>2 DEF Honest, State
<1>5. CASE x.setter = "revokeOrigin"
  BY <1>1, <1>5 DEF Written, revokeOrigin, Honest, State
<1>6. CASE x.setter = "setGbaPolicyChainId"
  <2>1. Written(x) = [x.snap EXCEPT !.lock = x.net]
    BY <1>6 DEF Written, setGbaPolicyChainId
  <2>2. x.net \in (reported \cap Chains) \cup {Unknown}
    BY <1>6, Mover DEF Knows
  <2> QED BY <1>1, <2>1, <2>2 DEF Honest, State
<1> QED BY <1>1, <1>2, <1>3, <1>4, <1>5, <1>6 DEF Setters

\* A setter returns, with or without having saved.
LEMMA AfterSetterStep ==
    ASSUME IInv, NEW j \in Jobs, At(j, "load") \/ At(j, "save"),
           AfterSetter(j), Honest(store', approved, reported),
           UNCHANGED <<cart, approved, reported>>, revoked' \subseteq Origins,
           Heard(told', reported)
    PROVE  IInv'
<1> DEFINE x == job[j]
<1>1. World /\ x \in Job /\ x.pc \in {"load", "save"}
  BY Mover DEF IInv, At
<1>2. NoState \in State /\ Honest(NoState, approved, reported)
  BY DEF NoState, State, Honest, Unknown
<1>3. CASE x.setter = "setAddress"
  <2> DEFINE y == [x EXCEPT !.setter = "setGbaPolicyChainId",
                            !.pc = "load", !.snap = NoState]
  <2>1. job' = [job EXCEPT ![j] = y] /\ UNCHANGED <<holder, active>>
    BY <1>3, Mover DEF AfterSetter
  <2>2. y \in Job
    BY <1>1, <1>2 DEF Job, Pcs, Setters
  <2>3. x.op # "tx" /\ Shape(y) /\ ~Req(x) /\ ~Sess(x) /\ ~Req(y) /\ ~Sess(y)
    BY <1>1, <1>3, Mover DEF Job, Shape, Req, Sess, TxPcs
  <2>4. Serves(y, approved) /\ Knows(y, reported) /\ y.snap = NoState
    BY <1>1, <1>3, Mover DEF Job, Serves, Knows
  <2>5. Sound(y, approved, reported)
    BY <1>2, <2>2, <2>3, <2>4 DEF Sound
  <2>6. World' /\ ~(active' = j) /\ ~(holder' = j)
    BY <1>1, <2>1, <2>3, Mover DEF World
  <2> HIDE DEF y
  <2> QED BY <2>1, <2>3, <2>5, <2>6, OneHandler
<1>4. CASE x.setter = "authorizeOrigin"
  <2> DEFINE y == [x EXCEPT !.pc = "answer", !.setter = "none", !.snap = NoState]
  <2>1. job' = [job EXCEPT ![j] = y] /\ UNCHANGED <<holder, active>>
    BY <1>4, Mover DEF AfterSetter
  <2>2. y \in Job
    BY <1>1, <1>2 DEF Job, Pcs, Setters
  <2>3. Shape(y) /\ ~Req(x) /\ ~Sess(x) /\ ~Req(y) /\ ~Sess(y)
    BY <1>1, <1>4, Mover DEF Job, Shape, Req, Sess, TxPcs
  <2>4. Serves(y, approved) /\ Knows(y, reported) /\ y.snap = NoState
    BY <1>1, <1>4, Mover DEF Job, Serves, Knows
  <2>5. Sound(y, approved, reported)
    BY <1>2, <2>2, <2>3, <2>4 DEF Sound
  <2>6. World' /\ ~(active' = j) /\ ~(holder' = j)
    BY <1>1, <2>1, <2>3, Mover DEF World
  <2> HIDE DEF y
  <2> QED BY <2>1, <2>3, <2>5, <2>6, OneHandler
<1>5. CASE x.setter \in {"clearAddress", "revokeOrigin", "setGbaPolicyChainId"}
  <2>1. Finish(j)
    BY <1>5 DEF AfterSetter
  <2> QED BY <1>1, <2>1, EndStep DEF World
<1> QED BY <1>3, <1>4, <1>5 DEF AfterSetter

\* What a setter announces was told by a cartridge.
LEMMA BroadcastHeard ==
    ASSUME IInv, NEW j \in Jobs
    PROVE  Heard(Broadcast(job[j]), reported)
<1> DEFINE x == job[j]
           t == Broadcast(x)
<1>1. x \in Job /\ Knows(x, reported) /\ Heard(told, reported)
  BY Mover DEF IInv, World
<1>2. CASE x.setter = "setAddress"
  <2>1. t = [told EXCEPT !.addrs = @ \cup {x.addr}]
    BY <1>2 DEF Broadcast
  <2>2. x.addr \in Wallets /\ x.addr \in reported
    BY <1>1, <1>2, NoneAssumption DEF Knows
  <2> QED BY <1>1, <2>1, <2>2 DEF Heard
<1>3. CASE x.setter = "setGbaPolicyChainId" /\ x.net \notin {x.snap.lock, Unknown}
  <2>1. t = [told EXCEPT !.chain = x.net]
    BY <1>3 DEF Broadcast
  <2>2. x.net \in reported \cap Chains
    BY <1>1, <1>3 DEF Knows
  <2> QED BY <1>1, <2>1, <2>2 DEF Heard
<1>4. CASE /\ x.setter # "setAddress"
           /\ ~(x.setter = "setGbaPolicyChainId" /\ x.net \notin {x.snap.lock, Unknown})
  <2>1. t = told
    BY <1>4 DEF Broadcast
  <2> QED BY <1>1, <2>1
<1> QED BY <1>2, <1>3, <1>4

\* Every step of a setter: load, save and what follows.
LEMMA SetterStep ==
    ASSUME IInv, NEW j \in Jobs, Setter(j)
    PROVE  IInv'
<1>1. World /\ job[j] \in Job /\ Honest(store, approved, reported)
  BY Mover DEF IInv
<1>2. CASE Load(j) /\ NothingToSave(job[j], store)
  <2>1. Honest(store', approved, reported) /\ revoked' \subseteq Origins /\ Heard(told', reported)
    BY <1>1, <1>2 DEF Load, World, history
  <2> QED BY <1>2, <2>1, AfterSetterStep DEF Load, history
<1>3. CASE Load(j) /\ ~NothingToSave(job[j], store)
  <2> DEFINE x == job[j]
             y == [x EXCEPT !.pc = "save", !.snap = store]
  <2>1. /\ job' = [job EXCEPT ![j] = y]
        /\ UNCHANGED <<store, holder, active, cart, history>>
    BY <1>3, Mover DEF Load
  <2>2. y \in Job /\ y.snap = store
    BY <1>1 DEF Job, Pcs, Honest
  <2>3. Shape(y) /\ (Req(x) <=> Req(y)) /\ (Sess(x) <=> Sess(y))
    BY <1>1, <1>3, Mover DEF Load, At, Job, Shape, Req, Sess, TxPcs
  <2>4. Serves(y, approved) /\ Knows(y, reported)
    BY <1>1, <1>3, Mover DEF Load, At, Job, Serves, Knows
  <2>5. Sound(y, approved, reported)
    BY <1>1, <2>2, <2>3, <2>4 DEF Sound
  <2> HIDE DEF y
  <2> QED BY <2>1, <2>3, <2>5, QuietStep
<1>4. CASE Save(j)
  <2>1. Honest(store', approved, reported)
    BY <1>4, WrittenHonest DEF Save
  <2>2. revoked' \subseteq Origins
    BY <1>1, <1>4, Mover DEF Save, World, Serves
  <2>3. Heard(told', reported)
    BY <1>4, BroadcastHeard DEF Save
  <2> QED BY <1>4, <2>1, <2>2, <2>3, AfterSetterStep DEF Save
<1> QED BY <1>2, <1>3, <1>4 DEF Setter

----
(* Handlers begin *)

\* The handlers that start without the cartridge, and for whom.
Starts(op, pc, setter, o) ==
    \/ op = "disconnect" /\ pc = "load" /\ setter = "clearAddress"
    \/ op = "refresh" /\ pc = "policy" /\ setter = "none"
    \/ op = "accounts" /\ pc = "accAuth" /\ setter = "none" /\ o \in Origins
    \/ op = "request" /\ pc = "reqAddr" /\ setter = "none" /\ o \in Origins
    \/ op = "revoke" /\ pc = "load" /\ setter = "revokeOrigin" /\ o \in Origins
    \/ op = "tx" /\ pc = "txAddr" /\ setter = "none"

\* The record of a handler that begins.
LEMMA NewHandler ==
    ASSUME NEW op, NEW pc, NEW setter, NEW o \in Origins \cup {None},
           NEW ap, NEW rep,
           Starts(op, pc, setter, o)
    PROVE  LET y == [Idle EXCEPT !.op = op, !.pc = pc, !.setter = setter, !.org = o]
           IN  Sound(y, ap, rep) /\ ~Req(y) /\ ~Sess(y)
<1> DEFINE y == [Idle EXCEPT !.op = op, !.pc = pc, !.setter = setter, !.org = o]
<1>1. Idle \in Job /\ Honest(Idle.snap, ap, rep) /\ Idle.addr = None /\ Idle.net = Unknown
  BY IdleSound DEF Sound, Idle
<1>2. /\ y.op = op /\ y.pc = pc /\ y.setter = setter /\ y.org = o
      /\ y.addr = None /\ y.net = Unknown /\ y.snap = Idle.snap
  BY <1>1 DEF Job, Idle
<1>3. y \in Job
  <2>1. /\ pc \in Pcs /\ setter \in Setters
        /\ op \in {"disconnect", "refresh", "request", "accounts", "revoke", "tx"}
    BY DEF Starts, Pcs, Setters
  <2> QED BY <1>1, <2>1 DEF Job
<1> HIDE DEF y
<1>4. Shape(y) /\ ~Req(y) /\ ~Sess(y)
  BY <1>2 DEF Starts, Shape, Req, Sess, TxPcs
<1>5. Serves(y, ap) /\ Knows(y, rep)
  BY <1>2 DEF Starts, Serves, Knows
<1> QED BY <1>1, <1>2, <1>3, <1>4, <1>5 DEF Sound, y

\* A message starts a handler that does not need the cartridge at once.
LEMMA BeginStep ==
    ASSUME IInv, NEW j \in Jobs, NEW op, NEW pc, NEW setter, NEW o \in Origins \cup {None},
           Starts(op, pc, setter, o), Begin(j, op, pc, setter, o)
    PROVE  IInv'
<1> DEFINE y == [Idle EXCEPT !.op = op, !.pc = pc, !.setter = setter, !.org = o]
<1>1. job[j] = Idle
  BY Mover DEF Begin, At, Shape
<1>2. job' = [job EXCEPT ![j] = y]
  BY <1>1, Mover DEF Begin
<1>3. ~Req(job[j]) /\ ~Sess(job[j])
  BY <1>1, IdleSound
<1>4. UNCHANGED <<store, holder, active, cart, history>>
  BY DEF Begin
<1>5. Sound(y, approved, reported) /\ ~Req(y) /\ ~Sess(y)
  BY NewHandler
<1> HIDE DEF y
<1> QED BY <1>2, <1>3, <1>4, <1>5, QuietStep

\* connectAndCacheAddress opens its session and reads the address.
LEMMA ConnectStep ==
    ASSUME IInv, NEW j \in Jobs, Connect(j)
    PROVE  IInv'
<1> DEFINE y == [Idle EXCEPT !.op = "connect", !.pc = "policy", !.addr = cart.addr]
<1>1. job[j] = Idle /\ World /\ holder = None
  BY Mover DEF Connect, At, Shape, IInv, Unlocked
<1>2. /\ job' = [job EXCEPT ![j] = y]
      /\ holder' = j /\ reported' = reported \cup {cart.addr}
      /\ UNCHANGED <<store, active, cart, approved, revoked, told>>
  BY <1>1, Mover DEF Connect
<1>3. cart.addr \in Wallets /\ Idle \in Job /\ Honest(Idle.snap, approved, reported')
  BY <1>1, IdleSound DEF World, Sound
<1>4. /\ y.op = "connect" /\ y.pc = "policy" /\ y.setter = "none" /\ y.org = None
      /\ y.addr = cart.addr /\ y.net = Unknown /\ y.snap = Idle.snap
  BY <1>3 DEF Job, Idle
<1>5. y \in Job
  BY <1>3 DEF Job, Pcs
<1> HIDE DEF y
<1>6. Shape(y) /\ ~Req(y) /\ Sess(y)
  BY <1>4 DEF Shape, Req, Sess, TxPcs
<1>7. Serves(y, approved) /\ Knows(y, reported')
  BY <1>2, <1>3, <1>4 DEF Serves, Knows
<1>8. Sound(y, approved', reported')
  BY <1>2, <1>3, <1>4, <1>5, <1>6, <1>7 DEF Sound
<1>9. World' /\ reported \subseteq reported' /\ approved \subseteq approved'
  BY <1>1, <1>2, <1>3, HeardGrows DEF World
<1>10. Honest(store', approved', reported')
  BY <1>2 DEF IInv, Honest
<1>11. /\ \A k \in Jobs \ {j} : (active' = k <=> active = k) /\ (holder' = k <=> holder = k)
       /\ active' # j
  BY <1>1, <1>2, IdleSound, Mover, NoneAssumption
<1> QED BY <1>2, <1>6, <1>8, <1>9, <1>10, <1>11, OneHandler

\* Every way a handler begins.
LEMMA MessageStep ==
    ASSUME IInv, NEW j \in Jobs, Message(j)
    PROVE  IInv'
<1>1. CASE PopupDisconnect(j)
  BY <1>1, BeginStep DEF Starts, PopupDisconnect
<1>2. CASE RefreshPolicy(j)
  BY <1>2, BeginStep DEF Starts, RefreshPolicy
<1>3. ASSUME NEW o \in Origins, EthAccounts(j, o) PROVE IInv'
  BY <1>3, BeginStep DEF Starts, EthAccounts
<1>4. ASSUME NEW o \in Origins, EthRequestAccounts(j, o) PROVE IInv'
  BY <1>4, BeginStep DEF Starts, EthRequestAccounts
<1>5. ASSUME NEW o \in Origins, RevokePermissions(j, o) PROVE IInv'
  BY <1>5, BeginStep DEF Starts, RevokePermissions
<1>6. ASSUME NEW o \in Origins, EthSendTransaction(j, o) PROVE IInv'
  BY <1>6, BeginStep DEF Starts, EthSendTransaction
<1> QED BY <1>1, <1>2, <1>3, <1>4, <1>5, <1>6, ConnectStep DEF Message

----
(* Sessions, accounts and transactions *)

\* A handler ends and nothing else changes.
LEMMA FinishStep ==
    ASSUME IInv, NEW j \in Jobs, Finish(j), UNCHANGED <<store, cart, history>>
    PROVE  IInv'
<1>1. /\ Honest(store', approved', reported')
      /\ approved' = approved /\ reported' = reported /\ revoked' = revoked /\ told' = told
  BY DEF IInv, Honest, history
<1>2. World
  BY DEF IInv
<1> QED BY <1>1, <1>2, EndStep DEF World

\* A handler moves on with an address, and perhaps a chain id, it has read.
LEMMA MoveStep ==
    ASSUME IInv, NEW j \in Jobs,
           NEW to \in Pcs \ {"idle", "load", "save"},
           NEW a \in Wallets \cup {None}, NEW n \in Listed \cup Chains \cup {Unknown},
           job' = [job EXCEPT ![j] = [job[j] EXCEPT !.pc = to, !.addr = a, !.net = n]],
           UNCHANGED <<store, holder, active, cart, history>>,
           ~(job[j].pc \in {"idle", "load", "save", "policy"}),
           to \in TxPcs <=> job[j].pc \in TxPcs,
           to \in {"policy", "txOpen", "txSign", "txSend"} => to = job[j].pc,
           to \in {"reqAddr", "reqAuth", "askUser"} => job[j].op = "request",
           job[j].pc \in {"policy", "txOpen", "txSign", "txSend"} => to = job[j].pc,
           to \in {"accAddr", "answer", "accAuth", "reqAddr", "reqAuth", "askUser"}
               => job[j].org \in Origins,
           to \in {"accAddr", "answer"} => job[j].org \in approved,
           a \in reported \cup {None},
           to \in {"reqAuth", "answer", "askUser"} => a \in Wallets
    PROVE  IInv'
<1> DEFINE x == job[j]
           y == [x EXCEPT !.pc = to, !.addr = a, !.net = n]
<1>1. x \in Job /\ Shape(x) /\ Serves(x, approved) /\ Honest(x.snap, approved, reported)
  BY Mover
<1>2. /\ y.pc = to /\ y.addr = a /\ y.net = n
      /\ y.op = x.op /\ y.setter = x.setter /\ y.org = x.org /\ y.snap = x.snap
  BY <1>1 DEF Job
<1>3. y \in Job
  BY <1>1 DEF Job
<1> HIDE DEF y
<1>4. x.setter = "none"
  BY <1>1 DEF Shape
<1>5. Shape(y) /\ (Req(y) <=> Req(x)) /\ (Sess(y) <=> Sess(x))
  BY <1>1, <1>2, <1>4 DEF Shape, Req, Sess, TxPcs, Pcs
<1>6. Serves(y, approved)
  BY <1>1, <1>2, <1>4 DEF Serves
<1>7. Knows(y, reported)
  BY <1>1, <1>2, <1>4 DEF Knows, Shape
<1>8. Sound(y, approved, reported)
  BY <1>1, <1>2, <1>3, <1>5, <1>6, <1>7 DEF Sound
<1>9. job' = [job EXCEPT ![j] = y]
  BY DEF y
<1> QED BY <1>5, <1>8, <1>9, QuietStep

\* A handler moves on and remembers what it did.
LEMMA GotoStep ==
    ASSUME IInv, NEW j \in Jobs,
           NEW to \in Pcs \ {"idle", "load", "save"}, Goto(j, to),
           UNCHANGED <<store, holder, active, cart, history>>,
           ~(job[j].pc \in {"idle", "load", "save"}),
           to \in TxPcs <=> job[j].pc \in TxPcs,
           to \notin {"policy", "txOpen", "txSign", "txSend"},
           job[j].pc \notin {"policy", "txOpen", "txSign", "txSend"},
           to \in {"reqAddr", "reqAuth", "askUser"} => job[j].op = "request",
           to \in {"accAddr", "answer", "accAuth", "reqAddr", "reqAuth", "askUser"}
               => job[j].org \in Origins,
           to \in {"accAddr", "answer"} => job[j].org \in approved,
           to \in {"reqAuth", "answer", "askUser"} => job[j].addr \in Wallets
    PROVE  IInv'
<1> DEFINE x == job[j]
<1>1. x \in Job /\ job \in [Jobs -> Job]
  BY Mover
<1>2. x.addr \in Wallets \cup {None} /\ x.net \in Listed \cup Chains \cup {Unknown}
  BY <1>1 DEF Job
<1>3. x.addr \in reported \cup {None}
  BY Mover DEF Knows
<1>4. job' = [job EXCEPT ![j] = [x EXCEPT !.pc = to, !.addr = x.addr, !.net = x.net]]
  BY <1>1 DEF Goto, Job
<1> HIDE DEF x
<1> QED BY <1>2, <1>3, <1>4, MoveStep DEF x

\* loadState for the address: on with it, or the handler ends.
LEMMA ReadAddressStep ==
    ASSUME IInv, NEW j \in Jobs, NEW from, NEW to, ReadAddress(j, from, to),
           <<from, to>> \in {<<"accAddr", "answer">>, <<"reqAddr", "reqAuth">>,
                            <<"txAddr", "txNet">>, <<"txShown", "txConfirm">>}
    PROVE  IInv'
<1>1. CASE store.addr = None
  BY <1>1, FinishStep DEF ReadAddress
<1>2. CASE store.addr # None
  <2>1. /\ job[j] \in Job /\ Serves(job[j], approved) /\ job[j].pc = from
    BY Mover DEF ReadAddress, At
  <2>2. /\ store.addr \in reported \cup {None} /\ store.addr \in Wallets
        /\ UNCHANGED <<store, holder, active, cart, history>>
    BY <1>2 DEF ReadAddress, IInv, Honest, State, history
  <2>3. job[j].net \in Listed \cup Chains \cup {Unknown}
    BY <2>1 DEF Job
  <2>4. job' = [job EXCEPT ![j] = [job[j] EXCEPT !.pc = to, !.addr = store.addr,
                                                 !.net = job[j].net]]
    BY <1>2, <2>1, Mover DEF ReadAddress, Job
  <2>5. /\ to \in Pcs \ {"idle", "load", "save"}
        /\ ~(job[j].pc \in {"idle", "load", "save", "policy"})
        /\ to \in TxPcs <=> job[j].pc \in TxPcs
        /\ to \in {"policy", "txOpen", "txSign", "txSend"} => to = job[j].pc
        /\ job[j].pc \in {"policy", "txOpen", "txSign", "txSend"} => to = job[j].pc
    BY <2>1 DEF Pcs, TxPcs
  <2>6. to \in {"reqAddr", "reqAuth", "askUser"} => job[j].op = "request"
    BY <2>1, Mover DEF Shape
  <2>7. /\ to \in {"accAddr", "answer", "accAuth", "reqAddr", "reqAuth", "askUser"}
           => job[j].org \in Origins
        /\ to \in {"accAddr", "answer"} => job[j].org \in approved
    BY <2>1 DEF Serves
  <2> QED BY <2>2, <2>3, <2>4, <2>5, <2>6, <2>7, MoveStep, ZenonT(30)
<1> QED BY <1>1, <1>2

\* A on CONNECT REQ.
LEMMA AllowStep ==
    ASSUME IInv, NEW j \in Jobs, At(j, "askUser"),
           job' = [job EXCEPT ![j].pc = "load", ![j].setter = "authorizeOrigin"],
           approved' = approved \cup {job[j].org}, revoked' = revoked \ {job[j].org},
           UNCHANGED <<store, holder, active, cart, reported, told>>
    PROVE  IInv'
<1> DEFINE x == job[j]
           y == [x EXCEPT !.pc = "load", !.setter = "authorizeOrigin"]
<1>1. /\ x \in Job /\ Serves(x, approved) /\ Knows(x, reported)
      /\ World /\ Honest(store, approved, reported) /\ Honest(x.snap, approved, reported)
  BY Mover DEF IInv
<1>2. /\ x.pc = "askUser" /\ x.op = "request" /\ x.setter = "none"
      /\ x.org \in Origins /\ x.addr \in Wallets
  BY <1>1, Mover DEF At, Serves, Knows, Shape
<1>3. job' = [job EXCEPT ![j] = y]
  BY Mover
<1>4. /\ y.pc = "load" /\ y.setter = "authorizeOrigin" /\ y.op = x.op
      /\ y.org = x.org /\ y.addr = x.addr /\ y.net = x.net /\ y.snap = x.snap
  BY <1>1 DEF Job
<1>5. y \in Job
  BY <1>1 DEF Job, Pcs, Setters
<1> HIDE DEF y
<1>6. Shape(y) /\ ~Req(x) /\ ~Sess(x) /\ ~Req(y) /\ ~Sess(y)
  BY <1>2, <1>4 DEF Shape, Req, Sess, TxPcs
<1>7. Serves(y, approved')
  BY <1>2, <1>4 DEF Serves
<1>8. Knows(y, reported')
  BY <1>1, <1>2, <1>4 DEF Knows
<1>9. Honest(y.snap, approved', reported') /\ Honest(store', approved', reported')
  BY <1>1, <1>4 DEF Honest
<1>10. World' /\ approved \subseteq approved' /\ reported \subseteq reported'
  BY <1>1, <1>2 DEF World
<1>11. ~(active' = j) /\ ~(holder' = j)
  BY <1>6, Mover
<1>12. Sound(y, approved', reported')
  BY <1>5, <1>6, <1>7, <1>8, <1>9 DEF Sound
<1> QED BY <1>3, <1>6, <1>9, <1>10, <1>11, <1>12, OneHandler

\* Every step of ethAccounts and ethRequestAccounts.
LEMMA AccountsStep ==
    ASSUME IInv, NEW j \in Jobs, Accounts(j)
    PROVE  IInv'
<1>1. /\ Shape(job[j]) /\ Serves(job[j], approved) /\ Knows(job[j], reported)
      /\ store.origins \subseteq approved
  BY Mover DEF IInv, Honest
<1>2. CASE AccountsAuth(j)
  <2>1. /\ job[j].pc = "accAuth" /\ job[j].org \in Origins
        /\ UNCHANGED <<store, holder, active, cart, history>>
    BY <1>1, <1>2 DEF AccountsAuth, At, Serves
  <2>2. CASE job[j].org \in store.origins
    <3>1. Goto(j, "accAddr") /\ job[j].org \in approved
      BY <1>1, <1>2, <2>2 DEF AccountsAuth
    <3> QED BY <2>1, <3>1, GotoStep DEF Pcs, TxPcs
  <2>3. CASE job[j].org \notin store.origins
    BY <1>2, <2>1, <2>3, ReturnStep DEF AccountsAuth, Req, Sess
  <2> QED BY <2>2, <2>3
<1>3. CASE AccountsAddress(j)
  BY <1>3, ReadAddressStep DEF AccountsAddress
<1>4. CASE RequestAddress(j)
  BY <1>4, ReadAddressStep DEF RequestAddress
<1>5. CASE RequestAuth(j)
  <2>1. /\ job[j].pc = "reqAuth" /\ job[j].op = "request"
        /\ job[j].org \in Origins /\ job[j].addr \in Wallets
        /\ UNCHANGED <<store, holder, active, cart, history>>
    BY <1>1, <1>5 DEF RequestAuth, At, Serves, Shape, Knows
  <2>2. CASE job[j].org \in store.origins
    <3>1. Goto(j, "answer") /\ job[j].org \in approved
      BY <1>1, <1>5, <2>2 DEF RequestAuth
    <3> QED BY <2>1, <3>1, GotoStep DEF Pcs, TxPcs
  <2>3. CASE job[j].org \notin store.origins
    <3>1. Goto(j, "askUser")
      BY <1>5, <2>3 DEF RequestAuth
    <3> QED BY <2>1, <3>1, GotoStep DEF Pcs, TxPcs
  <2> QED BY <2>2, <2>3
<1>6. CASE AskUser(j)
  <2>1. CASE End(j) /\ UNCHANGED <<approved, revoked>>
    BY <1>6, <2>1, ReturnStep DEF AskUser, At, Req, Sess, history
  <2>2. CASE /\ job' = [job EXCEPT ![j].pc = "load", ![j].setter = "authorizeOrigin"]
             /\ approved' = approved \cup {job[j].org}
             /\ revoked' = revoked \ {job[j].org}
    BY <1>6, <2>2, AllowStep DEF AskUser
  <2> QED BY <1>6, <2>1, <2>2 DEF AskUser
<1>7. CASE Answer(j)
  BY <1>7, ReturnStep DEF Answer, At, Req, Sess
<1> QED BY <1>2, <1>3, <1>4, <1>5, <1>6, <1>7 DEF Accounts

\* startActiveRequest, and withGbaSession's lock: nobody else had it.
LEMMA ClaimStep ==
    ASSUME IInv, NEW j \in Jobs, (TxConfirm(j) /\ active = None) \/ TxOpen(j)
    PROVE  IInv'
<1> DEFINE x == job[j]
           to == IF x.pc = "txConfirm" THEN "txOpen" ELSE "txSign"
           y == [x EXCEPT !.pc = to]
<1>1. /\ x \in Job /\ Shape(x) /\ Serves(x, approved) /\ Knows(x, reported)
      /\ World /\ Honest(store, approved, reported) /\ Honest(x.snap, approved, reported)
  BY Mover DEF IInv
<1>2. /\ x.pc \in {"txConfirm", "txOpen"} /\ x.op = "tx" /\ x.setter = "none"
      /\ UNCHANGED <<store, cart, approved, reported, revoked, told>>
  BY <1>1 DEF TxConfirm, TxOpen, At, Shape, TxPcs, history
<1>3. job' = [job EXCEPT ![j] = y]
  BY Mover DEF TxConfirm, TxOpen, At, Goto
<1>4. /\ y.pc = to /\ y.setter = "none" /\ y.op = "tx"
      /\ y.org = x.org /\ y.addr = x.addr /\ y.net = x.net /\ y.snap = x.snap
  BY <1>1, <1>2 DEF Job
<1>5. y \in Job
  BY <1>1, <1>2 DEF Job, Pcs
<1> HIDE DEF y
<1>6. Shape(y) /\ Serves(y, approved) /\ Knows(y, reported)
  BY <1>1, <1>2, <1>4 DEF Shape, Serves, Knows, TxPcs
<1>7. Sound(y, approved', reported')
  BY <1>1, <1>2, <1>4, <1>5, <1>6 DEF Sound
<1>8. /\ approved \subseteq approved' /\ reported \subseteq reported'
      /\ Honest(store', approved', reported')
  BY <1>1, <1>2
<1>9. CASE TxConfirm(j) /\ active = None
  <2>1. /\ x.pc = "txConfirm" /\ active' = j /\ holder' = holder /\ active = None
    BY <1>9 DEF TxConfirm, At
  <2>2. ~Sess(x) /\ Req(y) /\ ~Sess(y)
    BY <1>4, <2>1 DEF Req, Sess
  <2>3. World' /\ ~(holder' = j)
    BY <1>1, <1>2, <2>1, <2>2, Mover DEF World
  <2>4. \A k \in Jobs \ {j} : (active' = k <=> active = k) /\ (holder' = k <=> holder = k)
    BY <2>1, NoneAssumption
  <2> QED BY <1>3, <1>7, <1>8, <2>1, <2>2, <2>3, <2>4, OneHandler
<1>10. CASE TxOpen(j)
  <2>1. /\ x.pc = "txOpen" /\ active' = active /\ holder' = j /\ holder = None
    BY <1>10 DEF TxOpen, At, Unlocked
  <2>2. Req(x) /\ Req(y) /\ Sess(y)
    BY <1>2, <1>4, <2>1 DEF Req, Sess
  <2>3. World' /\ active' = j
    BY <1>1, <1>2, <2>1, <2>2, Mover DEF World
  <2>4. \A k \in Jobs \ {j} : (active' = k <=> active = k) /\ (holder' = k <=> holder = k)
    BY <2>1, NoneAssumption
  <2> QED BY <1>3, <1>7, <1>8, <2>1, <2>2, <2>3, <2>4, OneHandler
<1> QED BY <1>9, <1>10

\* The refused transaction leaves the lock it was told to be cached.
LEMMA RejectChainStep ==
    ASSUME IInv, NEW j \in Jobs, TxRejectChain(j)
    PROVE  IInv'
<1> DEFINE x == job[j]
           y == [x EXCEPT !.pc = "load", !.setter = "setGbaPolicyChainId", !.net = cart.lock]
<1>1. /\ x \in Job /\ Shape(x) /\ Serves(x, approved) /\ Knows(x, reported)
      /\ World /\ Honest(store, approved, reported) /\ Honest(x.snap, approved, reported)
  BY Mover DEF IInv
<1>2. /\ x.pc = "txSign" /\ x.op = "tx" /\ cart.lock \in Chains
      /\ UNCHANGED <<store, holder, active, cart, approved, revoked, told>>
      /\ reported' = reported \cup {cart.lock}
  BY <1>1 DEF TxRejectChain, At, Shape, TxPcs, World
<1>3. job' = [job EXCEPT ![j] = y]
  BY Mover DEF TxRejectChain
<1>4. /\ y.pc = "load" /\ y.setter = "setGbaPolicyChainId" /\ y.net = cart.lock
      /\ y.op = x.op /\ y.org = x.org /\ y.addr = x.addr /\ y.snap = x.snap
  BY <1>1 DEF Job
<1>5. y \in Job
  BY <1>1, <1>2 DEF Job, Pcs, Setters
<1> HIDE DEF y
<1>6. Shape(y) /\ Req(x) /\ Sess(x) /\ Req(y) /\ Sess(y)
  BY <1>2, <1>4 DEF Shape, Req, Sess, TxPcs
<1>7. Serves(y, approved) /\ Knows(y, reported')
  BY <1>1, <1>2, <1>4 DEF Serves, Knows
<1>8. Honest(y.snap, approved', reported') /\ Honest(store', approved', reported')
  BY <1>1, <1>2, <1>4 DEF Honest
<1>9. /\ World' /\ active' = j /\ holder' = j
      /\ approved \subseteq approved' /\ reported \subseteq reported'
  BY <1>1, <1>2, <1>6, Mover, HeardGrows DEF World
<1>10. Sound(y, approved', reported')
  BY <1>2, <1>5, <1>6, <1>7, <1>8 DEF Sound
<1> QED BY <1>2, <1>3, <1>6, <1>8, <1>9, <1>10, OneHandler

\* GET_POLICY answered: the setters come next, outside the session.
LEMMA GetPolicyStep ==
    ASSUME IInv, NEW j \in Jobs, GetPolicy(j)
    PROVE  IInv'
<1> DEFINE x == job[j]
           setter == IF x.op = "connect" THEN "setAddress" ELSE "setGbaPolicyChainId"
<1>1. /\ x \in Job /\ Shape(x) /\ Serves(x, approved) /\ Knows(x, reported)
      /\ World /\ Honest(store, approved, reported) /\ Honest(x.snap, approved, reported)
  BY Mover DEF IInv
<1>2. /\ x.pc = "policy" /\ x.op \in {"connect", "refresh"}
      /\ UNCHANGED <<store, active, cart, approved, revoked, told>>
      /\ holder \in {None, j} /\ holder' = None
  BY <1>1 DEF GetPolicy, At, Shape, Release
<1>3. PICK c \in {cart.lock, Unknown} :
         /\ job' = [job EXCEPT ![j].pc = "load", ![j].net = c, ![j].setter = setter]
         /\ reported' = reported \cup ({c} \ {Unknown})
  BY DEF GetPolicy
<1> DEFINE y == [x EXCEPT !.pc = "load", !.net = c, !.setter = setter]
<1>4. /\ c \in Chains \cup {Unknown} /\ setter \in {"setAddress", "setGbaPolicyChainId"}
      /\ setter = "setAddress" => x.op = "connect"
  BY <1>1, <1>3 DEF World
<1>5. job' = [job EXCEPT ![j] = y]
  BY <1>3, Mover
<1>6. /\ y.pc = "load" /\ y.setter = setter /\ y.net = c
      /\ y.op = x.op /\ y.org = x.org /\ y.addr = x.addr /\ y.snap = x.snap
  BY <1>1 DEF Job
<1>7. y \in Job
  <2>1. /\ setter \in Setters /\ "load" \in Pcs
        /\ c \in Listed \cup Chains \cup {Unknown}
    BY <1>4 DEF Setters, Pcs
  <2> HIDE DEF setter
  <2> QED BY <1>1, <2>1 DEF Job
<1> HIDE DEF y, setter
<1>8. Shape(y) /\ ~Req(x) /\ ~Req(y) /\ ~Sess(y)
  BY <1>2, <1>4, <1>6 DEF Shape, Req, Sess, TxPcs
<1>9. Serves(y, approved)
  BY <1>2, <1>4, <1>6 DEF Serves
<1>10. Knows(y, reported')
  BY <1>1, <1>2, <1>3, <1>4, <1>6 DEF Knows
<1>11. Honest(y.snap, approved', reported') /\ Honest(store', approved', reported')
  BY <1>1, <1>2, <1>3, <1>6 DEF Honest
<1>12. World'
  BY <1>1, <1>2, <1>3, <1>4, HeardGrows DEF World
<1>13. /\ ~(active' = j) /\ ~(holder' = j)
       /\ approved \subseteq approved' /\ reported \subseteq reported'
       /\ \A k \in Jobs \ {j} : (active' = k <=> active = k) /\ (holder' = k <=> holder = k)
  BY <1>2, <1>3, <1>8, Mover, NoneAssumption
<1>14. Sound(y, approved', reported')
  BY <1>2, <1>7, <1>8, <1>9, <1>10, <1>11 DEF Sound
<1> QED BY <1>5, <1>8, <1>11, <1>12, <1>13, <1>14, OneHandler

\* Every step of ethSendTransaction but the setter it may call.
LEMMA TransactionStep ==
    ASSUME IInv, NEW j \in Jobs, Transaction(j)
    PROVE  IInv'
<1> DEFINE x == job[j]
<1>1. /\ x \in Job /\ Shape(x) /\ job \in [Jobs -> Job]
      /\ Serves(x, approved) /\ Knows(x, reported) /\ Honest(x.snap, approved, reported)
  BY Mover
<1>2. CASE TxConnected(j)
  BY <1>2, ReadAddressStep DEF TxConnected
<1>3. CASE TxNetwork(j)
  <2>1. /\ x.pc = "txNet" /\ ActiveNetwork(store) \in Listed
        /\ UNCHANGED <<store, holder, active, cart, history>>
    BY <1>3, NetworksAssumption DEF TxNetwork, At, ActiveNetwork
  <2>2. x.addr \in Wallets \cup {None} /\ x.addr \in reported \cup {None}
    BY <1>1 DEF Job, Knows
  <2>3. job' = [job EXCEPT ![j] = [x EXCEPT !.pc = "txShown", !.addr = x.addr,
                                            !.net = ActiveNetwork(store)]]
    BY <1>1, <1>3 DEF TxNetwork, Job
  <2>4. "txShown" \in Pcs \ {"idle", "load", "save"} /\ "txShown" \in TxPcs /\ x.pc \in TxPcs
    BY <2>1 DEF Pcs, TxPcs
  <2> QED BY <2>1, <2>2, <2>3, <2>4, MoveStep
<1>4. CASE TxShown(j)
  BY <1>4, ReadAddressStep DEF TxShown
<1>5. CASE TxConfirm(j) /\ active # None
  BY <1>5, ReturnStep DEF TxConfirm, At, Req, Sess
<1>6. CASE (TxConfirm(j) /\ active = None) \/ TxOpen(j)
  BY <1>6, ClaimStep
<1>7. CASE TxRejectChain(j)
  BY <1>7, RejectChainStep
<1>8. CASE TxSigned(j)
  <2> DEFINE y == [x EXCEPT !.pc = "txSend"]
  <2>1. /\ x.pc = "txSign" /\ job' = [job EXCEPT ![j] = y]
        /\ UNCHANGED <<store, holder, active, cart, history>>
    BY <1>1, <1>8 DEF TxSigned, At, Goto
  <2>2. /\ y.pc = "txSend" /\ y.setter = x.setter /\ y.net = x.net
        /\ y.op = x.op /\ y.org = x.org /\ y.addr = x.addr /\ y.snap = x.snap
    BY <1>1 DEF Job
  <2>3. y \in Job
    BY <1>1 DEF Job, Pcs
  <2> HIDE DEF y
  <2>4. /\ Shape(y) /\ Serves(y, approved) /\ Knows(y, reported)
        /\ Req(y) <=> Req(x)
        /\ Sess(y) <=> Sess(x)
    BY <1>1, <2>1, <2>2 DEF Shape, Serves, Knows, Req, Sess, TxPcs
  <2>5. Sound(y, approved, reported)
    BY <1>1, <2>2, <2>3, <2>4 DEF Sound
  <2> QED BY <2>1, <2>4, <2>5, QuietStep
<1>9. CASE TxAborted(j) \/ TxSent(j)
  BY <1>9, FinishStep DEF TxAborted, TxSent
<1> QED BY <1>2, <1>3, <1>4, <1>5, <1>6, <1>7, <1>8, <1>9 DEF Transaction

----
(* Theorems *)

\* A fresh install: nothing stored, no handler running.
LEMMA InitSound == Init => IInv
<1> SUFFICES ASSUME Init PROVE IInv
  OBVIOUS
<1>1. World /\ Honest(store, approved, reported)
  BY DEF Init, World, Heard, Honest, NoState, State, Unknown
<1>2. \A j \in Jobs : /\ job[j] = Idle /\ Sound(job[j], approved, reported)
                      /\ ~Req(job[j]) /\ ~Sess(job[j])
  BY IdleSound DEF Init
<1>3. Handlers
  BY <1>2 DEF Init, Handlers, Sound
<1>4. Exclusive
  BY <1>2, NoneAssumption DEF Init, Exclusive
<1> QED BY <1>1, <1>3, <1>4 DEF IInv

\* Every step of the worker and of its environment.
LEMMA StepSound == IInv /\ [Next]_vars => IInv'
<1> SUFFICES ASSUME IInv, [Next]_vars PROVE IInv'
  OBVIOUS
<1>1. ASSUME NEW j \in Jobs, SessionFails(j) PROVE IInv'
  BY <1>1, FinishStep DEF SessionFails
<1>2. ASSUME NEW j \in Jobs, JobStep(j) PROVE IInv'
  BY <1>1, <1>2, MessageStep, SetterStep, AccountsStep, TransactionStep,
     GetPolicyStep DEF JobStep
<1>3. CASE UserChangesCartridge
  BY <1>3 DEF UserChangesCartridge, history, IInv, World, Handlers, Exclusive
<1>4. CASE WorkerStops
  <2>1. World' /\ Honest(store', approved', reported')
    BY <1>4 DEF WorkerStops, history, IInv, World, Honest
  <2>2. \A j \in Jobs : /\ job'[j] = Idle /\ Sound(job'[j], approved', reported')
                        /\ ~Req(job'[j]) /\ ~Sess(job'[j])
    BY <1>4, IdleSound DEF WorkerStops
  <2>3. Handlers'
    BY <1>4, <2>2 DEF WorkerStops, Handlers, Sound
  <2>4. Exclusive'
    BY <1>4, <2>2, NoneAssumption DEF WorkerStops, Exclusive
  <2> QED BY <2>1, <2>3, <2>4 DEF IInv
<1>5. CASE UNCHANGED vars
  BY <1>5 DEF vars, IInv, World, Handlers, Exclusive
<1> QED BY <1>2, <1>3, <1>4, <1>5 DEF Next

\* The invariant holds in every reachable state.
LEMMA Inductive == Spec => []IInv
  BY InitSound, StepSound, PTL DEF Spec

\* Storage, handlers, session lock and active request keep their types, and a
\* handler about to answer a dApp has an address to answer with.
THEOREM TypeCorrect == Spec => []TypeOK
<1>1. IInv => TypeOK
  <2> SUFFICES ASSUME IInv PROVE TypeOK
    OBVIOUS
  <2>1. \A j \in Jobs : job[j] \in Job /\ (job[j].pc = "answer" => job[j].addr \in Wallets)
    BY Mover DEF Knows
  <2>2. job \in [Jobs -> Job]
    BY <2>1 DEF IInv, Handlers
  <2> QED BY <2>1, <2>2 DEF IInv, World, Heard, Honest, TypeOK
<1> QED BY <1>1, Inductive, PTL

\* However the loads and saves of the handlers overlap, and whenever Chrome
\* stops the worker, authorizedOrigins holds only origins for which A was
\* pressed on the cartridge: what a stale handler saves was approved before it
\* loaded it, and approval is what authorizeOrigin was called after.
THEOREM OriginsWereApproved == Spec => []OnlyApprovedAuthorized
<1>1. IInv => OnlyApprovedAuthorized
  BY DEF IInv, Honest, OnlyApprovedAuthorized
<1> QED BY <1>1, Inductive, PTL

\* The cached address and chain lock, and those that events announce to the tabs,
\* are never invented: each was told by a cartridge, by GET_ADDRESS, GET_POLICY or
\* REJECT_CHAIN.
THEOREM CacheWasReported == Spec => []StoreHoldsReports
<1>1. IInv => StoreHoldsReports
  BY DEF IInv, World, Heard, Honest, StoreHoldsReports
<1> QED BY <1>1, Inductive, PTL

\* eth_accounts and eth_requestAccounts answer an approved origin only, with an
\* address a cartridge has told, although permission and address are read by
\* different loads and other handlers run between them and the answer.  Of the
\* accountsChanged events, which go to every tab, it says nothing.
THEOREM AnswersAreAllowed == Spec => []AnswersToApproved
<1>1. IInv => AnswersToApproved
  <2> SUFFICES ASSUME IInv, NEW j \in Jobs, At(j, "answer")
               PROVE  job[j].org \in approved /\ job[j].addr \in reported
    BY DEF AnswersToApproved
  <2> QED BY Mover, NoneAssumption DEF At, Serves, Knows
<1> QED BY <1>1, Inductive, PTL

\* startActiveRequest and the finally pair up in every interleaving: the active
\* request is that of the one handler between them, or there is none.
THEOREM RequestsPairUp == Spec => []OneActiveRequest
<1>1. IInv => OneActiveRequest
  BY DEF IInv, Exclusive, Req, Requesting, OneActiveRequest
<1> QED BY <1>1, Inductive, PTL

\* The session lock is held exactly by the handler inside withGbaSession, so no
\* way out of a handler leaves it locked and no two handlers hold it.
THEOREM LockPairsUp == Spec => []LockIsReleased
<1>1. IInv => LockIsReleased
  BY DEF IInv, Exclusive, Req, Sess, Requesting, At, InSession, LockIsReleased
<1> QED BY <1>1, Inductive, PTL

====
