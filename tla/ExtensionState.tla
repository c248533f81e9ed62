---- MODULE ExtensionState ----
(***************************************************************************)
(* The extension's persistent state, background/session.ts, and the        *)
(* service worker's handlers that work on it.  chrome.storage.local is     *)
(* read by loadState and written by saveState; between the two the worker  *)
(* awaits, and other handlers run.  One job is one handler in progress; a  *)
(* step is what it does from one await to the next.  The cartridge, its    *)
(* user and the stopping of the worker are the environment.                *)
(***************************************************************************)
EXTENDS Naturals

CONSTANTS
    Jobs,       \* handlers that can be in progress at once
    Origins,    \* of the dApps
    Wallets,    \* addresses of the keys a cartridge can hold
    Chains,     \* chain ids of the cartridge's table
    Listed,     \* chain ids of DEFAULT_NETWORKS and customNetworks
    Mainnet,    \* DEFAULT_NETWORKS[0]
    None

ASSUME NetworksAssumption == Mainnet \in Listed /\ 0 \notin Listed \cup Chains
ASSUME NoneAssumption == None \notin Jobs \cup Origins \cup Wallets \cup Listed

Unknown == 0        \* gbaPolicyChainId of no lock, or of firmware without one

VARIABLES
    store,      \* chrome.storage.local
    job,        \* the handlers in progress
    holder,     \* the job inside withGbaSession
    active,     \* the job whose request is confirm-orchestrator's active
    cart,       \* the cartridge: its key's address and its chain lock
    (* history variables: what the properties refer to, read by no action *)
    approved,   \* origins allowed with A on the cartridge
    reported,   \* addresses and chain locks the cartridge has told
    revoked,    \* origins revoked and not allowed again since
    told        \* what events told every tab: the addresses, and the last chain

vars == <<store, job, holder, active, cart, approved, reported, revoked, told>>
history == <<approved, reported, revoked, told>>

State == [addr: Wallets \cup {None}, origins: SUBSET Origins,
          lock: Chains \cup {Unknown}]

\* What an idle job, or a new one, remembers.
Setters == {"none", "setAddress", "clearAddress", "authorizeOrigin",
            "revokeOrigin", "setGbaPolicyChainId"}
Pcs == {"idle", "load", "save", "policy", "reqAddr", "reqAuth", "askUser",
        "accAuth", "accAddr", "answer",
        "txAddr", "txNet", "txShown", "txConfirm", "txOpen", "txSign", "txSend"}
Job == [op: {"none", "connect", "disconnect", "refresh", "request",
             "accounts", "revoke", "tx"},
        pc: Pcs, setter: Setters,
        org: Origins \cup {None},       \* origin it serves
        snap: State,                    \* s, what loadState returned
        addr: Wallets \cup {None},      \* address it has read
        net: Listed \cup Chains \cup {Unknown}]    \* chain id it has read

NoState == [addr |-> None, origins |-> {}, lock |-> Unknown]
Idle == [op |-> "none", pc |-> "idle", setter |-> "none", org |-> None,
         snap |-> NoState, addr |-> None, net |-> Unknown]

\* From startActiveRequest to the finally of ethSendTransaction.
Requesting(j) ==
    /\ job[j].op = "tx"
    /\ job[j].pc \in {"txOpen", "txSign", "txSend", "load", "save"}

TypeOK ==
    /\ store \in State
    /\ job \in [Jobs -> Job]
    /\ \A j \in Jobs : job[j].pc = "answer" => job[j].addr \in Wallets
    /\ holder \in Jobs \cup {None}
    /\ active \in Jobs \cup {None}
    /\ cart \in [addr: Wallets, lock: Chains]
    /\ approved \subseteq Origins
    /\ reported \subseteq Wallets \cup Chains
    /\ revoked \subseteq Origins
    /\ told \in [addrs: SUBSET Wallets, chain: Chains \cup {Unknown}]

Init ==
    /\ store = NoState
    /\ job = [j \in Jobs |-> Idle]
    /\ holder = None /\ active = None
    /\ cart \in [addr: Wallets, lock: Chains]
    /\ approved = {} /\ reported = {} /\ revoked = {}
    /\ told = [addrs |-> {}, chain |-> Unknown]

----
At(j, pc) == job[j].pc = pc
Goto(j, pc) == job' = [job EXCEPT ![j].pc = pc]
End(j) == job' = [job EXCEPT ![j] = Idle]

\* Release the lock, run the finally, return.
Release(j) == holder' = IF holder = j THEN None ELSE holder
Finally(j) == active' = IF active = j THEN None ELSE active
\* Mutant of Finish: the lock is not released.
FinishLocked(j) == End(j) /\ holder' = holder /\ Finally(j)

Finish(j) == End(j) /\ Release(j) /\ Finally(j)
Unlocked == holder = None

\* getActiveNetwork, from a state that has been loaded.
ActiveNetwork(s) == IF s.lock \in Listed THEN s.lock ELSE Mainnet

----
(* The setters of session.ts: what each writes over the state it loaded. *)

setAddress(s, a) == [s EXCEPT !.addr = a]
clearAddress(s) == [s EXCEPT !.addr = None, !.origins = {}]
authorizeOrigin(s, o) == [s EXCEPT !.origins = @ \cup {o}]
revokeOrigin(s, o) == [s EXCEPT !.origins = @ \ {o}]
setGbaPolicyChainId(s, c) == [s EXCEPT !.lock = c]

Written(x) ==
    CASE x.setter = "setAddress" -> setAddress(x.snap, x.addr)
      [] x.setter = "clearAddress" -> clearAddress(x.snap)
      [] x.setter = "authorizeOrigin" -> authorizeOrigin(x.snap, x.org)
      [] x.setter = "revokeOrigin" -> revokeOrigin(x.snap, x.org)
      [] OTHER -> setGbaPolicyChainId(x.snap, x.net)

\* authorizeOrigin and revokeOrigin save only a change.
NothingToSave(x, s) ==
    \/ x.setter = "authorizeOrigin" /\ x.org \in s.origins
    \/ x.setter = "revokeOrigin" /\ x.org \notin s.origins

\* What the handler does when its setter has returned.
AfterSetter(j) ==
    \/ /\ job[j].setter = "setAddress"
       /\ job' = [job EXCEPT ![j].setter = "setGbaPolicyChainId",
                             ![j].pc = "load", ![j].snap = NoState]
       /\ UNCHANGED <<holder, active>>
    \/ /\ job[j].setter = "authorizeOrigin"
       /\ job' = [job EXCEPT ![j].pc = "answer", ![j].setter = "none",
                             ![j].snap = NoState]
       /\ UNCHANGED <<holder, active>>
    \/ /\ job[j].setter \in {"clearAddress", "revokeOrigin", "setGbaPolicyChainId"}
       /\ Finish(j)

\* loadState of a setter.
Load(j) ==
    /\ At(j, "load")
    /\ IF NothingToSave(job[j], store)
       THEN AfterSetter(j)
       ELSE /\ job' = [job EXCEPT ![j].pc = "save", ![j].snap = store]
            /\ UNCHANGED <<holder, active>>
    /\ UNCHANGED <<store, cart, history>>

\* The event a setter broadcasts: chrome.tabs.query({}) finds every tab.  An
\* accountsChanged of nothing tells no address; a chain is compared with the one
\* that was loaded, and 0 is not announced.
Broadcast(x) ==
    CASE x.setter = "setAddress" -> [told EXCEPT !.addrs = @ \cup {x.addr}]
      [] x.setter = "setGbaPolicyChainId" /\ x.net \notin {x.snap.lock, Unknown} ->
            [told EXCEPT !.chain = x.net]
      [] OTHER -> told

\* saveState of a setter, and the event that follows it.
Save(j) ==
    /\ At(j, "save")
    /\ store' = Written(job[j])
    /\ told' = Broadcast(job[j])
    /\ AfterSetter(j)
    /\ revoked' = IF job[j].setter = "revokeOrigin"
                  THEN revoked \cup {job[j].org} ELSE revoked
    /\ UNCHANGED <<cart, approved, reported>>

----
(* Handlers begin: messages of the popup, the connect page and the dApps. *)

Begin(j, op, pc, setter, o) ==
    /\ At(j, "idle")
    /\ job' = [job EXCEPT ![j].op = op, ![j].pc = pc, ![j].setter = setter,
                          ![j].org = o]
    /\ UNCHANGED <<store, holder, active, cart, history>>

PopupDisconnect(j) == Begin(j, "disconnect", "load", "clearAddress", None)
RefreshPolicy(j) == Begin(j, "refresh", "policy", "none", None)
EthAccounts(j, o) == Begin(j, "accounts", "accAuth", "none", o)
EthRequestAccounts(j, o) == Begin(j, "request", "reqAddr", "none", o)
RevokePermissions(j, o) == Begin(j, "revoke", "load", "revokeOrigin", o)
EthSendTransaction(j, o) == Begin(j, "tx", "txAddr", "none", o)

----
(* Sessions with the cartridge *)

\* The cartridge is not there or does not answer in time; or the cached policy
\* is fresh enough for maybeRefreshPolicyInBg and popup-state.
SessionFails(j) ==
    /\ At(j, "policy") \/ At(j, "askUser") \/ At(j, "txOpen")
    /\ holder # j
    /\ Finish(j)
    /\ UNCHANGED <<store, cart, history>>

\* connectAndCacheAddress: GET_ADDRESS, then GET_POLICY in the same session.
Connect(j) ==
    /\ At(j, "idle") /\ Unlocked
    /\ holder' = j
    /\ job' = [job EXCEPT ![j].op = "connect", ![j].pc = "policy",
                          ![j].addr = cart.addr]
    /\ reported' = reported \cup {cart.addr}
    /\ UNCHANGED <<store, active, cart, approved, revoked, told>>

\* GET_POLICY; connect goes on without an answer.
GetPolicy(j) ==
    /\ At(j, "policy") /\ holder \in {None, j}
    /\ \E c \in {cart.lock} \cup (IF job[j].op = "connect" THEN {Unknown} ELSE {}) :
          /\ job' = [job EXCEPT ![j].pc = "load", ![j].net = c,
                                ![j].setter = IF job[j].op = "connect"
                                              THEN "setAddress"
                                              ELSE "setGbaPolicyChainId"]
          /\ reported' = reported \cup ({c} \ {Unknown})
    /\ Release(j)
    /\ UNCHANGED <<store, active, cart, approved, revoked, told>>

----
(* ethAccounts and ethRequestAccounts *)

\* Mutant of AccountsAuth: the permission is not looked up.
AccountsAuthSkipped(j) ==
    /\ At(j, "accAuth") /\ Goto(j, "accAddr")
    /\ UNCHANGED <<store, holder, active, cart, history>>

AccountsAuth(j) ==
    /\ At(j, "accAuth")
    /\ IF job[j].org \in store.origins THEN Goto(j, "accAddr") ELSE End(j)
    /\ UNCHANGED <<store, holder, active, cart, history>>

\* The address of the state loaded, if there is one.
ReadAddress(j, from, to) ==
    /\ At(j, from)
    /\ IF store.addr # None
       THEN job' = [job EXCEPT ![j].pc = to, ![j].addr = store.addr]
       ELSE Finish(j)
    /\ UNCHANGED <<store, cart, history>>
    /\ store.addr # None => UNCHANGED <<holder, active>>

AccountsAddress(j) == ReadAddress(j, "accAddr", "answer")

\* Mutant of RequestAddress: s.addressChecksum is not checked.
RequestAddressUnchecked(j) ==
    /\ At(j, "reqAddr")
    /\ job' = [job EXCEPT ![j].pc = "reqAuth", ![j].addr = store.addr]
    /\ UNCHANGED <<store, holder, active, cart, history>>

RequestAddress(j) == ReadAddress(j, "reqAddr", "reqAuth")

RequestAuth(j) ==
    /\ At(j, "reqAuth")
    /\ Goto(j, IF job[j].org \in store.origins THEN "answer" ELSE "askUser")
    /\ UNCHANGED <<store, holder, active, cart, history>>

\* Mutant of AskUser: B is taken for A.
AskUserIgnored(j) ==
    /\ At(j, "askUser") /\ Unlocked
    /\ job' = [job EXCEPT ![j].pc = "load", ![j].setter = "authorizeOrigin"]
    /\ \/ /\ approved' = approved \cup {job[j].org}
          /\ revoked' = revoked \ {job[j].org}
       \/ UNCHANGED <<approved, revoked>>
    /\ UNCHANGED <<store, holder, active, cart, reported, told>>

\* CONNECT REQ: A allows, B denies.
AskUser(j) ==
    /\ At(j, "askUser") /\ Unlocked
    /\ \/ /\ job' = [job EXCEPT ![j].pc = "load", ![j].setter = "authorizeOrigin"]
          /\ approved' = approved \cup {job[j].org}
          /\ revoked' = revoked \ {job[j].org}
       \/ End(j) /\ UNCHANGED <<approved, revoked>>
    /\ UNCHANGED <<store, holder, active, cart, reported, told>>

\* The dApp gets the address that was read before.
Answer(j) ==
    /\ At(j, "answer") /\ End(j)
    /\ UNCHANGED <<store, holder, active, cart, history>>

----
(* ethSendTransaction *)

TxConnected(j) == ReadAddress(j, "txAddr", "txNet")

\* buildTx: the network the transaction is for.
TxNetwork(j) ==
    /\ At(j, "txNet")
    /\ job' = [job EXCEPT ![j].pc = "txShown", ![j].net = ActiveNetwork(store)]
    /\ UNCHANGED <<store, holder, active, cart, history>>

TxShown(j) == ReadAddress(j, "txShown", "txConfirm")

\* Mutant of TxConfirm: startActiveRequest inside the try.
TxConfirmInTry(j) ==
    /\ At(j, "txConfirm")
    /\ IF active = None
       THEN active' = j /\ Goto(j, "txOpen")
       ELSE active' = None /\ End(j)
    /\ UNCHANGED <<store, holder, cart, history>>

\* startActiveRequest throws while another request is active.
TxConfirm(j) ==
    /\ At(j, "txConfirm")
    /\ IF active = None
       THEN active' = j /\ Goto(j, "txOpen")
       ELSE active' = active /\ End(j)
    /\ UNCHANGED <<store, holder, cart, history>>

TxOpen(j) ==
    /\ At(j, "txOpen") /\ Unlocked
    /\ holder' = j
    /\ Goto(j, "txSign")
    /\ UNCHANGED <<store, active, cart, history>>

\* Mutant of TxRejectChain: out.got is cached in place of out.expected.
TxCachesGot(j) ==
    /\ At(j, "txSign") /\ job[j].net # cart.lock
    /\ job' = [job EXCEPT ![j].pc = "load", ![j].setter = "setGbaPolicyChainId"]
    /\ reported' = reported \cup {cart.lock}
    /\ UNCHANGED <<store, holder, active, cart, approved, revoked, told>>

\* The cartridge refuses a chain it is not locked to, and tells its lock.
TxRejectChain(j) ==
    /\ At(j, "txSign") /\ job[j].net # cart.lock
    /\ job' = [job EXCEPT ![j].pc = "load", ![j].setter = "setGbaPolicyChainId",
                          ![j].net = cart.lock]
    /\ reported' = reported \cup {cart.lock}
    /\ UNCHANGED <<store, holder, active, cart, approved, revoked, told>>

\* A signs; the signature must be of the address the request showed.
TxSigned(j) ==
    /\ At(j, "txSign") /\ job[j].net = cart.lock /\ job[j].addr = cart.addr
    /\ Goto(j, "txSend")
    /\ UNCHANGED <<store, holder, active, cart, history>>

\* B, a time-out, a signature by another key, or cancelled in the popup.
TxAborted(j) ==
    /\ At(j, "txSign") /\ Finish(j)
    /\ UNCHANGED <<store, cart, history>>

\* eth_sendRawTransaction and TXRESULT have ended, well or badly.
TxSent(j) ==
    /\ At(j, "txSend") /\ Finish(j)
    /\ UNCHANGED <<store, cart, history>>

----
(* Environment *)

\* L or R on the READY screen, or another wallet after a reset.
UserChangesCartridge ==
    /\ cart' \in [addr: Wallets, lock: Chains]
    /\ UNCHANGED <<store, job, holder, active, history>>

\* Chrome stops the service worker: only the storage is left.
WorkerStops ==
    /\ job' = [j \in Jobs |-> Idle]
    /\ holder' = None /\ active' = None
    /\ UNCHANGED <<store, cart, history>>

Setter(j) == Load(j) \/ Save(j)

Message(j) ==
    \/ Connect(j) \/ PopupDisconnect(j) \/ RefreshPolicy(j)
    \/ \E o \in Origins :
          \/ EthAccounts(j, o) \/ EthRequestAccounts(j, o)
          \/ RevokePermissions(j, o) \/ EthSendTransaction(j, o)

Accounts(j) ==
    \/ AccountsAuth(j) \/ AccountsAddress(j)
    \/ RequestAddress(j) \/ RequestAuth(j) \/ AskUser(j) \/ Answer(j)

Transaction(j) ==
    \/ TxConnected(j) \/ TxNetwork(j) \/ TxShown(j) \/ TxConfirm(j) \/ TxOpen(j)
    \/ TxRejectChain(j) \/ TxSigned(j) \/ TxAborted(j) \/ TxSent(j)

JobStep(j) ==
    \/ Message(j) \/ Setter(j) \/ Accounts(j) \/ Transaction(j)
    \/ SessionFails(j) \/ GetPolicy(j)

Next == (\E j \in Jobs : JobStep(j)) \/ UserChangesCartridge \/ WorkerStops

Spec == Init /\ [][Next]_vars

----
(* Safety *)

\* Whatever updates the overlapping loads and saves lose or bring back, an
\* origin is authorised only if its user has once pressed A for it.
OnlyApprovedAuthorized == store.origins \subseteq approved

\* The stored address and chain lock, and those that events announce, are ones
\* a cartridge has told, never a default, the chain of a refused transaction or a
\* value read from nowhere.
StoreHoldsReports ==
    /\ {store.addr} \cup told.addrs \subseteq reported \cup {None}
    /\ {store.lock, told.chain} \subseteq reported \cup {Unknown}

\* Who asks for accounts and is answered with an address has been allowed on the
\* cartridge, and the address is one a cartridge has told.  Events are another
\* way to be told one: AddressOnlyToApproved.
AnswersToApproved ==
    \A j \in Jobs :
        At(j, "answer") => job[j].org \in approved /\ job[j].addr \in reported

\* The active request of confirm-orchestrator is that of the one transaction
\* between startActiveRequest and its finally: a second one neither starts nor
\* clears the first, and none is left behind to refuse all that follow.
OneActiveRequest == \A j \in Jobs : Requesting(j) <=> active = j

\* withLock's holder is inside withGbaSession: every way out releases it.
InSession(j) ==
    \/ job[j].op = "connect" /\ At(j, "policy")
    \/ Requesting(j) /\ ~At(j, "txOpen")

LockIsReleased == \A j \in Jobs : InSession(j) <=> holder = j

----
(* session.ts:169 and accounts.ts:118 "we just drop the origin from the     *)
(* authorized list": it stays out until it is allowed again.               *)
RevokedStaysOut == store.origins \cap revoked = {}

(* session.ts:215 "Events: the extension propagates accountsChanged /       *)
(* chainChanged to every tab with an authorized dApp": no page is told an   *)
(* address before its origin was allowed, not by an event either.           *)
AddressOnlyToApproved ==
    AnswersToApproved /\ (told.addrs # {} => Origins \subseteq approved)

====
