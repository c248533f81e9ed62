# Coldpakku: TLA+ models and proofs

Coldpakku turns a Game Boy Advance into an Ethereum hardware wallet: firmware on
a cartridge, a Raspberry Pi Pico that passes bytes between the GBA's serial port
and USB, and a browser extension that dApps talk to. This directory models the
parts of it whose behaviour over time can go wrong (what survives a power cut,
which answer belongs to which request, whether two ends that lost each other
meet again, what overlapping handlers do to shared storage, whether the user is
shown what is signed), checks the models with TLC on small instances and proves
with TLAPS, for every instance, the safety of the wallet core, of the link, of
the extension's state and of the screens.

## 1. Inventory

| Component | State it keeps | Operations | Talks to |
|---|---|---|---|
| Wallet state machine (`src/state.c`, `src/main.c`) | phase of the screens, `g_seed`, `g_node`, `g_address`, `attempt`, `g_active_chain_idx` | boot, unlock with PIN, new session from 12 words, READY keys (lock, wipe, chain), opcode handlers | SRAM, screens, serial link |
| SRAM storage (`src/storage/*.c`) | session blob at 0 (v2 or v3), policy blob at 1024, battery-backed | `session_present/load/save/wipe`, `policy_load/save`, v2 to v3 migration | called by the state machine |
| Link, device side (`src/link/protocol.c`, `src/link/uart.c`, `sign_loop`) | position in the READY loop or a handler, 4-byte UART FIFO | READY pulse, opcode dispatch, payload reads, A/B screens, TXRESULT wait | Pico, user |
| Link, host side (`extension/src/offscreen/serial.ts`) | port session, receive buffer, lock chain, `heartbeatPending`, `inTxResultWindow` | `sb-*` operations, 5 s heartbeat, 60 s window timer | service worker (messages), Pico (Web Serial) |
| Service worker (`background/methods/*.ts`, `serial-bridge.ts`, `confirm-orchestrator.ts`, `sig-recover.ts`) | its own lock chain, the one active request and its cancel flag | `eth_sendTransaction`, `eth_signTransaction`, `personal_sign`, `eth_signTypedData_v4`, `eth_requestAccounts` | provider, offscreen page, RPC nodes, storage |
| Extension state (`background/session.ts`, `methods/chain.ts`) | address, networks, authorised origins, cached chain lock in `chrome.storage.local` | load-modify-save setters | service worker, popup |
| RPC and networks, provider and content script | URL lists, pending request ids | failover, request/response matching | dApp pages, nodes |
| Codecs (`rlp.c`, `eth_tx.c`, `eip712.c`, `eth_abi.c`, `abi_decoder.c`, `tx_meta.c`, and `rlp.ts`, `tx_meta.ts`, `eip712.ts` on the host) | none | encode on the host, decode and hash on the cartridge | handlers, confirmation screens |
| Entry screens (`pin.c`, `keyboard.c`, `bip39.c`) | digits, prefix, cached candidates, slot, dirty flags | PIN, word by word entry with prefix search, review and edits | user, state machine |
| Confirmation screens (`confirm.c`, `text.c`, handlers of `state.c`) | page, view, L+R detector, hold counter, parsed lines | transaction, typed data, message, connect, notices, wipe | codecs, user |
| Pico bridge (`pico/main.py`) | two byte buffers | copy both ways | link |
| Cryptography, rendering, third-party code, build, Python tools | - | - | - |

What is hard in this code, and the properties it calls for (every hazard with
its line is in `PROJECT.json`):

* **Power cuts.** SRAM is written a byte at a time and nothing is atomic: saving
  over an old session, migrating v2 in place, wiping, storing the chain lock.
  A blob must be accepted only if it was written to its end; the key in use must
  stay recoverable; a wipe must not be undone.
* **Secrets in RAM.** Every way out of three long functions has to zeroise them.
* **Ordering and retries on the link.** The host gives up after 30 s, the user
  does not; a signature may arrive for a request nobody waits for. A timed-out
  `reader.read()` is not cancelled and takes a later chunk. Heartbeats come from
  a timer and must not land between a signature and its TXRESULT.
* **Bytes that are read as something else.** While a screen is open nobody reads
  the 4-byte FIFO, and its leftovers are later read as commands.
* **Restarts.** Chrome stops the service worker at will, the extension is
  reloaded, the cartridge is switched off, the cable is pulled.
* **Load, modify, save.** Every setter of `session.ts` loads the whole state, awaits
  and saves it whole; handlers run in between and nothing serialises them.
* **What is shown is what is signed.** The user sees a few rows at a time of bytes
  that two languages encode and decode. Nothing may be skipped between pages, a
  call must not be shown as another, an honest host's tree must verify, and only
  a fresh press of A may sign, whatever was held, chorded or pressed before.
* **Cached screens.** Candidates, pages and views are redrawn only when a flag says
  so; what A accepts has to be what is on the screen.
* **Liveness.** Every request must end; after a disturbance the two ends must
  find each other again.

## 2. Modules

| Module | Models | Extends |
|---|---|---|
| `SramStore` | the two SRAM regions, cut into cells where the blob layouts differ | |
| `Wallet` | `wallet_run`, `try_load_session`, `input_new_session`, keys of `sign_loop` | `SramStore` |
| `KeyVault` | abstract key store: one stored key, one live key | |
| `WalletUser` | `Wallet` with a history of what the user did | `Wallet` |
| `MCWallet` | symmetry of the wallet run | `Wallet` |
| `WalletProofs` | theorems about `Wallet` and its refinement of `KeyVault` | `Wallet`, TLAPS |
| `GbaLink` | READY loop, opcode handlers, result wait, FIFO | |
| `OffscreenSerial` | the offscreen page | `GbaLink` |
| `SerialLink` | service worker, page and cartridge together; properties | `OffscreenSerial` |
| `SigningService` | abstract service: ask, approve, grant, refuse | |
| `MCLink` | instances of the link | `SerialLink` |
| `LinkProofs` | theorems about `SerialLink` and its refinement of `SigningService` | `SerialLink`, TLAPS |
| `EthTx` | RLP, both transaction formats, the informational TLV, the table of networks | |
| `Calldata` | the strict and the generic ABI decoder, the selector table | `EthTx` |
| `TypedData` | the typed-data tree: walk, encodeType, struct hashes, chain id, verdict | `EthTx` |
| `HostTx` | the extension's encoders of transactions | `EthTx` |
| `CodecProofs` | the cartridge's decoder inverts these encoders | `HostTx`, TLAPS |
| `HostTyped` | the extension's hashes and tree of typed data, and what can be asked for | `TypedData` |
| `HostPayloads` | metadata, calldata and the order of the types in a tree | `Calldata`, `HostTyped`, `HostTx` |
| `TextScreen` | the 30 x 20 screen: rows, title and status bar | |
| `ConfirmPages` | what each render function draws, how pages are counted | `Calldata`, `TypedData`, `TextScreen` |
| `Consent` | abstract: a request is answered once, yes only by a fresh A and under the lock | |
| `Confirm` | the handlers and the loops of the confirmation screens; properties | `ConfirmPages`, `HostTx`, `HostTyped` |
| `Entry` | PIN, words, review | |
| `Screens` | an entry, and once it succeeds any requests | `Confirm`, `Entry` |
| `MCScreens` | the requests of the runs | `Screens`, `HostPayloads` |
| `TypedProofs` | the cartridge's walk, hashes and lines of a tree are those of what was asked | `Confirm`, `CodecProofs` |
| `EntryProofs` | theorems about the entry screens | `Screens`, TLAPS |
| `ConfirmProofs` | theorems about the loops of the confirmation screens and their refinement of `Consent` | `Screens`, `TypedProofs` |
| `PagesProofs` | theorems about what the pages show, and the decoders behind them | `ConfirmProofs` |
| `ExtensionState` | `chrome.storage.local` and the service worker's handlers that overlap on it | |
| `MCExtension` | symmetry of the extension runs | `ExtensionState` |
| `ExtensionProofs` | theorems about `ExtensionState` | `ExtensionState`, TLAPS |

### Wallet: state, actions and code

`ph` is the place in the code where the machine waits for a key or is inside
`sram_write`; `seed`, `node`, `addr` are `g_seed`, `g_node`, `g_address`;
`tries` is the local `attempt`; `sess` and `pol` are SRAM; `out` and `at` are the
write in progress and the cell it has reached. `saved` and `keep` are history,
read by no action.

The session region is six cells, so that the CRC of a v2 blob (cell 4) and the
tail of a v3 MAC (cells 4 and 5) share bytes as they do in SRAM. A write either
leaves a cell `Torn` (some of its bytes stored) or stores it whole; `PowerCycle`
is enabled in every state, so power is cut between and inside any two cells. A
write's last byte and the return to its caller are one step, because nothing can
come between them that SRAM could tell.

`LoadPolicy`, `ProbeSession`: `wallet_run`. `EnterPin` (to phase `check`, with the
PIN in `typed` while `session_load` judges it), `WrongPin`, `RightPin`, `SkipPin`,
`DeriveOk/DeriveFails`, `LeaveAddress`, `AddressCorrect/AddressWrong`:
`try_load_session`. `EnterWords`, `CancelWords`, `WantSave`, `DontSave`,
`SetPin`: `input_new_session`. `Lock`, `SwitchChain`, `AskWipe`, `CancelWipe`,
`HoldToWipe`: the keys of `sign_loop`. `Migrated`, `SessionSaved`, `FailWiped`,
`UserWiped`, `BootPolicySaved`, `ReadyPolicySaved` end the six writes.

Abstractions: CRC and MAC are ideal (a cell mixture never passes, a wrong PIN
never matches); salts are fresh, hence blobs of different saves share no byte of
a body cell; the boot self-test's scratch byte and `g_ready`, `g_signed_count`
are left out (written, never read by a decision); SRAM that is not losing power
stores what it is given.

### Link: state, actions and code

`dev` is where the firmware is: `ready` (the READY loop), `opcode` and
`payload`/`partial` (busy reads), `confirm` (an A/B screen), `result`, `hash`,
`shown` (`await_and_show_tx_result`), `away` (wipe screen), `locked`, `off`.
`rx` is what the UART holds for it, `wire` what it has sent and the page has not
fetched. On the host, `queue` is the page's promise-chain lock with the running
operation at its head, `step` the `await` that operation is in, `buf` the
`rxBuffer`, `orphans` the number of `reader.read()` calls nobody awaits any
more. `sw` is what the worker is waiting for, `outcome` what became of each
request.

A message is a control byte, a whole payload, a whole answer with its marker, or
a whole result; it carries the request it belongs to, which only the properties
and `Own` look at (`recoverRecid` does tell one digest's signature from
another's). Bytes that reach a device that is not reading are cut down to
`JUNK`, at most `FifoBytes` messages and nothing behind the first `JUNK`. `JUNK`
may be read as an ACK, a known opcode, an unknown one, a length, a TXRESULT.
`Fetch` hands a chunk, any prefix of the wire, to the oldest orphaned read, or
else to the running one.

Abstractions and the reasons for them:

* A chunk boundary never falls inside an answer: a part of an answer is as good
  as none, the reader waits for the rest or times out.
* Junk never forms a whole payload that decodes, so it never reaches a screen.
* `Drain` is one step: 30 ms of silence. Its last read is orphaned, by design of
  `drain`, and takes the READY that follows.
* `openSession` with its 3 s settle is one step; a second one at the same time is
  not modelled.
* Chain rejection and malformed transactions show a notice for up to 1.5 s before
  they answer; the notice is part of the same step.
* `Silent`: a read times out only when nothing can be on its way, the cartridge
  being in a state that sends nothing without the user, the host or power. (Its
  busy reads spin 280 000 times per frame of their timeout, longer than 30 s.)
* `Polled`: after the 50 ms behind ACK and the 25 ms behind TXRESULT a device
  that polls once per frame has read the byte.
* `Reacted`: the host answers a READY within the half second to the next one;
  where it does not, that is the disturbance `SecondPulse`.
* `behind` and `KeepsUp`: a pulse goes out every 30 rounds of `sign_loop`
  (`state.c:1038`) and each round looks at one byte (`state.c:1068`). A READY may
  overtake what is in the four-byte FIFO (`SecondPulse`, on the first round after a
  screen); before the next one goes out all of that has been read.
* A connection is one request and the address and policy queries that follow are
  requests of their own; `assertConnected`, building the transaction and the RPC
  call are internal to a worker step.

`MaxFaults` bounds disturbances in a behaviour: a late READY, the wipe screen, a
power cycle, a worker restart, an extension reload. `Unplug` is switched on by
`Unplugging`.

### Extension state: state, actions and code

`store` is the part of `PersistedState` that handlers fight over: address,
authorised origins, cached chain lock. `job` holds the handlers in progress, each
with the method it serves (`op`), the `await` it is in (`pc`), the setter it has
called and what it has loaded or read so far (`snap`, `addr`, `net`, `org`). A
step is what a handler does from one `await` to the next, and any handler may
take the next step. `holder` is the handler inside `withGbaSession`, `active` the
request of `confirm-orchestrator`, `cart` the cartridge's key and lock.

`Load` and `Save` are the two halves of any setter, with `Written` for what each
writes and `AfterSetter` for what its caller does next. `Connect`, `GetPolicy`:
`connectAndCacheAddress` and `refreshGbaPolicy`. `AccountsAuth`,
`AccountsAddress`: `ethAccounts`. `RequestAddress`, `RequestAuth`, `AskUser`,
`Answer`: `ethRequestAccounts` and `wallet_requestPermissions`. The `Tx` actions:
`ethSendTransaction` and `ethSignTransaction`. `UserChangesCartridge` and
`WorkerStops` are the environment. `approved`, `reported` and `revoked` are history,
read by no action.

Abstractions: a session is open or fails at once (`SessionFails`; the link modules
have its inside), the lock is not first come first served, ages of the cached lock
(10 s, 15 s) are a choice, and the network is read once for a transaction. `Broadcast` is
the event that a setter emits when it has saved: `told` holds the addresses and the last
chain that every tab has been sent; the save and its event, between which the handler only
waits for its own write, are one step. A save that Chrome cuts off with the
worker is one that happened or did not: storage is written whole.

### SigningService

Four actions over a set of requests. `ImplementsSigningService` maps it to the
link: a request is granted only after *this* request was approved with A, it is
settled once, and nothing is approved that no dApp asked for. It is checked
through worker restarts and reloads, late answers and leftovers in the FIFO.

### Codecs: definitions and code

A payload is a sequence of bytes, and `EthTx`, `Calldata` and `TypedData` are
functions over it named as in the code. `rlp_decode_item` gives where an item lies;
`rlp_iter` all items of a list; `eth_tx_decode` a record, or `Malformed`. Numbers
are big-endian bytes without leading zeros, so that 64 and 256 bit values need no
arithmetic; lengths saturate at `Huge`, which no payload reaches, where the code
compares a 64-bit length with what is left. `LowWord` is the cast to `u32` in front
of `chains_lookup`. `eth_abi_decode` wants the exact length and clean padding,
`abi_decode` follows offsets and ignores what is left over; `Badge` is the order in
which `confirm_tx` tries them.

A typed-data tree is a record of a type table, the primary type and the bytes of
the values; the bytes the table itself is written in are left out. `walk_struct`
finds where each struct ends. Recursion over nested structs is a function of the levels
that are left (`left`, at most `EIP712_MAX_DEPTH`), and what one level adds has a
name of its own: `WalkLevel`, `HashLevel`, `LineLevel`, and on the host `WriteLevel` and
`HostHashLevel`. What a type needs (`collect_deps`, `findDependencies`) is the least set
closed under what its members use. A hash is the term that is
hashed (keccak256 is injective), so equal hashes mean equal type strings and equal
32-byte words. Arrays are refused in the walk, where the code refuses them when it
hashes; either way the request falls back to its text. So it does when a type string is longer
than its buffer: `emit_struct_def` and `TypeStringSize` count its bytes, `TypeStringsFit`
says whether every struct that is hashed has room in `EIP712_TYPESTR_MAX`. Widths are a fixed list of
ten types that covers every branch: left and right aligned, signed, dynamic.

`HostTx`, `HostTyped` and `HostPayloads` are a second, independent translation, from
the TypeScript: the requests of the runs are built with them and read with the C side.
`IsTx` is what `buildTx` can hand to the encoders: numbers of any size in minimal
bytes, any bytes for address and data. `IsTypedData` is what the serialiser takes: any
types with at most 32 fields and names within the limits of `pushBoundedAscii`, any values of
them, nested at most `EIP712_MAX_DEPTH` deep
(the cartridge refuses deeper trees); arrays, structs that are named as an atomic type
and signed numbers out of their range are left out. `IsTypeOrder` says of the order of
the types what every search from the domain gives; `collect` is the one that the code
makes. What dApps put into calldata (`CallData`) is
external.

### Screens: state, actions and code

A screen is 20 rows, each a tuple that says what can be read there: which datum,
which stretch of a text, which bytes. A line of the parsed view is its depth, its name, its
value and the number of characters that are left of both once `push_line` has cut it to
`PARSED_LINE_CHARS` (`LineChars` is what there was). A `Page` is what a render function draws;
`Draw` puts it on the screen, title first, status bar last, as the code does.

`Confirm` has one action per iteration of a loop, that is per `input_poll`: `keys`
are the keys down at this poll, `held` those of the one before, `Pressed` what
`input_pressed` returns. Nothing polls while a payload arrives, hence `Receive`
leaves `held` alone, and a key that goes down meanwhile counts as pressed at the
first poll of the dialog. `dlg` is the loop that runs: a request's screen, a
notice, `release` (`wait_release`), the wipe screen with its two waits, or READY
(`idle`, where L and R move the lock). `doc` is what the handler decoded; `page`,
`ppage`, `parsed`, `combo` are `cur_page`/`cur_blind`, `cur_parsed`,
`show_parsed` and the state of `lr_combo_step`. `Answer` ends a request; the code
sends the answer after `wait_release` where the model notes it before, which no
screen and no key can tell. `seen`, `alone` and `paired` are history.

`Consent` is the abstract specification: `Ask`, `Grant`, `Refuse`, `MoveLock` and
`Poll`. `ConsentKept` says that the screens implement it, where what may be granted
is told from the host's side: the transaction that was encoded is for the locked
chain; the hashes are not forged, and the domain that was asked names no other chain.
Typed data whose type strings are too long (`TooLong`) is excepted from the last: the
cartridge shows it as text and does not hold it to the lock (section 5).

`Entry` has one action per poll that sees a press. `pin_input` applies the keys in
the code's order (a digit may be turned, added and dropped by one poll);
`input_one_word` is wheel, left, right, delete, scroll, then A with the candidates
of the *previous* search; `Redraw` is the dirty flags. `review_screen`,
`error_screen` and the slots of `keyboard_input_words` follow. The sizes are
constants.

`Screens` composes them: an entry runs to its end, and a wallet that is open asks
for any request of the set, any number of times. `MCScreens` gives the set.

## 3. Runs

| Run | Instance | Shows |
|---|---|---|
| `wallet` | 2 seeds, 2 PINs, 3 salts, 2 chains, symmetry; 2.5 M states | the type invariant, five safety properties and the refinement of `KeyVault` |
| `wallet_tries` | same machine with user history | *violated*: `README.md:144` "3 failed PIN attempts in a single session wipe SRAM" |
| `wallet_back_out` | same | *violated*: the screen's "B = cancel session" |
| `link` | a transaction, typed data, a connect request, one disturbance, unplugging; 1.5 M states | answers are own, orphans steal none, heartbeats spare the result, refinement of `SigningService` |
| `link_faults` | two transactions, two disturbances, unplugging; 0.9 M states | the same when a request follows an abandoned one of the same kind |
| `link_live` | a transaction and a query, two disturbances; 0.14 M states | `EveryRequestSettles`, `LinkRecovers` |
| `link_unplugged` | unplugging, fair | *violated*: "The next tick will retry" (`serial.ts:213`) |
| `ext` | two overlapping handlers, 2 origins, 1 key, 2 chains, one of them unlisted; 4.4 M states | the type invariant and five safety properties under every interleaving of loads and saves |
| `ext_revoked` | two handlers, 1 origin, 2 keys | *violated*: "Revokes an origin's access" (`session.ts:169`) |
| `ext_events` | two handlers, 2 origins, 1 key | *violated*: events go "to every tab with an authorized dApp" (`session.ts:215`) |
| `screens` | PIN and phrase entry; 17 transactions, 3 messages, 9 typed-data requests, a connect request, on 2 chains; 0.13 M states | refinement of `Consent`; decoded = sent, decoded calls leave nothing out, drainers are warned of, no byte is skipped, honest trees that can be read verify and have a line for each value, chords, wipe hold, entry |
| `screens_hidden` | same | *violated*: "row 3-18 content" (`confirm.c:1084`) |

Bounds. Two of each kind suffice to mix up: two keys and PINs distinguish a blend
of saves from either, and a third salt makes a fresh one available beside the two
that torn cells can hold. Two chains let the lock differ from the default one;
`NChains` itself is an unlisted chain id. `ReadySkips` is 3 for the code's 32,
`MaxOrphans` 3 (a `drain` and a timeout leave two; the counter saturates),
`MaxWaiting` 3 (a heartbeat, a request of a dead worker and one of the new).
One disturbance is enough to abandon a request in any state, the second to hit the
recovery. Two handlers suffice for a lost or stale update, which is one save between
another's load and save; a third only repeats it, and the theorems hold for any
number. Deadlock is checked in the wallet, where power can always be cycled, and in
the extension, where messages always come; in the link runs every request may have
been made and the cartridge be locked, where the system does stop.

The requests of `screens` are chosen for the branches of the code: both formats; a
plain transfer, each kind of decoded, parsed and blind calldata; 81 bytes of data
(one more than a hex page); a dirty address, a trailing byte; a chain id whose low
word is the locked one's; a truncated transaction, truncated metadata, no chain id
at all. Messages end at a line's and at a page's edge. Typed data has nested
structs used twice, signed and left-aligned values, a string cut short on screen, a
domain with and without chain id, a `verifyingContract` that its line cuts off, a type string
of 2048 bytes and one of 2049, more lines than the view holds, a forged hash, no tree and
a tree with a byte too many. Keys are any of A, B, L, R at once, and SELECT alone or with A (START and the
pad do nothing on these screens). `WIPE_HOLD_FRAMES` is 3 for the code's 180, two
more than a press that is let go. For entry there are 3 digits and PINs of 1 to 2, 3
letters, three words of which one is a prefix of another, 2 candidates and a
phrase of 4 in two columns; at most `KeysAtOnce` = 2 keys go down between polls.

Fairness. None for the wallet, the screens and the extension's state: users and dApps decide. In
`FairSpec` each class of program step (worker, page, chunk delivery, heartbeat timer, window timer, cartridge,
read timeouts) is weakly fair, as each is a running loop or an armed timer, and
the user eventually answers a screen and switches the cartridge on again.
Requests and disturbances are not fair: they may never come. `LinkRecovers`
excuses a locked wallet, which waits for a reset by design, and a page whose port
was never opened, which only a dApp's request does.

## 4. Proofs

`WalletProofs` holds for every set of seeds, PINs and salts and
every length of the chain table. They assume `NChainsAssumption` (the table is
not empty), `FillAssumption` (erased and torn cells are no blob, chain or
header), `NoSeedAssumption`, `NoPinAssumption` and `NoKeyAssumption` (placeholders differ from the
real thing).

* `TypeCorrect`, `SecretsAreWiped`, `ShownKeySigns`, `TornSessionsRejected`,
  `KeptKeyRecoverable`, `LockPersisted`: the run's invariants.
* `WalletImplementsKeyVault`: every step of the firmware is a step of `KeyVault`
  or a stutter. `typed` is the store's `offered` PIN, so a session that opens
  under another PIN than its own breaks the refinement.

The argument. `TypeOK` alone is not inductive: `SetPin` builds a blob from
`seed`, which is in `Seeds` only because a key is live in that phase, and
derivation copies it. `IInv` adds, one named part at a time: the keys phase by
phase (`KeyInv`), what a write in progress has already stored and what it has not
yet touched (`SessWriteInv`), that a whole body in SRAM is the last completed one
or the one being written (`SavedInv`), that the key in use is the stored one
(`StoredInv`), and the policy write (`PolicyInv`). `Inductive` has one lemma per
part; each theorem follows from `Always`. The refinement is proved action by
action from `IInv`: a session write loses the stored key at most at the first
byte of its body and gains one only at its last byte (`WriteStepLosesAtMost`,
`SaveEndStores`), the rest unlock, forget or stutter. The abstract key is the one
whose body is whole in SRAM, not the one that is accepted: a wipe cut short in
the header leaves a body that a later save, cut short in its header too, makes
acceptable again.

`ExtensionProofs` holds for any number of handlers, origins, keys and chains. It
assumes `NetworksAssumption` (mainnet is listed, 0 is no chain) and
`NoneAssumption` (the placeholder is none of the real things).

* `TypeCorrect`, `OriginsWereApproved`, `CacheWasReported`, `AnswersAreAllowed`,
  `RequestsPairUp`, `LockPairsUp`: the six invariants of run `ext`. `AnswersAreAllowed`
  (`AnswersToApproved`) is about answers to requests; events do tell an address to origins
  that were never allowed (run `ext_events`).

The argument. That storage is honest says nothing about what is saved next: a
handler saves what it loaded long ago. `IInv` therefore carries a promise for each
handler in progress (`Sound`): its snapshot is honest too (`Honest`), the address
and chain it is about to write were reported (`Knows`), the origin it is about to
authorise or answer was approved (`Serves`), and which method can be at which
`await` (`Shape`). `approved` and `reported` only grow, so a promise is kept while
others move (`SoundGrows`), and `OneHandler` reduces every step to the handler
that takes it. This is why stale saves cannot authorise an origin nobody allowed,
although they can bring back a revoked one.

`LinkProofs` holds for every set of requests of each kind, every
depth of the FIFO and every bound on disturbances, orphaned reads, waiting
operations and missed pulses. They assume `KindsAssumption` (the kinds of request
are disjoint, the heartbeat and "nobody" are none of them) and that the bounds are
numbers (`BoundsAssumption`, `HostBoundsAssumption`).

* `LinkTyped`, `OrphansAreFed`, `AnswersBelong`, `HeartbeatWaits`: the invariants of
  `link` and `link_faults`.
* `LinkImplementsService`: the refinement of `SigningService`.

The argument. That an answer belongs to its request is decided long before it
arrives, when the host reads the READY it will act on. `LinkInv` follows that
through the steps of an operation. `ReadyInv`: a READY that the operation may act
on was sent when the cartridge had nothing left of an earlier request (`Clean`), and
no answer to one comes after it; a READY that an orphaned read is about to swallow
is exempt. `AckInv`: after it the cartridge stays clean until the opcode. `OwnInv`:
from then on it knows of no other request, so that what it answers is this one's.
`OpcodeInv` says where in the FIFO an opcode can be, which is what makes a late
byte harmless: alone, behind its ACK, or overtaken by a READY (`behind`).
`OrphanInv` has the orphaned reads come first, `PhaseInv` and `StepInv` relate the
places in the code to the request at work, `WorkerInv` the worker's wait to the
queue, the window and the reply. The proof goes by where a step happens: cartridge,
chunk, page, worker. `ServiceInv` adds that what the cartridge knows of was asked
(`AskedInv`) and that what is granted anywhere between the cartridge and the dApp was
approved (`GrantInv`); with it every step maps to a step of the service or to none.

`EntryProofs` holds for every word list, every set of valid phrases and every
size. It assumes `PinAssumption` and `PhraseAssumption` (sizes are positive, the
shortest PIN is no longer than the longest).

* `SecretsAreReviewed`, `CandidatesCurrent`, `ShownIsAccepted`: `SecretIsReviewed`,
  `CandidatesAreCurrent` and the action property `AcceptedWasShown` of run `screens`.

`EntryInv` says what the dirty flags are for: the digit and the candidate on the
screen are those of the cursor (`PinInv`, `WordInv`), and the review shows the
phrase as it is now (`ReviewInv`), which `SecretIsReviewed` then hands on.

`ConfirmProofs` and `PagesProofs` hold for every set of requests, every table of
networks and every hold time. They assume `ChainsAssumption` and `HoldAssumption`
(there is a network; the hold is at least one poll), `PayloadAssumption` (payloads
and texts are made of bytes, a transaction of at most `PROTO_TX_RLP_MAX`) and
`StoryAssumption`. The last one is about the host's side of a request, which only
properties read: where a transaction or typed data is said to be asked for (`sent`,
`asked`), the bytes or the tree are what the extension's encoder makes of it, and so are
the hashes, unless they are called forged; what is called forged has hashes that are not
those of its tree; bytes that decode to a listed chain were sent by somebody, and a tree
that nobody asked for names the chain that can be read in it. That the cartridge reads
the same transaction, hashes, chain and values is not assumed but proved, in
`CodecProofs` and `TypedProofs`. `OnlyOnLock` does without the host.

* `PagesExist`, `HeldToWipe`, `OneGesture`: the type invariant with the page numbers,
  `WipeIsHeld`, `ChordTogglesOnce`.
* `ConsentIsKept`: the refinement of `Consent`. `OnlyOnLock`: what is signed names the
  locked network, or none, by the cartridge's own reading.
* `PagesTellWhatWasSent`: `DecodedIsSent`, for every transaction the extension can build.
* `HonestIsRecognised`: `HonestHostMatches`; an honest host's typed data is never shown as
  MISMATCH, and as bare text if and only if a type string is longer than the buffer.
* `ViewIsWhatWasAsked`: `ParsedIsAsked`; the parsed view has a line for each value asked for,
  as far as its lines, and their 29 characters, go.
* `WholeIsSeen`: `ContentSeen`, for data and trees of any size.
* `DrainsAreShown`: `DrainerWarned`; nothing that a page draws, and no number of
  arguments, falls on the warning.
* `NothingLeftOut`: `DecodedCallIsTheData`, for any payload.
* `TextIsWhole`: `NoByteSkipped`, for any text.

The argument. `ConfirmInv` ties the loop that runs to its request (`AskInv`) and to
what the handler decoded of it (`DocInv`, which makes every page number a fact about
the payload), the hold counter to the polls that saw A (`HoldInv`), and the L+R
detector to the history of both keys (`ChordInv`: a key that met the other one is
marked as used before it can be let go). `StepKinds` sorts the polls of nine loops
into five kinds. `SeenInv` adds that every page up to the current one has been seen,
`ScreenInv` that the screen is the current page drawn over something; what a page shows
follows from `Draw`, where the last element on a row wins (`RowDrawn`).

What the decoders return is a recursive function of the payload, and induction over it
is done with sets: `SetInduction` (a set with 0 and with every successor is all of Nat) comes
from the least-element principle, and each recursive function is shown to exist, step
by step, before anything is said of its values. `ItemsTyped` goes backwards through
a list of RLP items, whose positions only grow (`ItemWithin`); `DataIsBytes` and `CallIsData`
follow. `ScanKept` runs the two ways of wrapping a text side by side: the line
that `compute_page_offsets` is counting is always the one `render_text_page` would be
drawing from the last offset (`ScanInv`). TLAPS takes the length of any value to be a
number; where the lemmas about sequences are stated for anything, that is why.

`CodecProofs` has no assumptions. `TransactionIsRead`: for every transaction the
extension can build, of values of any size, `eth_tx_decode` accepts its encoding if and
only if its numbers fit the firmware's fields (`Fits`: 64 bits, 256 for the value,
20 bytes or none for the address), and then reads the same fields (`SameTx`).

The argument. A length written by `encodeLength` in one to three bytes is the number
`read_be` adds up again (`LengthBytes`, `ReadsThree`), so a header tells where its
content lies (`HeaderBytes`, `HeaderRead`). A *piece* (`IsPiece`) is what an encoder
makes: bytes that `rlp_decode_item`, wherever they lie in a longer payload, reads as
one item that ends with them and carries what was encoded (`Carries`). Single bytes,
strings and lists are pieces (`BytePiece`, `BytesPiece`, `ListPiece`). `FlattenSeq`
lays pieces end to end (`Laid`, `Flattened`, by induction over how many), and
`rlp_iter`, which goes from each item to the next, finds all of them and nothing else
(`ItemsRead`, `ListRead`). Both formats are such lists; a number is read back because
minimal bytes are `Canonical` already (`AlreadyCanonical`, `NumberRead`), and the first
byte, 2 or at least 192, tells the formats apart.

`TypedProofs` has no assumptions of its own. `TreeIsRead`: for all typed data the
extension can serialise (`IsTypedData`) and every order of its types, the tree is well
formed, its type strings fit in the buffer if and only if those of what was asked do
(`TypesFit`), both struct hashes are the extension's, `extract_domain_fields` gives
the chain of the domain, and the parsed lines are those of what was asked when structs are
nested less than `EIP712_MAX_DEPTH` deep.

The argument. `ValueRead`: what `writeValue` makes of an atomic value, wherever it lies,
is what `Extent` finds there, and `WordAgrees`: both sides make the same 32-byte word of
it, zeros or ones to the left, zeros to the right. Then level by level of nesting, each
time from what holds one level down. `FieldsRead` goes through the fields of a struct:
where the walk stands after k of them is where the first k were laid (`MemberWalked`,
`LaidBelow`), so that `LevelWalks` ends right behind the struct, `LevelHashes` makes the
same term and `LevelLists` the same lines. The type strings are the same because a
name leads to one type on both sides (`StructFound`), both closures then have the same
members (`UsesAgree`, `DepsAgree`) and the same order (`TypeAgrees`), for every struct that
is hashed (`StringsAgree`), hence the same lengths (`SizesAgree`). The levels are five
and are gone through one by one (`AllWalked`, `TopHashed`, `TopListed`), the domain first,
the message from where it ended. `SameNumber`: padding changes nothing of the chain id
that is read in the low four bytes. A recursive function of the levels is used through the
equation of each level (`WalkSteps`, `WriteSteps`, `HashSteps`, ...), which follows from
`FiveLevels`.

Model-checked only: `EveryRequestSettles` and `LinkRecovers`, liveness under fairness. All
other invariants, action properties and refinements of the passing runs are theorems.

## 5. Findings

1. `wallet_tries`: the attempt counter is a local of `try_load_session`; two wrong
   PINs, SELECT, START, and the count starts again without a power cycle.
2. `wallet_back_out`: B on the address screen, "cancel session", goes on to READY.
3. `screens_hidden`: `text_statusbar` draws its rule over row 18, after the page has
   put content there. The TX ID, which the user is to compare with the extension's
   (`confirm.c:919`), the 16th line of each message page, the last row of a full
   argument page and the "tree truncated" note are never readable. (`NoByteSkipped`
   holds: the line is drawn, and then drawn over.)
4. `link_unplugged`: after the port is lost only reloading the extension helps.
5. `ext_revoked`: a handler that loaded before a revocation and saves after it (a
   chain lock refresh will do) brings the revoked origin back.
6. `ext_events`: `setAddress` broadcasts `accountsChanged` with the address to every tab
   (`session.ts:64`, `:229`), and neither the content script nor the provider asks whether
   the page's origin is authorised. Likewise `revokeOrigin` tells all tabs that they are
   logged out.

Seen while modelling, without a run of their own:

* Types within every limit of the extension can have a type string over 2048 bytes. The
  cartridge then drops the tree and shows the host's text, without checking hashes or chain
  lock (`eip712.c:433`, `state.c:895`); `README.md:174` has only arrays and a missing tree
  fall back. `HonestHostMatches` says exactly when this happens, and the run has a
  request on either side of the limit.
* The 29 characters of a parsed line hold indent, name and value (`confirm.c:1410`). Of
  `  verifyingContract: 0x12345678..abcd`, 37 characters, the end of the address is not
  shown, of a name of 28 bytes no value at all, and nothing marks the cut; `confirm.c:1401`
  has an address listed as `0x12345678..AABB`. `ParsedIsAsked` is about lines so cut.
* A setter that loaded before a new chain lock was saved and announced puts the old one
  back when it saves, and no `chainChanged` says so (`session.ts:192`).
* The host does not know REJECT_CHAIN, which `protocol.h:61` names, as an answer to typed
  data: the request ends with "unexpected marker" (`serial.ts:552`).
* A transaction handler whose payload does not arrive whole answers nothing at all,
  not the DONE of `docs/PROTOCOL.md:149` (`state.c:660`).
* `confirm.c:1617`: a struct at depth 4 is accepted by the verifier but gives no lines
  and does not skip its values, so what follows it is listed from the wrong place
  (`ParsedIsAsked` is about trees less deep). Text beyond 32 pages and lines beyond
  96 are not shown at all.
* `eip712.c:551`: typed data is held to the lock only by a `chainId` of type `uint256`,
  and by its low 32 bits. A tree that fails to parse falls back to its text, without
  the lock (`state.c:895`).
* `eip712.ts`: a missing string field is hashed as "undefined" but serialised as "".
  `intToBigEndian` (`eip712.ts:454`) does not look at the range: a signed number too wide
  for its type is sent cut short but hashed whole, and is shown as MISMATCH.
* `rlp.c` accepts bytes after the list and 0x00 for zero; `abi_decoder.c` accepts
  trailing calldata and does not look at the padding inside an `address[]`.
* A key pressed while a payload arrives counts as a fresh press of the dialog.
* `render_wrap_unwrap_page` does not clear the screen it draws over.
* In the word keyboard A together with UP or R picks another candidate than the one
  shown (`blind` in `AcceptedWasShown`). `pin.h:12` says START cancels; it is SELECT.

## 6. Not modelled, and the plan

Not modelled for good: cryptographic primitives (256-bit arithmetic), colours, icons,
splash and progress bars, third-party code, build scripts. The Python tools are a
second client of the same protocol and are left out.

Not modelled yet: the host's signed encodings and the signing hash; the digits of
EIP-712 type names (their width wraps at 2^32); the limit of 8192 bytes on a whole tree
(`PROTO_TYPED_TREE_MAX`), beyond which the extension sends none; what line breaks and
control characters in a string do to the layout of its line; the address, result and broadcasting
screens; custom networks and RPC overrides, two `sb-open` calls inside
`openSession`, the popup's view of the active request; provider and content script
request ids, RPC failover, a Pico bridge that drops what its UART does not take.

Not proved: liveness, as above; the encoders of metadata and calldata (`encodeTxMetaTlv`,
`CallData`) against their decoders, and that `collect` gives an `IsTypeOrder` for any types
(it is a recursive operator; the runs evaluate it for their requests).
