---- MODULE Wallet ----
(***************************************************************************)
(* The firmware's top-level state machine, src/state.c: wallet_run with    *)
(* try_load_session, input_new_session and the key handling of sign_loop,  *)
(* over the SRAM of module SramStore.  One phase per place where the code  *)
(* waits for a key or is inside sram_write; power can be cut in any of     *)
(* them, which loses RAM and keeps SRAM as it is at that moment.           *)
(***************************************************************************)
EXTENDS SramStore

CONSTANTS
    NoSeed,     \* zeroised g_seed, g_node or g_address
    NoPin       \* no PIN handed to session_load

ASSUME NoSeedAssumption == NoSeed \notin Seeds
ASSUME NoPinAssumption == NoPin \notin Pins
ASSUME NoKeyAssumption == Blank \notin [seed : Seeds, pin : Pins]

MaxTries == 3           \* the attempt loop of try_load_session

VARIABLES
    ph,         \* phase
    seed,       \* g_seed
    node,       \* g_node, named by the seed it was derived from
    addr,       \* g_address, named by the seed it was derived from
    tries,      \* attempt, local to try_load_session
    typed,      \* pin, from pin_input until session_load has judged it
    chain,      \* g_active_chain_idx
    out,        \* blob, or 0xFF fill, of the session write in progress
    at,         \* cell that write is about to complete
    (* history variables: what the properties refer to, read by no action *)
    saved,      \* blob of the last session write that ran to its end
    keep        \* the key in RAM was read from SRAM or written to it

ram  == <<seed, node, addr, tries, typed, chain>>
sram == <<sess, pol>>
hist == <<saved, keep>>
vars == <<ph, ram, out, at, sram, hist>>

\* Phases inside a session_save, session_wipe or policy_save.
SessionSaving == {"migrate", "saving"}
SessionWiping == {"failWipe", "userWipe"}
PolicySaving  == {"bootPol", "readyPol"}
Writing == SessionSaving \cup SessionWiping \cup PolicySaving

\* Phases in which the key may be in RAM.
Unlocking == {"migrate", "loaded", "showOld", "askAddr"}
Entering  == {"entered", "showNew", "askSave", "setPin", "saving"}
Signing   == {"ready", "readyPol", "askWipe", "userWipe"}
Keyed     == Unlocking \cup Entering \cup Signing

Phases == {"boot", "probe", "pin", "check", "words", "locked", "wiped"}
          \cup Keyed \cup Writing

TypeOK ==
    /\ SessTypeOK
    /\ PolTypeOK
    /\ ph \in Phases
    /\ seed \in Seeds \cup {NoSeed}
    /\ node \in Seeds \cup {NoSeed}
    /\ addr \in Seeds \cup {NoSeed}
    /\ tries \in 0..(MaxTries - 1)
    /\ typed \in Pins \cup {NoPin}
    /\ chain \in ChainIdx
    /\ out \in Blob \cup {Blank}
    /\ at \in SessCells /\ (ph \in PolicySaving => at \in PolCells)
    /\ saved \in Blob \cup {Blank}
    /\ keep \in BOOLEAN

----
(* SRAM a cartridge can be switched on with: erased, or left by an earlier *)
(* firmware with a v2 session and perhaps a policy this one does not list. *)

ErasedSession == [k \in SessCells |-> Blank]
V2Session(b) == [k \in SessCells |-> IF k <= Crc2 THEN SessCell(k, b) ELSE Blank]
ErasedPolicy == [k \in PolCells |-> Blank]
PolicyOf(c) == [k \in PolCells |-> PolCell(k, c)]

Init ==
    /\ ph = "boot"
    /\ seed = NoSeed /\ node = NoSeed /\ addr = NoSeed
    /\ tries = 0 /\ typed = NoPin /\ chain = DefaultIdx
    /\ out = Blank /\ at = 1
    /\ \/ sess = ErasedSession /\ saved = Blank
       \/ \E b \in Blob : b.ver = 2 /\ sess = V2Session(b) /\ saved = b
    /\ pol \in {ErasedPolicy} \cup {PolicyOf(c) : c \in SavedChain}
    /\ keep = FALSE

\* Mutant of wipe_secrets: g_node is forgotten.
WipeSeedOnly == seed' = NoSeed /\ node' = node /\ addr' = addr

\* wipe_secrets: g_seed and g_node are zeroised, g_address is not.
wipe_secrets == seed' = NoSeed /\ node' = NoSeed /\ addr' = addr

Goto(p) == ph' = p
Stay(p) == ph = p
StartWrite(p, x) == ph' = p /\ out' = x /\ at' = 1
StartPolicyWrite(p, c) == ph' = p /\ chain' = c /\ at' = 1 /\ out' = out
NoWrite == UNCHANGED <<out, at, sess, pol>>

----
(* Power and boot *)

PowerCycle ==
    /\ Goto("boot")
    /\ seed' = NoSeed /\ node' = NoSeed /\ addr' = NoSeed
    /\ tries' = 0 /\ typed' = NoPin /\ chain' = DefaultIdx
    /\ out' = Blank /\ at' = 1
    /\ keep' = FALSE
    /\ UNCHANGED <<sess, pol, saved>>

\* wallet_run up to its loop: load the chain lock, or save the default one.
LoadPolicy ==
    /\ Stay("boot")
    /\ \/ /\ policy_valid
          /\ chain' = LockedChain(pol[PolChain])
          /\ Goto("probe")
          /\ UNCHANGED <<out, at>>
       \/ /\ ~policy_valid
          /\ StartPolicyWrite("bootPol", DefaultIdx)
    /\ UNCHANGED <<seed, node, addr, tries, typed, sess, pol, hist>>

\* Top of the loop of wallet_run.
ProbeSession ==
    /\ Stay("probe")
    /\ IF session_present THEN Goto("pin") /\ tries' = 0
                          ELSE Goto("words") /\ tries' = tries
    /\ UNCHANGED <<seed, node, addr, typed, chain, hist>> /\ NoWrite

----
(* sram_write, a cell at a time *)

SessionWriteStep ==
    /\ ph \in SessionSaving \cup SessionWiping
    /\ \/ /\ PartOfSessCell(at, out)
          /\ UNCHANGED <<ph, ram, out, at, pol, hist>>
       \/ /\ at < Crc3
          /\ WholeSessCell(at, out)
          /\ at' = at + 1
          /\ UNCHANGED <<ph, ram, out, pol, hist>>

PolicyWriteStep ==
    /\ ph \in PolicySaving
    /\ \/ /\ PartOfPolCell(at, chain)
          /\ UNCHANGED <<ph, ram, out, at, sess, hist>>
       \/ /\ at < PolCrc
          /\ WholePolCell(at, chain)
          /\ at' = at + 1
          /\ UNCHANGED <<ph, ram, out, sess, hist>>

\* Mutant of LastSessCell: the length stops short of the CRC.
ShortOfCrc == at = Crc3 /\ sess' = sess /\ at' = 1 /\ out' = Blank

\* The last byte, and the return to the caller.
LastSessCell == at = Crc3 /\ WholeSessCell(at, out) /\ at' = 1 /\ out' = Blank
LastPolCell  == at = PolCrc /\ WholePolCell(at, chain) /\ at' = 1 /\ out' = out

BootPolicySaved ==
    /\ Stay("bootPol") /\ LastPolCell /\ Goto("probe")
    /\ UNCHANGED <<ram, sess, hist>>

\* load_v2_and_upgrade returns to try_load_session.
Migrated ==
    /\ Stay("migrate") /\ LastSessCell /\ Goto("loaded")
    /\ saved' = out
    /\ UNCHANGED <<ram, pol, keep>>

SessionSaved ==
    /\ Stay("saving") /\ LastSessCell /\ Goto("ready")
    /\ saved' = out /\ keep' = TRUE
    /\ UNCHANGED <<ram, pol>>

\* After session_wipe, try_load_session returns 0 and the words are asked for.
FailWiped ==
    /\ Stay("failWipe") /\ LastSessCell /\ Goto("words")
    /\ UNCHANGED <<ram, pol, hist>>

UserWiped ==
    /\ Stay("userWipe") /\ LastSessCell /\ Goto("wiped")
    /\ wipe_secrets /\ keep' = FALSE
    /\ UNCHANGED <<tries, typed, chain, pol, saved>>

ReadyPolicySaved ==
    /\ Stay("readyPol") /\ LastPolCell /\ Goto("ready")
    /\ UNCHANGED <<ram, sess, hist>>

----
(* try_load_session *)

\* pin_input: a PIN of 4 to 8 keys, handed to session_load with its slow KDF.
EnterPin(pin) ==
    /\ Stay("pin") /\ Goto("check")
    /\ typed' = pin
    /\ UNCHANGED <<seed, node, addr, tries, chain, hist>> /\ NoWrite

session_load(pin) == session_present /\ PinMatches(pin)

\* Mutant of WrongPin: one attempt too many.
WrongPinFourTries ==
    /\ Stay("check") /\ ~session_load(typed)
    /\ seed' = NoSeed /\ typed' = NoPin
    /\ \/ /\ tries < MaxTries
          /\ tries' = tries + 1 /\ Goto("pin")
          /\ UNCHANGED <<out, at>>
       \/ /\ tries = MaxTries
          /\ tries' = 0
          /\ StartWrite("failWipe", Blank)
    /\ UNCHANGED <<node, addr, chain, sess, pol, hist>>

WrongPin ==
    /\ Stay("check") /\ ~session_load(typed)
    /\ seed' = NoSeed /\ typed' = NoPin
    /\ \/ /\ tries < MaxTries - 1
          /\ tries' = tries + 1 /\ Goto("pin")
          /\ UNCHANGED <<out, at>>
       \/ /\ tries = MaxTries - 1
          /\ tries' = 0
          /\ StartWrite("failWipe", Blank)
    /\ UNCHANGED <<node, addr, chain, sess, pol, hist>>

\* The right PIN: decrypt, and re-encrypt a v2 blob in place as v3.
RightPin ==
    /\ Stay("check") /\ session_load(typed)
    /\ seed' = StoredBlob.seed
    /\ keep' = TRUE /\ tries' = 0 /\ typed' = NoPin
    /\ \/ /\ sess[Ver] = 3
          /\ Goto("loaded")
          /\ UNCHANGED <<out, at>>
       \/ /\ sess[Ver] = 2
          /\ \E s \in Salts :
                /\ FreshSalt(s)
                /\ StartWrite("migrate", NewBlob(StoredBlob.seed, typed, s))
    /\ UNCHANGED <<node, addr, chain, sess, pol, saved>>

\* SELECT in pin_input: no PIN, so the words are asked for.
SkipPin ==
    /\ Stay("pin") /\ Goto("words") /\ tries' = 0
    /\ UNCHANGED <<seed, node, addr, typed, chain, hist>> /\ NoWrite

\* derive_from_seed, which can fail on an invalid BIP-32 child.
DeriveOk(from, to) ==
    /\ Stay(from) /\ Goto(to)
    /\ node' = seed /\ addr' = seed
    /\ UNCHANGED <<seed, tries, typed, chain, hist>> /\ NoWrite

DeriveFails(from, to) ==
    /\ Stay(from) /\ Goto(to)
    /\ wipe_secrets /\ keep' = FALSE
    /\ UNCHANGED <<tries, typed, chain, saved>> /\ NoWrite

\* confirm_show_address returns on A and on B alike.
LeaveAddress(from, to) ==
    /\ Stay(from) /\ Goto(to)
    /\ UNCHANGED <<ram, hist>> /\ NoWrite

AddressCorrect ==
    /\ Stay("askAddr") /\ Goto("ready")
    /\ UNCHANGED <<ram, hist>> /\ NoWrite

\* Mutant of AddressWrong: the return 0 is lost.
AddressWrongGoesOn ==
    /\ Stay("askAddr") /\ Goto("ready")
    /\ wipe_secrets /\ keep' = FALSE
    /\ UNCHANGED <<tries, typed, chain, saved>> /\ NoWrite

AddressWrong ==
    /\ Stay("askAddr") /\ Goto("words")
    /\ wipe_secrets /\ keep' = FALSE
    /\ UNCHANGED <<tries, typed, chain, saved>> /\ NoWrite

----
(* input_new_session *)

EnterWords(s) ==
    /\ Stay("words") /\ Goto("entered")
    /\ seed' = s
    /\ UNCHANGED <<node, addr, tries, typed, chain, hist>> /\ NoWrite

\* START in keyboard_input_words: wallet_run wipes and probes SRAM again.
CancelWords ==
    /\ Stay("words") /\ Goto("probe")
    /\ wipe_secrets
    /\ UNCHANGED <<tries, typed, chain, hist>> /\ NoWrite

DontSave ==
    /\ ph \in {"askSave", "setPin"}        \* "no", or SELECT at the PIN
    /\ Goto("ready")
    /\ UNCHANGED <<ram, hist>> /\ NoWrite

WantSave ==
    /\ Stay("askSave") /\ Goto("setPin")
    /\ UNCHANGED <<ram, hist>> /\ NoWrite

SetPin(pin) ==
    /\ Stay("setPin")
    /\ \E s \in Salts :
          /\ FreshSalt(s)
          /\ StartWrite("saving", NewBlob(seed, pin, s))
    /\ UNCHANGED <<ram, sess, pol, hist>>

----
(* Keys of sign_loop *)

\* START: the session is locked until the power is cycled.
Lock ==
    /\ Stay("ready") /\ Goto("locked")
    /\ wipe_secrets /\ keep' = FALSE
    /\ UNCHANGED <<tries, typed, chain, saved>> /\ NoWrite

\* Mutant of SwitchChain: the new lock is not saved.
SwitchChainInRam ==
    /\ Stay("ready")
    /\ \E step \in {1, NChains - 1} : chain' = (chain + step) % NChains
    /\ UNCHANGED <<ph, seed, node, addr, tries, typed, sram, out, at, hist>>

\* L, R, LEFT, RIGHT: the new lock is active before it is in SRAM.
SwitchChain ==
    /\ Stay("ready")
    /\ \E step \in {1, NChains - 1} :
          StartPolicyWrite("readyPol", (chain + step) % NChains)
    /\ UNCHANGED <<seed, node, addr, tries, typed, sess, pol, hist>>

AskWipe ==
    /\ Stay("ready") /\ Goto("askWipe")
    /\ UNCHANGED <<ram, hist>> /\ NoWrite

CancelWipe ==
    /\ Stay("askWipe") /\ Goto("ready")
    /\ UNCHANGED <<ram, hist>> /\ NoWrite

HoldToWipe ==
    /\ Stay("askWipe") /\ StartWrite("userWipe", Blank)
    /\ UNCHANGED <<ram, sess, pol, hist>>

----
Boot == LoadPolicy \/ BootPolicySaved \/ ProbeSession

SramWrite ==
    \/ SessionWriteStep \/ PolicyWriteStep
    \/ Migrated \/ SessionSaved \/ FailWiped \/ UserWiped \/ ReadyPolicySaved

LoadSession ==
    \/ \E pin \in Pins : EnterPin(pin)
    \/ WrongPin \/ RightPin
    \/ SkipPin
    \/ DeriveOk("loaded", "showOld") \/ DeriveFails("loaded", "words")
    \/ LeaveAddress("showOld", "askAddr")
    \/ AddressCorrect \/ AddressWrong

NewSession ==
    \/ \E s \in Seeds : EnterWords(s)
    \/ CancelWords
    \/ DeriveOk("entered", "showNew") \/ DeriveFails("entered", "probe")
    \/ LeaveAddress("showNew", "askSave")
    \/ DontSave \/ WantSave
    \/ \E pin \in Pins : SetPin(pin)

SignLoop == Lock \/ SwitchChain \/ AskWipe \/ CancelWipe \/ HoldToWipe

Next == PowerCycle \/ Boot \/ SramWrite \/ LoadSession \/ NewSession \/ SignLoop

Spec == Init /\ [][Next]_vars

----
(* Safety *)

\* No key in RAM outside the phases between an unlock (or the words) and the
\* lock: wipe_secrets is on every way out of try_load_session,
\* input_new_session and sign_loop, and a failed session_load zeroes g_seed.
SecretsOnlyWhileKeyed ==
    ph \notin Keyed => seed = NoSeed /\ node = NoSeed

\* The READY screen is only reached with a key whose address the user has
\* seen: g_node, g_address and g_seed all come from one derivation.
ReadyKeyIsShownKey ==
    ph \in Signing => seed \in Seeds /\ node = seed /\ addr = seed

\* session_present accepts nothing but the last session write that ran to
\* its end: no torn save, no half-wiped or half-migrated blob, no mixture of
\* two saves, wherever the power was cut.
OnlyWholeSessionAccepted ==
    session_present => StoredBlob = saved

\* A key that was unlocked with the PIN or stored from the READY path can be
\* unlocked again after a power cycle for as long as it is in use: SRAM holds
\* an accepted session of exactly this key.
KeptKeyIsRecoverable ==
    keep /\ ph \in Keyed \ ({"migrate"} \cup Writing)
        => session_present /\ StoredBlob.seed = seed

\* The chain the READY loop enforces is the one SRAM will give the next boot,
\* whenever no policy write is under way; an unlisted chain reads as default.
LockIsPersisted ==
    ph \notin {"boot"} \cup PolicySaving
        => policy_valid /\ chain = LockedChain(pol[PolChain])

----
(* The key store this machine implements.  The live key is g_seed.  A      *)
(* stored key is one whose encrypted bytes are still whole: session_wipe   *)
(* and session_save start with the header, and a power cut there leaves a  *)
(* session that is not accepted now but is again once a later save,        *)
(* cut short itself, has put the header back.                              *)

HeldInSram == WholeBody(3, Crc3) \/ (sess[Ver] = 2 /\ WholeBody(2, Crc2))

Vault == INSTANCE KeyVault WITH
    NoKey  <- Blank,
    offered <- typed,
    stored <- IF HeldInSram
              THEN [seed |-> StoredBlob.seed, pin |-> StoredBlob.pin]
              ELSE Blank,
    live   <- seed,
    doomed <- ph = "failWipe"

\* Only the right PIN or the words make a key live, only the live key is
\* stored, and a stored key is lost only with a key live or after three wrong
\* PINs, wherever the power is cut.
ImplementsKeyVault == Vault!Spec

====
