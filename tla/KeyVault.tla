---- MODULE KeyVault ----
(***************************************************************************)
(* What a hardware wallet's key store promises, with no phases, cells or   *)
(* power: at most one key is stored under a PIN and at most one is live.   *)
(* The live key is what the user entered or what the PIN unlocked, only    *)
(* the live key is ever stored, and what is stored is lost only when the   *)
(* user has a key live or has failed MaxTries PINs in a row.               *)
(***************************************************************************)
EXTENDS Naturals

CONSTANTS Seeds, Pins, NoSeed, NoPin, NoKey, MaxTries

VARIABLES
    stored,     \* NoKey, or a key and the PIN it is stored under
    live,       \* the key that can sign, or NoSeed
    offered,    \* the PIN the user is trying, or NoPin
    tries,      \* wrong PINs in a row
    doomed      \* the last allowed PIN was wrong

vars == <<stored, live, offered, tries, doomed>>

Key == [seed : Seeds, pin : Pins]

Init ==
    /\ stored \in Key \cup {NoKey}
    /\ live = NoSeed /\ offered = NoPin /\ tries = 0 /\ doomed = FALSE

Enter(s) ==
    /\ live = NoSeed /\ live' = s
    /\ UNCHANGED <<stored, offered, tries, doomed>>

Offer(pin) ==
    /\ stored # NoKey
    /\ offered' = pin
    /\ UNCHANGED <<stored, live, tries, doomed>>

Unlock ==
    /\ live = NoSeed
    /\ stored # NoKey /\ offered = stored.pin
    /\ live' = stored.seed
    /\ offered' = NoPin /\ tries' = 0
    /\ UNCHANGED <<stored, doomed>>

WrongPin ==
    /\ live = NoSeed
    /\ offered # NoPin
    /\ stored # NoKey /\ offered # stored.pin
    /\ offered' = NoPin
    /\ \/ tries < MaxTries - 1 /\ tries' = tries + 1 /\ doomed' = doomed
       \/ tries = MaxTries - 1 /\ tries' = 0 /\ doomed' = TRUE
    /\ UNCHANGED <<stored, live>>

Store(pin) ==
    /\ live # NoSeed /\ stored = NoKey
    /\ stored' = [seed |-> live, pin |-> pin]
    /\ UNCHANGED <<live, offered, tries, doomed>>

Erase ==
    /\ live # NoSeed \/ doomed
    /\ stored' = NoKey
    /\ UNCHANGED <<live, offered, tries, doomed>>

\* Lock, cancel, or lose power.
Forget ==
    /\ live' = NoSeed /\ offered' = NoPin /\ tries' = 0 /\ doomed' = FALSE
    /\ UNCHANGED stored

Next ==
    \/ \E s \in Seeds : Enter(s)
    \/ \E pin \in Pins : Offer(pin) \/ Store(pin)
    \/ Unlock \/ WrongPin
    \/ Erase
    \/ Forget

Spec == Init /\ [][Next]_vars

====
