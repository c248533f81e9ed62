---- MODULE WalletUser ----
(***************************************************************************)
(* Wallet with the history of what the user did with the keys, for what    *)
(* the repository's own words say about that history: README.md on failed  *)
(* PINs and the address screen of ui/confirm.c on its B key.               *)
(***************************************************************************)
EXTENDS Wallet

VARIABLES
    wrong,      \* wrong PINs since power-on, the last right one or a wipe
    backedOut   \* B ended the last address screen

userVars == <<vars, wrong, backedOut>>

UserInit == Init /\ wrong = 0 /\ backedOut = FALSE

Unlocked == Stay("check") /\ seed' # NoSeed
Failed   == Stay("check") /\ ph' # "boot" /\ ~Unlocked

CountWrongPins ==
    wrong' = IF ph' = "boot" \/ Unlocked \/ Stay("failWipe") THEN 0
             ELSE IF Failed /\ wrong < MaxTries THEN wrong + 1
             ELSE wrong

\* A and B both leave the screen; only the history can tell them apart.
RememberB ==
    IF ph \in {"showOld", "showNew"} /\ ph' # "boot"
    THEN backedOut' \in BOOLEAN
    ELSE backedOut' = (backedOut /\ ph' \notin {"boot", "words"})

UserNext == Next /\ CountWrongPins /\ RememberB

UserSpec == UserInit /\ [][UserNext]_userVars

----
(* README.md:144: "3 failed PIN attempts in a single session wipe SRAM".   *)
(* The attempt counter is local to try_load_session, so SELECT at the PIN  *)
(* and START at the words start it again without a power cycle.            *)
ThreeWrongPinsWipe == wrong = MaxTries => ph = "failWipe"

(* ui/confirm.c:1039 and its status bar: "B = cancel session".  The screen *)
(* returns nothing, so the session goes on to READY all the same.          *)
BackOutCancelsSession == backedOut => ph \notin Signing

====
