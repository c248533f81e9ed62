---- MODULE WalletProofs ----
(***************************************************************************)
(* Proofs about module Wallet, for every set of seeds, PINs and salts and  *)
(* every length of the chain table.                                        *)
(***************************************************************************)
EXTENDS Wallet, TLAPS

USE DEF Magic, Ver, Body, Crc2, Mac, Crc3, SessCells,
        PolHdr, PolChain, PolCrc, PolCells, DefaultIdx, MaxTries

----
(* Facts about cells *)

\* What each cell of a blob or of the 0xFF fill is.
LEMMA SessCellValue ==
    ASSUME NEW k \in SessCells, NEW x \in Blob \cup {Blank}
    PROVE  /\ k = Magic => SessCell(k, x) \in {"GBAW", Blank}
           /\ k = Ver => SessCell(k, x) \in {2, 3, Blank}
           /\ k \in Body..Crc3 => SessCell(k, x) = x
           /\ k = Ver /\ x \in Blob => SessCell(k, x) = x.ver
           /\ k = Magic /\ x \in Blob => SessCell(k, x) = "GBAW"
           /\ x = Blank => SessCell(k, x) = Blank
  BY FillAssumption DEF SessCell, Blob

\* The chain selector stays inside the CHAINS table in both directions.
LEMMA StepStaysListed ==
    ASSUME NEW c \in ChainIdx, NEW step \in {1, NChains - 1}
    PROVE  (c + step) % NChains \in ChainIdx
  BY NChainsAssumption DEF ChainIdx

\* A saved chain that the table does not list reads as the default one.
LEMMA LockedChainListed ==
    ASSUME NEW c \in SavedChain
    PROVE  LockedChain(c) \in ChainIdx
  BY NChainsAssumption DEF LockedChain, SavedChain, ChainIdx

\* Writing one cell of a region leaves the others.
LEMMA CellWritten ==
    ASSUME NEW D, NEW f, f = [k \in D |-> f[k]], NEW c \in D, NEW v,
           NEW g, g = [f EXCEPT ![c] = v]
    PROVE  /\ g = [k \in D |-> g[k]]
           /\ \A k \in D : g[k] = IF k = c THEN v ELSE f[k]
  OBVIOUS

----
(* Type correctness *)

LEMMA InitTyped == Init => TypeOK
  <1> SUFFICES ASSUME Init PROVE TypeOK
    OBVIOUS
  <1>1. SessTypeOK
    <2>1. CASE sess = ErasedSession
      BY <2>1 DEF ErasedSession, SessTypeOK
    <2>2. ASSUME NEW b \in Blob, b.ver = 2, sess = V2Session(b)
          PROVE  SessTypeOK
      BY <2>2, SessCellValue DEF V2Session, SessTypeOK
    <2> QED
      BY <2>1, <2>2 DEF Init
  <1>2. PolTypeOK
    BY DEF Init, PolTypeOK, ErasedPolicy, PolicyOf, PolCell
  <1>3. saved \in Blob \cup {Blank}
    BY DEF Init
  <1>4. /\ ph = "boot" /\ tries = 0 /\ chain = 0 /\ at = 1
        /\ seed = NoSeed /\ node = NoSeed /\ addr = NoSeed /\ out = Blank
        /\ typed = NoPin
    BY DEF Init
  <1>5. keep \in BOOLEAN
    BY DEF Init
  <1>6. ph \in Phases
    BY <1>4 DEF Phases
  <1>7. chain \in ChainIdx
    BY <1>4, NChainsAssumption DEF ChainIdx
  <1>8. ph \notin PolicySaving /\ at \in SessCells
    BY <1>4 DEF PolicySaving
  <1> QED
    BY <1>1, <1>2, <1>3, <1>4, <1>5, <1>6, <1>7, <1>8 DEF TypeOK

\* The session region changes only inside session_save and session_wipe, and
\* there only in the cell the write has reached.
LEMMA SessionWrites ==
    ASSUME Next
    PROVE  \/ sess' = sess /\ saved' = saved
           \/ /\ ph \in SessionSaving \cup SessionWiping
              /\ \/ PartOfSessCell(at, out) /\ saved' = saved
                 \/ at < Crc3 /\ WholeSessCell(at, out) /\ saved' = saved
                 \/ /\ at = Crc3 /\ WholeSessCell(at, out)
                    /\ saved' = IF ph \in SessionSaving THEN out ELSE saved
  <1> USE DEF Stay, NoWrite, ram, hist, sram
  <1>1. CASE PowerCycle
    BY <1>1 DEF PowerCycle
  <1>2. CASE Boot
    BY <1>2 DEF Boot, LoadPolicy, BootPolicySaved, ProbeSession
  <1>3. CASE SramWrite
    BY <1>3 DEF SramWrite, SessionWriteStep, PolicyWriteStep, Migrated,
        SessionSaved, FailWiped, UserWiped, ReadyPolicySaved, LastSessCell,
        SessionSaving, SessionWiping
  <1>4. CASE LoadSession
    BY <1>4 DEF LoadSession, EnterPin, WrongPin, RightPin, SkipPin, DeriveOk,
        DeriveFails, LeaveAddress, AddressCorrect, AddressWrong
  <1>5. CASE NewSession
    BY <1>5 DEF NewSession, EnterWords, CancelWords, DeriveOk, DeriveFails,
        LeaveAddress, DontSave, WantSave, SetPin
  <1>6. CASE SignLoop
    BY <1>6 DEF SignLoop, Lock, SwitchChain, AskWipe, CancelWipe, HoldToWipe
  <1> QED
    BY <1>1, <1>2, <1>3, <1>4, <1>5, <1>6 DEF Next

\* The same for the policy region and policy_save.
LEMMA PolicyWrites ==
    ASSUME Next
    PROVE  \/ pol' = pol
           \/ /\ ph \in PolicySaving
              /\ PartOfPolCell(at, chain) \/ WholePolCell(at, chain)
              /\ chain' = chain
  <1> USE DEF Stay, NoWrite, ram, hist, sram
  <1>1. CASE PowerCycle
    BY <1>1 DEF PowerCycle
  <1>2. CASE Boot
    BY <1>2 DEF Boot, LoadPolicy, BootPolicySaved, ProbeSession, LastPolCell,
        PolicySaving
  <1>3. CASE SramWrite
    BY <1>3 DEF SramWrite, SessionWriteStep, PolicyWriteStep, Migrated,
        SessionSaved, FailWiped, UserWiped, ReadyPolicySaved, LastPolCell,
        PolicySaving
  <1>4. CASE LoadSession
    BY <1>4 DEF LoadSession, EnterPin, WrongPin, RightPin, SkipPin, DeriveOk,
        DeriveFails, LeaveAddress, AddressCorrect, AddressWrong
  <1>5. CASE NewSession
    BY <1>5 DEF NewSession, EnterWords, CancelWords, DeriveOk, DeriveFails,
        LeaveAddress, DontSave, WantSave, SetPin
  <1>6. CASE SignLoop
    BY <1>6 DEF SignLoop, Lock, SwitchChain, AskWipe, CancelWipe, HoldToWipe
  <1> QED
    BY <1>1, <1>2, <1>3, <1>4, <1>5, <1>6 DEF Next

\* Region by region, what a step of a write does to every cell.
LEMMA SessCellWritten ==
    ASSUME TypeOK, NEW v, sess' = [sess EXCEPT ![at] = v]
    PROVE  /\ sess' = [k \in SessCells |-> sess'[k]]
           /\ \A k \in SessCells : sess'[k] = IF k = at THEN v ELSE sess[k]
  <1>1. sess = [k \in SessCells |-> sess[k]] /\ at \in SessCells
    BY DEF TypeOK, SessTypeOK
  <1> QED
    BY <1>1, CellWritten

LEMMA PolCellWritten ==
    ASSUME TypeOK, ph \in PolicySaving, NEW v, pol' = [pol EXCEPT ![at] = v]
    PROVE  /\ pol' = [k \in PolCells |-> pol'[k]]
           /\ \A k \in PolCells : pol'[k] = IF k = at THEN v ELSE pol[k]
  <1>1. pol = [k \in PolCells |-> pol[k]] /\ at \in PolCells
    BY DEF TypeOK, PolTypeOK
  <1> QED
    BY <1>1, CellWritten

\* A step leaves both regions typed.
LEMMA SessStaysTyped ==
    ASSUME TypeOK, Next
    PROVE  SessTypeOK'
  <1>1. SessTypeOK /\ out \in Blob \cup {Blank} /\ at \in SessCells
    BY DEF TypeOK
  <1>2. CASE sess' = sess
    BY <1>1, <1>2 DEF SessTypeOK
  <1>3. CASE PartOfSessCell(at, out)
    <2>1. /\ sess' = [k \in SessCells |-> sess'[k]] /\ at # Ver
          /\ \A k \in SessCells : sess'[k] = IF k = at THEN Torn ELSE sess[k]
      BY <1>3, SessCellWritten DEF PartOfSessCell
    <2> QED
      BY <1>1, <2>1 DEF SessTypeOK
  <1>4. CASE WholeSessCell(at, out)
    <2>1. /\ sess' = [k \in SessCells |-> sess'[k]]
          /\ \A k \in SessCells :
                sess'[k] = IF k = at THEN SessCell(at, out) ELSE sess[k]
      BY <1>4, SessCellWritten DEF WholeSessCell
    <2> QED
      BY <1>1, <2>1, SessCellValue DEF SessTypeOK
  <1> QED
    BY <1>2, <1>3, <1>4, SessionWrites

LEMMA PolStaysTyped ==
    ASSUME TypeOK, Next
    PROVE  PolTypeOK'
  <1>1. PolTypeOK /\ chain \in SavedChain
    BY NChainsAssumption DEF TypeOK, SavedChain, ChainIdx
  <1>2. CASE pol' = pol
    BY <1>1, <1>2 DEF PolTypeOK
  <1>3. CASE ph \in PolicySaving /\ PartOfPolCell(at, chain)
    <2>1. /\ pol' = [k \in PolCells |-> pol'[k]]
          /\ \A k \in PolCells : pol'[k] = IF k = at THEN Torn ELSE pol[k]
      BY <1>3, PolCellWritten DEF PartOfPolCell
    <2> QED
      BY <1>1, <2>1 DEF PolTypeOK
  <1>4. CASE ph \in PolicySaving /\ WholePolCell(at, chain)
    <2>1. /\ pol' = [k \in PolCells |-> pol'[k]]
          /\ \A k \in PolCells :
                pol'[k] = IF k = at THEN PolCell(at, chain) ELSE pol[k]
      BY <1>4, PolCellWritten DEF WholePolCell
    <2> QED
      BY <1>1, <2>1 DEF PolTypeOK, PolCell
  <1> QED
    BY <1>2, <1>3, <1>4, PolicyWrites

\* What session_present accepts is a blob.
LEMMA PresentIsBlob ==
    ASSUME session_present
    PROVE  StoredBlob \in Blob
  BY DEF session_present, StoredBlob, WholeBlob, WholeBody

LEMMA NewBlobTyped ==
    ASSUME NEW s \in Seeds, NEW p \in Pins, NEW n \in Salts
    PROVE  /\ NewBlob(s, p, n) \in Blob
           /\ NewBlob(s, p, n).ver = 3
           /\ NewBlob(s, p, n).seed = s
           /\ NewBlob(s, p, n).pin = p
           /\ NewBlob(s, p, n).salt = n
  BY DEF NewBlob, Blob

\* TypeOK without the two SRAM regions and the Boolean.
RamTyped ==
    /\ ph \in Phases
    /\ seed \in Seeds \cup {NoSeed}
    /\ node \in Seeds \cup {NoSeed}
    /\ addr \in Seeds \cup {NoSeed}
    /\ tries \in 0..(MaxTries - 1)
    /\ typed \in Pins \cup {NoPin}
    /\ chain \in ChainIdx
    /\ out \in Blob \cup {Blank}
    /\ at \in SessCells /\ (ph \in PolicySaving => at \in PolCells)
    /\ saved \in Blob \cup {Blank}

\* The key in RAM, phase by phase.
Shown == {"showOld", "askAddr", "showNew", "askSave", "setPin", "saving"}
         \cup Signing

KeyInv ==
    /\ ph \notin Keyed => seed = NoSeed /\ node = NoSeed
    /\ ph \in Keyed => seed \in Seeds
    /\ ph \in Shown => node = seed /\ addr = seed
    /\ ph \notin {"pin", "check"} => tries = 0
    /\ ph # "check" => typed = NoPin
    /\ ph = "check" => typed \in Pins

LEMMA RamStaysTyped ==
    ASSUME TypeOK, KeyInv, Next
    PROVE  RamTyped'
  <1> USE DEF RamTyped, Stay, Goto, StartWrite, StartPolicyWrite, NoWrite,
      wipe_secrets, ram, hist, sram, Phases, Keyed, Unlocking, Entering,
      Signing, Writing, SessionSaving, SessionWiping, PolicySaving
  <1>0. RamTyped
    BY DEF TypeOK
  <1>1. CASE PowerCycle
    BY <1>0, <1>1, NChainsAssumption DEF PowerCycle, ChainIdx
  <1>2. CASE LoadPolicy
    BY <1>0, <1>2, LockedChainListed, NChainsAssumption
    DEF LoadPolicy, policy_valid, ChainIdx
  <1>3. CASE BootPolicySaved \/ ProbeSession
    BY <1>0, <1>3 DEF BootPolicySaved, ProbeSession, LastPolCell
  <1>4. CASE SessionWriteStep \/ PolicyWriteStep
    BY <1>0, <1>4 DEF SessionWriteStep, PolicyWriteStep
  <1>5. CASE Migrated \/ SessionSaved \/ FailWiped \/ UserWiped
    BY <1>0, <1>5 DEF Migrated, SessionSaved, FailWiped, UserWiped, LastSessCell
  <1>6. CASE ReadyPolicySaved
    BY <1>0, <1>6 DEF ReadyPolicySaved, LastPolCell
  <1>7. CASE WrongPin
    BY <1>0, <1>7 DEF WrongPin
  <1>8. CASE RightPin
    <2>1. /\ typed \in Pins /\ StoredBlob.seed \in Seeds
      BY <1>8, PresentIsBlob DEF RightPin, session_load, KeyInv, Blob
    <2> QED
      BY <1>0, <1>8, <2>1, NewBlobTyped DEF RightPin
  <1>9. ASSUME NEW from, NEW to \in Phases \ PolicySaving,
               DeriveOk(from, to) \/ DeriveFails(from, to) \/ LeaveAddress(from, to)
        PROVE  RamTyped'
    BY <1>0, <1>9 DEF DeriveOk, DeriveFails, LeaveAddress
  <1>10. CASE SkipPin \/ AddressCorrect \/ AddressWrong
    BY <1>0, <1>10 DEF SkipPin, AddressCorrect, AddressWrong
  <1>18. ASSUME NEW pin \in Pins, EnterPin(pin) PROVE RamTyped'
    BY <1>0, <1>18 DEF EnterPin
  <1>11. ASSUME NEW s \in Seeds, EnterWords(s) PROVE RamTyped'
    BY <1>0, <1>11 DEF EnterWords
  <1>12. CASE CancelWords \/ DontSave \/ WantSave
    BY <1>0, <1>12 DEF CancelWords, DontSave, WantSave
  <1>13. ASSUME NEW pin \in Pins, SetPin(pin) PROVE RamTyped'
    BY <1>0, <1>13, NewBlobTyped DEF SetPin, KeyInv
  <1>14. CASE Lock \/ AskWipe \/ CancelWipe \/ HoldToWipe
    BY <1>0, <1>14 DEF Lock, AskWipe, CancelWipe, HoldToWipe
  <1>15. CASE SwitchChain
    BY <1>0, <1>15, StepStaysListed DEF SwitchChain
  <1>16. CASE LoadSession
    BY <1>7, <1>8, <1>9, <1>10, <1>16, <1>18 DEF LoadSession
  <1>17. CASE NewSession
    BY <1>9, <1>11, <1>12, <1>13, <1>17 DEF NewSession
  <1> QED
    BY <1>1, <1>2, <1>3, <1>4, <1>5, <1>6, <1>14, <1>15, <1>16, <1>17
    DEF Next, Boot, SramWrite, SignLoop

LEMMA KeyInvStays ==
    ASSUME TypeOK, KeyInv, Next
    PROVE  KeyInv'
  <1> USE DEF KeyInv, Shown, Stay, Goto, StartWrite, StartPolicyWrite, NoWrite,
      wipe_secrets, ram, hist, sram, Phases, Keyed, Unlocking, Entering,
      Signing, SessionSaving, SessionWiping, PolicySaving
  <1>1. CASE PowerCycle
    BY <1>1 DEF PowerCycle
  <1>2. CASE Boot
    BY <1>2 DEF Boot, LoadPolicy, BootPolicySaved, ProbeSession
  <1>4. CASE SessionWriteStep \/ PolicyWriteStep
    BY <1>4 DEF SessionWriteStep, PolicyWriteStep
  <1>5. CASE Migrated \/ SessionSaved \/ FailWiped \/ UserWiped \/ ReadyPolicySaved
    BY <1>5 DEF Migrated, SessionSaved, FailWiped, UserWiped, ReadyPolicySaved
  <1>7. CASE WrongPin
    BY <1>7 DEF WrongPin
  <1>8. CASE RightPin
    BY <1>8, PresentIsBlob DEF RightPin, session_load, Blob
  <1>9. ASSUME NEW from \in Keyed, NEW to \in Shown, DeriveOk(from, to)
        PROVE  KeyInv'
    BY <1>9 DEF DeriveOk
  <1>10. ASSUME NEW from \in Keyed, NEW to \in {"words", "probe"},
                DeriveFails(from, to)
         PROVE  KeyInv'
    BY <1>10 DEF DeriveFails
  <1>11. ASSUME NEW from \in Shown, NEW to \in Shown, LeaveAddress(from, to)
         PROVE  KeyInv'
    BY <1>11 DEF LeaveAddress
  <1>12. CASE SkipPin \/ AddressCorrect \/ AddressWrong
    BY <1>12 DEF SkipPin, AddressCorrect, AddressWrong
  <1>19. ASSUME NEW pin \in Pins, EnterPin(pin) PROVE KeyInv'
    BY <1>19 DEF EnterPin
  <1>13. ASSUME NEW s \in Seeds, EnterWords(s) PROVE KeyInv'
    BY <1>13 DEF EnterWords
  <1>14. CASE CancelWords \/ DontSave \/ WantSave
    BY <1>14 DEF CancelWords, DontSave, WantSave
  <1>15. ASSUME NEW pin \in Pins, SetPin(pin) PROVE KeyInv'
    BY <1>15 DEF SetPin
  <1>16. CASE SignLoop
    BY <1>16 DEF SignLoop, Lock, SwitchChain, AskWipe, CancelWipe, HoldToWipe
  <1>17. CASE LoadSession
    BY <1>7, <1>8, <1>9, <1>10, <1>11, <1>12, <1>17, <1>19 DEF LoadSession
  <1>18. CASE NewSession
    BY <1>9, <1>10, <1>11, <1>13, <1>14, <1>15, <1>18 DEF NewSession
  <1> QED
    BY <1>1, <1>2, <1>4, <1>5, <1>16, <1>17, <1>18 DEF Next, SramWrite

----
(* Writes in progress *)

\* The cells a session write has passed hold what it writes; a blob being
\* saved is of the key in RAM and, its salt being fresh, nowhere else in SRAM.
SessWriteInv ==
    /\ ph \in SessionSaving =>
          /\ out \in Blob /\ out.ver = 3 /\ out.seed = seed
          /\ \A k \in Body..Crc3 : k >= at => sess[k] # out
    /\ ph \in SessionWiping => out = Blank
    /\ ph \in SessionSaving \cup SessionWiping =>
          \A k \in SessCells : k < at => sess[k] = SessCell(k, out)

\* How a session write begins.
SessWriteBegins ==
    /\ sess' = sess /\ at' = 1
    /\ \/ /\ ph' \in SessionSaving
          /\ \E p \in Pins, n \in Salts :
                FreshSalt(n) /\ out' = NewBlob(seed', p, n)
       \/ ph' \in SessionWiping /\ out' = Blank

LEMMA SessWriteBeginnings ==
    ASSUME TypeOK, KeyInv, Next, ph' \in SessionSaving \cup SessionWiping
    PROVE  SessWriteBegins \/ SessionWriteStep
  <1> USE DEF SessWriteBegins, Stay, Goto, StartWrite, StartPolicyWrite,
      NoWrite, ram, hist, sram, SessionSaving, SessionWiping
  <1>1. CASE PowerCycle
    BY <1>1 DEF PowerCycle
  <1>2. CASE Boot
    BY <1>2 DEF Boot, LoadPolicy, BootPolicySaved, ProbeSession
  <1>3. CASE PolicyWriteStep
    BY <1>3 DEF PolicyWriteStep, PolicySaving
  <1>4. CASE Migrated \/ SessionSaved \/ FailWiped \/ UserWiped \/ ReadyPolicySaved
    BY <1>4 DEF Migrated, SessionSaved, FailWiped, UserWiped, ReadyPolicySaved
  <1>5. CASE LoadSession
    <2>1. CASE WrongPin
      BY <2>1 DEF WrongPin
    <2>2. CASE RightPin
      <3>1. typed \in Pins
        BY <2>2 DEF RightPin, KeyInv
      <3> QED
        BY <2>2, <3>1 DEF RightPin
    <2> QED
      BY <1>5, <2>1, <2>2 DEF LoadSession, EnterPin, SkipPin, DeriveOk, DeriveFails,
         LeaveAddress, AddressCorrect, AddressWrong
  <1>6. CASE NewSession
    <2>1. ASSUME NEW pin \in Pins, SetPin(pin) PROVE SessWriteBegins
      BY <2>1 DEF SetPin
    <2> QED
      BY <1>6, <2>1 DEF NewSession, EnterWords, CancelWords, DeriveOk,
         DeriveFails, LeaveAddress, DontSave, WantSave
  <1>7. CASE SignLoop
    BY <1>7 DEF SignLoop, Lock, SwitchChain, AskWipe, CancelWipe, HoldToWipe
  <1> QED
    BY <1>1, <1>2, <1>3, <1>4, <1>5, <1>6, <1>7 DEF Next, SramWrite

LEMMA SessWriteInvStays ==
    ASSUME TypeOK, KeyInv, SessWriteInv, Next, KeyInv'
    PROVE  SessWriteInv'
  <1>1. CASE ph' \notin SessionSaving \cup SessionWiping
    BY <1>1 DEF SessWriteInv
  <1>2. CASE SessWriteBegins
    <2>1. ASSUME NEW k \in SessCells PROVE ~(k < 1)
      OBVIOUS
    <2>2. CASE ph' \in SessionSaving
      <3>1. PICK p \in Pins, n \in Salts :
                FreshSalt(n) /\ out' = NewBlob(seed', p, n)
        BY <1>2, <2>2 DEF SessWriteBegins, SessionSaving, SessionWiping
      <3>2. seed' \in Seeds
        BY <2>2 DEF KeyInv, SessionSaving, Keyed, Unlocking, Entering
      <3>3. /\ out' \in Blob /\ out'.ver = 3
            /\ out'.seed = seed' /\ out'.salt = n
        BY <3>1, <3>2, NewBlobTyped
      <3>4. \A k \in Body..Crc3 : sess'[k] # out'
        BY <1>2, <3>1, <3>3 DEF FreshSalt, SessWriteBegins
      <3> QED
        BY <1>2, <2>1, <2>2, <3>3, <3>4
        DEF SessWriteInv, SessWriteBegins, SessionSaving, SessionWiping
    <2>3. CASE ph' \in SessionWiping
      BY <1>2, <2>1, <2>3
      DEF SessWriteInv, SessWriteBegins, SessionSaving, SessionWiping
    <2> QED
      BY <1>2, <2>2, <2>3 DEF SessWriteBegins
  <1>3. CASE SessionWriteStep
    <2>1. /\ ph' = ph /\ out' = out /\ seed' = seed
          /\ ph \in SessionSaving \cup SessionWiping
      BY <1>3 DEF SessionWriteStep, ram, hist
    <2>2. CASE PartOfSessCell(at, out) /\ at' = at
      <3>1. \A k \in SessCells : sess'[k] = IF k = at THEN Torn ELSE sess[k]
        BY <2>2, SessCellWritten DEF PartOfSessCell
      <3> QED
        BY <2>1, <2>2, <3>1, FillAssumption DEF SessWriteInv, TypeOK
    <2>3. CASE at < Crc3 /\ WholeSessCell(at, out) /\ at' = at + 1
      <3>1. \A k \in SessCells :
                sess'[k] = IF k = at THEN SessCell(at, out) ELSE sess[k]
        BY <2>3, SessCellWritten DEF WholeSessCell
      <3> QED
        BY <2>1, <2>3, <3>1 DEF SessWriteInv, TypeOK
    <2> QED
      BY <1>3, <2>2, <2>3 DEF SessionWriteStep
  <1> QED
    BY <1>1, <1>2, <1>3, SessWriteBeginnings

----
(* What SRAM accepts *)

\* The last cell of a v3 session, and every cell of a v2 one, is only ever
\* there as part of the last session write that ran to its end.
SavedInv ==
    /\ sess[Crc3] \in {Blank, Torn, saved}
    /\ \A k \in Body..Crc3 :
          sess[k] \in Blob /\ sess[k].ver = 2 => sess[k] = saved

LEMMA InitSaved == Init => SavedInv
  <1> SUFFICES ASSUME Init PROVE SavedInv
    OBVIOUS
  <1>1. CASE sess = ErasedSession
    BY <1>1, FillAssumption DEF ErasedSession, SavedInv
  <1>2. ASSUME NEW b \in Blob, b.ver = 2, sess = V2Session(b), saved = b
        PROVE  SavedInv
    BY <1>2, SessCellValue, FillAssumption DEF V2Session, SavedInv
  <1> QED
    BY <1>1, <1>2 DEF Init

LEMMA SavedInvStays ==
    ASSUME TypeOK, SessWriteInv, SavedInv, Next
    PROVE  SavedInv'
  <1>1. CASE sess' = sess /\ saved' = saved
    BY <1>1 DEF SavedInv
  <1>2. CASE PartOfSessCell(at, out) /\ saved' = saved
    <2>1. \A k \in SessCells : sess'[k] = IF k = at THEN Torn ELSE sess[k]
      BY <1>2, SessCellWritten DEF PartOfSessCell
    <2> QED
      BY <1>2, <2>1, FillAssumption DEF SavedInv
  <1>3. ASSUME ph \in SessionSaving \cup SessionWiping, WholeSessCell(at, out)
        PROVE  /\ \A k \in SessCells :
                    sess'[k] = IF k = at THEN SessCell(at, out) ELSE sess[k]
               /\ (out \in Blob /\ out.ver = 3) \/ out = Blank
               /\ at \in Body..Crc3 => SessCell(at, out) = out
               /\ at \in SessCells
    BY <1>3, SessCellWritten, SessCellValue
    DEF WholeSessCell, SessWriteInv, TypeOK
  <1>4. ASSUME ph \in SessionSaving \cup SessionWiping,
               at < Crc3, WholeSessCell(at, out), saved' = saved
        PROVE  SavedInv'
    BY <1>3, <1>4, FillAssumption DEF SavedInv
  <1>5. ASSUME ph \in SessionSaving \cup SessionWiping,
               at = Crc3, WholeSessCell(at, out),
               saved' = IF ph \in SessionSaving THEN out ELSE saved
        PROVE  SavedInv'
    <2>1. CASE ph \in SessionSaving
      <3>1. \A k \in Body..Crc3 : sess'[k] = out
        BY <1>3, <1>5, <2>1, SessCellValue DEF SessWriteInv
      <3> QED
        BY <1>5, <2>1, <3>1 DEF SavedInv, SessWriteInv
    <2>2. CASE ph \in SessionWiping
      <3>1. out = Blank /\ saved' = saved
        BY <1>5, <2>2 DEF SessWriteInv, SessionWiping, SessionSaving
      <3> QED
        BY <1>3, <1>5, <3>1, FillAssumption DEF SavedInv
    <2> QED
      BY <1>5, <2>1, <2>2
  <1> QED
    BY <1>1, <1>2, <1>4, <1>5, SessionWrites

\* OnlyWholeSessionAccepted follows from SavedInv.
LEMMA AcceptedIsSaved ==
    ASSUME SavedInv
    PROVE  OnlyWholeSessionAccepted
  BY FillAssumption
  DEF SavedInv, OnlyWholeSessionAccepted, session_present, WholeBlob,
      WholeBody, StoredBlob

\* A save that runs to its end is accepted, and is of the key in RAM.
LEMMA SaveIsAccepted ==
    ASSUME TypeOK, SessWriteInv, ph \in SessionSaving, LastSessCell
    PROVE  session_present' /\ StoredBlob' = out
  <1>1. \A k \in SessCells : sess'[k] = SessCell(k, out)
    <2>1. \A k \in SessCells :
              sess'[k] = IF k = at THEN SessCell(at, out) ELSE sess[k]
      BY SessCellWritten DEF LastSessCell, WholeSessCell
    <2> QED
      BY <2>1 DEF LastSessCell, SessWriteInv
  <1>2. out \in Blob /\ out.ver = 3
    BY DEF SessWriteInv
  <1>3. /\ sess'[Magic] = "GBAW" /\ sess'[Ver] = 3
        /\ \A k \in Body..Crc3 : sess'[k] = out
    BY <1>1, <1>2, SessCellValue
  <1> QED
    BY <1>2, <1>3 DEF session_present, WholeBlob, WholeBody, StoredBlob

\* The PIN is only asked for over an accepted session, and a key that is
\* meant to be kept stays the accepted one outside the writes.
StoredInv ==
    /\ ph \in {"pin", "check"} => session_present
    /\ ph \notin Keyed => keep = FALSE
    /\ keep = TRUE /\ ph \in Keyed \ (SessionSaving \cup SessionWiping)
          => session_present /\ StoredBlob.seed = seed

LEMMA PresentUnchanged ==
    ASSUME sess' = sess
    PROVE  session_present' = session_present /\ StoredBlob' = StoredBlob
  BY DEF session_present, WholeBlob, WholeBody, StoredBlob

LEMMA StoredInvStays ==
    ASSUME TypeOK, KeyInv, SessWriteInv, StoredInv, Next
    PROVE  StoredInv'
  <1> USE PresentUnchanged DEF StoredInv, Stay, Goto, StartWrite,
      StartPolicyWrite, NoWrite, ram, hist, sram, Keyed, Unlocking,
      Entering, Signing, SessionSaving, SessionWiping
  <1>1. CASE PowerCycle
    BY <1>1 DEF PowerCycle
  <1>2. CASE Boot
    BY <1>2 DEF Boot, LoadPolicy, BootPolicySaved, ProbeSession
  <1>3. CASE SessionWriteStep
    BY <1>3 DEF SessionWriteStep
  <1>4. CASE PolicyWriteStep \/ ReadyPolicySaved
    BY <1>4 DEF PolicyWriteStep, ReadyPolicySaved, PolicySaving
  <1>5. CASE Migrated \/ SessionSaved
    BY <1>5, SaveIsAccepted DEF Migrated, SessionSaved, SessWriteInv
  <1>6. CASE FailWiped \/ UserWiped
    BY <1>6 DEF FailWiped, UserWiped
  <1>7. CASE WrongPin
    BY <1>7 DEF WrongPin
  <1>8. CASE RightPin
    BY <1>8 DEF RightPin, session_load
  <1>9. CASE LoadSession
    BY <1>7, <1>8, <1>9 DEF LoadSession, EnterPin, SkipPin, DeriveOk, DeriveFails,
       LeaveAddress, AddressCorrect, AddressWrong
  <1>10. ASSUME NEW s \in Seeds, EnterWords(s) PROVE StoredInv'
    BY <1>10 DEF EnterWords
  <1>11. CASE NewSession
    BY <1>10, <1>11 DEF NewSession, CancelWords, DeriveOk, DeriveFails,
       LeaveAddress, DontSave, WantSave, SetPin
  <1>12. CASE SignLoop
    BY <1>12 DEF SignLoop, Lock, SwitchChain, AskWipe, CancelWipe, HoldToWipe
  <1> QED
    BY <1>1, <1>2, <1>3, <1>4, <1>5, <1>6, <1>9, <1>11, <1>12
    DEF Next, SramWrite

\* The cells policy_save has passed hold what it writes.
PolicyWriteInv ==
    ph \in PolicySaving => \A k \in PolCells : k < at => pol[k] = PolCell(k, chain)

PolicyInv == PolicyWriteInv /\ LockIsPersisted

LEMMA PolicyUnchanged ==
    ASSUME pol' = pol
    PROVE  policy_valid' = policy_valid
  BY DEF policy_valid

LEMMA PolicyWritten ==
    ASSUME TypeOK, PolicyWriteInv, ph \in PolicySaving, LastPolCell,
           chain' = chain
    PROVE  policy_valid' /\ chain' = LockedChain(pol'[PolChain])
  <1>1. \A k \in PolCells : pol'[k] = PolCell(k, chain)
    <2>1. \A k \in PolCells :
              pol'[k] = IF k = at THEN PolCell(at, chain) ELSE pol[k]
      BY PolCellWritten DEF LastPolCell, WholePolCell
    <2> QED
      BY <2>1 DEF LastPolCell, PolicyWriteInv
  <1>2. chain \in ChainIdx /\ chain \in SavedChain
    BY NChainsAssumption DEF TypeOK, ChainIdx, SavedChain
  <1> QED
    BY <1>1, <1>2 DEF policy_valid, LockedChain, PolCell

LEMMA PolicyInvStays ==
    ASSUME TypeOK, PolicyInv, Next
    PROVE  PolicyInv'
  <1> USE PolicyUnchanged DEF PolicyInv, PolicyWriteInv, LockIsPersisted,
      Stay, Goto, StartWrite, StartPolicyWrite, NoWrite, ram, hist, sram,
      PolicySaving
  <1>0. \A k \in PolCells : ~(k < 1)
    OBVIOUS
  <1>1. CASE PowerCycle
    BY <1>1 DEF PowerCycle
  <1>2. CASE LoadPolicy
    BY <1>0, <1>2 DEF LoadPolicy
  <1>3. CASE ProbeSession
    BY <1>3 DEF ProbeSession
  <1>4. CASE SessionWriteStep
    BY <1>4 DEF SessionWriteStep, SessionSaving, SessionWiping
  <1>5. CASE PolicyWriteStep
    <2>1. CASE PartOfPolCell(at, chain) /\ UNCHANGED <<ph, ram, at>>
      <3>1. \A k \in PolCells : pol'[k] = IF k = at THEN Torn ELSE pol[k]
        BY <1>5, <2>1, PolCellWritten DEF PartOfPolCell, PolicyWriteStep
      <3> QED
        BY <1>5, <2>1, <3>1 DEF PolicyWriteStep, PolCell, TypeOK
    <2>2. CASE WholePolCell(at, chain) /\ at' = at + 1 /\ UNCHANGED <<ph, ram>>
      <3>1. \A k \in PolCells :
                pol'[k] = IF k = at THEN PolCell(at, chain) ELSE pol[k]
        BY <1>5, <2>2, PolCellWritten DEF WholePolCell, PolicyWriteStep
      <3> QED
        BY <1>5, <2>2, <3>1 DEF PolicyWriteStep, PolCell, TypeOK
    <2> QED
      BY <1>5, <2>1, <2>2 DEF PolicyWriteStep
  <1>6. CASE BootPolicySaved \/ ReadyPolicySaved
    BY <1>6, PolicyWritten DEF BootPolicySaved, ReadyPolicySaved
  <1>7. CASE Migrated \/ SessionSaved \/ FailWiped \/ UserWiped
    BY <1>7 DEF Migrated, SessionSaved, FailWiped, UserWiped
  <1>8. CASE WrongPin
    BY <1>8 DEF WrongPin
  <1>9. CASE RightPin
    BY <1>9 DEF RightPin
  <1>10. CASE LoadSession
    BY <1>8, <1>9, <1>10 DEF LoadSession, EnterPin, SkipPin, DeriveOk, DeriveFails,
       LeaveAddress, AddressCorrect, AddressWrong
  <1>11. CASE NewSession
    BY <1>11 DEF NewSession, EnterWords, CancelWords, DeriveOk, DeriveFails,
       LeaveAddress, DontSave, WantSave, SetPin
  <1>12. CASE SignLoop
    BY <1>0, <1>12
    DEF SignLoop, Lock, SwitchChain, AskWipe, CancelWipe, HoldToWipe
  <1> QED
    BY <1>1, <1>2, <1>3, <1>4, <1>5, <1>6, <1>7, <1>10, <1>11, <1>12
    DEF Next, Boot, SramWrite

----
(* The inductive invariant.  TypeOK alone is not inductive: that a session *)
(* being saved is of a seed, and not of a zeroised one, is KeyInv.         *)

IInv ==
    /\ TypeOK
    /\ KeyInv
    /\ SessWriteInv
    /\ SavedInv
    /\ StoredInv
    /\ PolicyInv

LEMMA KeepStaysBoolean ==
    ASSUME keep \in BOOLEAN, Next
    PROVE  keep' \in BOOLEAN
  <1> USE DEF hist
  <1>1. CASE Boot
    BY <1>1 DEF Boot, LoadPolicy, BootPolicySaved, ProbeSession
  <1>2. CASE SramWrite
    BY <1>2 DEF SramWrite, SessionWriteStep, PolicyWriteStep, Migrated,
       SessionSaved, FailWiped, UserWiped, ReadyPolicySaved
  <1>3. CASE LoadSession
    BY <1>3 DEF LoadSession, EnterPin, WrongPin, RightPin, SkipPin, DeriveOk,
       DeriveFails, LeaveAddress, AddressCorrect, AddressWrong
  <1>4. CASE NewSession
    BY <1>4 DEF NewSession, EnterWords, CancelWords, DeriveOk, DeriveFails,
       LeaveAddress, DontSave, WantSave, SetPin
  <1>5. CASE SignLoop
    BY <1>5 DEF SignLoop, Lock, SwitchChain, AskWipe, CancelWipe, HoldToWipe
  <1> QED
    BY <1>1, <1>2, <1>3, <1>4, <1>5 DEF Next, PowerCycle

LEMMA Initially == Init => IInv
  <1> SUFFICES ASSUME Init PROVE IInv
    OBVIOUS
  <1>1. /\ ph = "boot" /\ seed = NoSeed /\ node = NoSeed /\ keep = FALSE
        /\ tries = 0 /\ typed = NoPin
    BY DEF Init
  <1>2. KeyInv
    BY <1>1 DEF KeyInv, Keyed, Unlocking, Entering, Signing, Shown
  <1>3. SessWriteInv
    BY <1>1 DEF SessWriteInv, SessionSaving, SessionWiping
  <1>4. StoredInv
    BY <1>1 DEF StoredInv, Keyed, Unlocking, Entering, Signing
  <1>5. PolicyInv
    BY <1>1 DEF PolicyInv, PolicyWriteInv, LockIsPersisted, PolicySaving
  <1> QED
    BY <1>2, <1>3, <1>4, <1>5, InitTyped, InitSaved DEF IInv

LEMMA Inductive == IInv /\ [Next]_vars => IInv'
  <1> SUFFICES ASSUME IInv, [Next]_vars PROVE IInv'
    OBVIOUS
  <1>1. CASE Next
    <2>1. KeyInv'
      BY <1>1, KeyInvStays DEF IInv
    <2>2. SessTypeOK' /\ PolTypeOK' /\ RamTyped'
      BY <1>1, SessStaysTyped, PolStaysTyped, RamStaysTyped DEF IInv
    <2>3. keep' \in BOOLEAN
      BY <1>1, KeepStaysBoolean DEF IInv, TypeOK
    <2>4. TypeOK'
      BY <2>2, <2>3 DEF TypeOK, RamTyped
    <2> QED
      BY <1>1, <2>1, <2>4, SessWriteInvStays, SavedInvStays, StoredInvStays,
         PolicyInvStays
      DEF IInv
  <1>2. CASE UNCHANGED vars
    <2>1. TypeOK'
      BY <1>2 DEF IInv, TypeOK, SessTypeOK, PolTypeOK, vars, ram, sram, hist
    <2>2. KeyInv'
      BY <1>2 DEF IInv, KeyInv, vars, ram
    <2>3. SessWriteInv'
      BY <1>2 DEF IInv, SessWriteInv, vars, ram, sram
    <2>4. SavedInv'
      BY <1>2 DEF IInv, SavedInv, vars, sram, hist
    <2>5. StoredInv'
      BY <1>2, PresentUnchanged DEF IInv, StoredInv, vars, ram, sram, hist
    <2>6. PolicyInv'
      BY <1>2, PolicyUnchanged
      DEF IInv, PolicyInv, PolicyWriteInv, LockIsPersisted, vars, ram, sram
    <2> QED
      BY <2>1, <2>2, <2>3, <2>4, <2>5, <2>6 DEF IInv
  <1> QED
    BY <1>1, <1>2

LEMMA Always == Spec => []IInv
  BY Initially, Inductive, PTL DEF Spec

\* Every variable of the firmware's state machine, and every cell of SRAM,
\* stays within its type.
THEOREM TypeCorrect == Spec => []TypeOK
  <1>1. IInv => TypeOK
    BY DEF IInv
  <1> QED
    BY <1>1, Always, PTL

\* No key material in RAM before an unlock or after the lock (wipe_secrets on
\* every way out of state.c's flows).
THEOREM SecretsAreWiped == Spec => []SecretsOnlyWhileKeyed
  <1>1. IInv => SecretsOnlyWhileKeyed
    BY DEF IInv, KeyInv, SecretsOnlyWhileKeyed
  <1> QED
    BY <1>1, Always, PTL

\* sign_loop only runs with the key whose address was on the screen.
THEOREM ShownKeySigns == Spec => []ReadyKeyIsShownKey
  <1>1. IInv => ReadyKeyIsShownKey
    BY DEF IInv, KeyInv, ReadyKeyIsShownKey, Shown, Keyed
  <1> QED
    BY <1>1, Always, PTL

\* session_present accepts only the last session write that ran to its end,
\* wherever the power was cut before.
THEOREM TornSessionsRejected == Spec => []OnlyWholeSessionAccepted
  <1>1. IInv => OnlyWholeSessionAccepted
    BY AcceptedIsSaved DEF IInv
  <1> QED
    BY <1>1, Always, PTL

\* The key in use that came from SRAM, or was saved there, can be unlocked
\* again after a power cycle.
THEOREM KeptKeyRecoverable == Spec => []KeptKeyIsRecoverable
  <1>1. IInv => KeptKeyIsRecoverable
    BY DEF IInv, StoredInv, KeptKeyIsRecoverable, Writing
  <1> QED
    BY <1>1, Always, PTL

\* The chain lock in force is the one the next boot loads.
THEOREM LockPersisted == Spec => []LockIsPersisted
  <1>1. IInv => LockIsPersisted
    BY DEF IInv, PolicyInv
  <1> QED
    BY <1>1, Always, PTL

----
(***************************************************************************)
(* Wallet implements KeyVault: every step of the firmware, power cuts in   *)
(* the middle of an SRAM write included, is one step of the abstract key   *)
(* store or changes nothing of it.                                         *)
(***************************************************************************)

\* The mapped variable `stored`.
StoredKey == IF HeldInSram THEN [seed |-> StoredBlob.seed, pin |-> StoredBlob.pin]
                           ELSE Blank

VaultStutters == UNCHANGED <<StoredKey, seed, typed, tries, ph = "failWipe">>

----
(* How the steps of a write change what is stored *)

LEMMA StoredUnchanged ==
    ASSUME sess' = sess
    PROVE  StoredKey' = StoredKey
  BY DEF StoredKey, HeldInSram, WholeBody, StoredBlob

LEMMA PresentIsHeld ==
    ASSUME session_present
    PROVE  HeldInSram
  BY DEF session_present, WholeBlob, HeldInSram

LEMMA StoredKeyTyped ==
    ASSUME HeldInSram
    PROVE  /\ StoredBlob \in Blob
           /\ StoredKey \in [seed : Seeds, pin : Pins]
           /\ StoredKey # Blank
           /\ StoredKey.seed = StoredBlob.seed /\ StoredKey.pin = StoredBlob.pin
  <1>1. StoredBlob \in Blob
    BY DEF HeldInSram, WholeBody, StoredBlob
  <1> QED
    BY <1>1, NoKeyAssumption DEF StoredKey, Blob

\* Before its last cell a write can only make the stored key unreadable.
LEMMA WriteStepLosesAtMost ==
    ASSUME TypeOK, SessWriteInv, SessionWriteStep
    PROVE  StoredKey' \in {StoredKey, Blank}
  <1>1. PICK v : /\ \A k \in SessCells : sess'[k] = IF k = at THEN v ELSE sess[k]
                 /\ \/ v = Torn /\ at # Ver
                    \/ v = SessCell(at, out) /\ at < Crc3
    <2>1. CASE PartOfSessCell(at, out)
      <3>1. \A k \in SessCells : sess'[k] = IF k = at THEN Torn ELSE sess[k]
        BY <2>1, SessCellWritten DEF PartOfSessCell
      <3> QED
        BY <2>1, <3>1 DEF PartOfSessCell
    <2>2. CASE at < Crc3 /\ WholeSessCell(at, out)
      <3>1. \A k \in SessCells :
                sess'[k] = IF k = at THEN SessCell(at, out) ELSE sess[k]
        BY <2>2, SessCellWritten DEF WholeSessCell
      <3> QED
        BY <2>2, <3>1
    <2> QED
      BY <2>1, <2>2 DEF SessionWriteStep
  <1>a. ph \in SessionSaving \cup SessionWiping
    BY DEF SessionWriteStep
  <1>2. /\ at \in SessCells
        /\ \/ ph \in SessionSaving /\ out \in Blob /\ out.ver = 3
           \/ ph \notin SessionSaving /\ out = Blank
    BY <1>a DEF TypeOK, SessWriteInv
  <1>3. CASE ~HeldInSram'
    BY <1>3 DEF StoredKey
  <1>4. CASE HeldInSram'
    <2>1. sess'[Body] \in Blob
      BY <1>4 DEF HeldInSram, WholeBody
    <2>2. CASE at \in {Magic, Ver}
      <3>1. /\ \A k \in Body..Crc3 : sess'[k] = sess[k]
            /\ sess'[Ver] = 2 => sess[Ver] = 2
        BY <1>1, <1>2, <2>2, SessCellValue, FillAssumption
      <3> QED
        BY <1>4, <3>1 DEF HeldInSram, WholeBody, StoredKey, StoredBlob
    <2>3. CASE at \in Body..Crc3
      <3>1. v = Torn \/ v = out
        BY <1>1, <1>2, <2>3, SessCellValue
      <3>2. v \notin Blob \/ (v = out /\ ph \in SessionSaving)
        BY <1>2, <3>1, FillAssumption
      <3>3. ~WholeBody(3, Crc3)'
        <4>1. SUFFICES ASSUME WholeBody(3, Crc3)' PROVE FALSE
          OBVIOUS
        <4>2. \A k \in Body..Crc3 : sess'[k] = sess'[Body]
          BY <4>1 DEF WholeBody
        <4>3. v = sess'[Body] /\ v = out /\ ph \in SessionSaving
          BY <1>1, <2>1, <2>3, <3>2, <4>2
        <4>4. CASE at = Crc3
          BY <1>1, <4>3, <4>4, FillAssumption DEF SessWriteInv
        <4>5. CASE at # Crc3
          BY <1>1, <2>3, <4>2, <4>3, <4>5 DEF SessWriteInv
        <4> QED
          BY <4>4, <4>5
      <3>4. sess'[Ver] = 2 /\ WholeBody(2, Crc2)'
        BY <1>4, <3>3 DEF HeldInSram
      <3>5. ph \notin SessionSaving
        BY <1>1, <2>3, <3>4, SessCellValue DEF SessWriteInv
      <3>6. /\ \A k \in Body..Crc2 : sess'[k] = sess[k]
            /\ sess'[Ver] = sess[Ver]
        BY <1>1, <2>3, <2>1, <3>2, <3>4, <3>5 DEF WholeBody
      <3> QED
        BY <1>4, <3>4, <3>6 DEF HeldInSram, WholeBody, StoredKey, StoredBlob
    <2> QED
      BY <1>2, <2>2, <2>3
  <1> QED
    BY <1>3, <1>4

\* The last cell of a wipe finds nothing left to lose.
LEMMA WipeEndChangesNothing ==
    ASSUME TypeOK, SessWriteInv, ph \in SessionWiping, LastSessCell
    PROVE  StoredKey = Blank /\ StoredKey' = Blank
  <1>1. at = Crc3 /\ out = Blank
    BY DEF SessWriteInv, LastSessCell
  <1>2. sess[Body] = Blank
    BY <1>1, SessCellValue DEF SessWriteInv
  <1>3. \A k \in SessCells :
            sess'[k] = IF k = at THEN SessCell(at, out) ELSE sess[k]
    BY SessCellWritten DEF LastSessCell, WholeSessCell
  <1>4. sess'[Body] = Blank
    BY <1>1, <1>2, <1>3
  <1> QED
    BY <1>2, <1>4, FillAssumption DEF StoredKey, HeldInSram, WholeBody

\* The last cell of a save makes the live key the stored one.
LEMMA SaveEndStores ==
    ASSUME TypeOK, SessWriteInv, ph \in SessionSaving, LastSessCell
    PROVE  /\ StoredKey = Blank
           /\ StoredKey' = [seed |-> seed, pin |-> out.pin]
           /\ out.pin \in Pins
  <1>1. /\ at = Crc3 /\ out \in Blob /\ out.ver = 3 /\ out.seed = seed
        /\ sess[Ver] = 3 /\ sess[Body] = out /\ sess[Crc3] # out
    BY SessCellValue DEF SessWriteInv, LastSessCell
  <1>2. ~HeldInSram
    BY <1>1 DEF HeldInSram, WholeBody
  <1>3. HeldInSram' /\ StoredBlob' = out
    BY SaveIsAccepted, PresentIsHeld
    DEF session_present, WholeBlob, HeldInSram
  <1> QED
    BY <1>1, <1>2, <1>3 DEF StoredKey, Blob

----
(* The refinement *)

VaultStep == Vault!Next \/ VaultStutters

LEMMA InitImplements == Init => Vault!Init
  <1> SUFFICES ASSUME Init PROVE Vault!Init
    OBVIOUS
  <1>1. ph = "boot" /\ seed = NoSeed /\ tries = 0 /\ typed = NoPin
    BY DEF Init
  <1>2. StoredKey \in [seed : Seeds, pin : Pins] \cup {Blank}
    BY StoredKeyTyped DEF StoredKey
  <1> QED
    BY <1>1, <1>2 DEF Vault!Init, Vault!Key, StoredKey

LEMMA WriteImplements ==
    ASSUME IInv, SramWrite
    PROVE  VaultStep
  <1> USE DEF VaultStep, IInv, Stay, Goto, ram, hist, sram
  <1>1. CASE SessionWriteStep
    <2>1. StoredKey' \in {StoredKey, Blank}
      BY <1>1, WriteStepLosesAtMost
    <2>2. /\ ph' = ph /\ seed' = seed /\ tries' = tries /\ typed' = typed
          /\ ph \in SessionSaving \cup SessionWiping
      BY <1>1 DEF SessionWriteStep
    <2>3. seed # NoSeed \/ ph = "failWipe"
      BY <2>2, NoSeedAssumption
      DEF KeyInv, SessionSaving, SessionWiping, Keyed, Unlocking, Entering, Signing
    <2>4. CASE StoredKey' = StoredKey
      BY <2>2, <2>4 DEF VaultStutters
    <2>5. CASE StoredKey' = Blank
      BY <2>2, <2>3, <2>5 DEF Vault!Next, Vault!Erase, StoredKey
    <2> QED
      BY <2>1, <2>4, <2>5
  <1>2. CASE PolicyWriteStep \/ ReadyPolicySaved
    BY <1>2, StoredUnchanged
    DEF PolicyWriteStep, ReadyPolicySaved, VaultStutters, PolicySaving
  <1>3. CASE Migrated \/ SessionSaved
    <2>1. /\ ph \in SessionSaving /\ LastSessCell
          /\ seed' = seed /\ tries' = tries /\ typed' = typed
          /\ ph # "failWipe" /\ ph' # "failWipe"
      BY <1>3 DEF Migrated, SessionSaved, SessionSaving
    <2>2. seed # NoSeed
      BY <2>1, NoSeedAssumption
      DEF KeyInv, SessionSaving, Keyed, Unlocking, Entering
    <2>3. /\ StoredKey = Blank /\ out.pin \in Pins
          /\ StoredKey' = [seed |-> seed, pin |-> out.pin]
      BY <2>1, SaveEndStores
    <2>4. Vault!Store(out.pin)
      BY <2>1, <2>2, <2>3 DEF Vault!Store, StoredKey
    <2> QED
      BY <2>3, <2>4 DEF Vault!Next
  <1>4. CASE FailWiped \/ UserWiped
    <2>1. /\ ph \in SessionWiping /\ LastSessCell
          /\ seed' = NoSeed /\ tries' = 0 /\ typed' = NoPin /\ ph' # "failWipe"
      BY <1>4
      DEF FailWiped, UserWiped, wipe_secrets, SessionWiping, KeyInv, Keyed,
          Unlocking, Entering, Signing
    <2>2. StoredKey' = StoredKey
      BY <2>1, WipeEndChangesNothing
    <2> QED
      BY <2>1, <2>2 DEF Vault!Next, Vault!Forget, StoredKey
  <1> QED
    BY <1>1, <1>2, <1>3, <1>4 DEF SramWrite

LEMMA UnlockImplements ==
    ASSUME IInv, WrongPin \/ RightPin
    PROVE  VaultStep
  <1>1. /\ ph = "check" /\ seed = NoSeed /\ session_present /\ sess' = sess
        /\ typed \in Pins /\ typed' = NoPin
    BY DEF WrongPin, RightPin, Stay, IInv, KeyInv, StoredInv, Keyed,
       Unlocking, Entering, Signing
  <1>2. /\ HeldInSram /\ StoredKey # Blank /\ StoredKey' = StoredKey
        /\ StoredKey.seed = StoredBlob.seed /\ StoredKey.pin = StoredBlob.pin
    BY <1>1, PresentIsHeld, StoredKeyTyped, StoredUnchanged
  <1>3. CASE WrongPin
    <2>1. Vault!WrongPin
      <3>1. /\ StoredKey.pin # typed /\ seed' = NoSeed
            /\ typed # NoPin
        BY <1>1, <1>2, <1>3, NoPinAssumption
        DEF WrongPin, session_load, PinMatches
      <3>2. CASE tries < MaxTries - 1 /\ tries' = tries + 1 /\ ph' = "pin"
        BY <1>1, <1>2, <3>1, <3>2 DEF Vault!WrongPin, StoredKey
      <3>3. CASE tries = MaxTries - 1 /\ tries' = 0 /\ ph' = "failWipe"
        BY <1>1, <1>2, <3>1, <3>3 DEF Vault!WrongPin, StoredKey
      <3> QED
        BY <1>3, <3>2, <3>3 DEF WrongPin, StartWrite, Goto
    <2> QED
      BY <2>1 DEF VaultStep, Vault!Next
  <1>4. CASE RightPin
    <2>1. /\ StoredKey.pin = typed /\ seed' = StoredKey.seed /\ tries' = 0
          /\ ph # "failWipe" /\ ph' # "failWipe"
      BY <1>1, <1>2, <1>4
      DEF RightPin, session_load, PinMatches, Goto, StartWrite
    <2>2. Vault!Unlock
      BY <1>1, <1>2, <2>1 DEF Vault!Unlock, StoredKey
    <2> QED
      BY <2>2 DEF VaultStep, Vault!Next
  <1> QED
    BY <1>3, <1>4

\* A PIN is only entered over a stored key.
LEMMA OfferImplements ==
    ASSUME IInv, NEW pin \in Pins, EnterPin(pin)
    PROVE  VaultStep
  <1>1. /\ session_present /\ sess' = sess /\ typed' = pin
        /\ seed' = seed /\ tries' = tries
        /\ ph # "failWipe" /\ ph' # "failWipe"
    BY DEF EnterPin, Stay, Goto, NoWrite, IInv, StoredInv
  <1>2. StoredKey # Blank /\ StoredKey' = StoredKey
    BY <1>1, PresentIsHeld, StoredKeyTyped, StoredUnchanged
  <1>3. Vault!Offer(pin)
    BY <1>1, <1>2 DEF Vault!Offer, StoredKey
  <1> QED
    BY <1>3 DEF VaultStep, Vault!Next

\* A step that leaves SRAM alone and zeroises the key forgets it.
LEMMA ZeroisingForgets ==
    ASSUME sess' = sess, seed' = NoSeed, typed' = NoPin, tries' = 0,
           ph' # "failWipe"
    PROVE  VaultStep
  <1>1. StoredKey' = StoredKey
    BY StoredUnchanged
  <1> QED
    BY <1>1 DEF VaultStep, Vault!Next, Vault!Forget, StoredKey

\* A step that leaves SRAM and the key alone is invisible.
LEMMA OthersStutter ==
    ASSUME sess' = sess, seed' = seed, typed' = typed, tries' = tries,
           ph # "failWipe", ph' # "failWipe"
    PROVE  VaultStep
  BY StoredUnchanged DEF VaultStep, VaultStutters

LEMMA NextImplements ==
    ASSUME IInv, Next
    PROVE  VaultStep
  <1> USE DEF Stay, Goto, StartWrite, StartPolicyWrite, NoWrite, wipe_secrets,
      ram, hist, sram
  <1>0. /\ ph \notin {"pin", "check"} => tries = 0
        /\ ph # "check" => typed = NoPin
        /\ ph \notin Keyed => seed = NoSeed
    BY DEF IInv, KeyInv
  <1>1. CASE PowerCycle
    BY <1>1, ZeroisingForgets DEF PowerCycle
  <1>2. CASE Boot
    <2>1. CASE LoadPolicy \/ BootPolicySaved
      BY <2>1, OthersStutter DEF LoadPolicy, BootPolicySaved
    <2>2. CASE ProbeSession
      BY <1>0, <2>2, OthersStutter DEF ProbeSession
    <2> QED
      BY <1>2, <2>1, <2>2 DEF Boot
  <1>3. CASE LoadSession
    <2>1. CASE SkipPin
      BY <1>0, <2>1, ZeroisingForgets
      DEF SkipPin, Keyed, Unlocking, Entering, Signing
    <2>2. CASE \/ DeriveOk("loaded", "showOld")
               \/ LeaveAddress("showOld", "askAddr") \/ AddressCorrect
      BY <2>2, OthersStutter DEF DeriveOk, LeaveAddress, AddressCorrect
    <2>3. CASE DeriveFails("loaded", "words") \/ AddressWrong
      BY <1>0, <2>3, ZeroisingForgets DEF DeriveFails, AddressWrong
    <2> QED
      BY <1>3, <2>1, <2>2, <2>3, UnlockImplements, OfferImplements
      DEF LoadSession
  <1>4. CASE NewSession
    <2>1. ASSUME NEW s \in Seeds, EnterWords(s) PROVE VaultStep
      <3>1. /\ seed = NoSeed /\ seed' = s /\ tries' = tries /\ typed' = typed
            /\ sess' = sess /\ ph # "failWipe" /\ ph' # "failWipe"
        BY <1>0, <2>1 DEF EnterWords, Keyed, Unlocking, Entering, Signing
      <3>2. StoredKey' = StoredKey
        BY <3>1, StoredUnchanged
      <3>3. Vault!Enter(s)
        BY <3>1, <3>2 DEF Vault!Enter, StoredKey
      <3> QED
        BY <3>3 DEF VaultStep, Vault!Next
    <2>2. CASE CancelWords \/ DeriveFails("entered", "probe")
      BY <1>0, <2>2, ZeroisingForgets DEF CancelWords, DeriveFails
    <2>3. CASE \/ DeriveOk("entered", "showNew")
               \/ LeaveAddress("showNew", "askSave") \/ DontSave \/ WantSave
      BY <2>3, OthersStutter DEF DeriveOk, LeaveAddress, DontSave, WantSave
    <2>4. ASSUME NEW pin \in Pins, SetPin(pin) PROVE VaultStep
      BY <2>4, OthersStutter DEF SetPin
    <2> QED
      BY <1>4, <2>1, <2>2, <2>3, <2>4 DEF NewSession
  <1>5. CASE SignLoop
    <2>1. CASE Lock
      BY <1>0, <2>1, ZeroisingForgets DEF Lock
    <2>2. CASE SwitchChain \/ AskWipe \/ CancelWipe \/ HoldToWipe
      BY <2>2, OthersStutter DEF SwitchChain, AskWipe, CancelWipe, HoldToWipe
    <2> QED
      BY <1>5, <2>1, <2>2 DEF SignLoop
  <1> QED
    BY <1>1, <1>2, <1>3, <1>4, <1>5, WriteImplements DEF Next

LEMMA StepImplements == IInv /\ [Next]_vars => [Vault!Next]_(Vault!vars)
  <1> SUFFICES ASSUME IInv, [Next]_vars PROVE [Vault!Next]_(Vault!vars)
    OBVIOUS
  <1>1. CASE VaultStutters
    BY <1>1 DEF VaultStutters, Vault!vars, StoredKey
  <1>2. CASE UNCHANGED vars
    BY <1>2, StoredUnchanged DEF vars, ram, sram, Vault!vars, StoredKey
  <1> QED
    BY <1>1, <1>2, NextImplements DEF VaultStep

\* The firmware's screens, keys, SRAM writes and power cuts implement the key
\* store of KeyVault: only the right PIN or the words make a key live, only
\* the live key is stored, and a stored key is lost only with a key live or
\* after the third wrong PIN in a row.
THEOREM WalletImplementsKeyVault == Spec => ImplementsKeyVault
  <1> QED
    BY InitImplements, StepImplements, Always, PTL
    DEF Spec, Vault!Spec, ImplementsKeyVault
====
