---- MODULE SramStore ----
(***************************************************************************)
(* Battery-backed SRAM of the cartridge: the session blob at offset 0      *)
(* (storage/session.c) and the chain-lock policy blob at offset 1024       *)
(* (storage/policy.c), both written byte by byte by storage/sram.c.        *)
(*                                                                         *)
(* The session region is cut into six cells at the boundaries where the    *)
(* two blob layouts differ:                                                *)
(*                                                                         *)
(*   cell     1 Magic  2 Ver  3 Body   4 Crc2     5 Mac      6 Crc3        *)
(*   bytes    0..3     4      5..112   113..116   117..128   129..132      *)
(*                                                                         *)
(* A v2 blob ends with its CRC in cell 4; in a v3 blob cells 4 and 5 hold  *)
(* the rest of the MAC and its CRC is cell 6.  Cryptography is symbolic: a *)
(* blob is the record of what it was made from, its bytes in a cell are    *)
(* the record itself, and two blobs with different salts share no cell.    *)
(* Bytes of a cell that belong to no single write are Torn.                *)
(***************************************************************************)
EXTENDS Naturals

CONSTANTS
    Seeds,      \* 64-byte BIP-39 seeds
    Pins,       \* PINs a user can type (4..8 digits)
    Salts,      \* (salt, nonce) pairs drawn by crypto_fill_random
    NChains,    \* length of the CHAINS table of ui/chains.c
    Blank,      \* 0xFF fill: erased SRAM
    Torn        \* a cell holding bytes of two different writes

VARIABLES
    sess,       \* session region, cell -> content
    pol         \* policy region, cell -> content

Magic == 1
Ver   == 2
Body  == 3
Crc2  == 4
Mac   == 5
Crc3  == 6
SessCells == 1..6

\* Policy region: header (magic, version, reserved), chain_id, CRC.
PolHdr   == 1
PolChain == 2
PolCrc   == 3
PolCells == 1..3

Blob == [ver : {2, 3}, seed : Seeds, pin : Pins, salt : Salts]

\* Index into CHAINS; NChains stands for a chain id the table does not list.
ChainIdx == 0..(NChains - 1)
SavedChain == 0..NChains
DefaultIdx == 0

ASSUME NChainsAssumption == NChains \in Nat \ {0}
ASSUME FillAssumption ==
    /\ Blank # Torn
    /\ Blank \notin Blob /\ Blank \notin SavedChain \cup {2, 3}
    /\ Torn  \notin Blob /\ Torn  \notin SavedChain
    /\ Blank \notin {"GBAW", "POLI"} /\ Torn \notin {"GBAW", "POLI"}

SessTypeOK ==
    /\ sess = [k \in SessCells |-> sess[k]]
    /\ sess[Magic] \in {"GBAW", Blank, Torn}
    /\ sess[Ver] \in {2, 3, Blank}
    /\ \A k \in Body..Crc3 : sess[k] \in Blob \cup {Blank, Torn}

PolTypeOK ==
    /\ pol = [k \in PolCells |-> pol[k]]
    /\ pol[PolHdr] \in {"POLI", Blank, Torn}
    /\ pol[PolChain] \in SavedChain \cup {Blank, Torn}
    /\ pol[PolCrc] \in SavedChain \cup {Blank, Torn}

----
(* session.c *)

\* Content of cell k once blob x (or the 0xFF fill) has been written over it.
SessCell(k, x) ==
    CASE x = Blank -> Blank
      [] x # Blank /\ k = Magic -> "GBAW"
      [] x # Blank /\ k = Ver -> x.ver
      [] OTHER -> x

\* Mutant of WholeBody: the CRC is not compared.
NoCrcBody(v, last) == sess[Body] \in Blob /\ sess[Body].ver = v

\* Everything after the version byte is one blob of version v, up to its CRC
\* in cell last.
WholeBody(v, last) ==
    /\ sess[Body] \in Blob
    /\ sess[Body].ver = v
    /\ \A k \in Body..last : sess[k] = sess[Body]

\* The CRC covers the header too, so it fails under another header.
WholeBlob(v, last) ==
    /\ sess[Magic] = "GBAW"
    /\ sess[Ver] = v
    /\ WholeBody(v, last)

session_present == WholeBlob(3, Crc3) \/ WholeBlob(2, Crc2)

\* The blob that session_load reads once session_present has accepted it.
StoredBlob == sess[Body]

\* Mutant of PinMatches: the MAC is not compared.
AnyPinMatches(pin) == TRUE

\* The MAC check of load_v3 and load_v2_and_upgrade.
PinMatches(pin) == StoredBlob.pin = pin

\* write_v3_blob: fresh salt and nonce, so no cell in SRAM equals a new one.
FreshSalt(s) == \A k \in Body..Crc3 : sess[k] \in Blob => sess[k].salt # s

NewBlob(seed, pin, salt) ==
    [ver |-> 3, seed |-> seed, pin |-> pin, salt |-> salt]

\* sram_write has stored some, not all, of the bytes of session cell k.
\* The version cell is one byte, and rewriting equal bytes mixes nothing.
PartOfSessCell(k, x) ==
    /\ k # Ver
    /\ sess[k] \notin {Torn, SessCell(k, x)}
    /\ sess' = [sess EXCEPT ![k] = Torn]

\* sram_write has stored the last byte of session cell k.
WholeSessCell(k, x) == sess' = [sess EXCEPT ![k] = SessCell(k, x)]

----
(* policy.c *)

PolCell(k, c) == IF k = PolHdr THEN "POLI" ELSE c

policy_valid ==
    /\ pol[PolHdr] = "POLI"
    /\ pol[PolChain] \in SavedChain
    /\ pol[PolCrc] = pol[PolChain]

\* chains_index_of with the fallback of wallet_run.
LockedChain(saved) == IF saved \in ChainIdx THEN saved ELSE DefaultIdx

PartOfPolCell(k, c) ==
    /\ pol[k] \notin {Torn, PolCell(k, c)}
    /\ pol' = [pol EXCEPT ![k] = Torn]

WholePolCell(k, c) == pol' = [pol EXCEPT ![k] = PolCell(k, c)]

====
