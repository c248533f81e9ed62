---- MODULE MCWallet ----
(* Wallet on a small instance: symmetry over what the code only compares. *)
EXTENDS Wallet, TLC

Symmetry == Permutations(Seeds) \cup Permutations(Pins) \cup Permutations(Salts)

====
