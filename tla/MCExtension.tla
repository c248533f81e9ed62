---- MODULE MCExtension ----
(* ExtensionState on a small instance. *)
EXTENDS ExtensionState, TLC

Symmetry == Permutations(Jobs) \cup Permutations(Origins) \cup Permutations(Wallets)

====
