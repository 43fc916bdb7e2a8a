----------------------------- MODULE AfterSaleMC -----------------------------
(* Small instances of AfterSale for TLC. *)
EXTENDS AfterSale, TLC

CONSTANTS c1, c2, x

MCBought == [l \in Lines |-> 2]

Symmetric == Permutations(Claims)
=============================================================================
