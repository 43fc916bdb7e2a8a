--------------------------- MODULE AfterSaleRacesMC ---------------------------
(* Small instances of AfterSaleRaces for TLC. *)
EXTENDS AfterSaleRaces, TLC

CONSTANTS c1, c2, x, v, w

MCBought == [l \in Lines |-> 2]
MCOne    == [l \in Lines |-> 1]

Symmetric == Permutations(Claims) \cup Permutations(Workers)
=============================================================================
