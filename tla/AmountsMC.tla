------------------------------- MODULE AmountsMC -------------------------------
(* Definitions for the runs of Amounts. *)
EXTENDS Amounts, TLC

CONSTANTS c1, c2

Symmetric == Permutations(Claims)

(* Three lines, so that two roundings meet in the last share, one of them  *)
(* of several units, so that a refund is rounded.                          *)
MCQuantity == <<1, 1, 2>>
MCCoupons == {[discount |-> 2, threshold |-> 0], [discount |-> 4, threshold |-> 6]}
=============================================================================
