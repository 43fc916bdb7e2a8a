--------------------------- MODULE MerchantFinanceMC ---------------------------
(* Model values and definitions for the runs of MerchantFinance. *)
EXTENDS MerchantFinance, TLC

CONSTANTS o1, o2, q1, q2, w1

(* At a rate of 1/2 a refund of 1 leaves half a unit to round. *)
MCPaid == [o \in Orders |-> 2]

Symmetric == Permutations(Requests)
=============================================================================
