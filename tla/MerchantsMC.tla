------------------------------ MODULE MerchantsMC ------------------------------
(* Model values and definitions for the run of Merchants. *)
EXTENDS Merchants, TLC

CONSTANTS ann, ben, cyd, ann1, ben1, ann2, q1, q2

(* ann applies twice, ben once and for the code of ann's first application. *)
MCApplicant == [x \in Applications |-> IF x = ben1 THEN ben ELSE ann]
MCCode == [x \in Applications |-> IF x = ann2 THEN "other" ELSE "code"]

Symmetric == Permutations(Requests)
=============================================================================
