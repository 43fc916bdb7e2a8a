----------------------------- MODULE OrderClaims -----------------------------
(***************************************************************************)
(* What the after-sales of one paid order do to it, with no word of        *)
(* claims, reviews, arbitration, refunds or callbacks: they hold the order *)
(* and let it go where it has been before, and give its money back in full *)
(* at most once, and its coupon exactly then.  Trade moves its orders by   *)
(* these steps; AfterSale implements them.                                 *)
(***************************************************************************)

VARIABLES
  order,    \* where the order is
  been,     \* the statuses it has moved through
  repaid,   \* is all its money back?
  coupon    \* the coupon it was bought with

vars == <<order, been, repaid, coupon>>

Init == order = "PAID" /\ been = {"PAID"} /\ ~repaid /\ coupon = "USED"

Moves == {<<"PAID", "PROCESSING">>, <<"PROCESSING", "SHIPPED">>, <<"SHIPPED", "COMPLETED">>}

(* The shop and the buyer take it on; it is shipped once. *)
Advance(m) ==
  /\ order = m[1]
  /\ m[2] = "SHIPPED" => "SHIPPED" \notin been
  /\ order' = m[2]
  /\ been' = been \cup {m[2]}
  /\ UNCHANGED <<repaid, coupon>>

Claim(to) ==
  /\ to \in been \cup {"AFTER_SALE", "REFUNDING"}
  /\ order' = to
  /\ UNCHANGED <<been, repaid, coupon>>

RefundInFull(verdict) ==
  /\ ~repaid /\ repaid'
  /\ verdict \in {"AVAILABLE", "EXPIRED"}
  /\ order' = "REFUNDED" /\ coupon' = verdict
  /\ UNCHANGED been

Next ==
  \/ \E m \in Moves : Advance(m)
  \/ \E to \in been \cup {"AFTER_SALE", "REFUNDING"} : Claim(to)
  \/ \E verdict \in {"AVAILABLE", "EXPIRED"} : RefundInFull(verdict)

Spec == Init /\ [][Next]_vars
=============================================================================
