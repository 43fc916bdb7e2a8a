------------------------------ MODULE CouponBook ------------------------------
(***************************************************************************)
(* What becomes of the coupons buyers hold, with no word of carts, stock,  *)
(* payments or claims: an order is placed with at most one coupon, which   *)
(* no other order can carry from then on; cancelling the order unpaid or   *)
(* giving all its money back returns the coupon, and nothing else does.    *)
(* Trade keeps this book; Storefront adds where the coupons come from.     *)
(***************************************************************************)
EXTENDS FiniteSets

CONSTANTS Orders, Coupons, NoCoupon

VARIABLES
  stage,      \* where each order is, as far as its coupon goes
  couponOf,   \* Order.userCouponId
  coupon      \* UserCoupon.status

vars == <<stage, couponOf, coupon>>

Stages == {"NONE", "UNPAID", "PAID", "CANCELLED", "REPAID"}
CouponStatus == {"AVAILABLE", "USED", "EXPIRED"}

Init ==
  /\ stage = [o \in Orders |-> "NONE"]
  /\ couponOf = [o \in Orders |-> NoCoupon]
  /\ coupon = [c \in Coupons |-> "AVAILABLE"]

(* Orders keep their reference to the coupon, and it is unique.            *)
Usable(c) == coupon[c] = "AVAILABLE" /\ \A o \in Orders : couponOf[o] # c

Fresh == {o \in Orders : stage[o] = "NONE"}

(* The orders of one request, each with a coupon of its own or none.       *)
Place(new, use) ==
  /\ new \subseteq Fresh
  /\ \A o \in new : use[o] # NoCoupon => Usable(use[o])
  /\ \A o, n \in new : use[o] = use[n] /\ use[o] # NoCoupon => o = n
  /\ stage' = [o \in Orders |-> IF o \in new THEN "UNPAID" ELSE stage[o]]
  /\ couponOf' = [o \in Orders |-> IF o \in new THEN use[o] ELSE couponOf[o]]
  /\ coupon' = [c \in Coupons |-> IF \E o \in new : use[o] = c THEN "USED" ELSE coupon[c]]

Return(o, verdict) ==
  coupon' = [c \in Coupons |-> IF c = couponOf[o] THEN verdict ELSE coupon[c]]

Cancel(o) ==
  /\ stage[o] = "UNPAID"
  /\ stage' = [stage EXCEPT ![o] = "CANCELLED"]
  /\ Return(o, "AVAILABLE")
  /\ UNCHANGED couponOf

Pay(o) ==
  /\ stage[o] = "UNPAID"
  /\ stage' = [stage EXCEPT ![o] = "PAID"]
  /\ UNCHANGED <<couponOf, coupon>>

Repay(o, verdict) ==
  /\ stage[o] = "PAID"
  /\ stage' = [stage EXCEPT ![o] = "REPAID"]
  /\ Return(o, verdict)
  /\ UNCHANGED couponOf

Next ==
  \/ \E new \in (SUBSET Fresh) \ {{}} :
       \E use \in [new -> Coupons \cup {NoCoupon}] : Place(new, use)
  \/ \E o \in Orders : Cancel(o) \/ Pay(o)
  \/ \E o \in Orders, verdict \in {"AVAILABLE", "EXPIRED"} : Repay(o, verdict)

Spec == Init /\ [][Next]_vars
=============================================================================
