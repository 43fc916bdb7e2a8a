------------------------------- MODULE TradeMC -------------------------------
(* Small instances of Trade for TLC. *)
EXTENDS Trade

CONSTANTS c1, d1, A, a, k, p1, p2

(* One good and one coupon, for which a cart and a buy-now compete.        *)
MCShopOf     == [s \in Skus |-> A]
MCCouponShop == [c \in Coupons |-> A]
MCStock      == [s \in Skus |-> 1]

(* Payments that compete for the order of the cart. *)
MCSameOrder  == [p \in Payments |-> <<c1, A>>]

(* The buyer may fail to pay the first, and is told so late or again.      *)
MCEvents     == {<<p1, "FAILED">>, <<p1, "SUCCESS">>, <<p2, "SUCCESS">>}

(* A count finds one good less than the shop has on its books.             *)
MCCorrections == {-1}
====
