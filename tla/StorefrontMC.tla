----------------------------- MODULE StorefrontMC -----------------------------
(* Small instances of Storefront for TLC. *)
EXTENDS Storefront

CONSTANTS u1, c1, d1, A, B, a1, b1, g1, k1, k2, w1

(* A user fills a cart from two shops and buys on the spot.  Shop A has a  *)
(* campaign of two coupons, of which a user may have one.                  *)
MCShopOf     == [s \in Skus |-> IF s = a1 THEN A ELSE B]
MCBuyerOf    == [r \in Requests |-> u1]
MCIssuer     == [x \in Campaigns |-> A]
MCTotal      == [x \in Campaigns |-> 2]
MCPerUser    == [x \in Campaigns |-> 1]
MCCampaignOf == [c \in Coupons |-> g1]
MCOwnerOf    == [c \in Coupons |-> u1]
MCLimit      == [s \in Skus |-> IF s = a1 THEN 2 ELSE 1]
=============================================================================
