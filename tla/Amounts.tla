-------------------------------- MODULE Amounts --------------------------------
(***************************************************************************)
(* What an order costs and what its claims ask for, in whole cents:        *)
(* src/services/pricingService.js, refundCalculationService.js, and what   *)
(* afterSaleService.js does with units and amounts.                        *)
(*                                                                         *)
(* A coupon's discount is spread over the lines it covers in proportion to *)
(* their goods, rounded down, and the last line takes the rest.  A claim   *)
(* on some units of a line asks for that part of what was paid for it,     *)
(* rounded down, and a claim on all that is left for the shipping as well. *)
(* How a claim is decided and refunded is AfterSale; here it runs, is      *)
(* rejected, may be taken up again by arbitration, and is over when it is  *)
(* refunded with some grant or turned down by the platform.                *)
(***************************************************************************)
EXTENDS Integers, FiniteSets, FiniteSetsExt, Functions

CONSTANTS
  N,               \* number of lines
  Quantity,        \* Quantity[l]: units bought in line l
  Prices,          \* unit prices that occur
  Coupons,         \* [discount, threshold] of the coupons that occur
  Fees,            \* shipping fees: base, or of the region, 0 without a template
  FreeThreshold,   \* goods for which shipping is free
  Claims           \* bound: claims that are not over at one time

Lines == 1 .. N

ASSUME AmountsAssumption ==
  /\ N \in Nat \ {0}
  /\ Quantity \in [Lines -> Nat \ {0}]
  /\ Prices \subseteq Nat /\ Fees \subseteq Nat /\ FreeThreshold \in Nat
  /\ Coupons \subseteq [discount : Nat \ {0}, threshold : Nat]

VARIABLES
  placed,          \* whether the order was written (and paid)
  price,           \* unit price of each line
  eligible,        \* lines the coupon covers, none without a coupon
  share,           \* OrderItem.discountAmount
  discount,        \* Order.discountAmount
  shipping,        \* Order.shippingAmount
  sale,            \* AfterSale.status: PENDING until the merchant or, when
                   \* ARBITRATING, the platform refunds or rejects it;
                   \* NONE: not made, or over and in the sums below
  units,           \* AfterSaleItem.quantity of the claim, by line
  asked,           \* its requestedAmount
  claimed,         \* units of each line in refunded claims
  back,            \* AfterSaleItem.refundAmount over the refunded claims
  pieces,          \* number of refunded claims on each line
  refunded         \* Order.refundedAmount

orderVars == <<placed, price, eligible, share, discount, shipping>>
refundVars == <<claimed, back, pieces, refunded>>
claimVars == <<sale, units, asked, refundVars>>
vars == <<orderVars, claimVars>>

Active == {"PENDING", "ARBITRATING"}

Nothing == [l \in Lines |-> 0]
Units   == {u \in [Lines -> 0 .. Max({Quantity[l] : l \in Lines})] :
              \A l \in Lines : u[l] <= Quantity[l]}

Goods(l)   == price[l] * Quantity[l]
Payable(l) == Goods(l) - share[l]
GoodsAmount == SumFunction([l \in Lines |-> Goods(l)])

(* Order.payableAmount, and after payment paidAmount. *)
Paid == GoodsAmount - discount + shipping

TypeOK ==
  /\ placed \in BOOLEAN
  /\ price \in [Lines -> Prices] /\ eligible \subseteq Lines
  /\ share \in [Lines -> Nat] /\ discount \in Nat /\ shipping \in Fees \cup {0}
  /\ \A l \in Lines : Payable(l) >= 0
  /\ sale \in [Claims -> Active \cup {"NONE", "REJECTED"}]
  /\ units \in [Claims -> Units] /\ asked \in [Claims -> Nat]
  /\ claimed \in [Lines -> Nat] /\ back \in [Lines -> Nat] /\ pieces \in [Lines -> Nat]
  /\ refunded \in Nat /\ refunded <= Paid

Init ==
  /\ placed = FALSE
  /\ price \in [Lines -> Prices]
  /\ eligible \in SUBSET Lines
  /\ share = Nothing /\ discount = 0 /\ shipping = 0
  /\ sale = [c \in Claims |-> "NONE"]
  /\ units = [c \in Claims |-> Nothing] /\ asked = [c \in Claims |-> 0]
  /\ claimed = Nothing /\ back = Nothing /\ pieces = Nothing /\ refunded = 0

-----------------------------------------------------------------------------
(* Pricing. *)

EligibleAmount == SumFunction([l \in eligible |-> Goods(l)])

PartOfEqual(l, d) == d \div Cardinality(eligible)  \* mutant: by line, not by goods

(* A line's part of discount d, rounded down. *)
Part(l, d) == (d * Goods(l)) \div EligibleAmount

(* The last of the covered lines takes what the rounding left. *)
DistributeDiscount(d) ==
  LET last == Max(eligible)
      taken == SumFunction([l \in eligible \ {last} |-> Part(l, d)])
  IN  [l \in Lines |-> CASE l \notin eligible -> 0
                         [] l = last          -> d - taken
                         [] OTHER             -> Part(l, d)]

(* Amounts are unsigned columns, and a share of lines that all cost nothing *)
(* is not a number: such an order cannot be written.                        *)
Writable(shares) == \A l \in Lines : shares[l] \in 0 .. Goods(l)
Divides == EligibleAmount > 0 \/ Cardinality(eligible) = 1

ShippingAmount(fee) == IF GoodsAmount >= FreeThreshold THEN 0 ELSE fee

Place(shares, d) ==
  /\ ~placed /\ placed' = TRUE
  /\ share' = shares /\ discount' = d
  /\ \E fee \in Fees : shipping' = ShippingAmount(fee)
  /\ UNCHANGED <<price, eligible, claimVars>>

PlacePlainOrder == eligible = {} /\ Place(Nothing, 0)

PlaceCouponOrder(c) ==
  /\ eligible # {} /\ EligibleAmount >= c.threshold /\ Divides
  /\ LET d == Min({c.discount, EligibleAmount})
         shares == DistributeDiscount(d)
     IN  Writable(shares) /\ Place(shares, d)

-----------------------------------------------------------------------------
(* Claims. *)

RefundByUnit(l, u) == (Payable(l) \div Quantity[l]) * u[l]           \* mutant
RefundRoundedUp(l, u) == -((-(Payable(l) * u[l])) \div Quantity[l])  \* mutant

(* What a claim on u[l] units of line l asks for it. *)
RefundAmount(l, u) == (Payable(l) * u[l]) \div Quantity[l]
ItemAmount(u) == SumFunction([l \in Lines |-> RefundAmount(l, u)])

(* Earlier units are looked up for the lines of the request only. *)
Previous(l, u) == IF u[l] > 0 THEN claimed[l] ELSE 0
AllItemsAndQuantity(u) == \A l \in Lines : Previous(l, u) + u[l] = Quantity[l]

RequestedAmount(u) == ItemAmount(u) + (IF AllItemsAndQuantity(u) THEN shipping ELSE 0)

Within(u) == \A l \in Lines : u[l] > 0 => Previous(l, u) + u[l] <= Quantity[l]

CreateAfterSale(c, u) ==
  /\ placed /\ sale[c] = "NONE" /\ u # Nothing
  /\ \A d \in Claims : sale[d] \notin Active
  /\ Within(u)
  /\ RequestedAmount(u) \in 1 .. Paid - refunded
  /\ sale' = [sale EXCEPT ![c] = "PENDING"]
  /\ units' = [units EXCEPT ![c] = u]
  /\ asked' = [asked EXCEPT ![c] = RequestedAmount(u)]
  /\ UNCHANGED <<orderVars, refundVars>>

(* The merchant says no: the units of the claim no longer count. *)
RejectAfterSale(c) ==
  /\ sale[c] = "PENDING"
  /\ sale' = [sale EXCEPT ![c] = "REJECTED"]
  /\ UNCHANGED <<orderVars, units, asked, refundVars>>

(* The buyer turns to the platform, be it that the units of a rejected     *)
(* claim were claimed again since, or are being claimed now.               *)
RequestArbitration(c) ==
  /\ sale[c] \in {"PENDING", "REJECTED"}
  /\ sale' = [sale EXCEPT ![c] = "ARBITRATING"]
  /\ UNCHANGED <<orderVars, units, asked, refundVars>>

Forget(c) ==
  /\ sale' = [sale EXCEPT ![c] = "NONE"]
  /\ units' = [units EXCEPT ![c] = Nothing]
  /\ asked' = [asked EXCEPT ![c] = 0]

(* A claim has one arbitration: rejected there, it is over. *)
RejectInArbitration(c) ==
  /\ sale[c] = "ARBITRATING"
  /\ Forget(c)
  /\ UNCHANGED <<orderVars, refundVars>>

(* What is granted, all that was asked for or less, is refunded unless the *)
(* payment has not as much left.                                           *)
CompleteRefund(c, granted) ==
  /\ sale[c] \in Active
  /\ refunded + granted <= Paid
  /\ refunded' = refunded + granted
  /\ claimed' = [l \in Lines |-> claimed[l] + units[c][l]]
  /\ back' = [l \in Lines |-> back[l] + RefundAmount(l, units[c])]
  /\ pieces' = [l \in Lines |-> pieces[l] + (IF units[c][l] > 0 THEN 1 ELSE 0)]
  /\ Forget(c)
  /\ UNCHANGED orderVars

Next ==
  \/ PlacePlainOrder
  \/ \E c \in Coupons : PlaceCouponOrder(c)
  \/ \E c \in Claims :
       \/ \E u \in Units : CreateAfterSale(c, u)
       \/ RejectAfterSale(c) \/ RequestArbitration(c) \/ RejectInArbitration(c)
       \/ \E granted \in 1 .. asked[c] : CompleteRefund(c, granted)

Spec == Init /\ [][Next]_vars

-----------------------------------------------------------------------------
(* Properties. *)

(* The discount is spread over the lines without losing or inventing a     *)
(* cent: what the lines cost and the shipping make what is paid.  And it   *)
(* is fair: no covered line gets a cent less than its part, and none more  *)
(* than the other lines can have left by rounding.                         *)
DiscountIsSpread ==
  /\ Paid = SumFunction([l \in Lines |-> Payable(l)]) + shipping
  /\ discount > 0 =>
       \A l \in eligible :
         LET over == share[l] * EligibleAmount - discount * Goods(l)
         IN  over > -EligibleAmount /\ over <= (Cardinality(eligible) - 1) * (EligibleAmount - 1)

(* Units refunded in any number of claims bring back their part of what    *)
(* was paid for the line, never more, and less by under a cent a claim.    *)
RefundsFollowUnits ==
  \A l \in Lines :
    LET short == Payable(l) * claimed[l] - back[l] * Quantity[l]
    IN  short >= 0 /\ short <= pieces[l] * (Quantity[l] - 1)

(* The check of a claim against the money left is a second belt: a claim   *)
(* on units that are left is never refused for it, whatever was rejected,  *)
(* taken up again by arbitration and refunded before, as long as no more   *)
(* units were refunded than were bought.  (Arbitration of a claim whose    *)
(* units were claimed again in the meantime may refund more: then the      *)
(* check does refuse, see ReturnedWithinBought of AfterSale.)              *)
MoneyCoversUnits ==
  placed /\ (\A l \in Lines : claimed[l] <= Quantity[l]) =>
    \A u \in Units : Within(u) => RequestedAmount(u) <= Paid - refunded

(* The claim that takes the last units asks for the shipping too.          *)
(* docs/api.md promises it and the code does not keep it.                  *)
LastClaimRefundsShipping ==
  [][\A c \in Claims, u \in Units :
       CreateAfterSale(c, u) /\ (\A l \in Lines : claimed[l] + u[l] = Quantity[l])
         => asked'[c] = ItemAmount(u) + shipping]_vars
=============================================================================
