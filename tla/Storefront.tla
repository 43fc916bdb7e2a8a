------------------------------ MODULE Storefront ------------------------------
(***************************************************************************)
(* What a buyer does before an order exists: claims coupons of a campaign, *)
(* fills a cart and checks it out, beside the administrators who put goods *)
(* on sale and take them off.  An order is here as CouponBook sees it;     *)
(* Trade has its stock, its payments and its way to the buyer.             *)
(*                                                                         *)
(* Checkout and the claim of a coupon are Serializable transactions, one   *)
(* step each.  addItem and buyAgain run without one: they read the row of  *)
(* the cart and later write its new quantity, so they are two steps, with  *)
(* anything between them.  What they look up first, whether the goods are  *)
(* on sale, commutes with reading the row.  Whether the shelf has enough   *)
(* is checked by Trade; here that check may turn out either way, and a     *)
(* request it refuses, or that is refused for another reason, is a         *)
(* stuttering step.  Shops stay ACTIVE.                                    *)
(***************************************************************************)
EXTENDS Integers, FiniteSets

CONSTANTS
  Users,
  CartRequests,    \* (user, clientRequestId) keys of table PlatformOrder
  DirectRequests,  \* (user, clientRequestId) keys of table Order, buy-now
  BuyerOf,         \* BuyerOf[r]: the user of the request
  Shops,
  Skus,
  ShopOf,          \* ShopOf[s]: the shop that sells sku s
  Campaigns,       \* rows of table Coupon
  IssuerOf,        \* IssuerOf[g]: the shop of the campaign
  Total,           \* Coupon.totalQuantity
  PerUser,         \* Coupon.perUserLimit
  Coupons,         \* UserCoupon rows that may come to exist
  CampaignOf,      \* CampaignOf[c]: the campaign of c
  OwnerOf,         \* OwnerOf[c]: the user who claims c
  NoCoupon,
  Workers,         \* requests for carts being served at the same time
  Managed,         \* bound: the skus that go on and off sale
  MaxQuantity,     \* the largest Limit
  Limit            \* Limit[s]: the most of sku s in one row or order, 999

Requests == CartRequests \cup DirectRequests
Orders   == Requests \X Shops
Rows     == Users \X Skus
Baskets  == [Skus -> 0 .. MaxQuantity]

ASSUME StorefrontAssumption ==
  /\ IsFiniteSet(Requests) /\ IsFiniteSet(Shops) /\ IsFiniteSet(Coupons)
  /\ CartRequests \cap DirectRequests = {}
  /\ BuyerOf \in [Requests -> Users]
  /\ ShopOf \in [Skus -> Shops]
  /\ IssuerOf \in [Campaigns -> Shops]
  /\ Total \in [Campaigns -> Nat] /\ PerUser \in [Campaigns -> Nat]
  /\ CampaignOf \in [Coupons -> Campaigns]
  /\ OwnerOf \in [Coupons -> Users]
  /\ NoCoupon \notin Coupons
  /\ Managed \subseteq Skus
  /\ MaxQuantity \in Nat /\ Limit \in [Skus -> 0 .. MaxQuantity]

VARIABLES
  stage,           \* where each order is: see CouponBook
  couponOf,        \* Order.userCouponId
  coupon,          \* UserCoupon.status
  basket,          \* OrderItem.quantity of each order, by sku
  quantity,        \* CartItem.quantity, 0 without a row
  selected,        \* rows with CartItem.selected
  writing,         \* what each worker read and will write, a set of at most one
  onSale,          \* active skus of active products
  claimed,         \* rows of table UserCoupon
  claimedQuantity, \* Coupon.claimedQuantity
  ended            \* campaigns whose endsAt has passed

bookVars     == <<stage, couponOf, coupon>>
cartVars     == <<quantity, selected, writing>>
campaignVars == <<claimed, claimedQuantity, ended>>
vars == <<bookVars, basket, cartVars, onSale, campaignVars>>

Book == INSTANCE CouponBook

TypeOK ==
  /\ stage \in [Orders -> Book!Stages]
  /\ couponOf \in [Orders -> Coupons \cup {NoCoupon}]
  /\ coupon \in [Coupons -> Book!CouponStatus]
  /\ basket \in [Orders -> Baskets]
  /\ quantity \in [Rows -> 0 .. MaxQuantity]
  /\ selected \subseteq {row \in Rows : quantity[row] > 0}
  /\ writing \in [Workers -> SUBSET [row : Rows, to : 1 .. MaxQuantity]]
  /\ onSale \subseteq Skus
  /\ claimed \subseteq Coupons
  /\ claimedQuantity \in [Campaigns -> Nat]
  /\ ended \subseteq Campaigns

Init ==
  /\ Book!Init
  /\ basket = [o \in Orders |-> [s \in Skus |-> 0]]
  /\ quantity = [row \in Rows |-> 0] /\ selected = {}
  /\ writing = [w \in Workers |-> {}]
  /\ onSale = Skus
  /\ claimed = {} /\ claimedQuantity = [g \in Campaigns |-> 0] /\ ended = {}

-----------------------------------------------------------------------------
(* Campaigns *)

Issued(g) == {c \in claimed : CampaignOf[c] = g}

(* Variant, to see DiscountsWithinCampaign fail: coupons that were spent   *)
(* no longer count.                                                        *)
HeldUnspent(g, u) == {c \in Issued(g) : OwnerOf[c] = u /\ coupon[c] # "USED"}
Held(g, u)        == {c \in Issued(g) : OwnerOf[c] = u}

ClaimCoupon(c) ==
  LET g == CampaignOf[c] IN
  /\ c \notin claimed /\ g \notin ended
  /\ Cardinality(Held(g, OwnerOf[c])) < PerUser[g]
  /\ claimedQuantity[g] < Total[g]
  /\ claimedQuantity' = [claimedQuantity EXCEPT ![g] = @ + 1]
  /\ claimed' = claimed \cup {c}
  /\ UNCHANGED <<bookVars, basket, cartVars, onSale, ended>>

(* Time passes. *)
EndCampaign(g) ==
  /\ ended' = ended \cup {g}
  /\ UNCHANGED <<bookVars, basket, cartVars, onSale, claimed, claimedQuantity>>

-----------------------------------------------------------------------------
(* The cart *)

(* The row is read, and its new quantity is settled. *)
Read(w, row, to) ==
  /\ writing[w] = {}
  /\ writing' = [writing EXCEPT ![w] = {[row |-> row, to |-> to]}]
  /\ UNCHANGED <<bookVars, basket, quantity, selected, onSale, campaignVars>>

AddItemRead(w, row, n) ==
  /\ row[2] \in onSale
  /\ n > 0 /\ quantity[row] + n <= Limit[row[2]]
  /\ Read(w, row, quantity[row] + n)

(* What the order has of the sku, or as much as the shelf has, on top of   *)
(* what the cart has, or again as much as the shelf has.                   *)
BuyAgainRead(w, o, s, to) ==
  LET row == <<BuyerOf[o[1]], s>> IN
  /\ stage[o] # "NONE" /\ basket[o][s] > 0
  /\ s \in onSale
  /\ to \in 1 .. Limit[s] /\ to <= quantity[row] + basket[o][s]
  /\ Read(w, row, to)

(* The upsert: it updates the row that is there by then, or makes one.     *)
WriteItem(w) ==
  /\ \E item \in writing[w] :
       /\ quantity' = [quantity EXCEPT ![item.row] = item.to]
       /\ selected' = selected \cup {item.row}
  /\ writing' = [writing EXCEPT ![w] = {}]
  /\ UNCHANGED <<bookVars, basket, onSale, campaignVars>>

(* updateItem reads the row only to check it against the shelf. *)
UpdateItem(row, n, select) ==
  /\ quantity[row] > 0
  /\ n \in 1 .. Limit[row[2]]
  /\ quantity' = [quantity EXCEPT ![row] = n]
  /\ selected' = IF select THEN selected \cup {row} ELSE selected \ {row}
  /\ UNCHANGED <<bookVars, basket, writing, onSale, campaignVars>>

Drop(rows) ==
  /\ quantity' = [row \in Rows |-> IF row \in rows THEN 0 ELSE quantity[row]]
  /\ selected' = selected \ rows
  /\ UNCHANGED writing

DeleteItem(row) ==
  /\ quantity[row] > 0
  /\ Drop({row})
  /\ UNCHANGED <<bookVars, basket, onSale, campaignVars>>

(* Some of the rows of a user, or with no ids all of them. *)
SelectItems(rows, select) ==
  /\ \A row \in rows : quantity[row] > 0
  /\ \A row, other \in rows : row[1] = other[1]
  /\ selected' = IF select THEN selected \cup rows ELSE selected \ rows
  /\ UNCHANGED <<bookVars, basket, quantity, writing, onSale, campaignVars>>

-----------------------------------------------------------------------------
(* Orders *)

ShopsIn(b)    == {ShopOf[s] : s \in {t \in Skus : b[t] > 0}}
PartAt(b, sh) == [s \in Skus |-> IF ShopOf[s] = sh THEN b[s] ELSE 0]

(* calculatePricing accepts c for user u at shop sh. *)
Accepted(c, u, sh) ==
  /\ c \in claimed /\ OwnerOf[c] = u
  /\ CampaignOf[c] \notin ended /\ IssuerOf[CampaignOf[c]] = sh

(* One order for each shop of the goods b, use[sh] the coupon at shop sh.  *)
Place(r, b, use) ==
  LET new == {r} \X ShopsIn(b) IN
  /\ \A sh \in Shops : stage[<<r, sh>>] = "NONE"
  /\ \A s \in Skus : b[s] > 0 => s \in onSale
  /\ \A sh \in ShopsIn(b) : use[sh] # NoCoupon => Accepted(use[sh], BuyerOf[r], sh)
  /\ Book!Place(new, [o \in new |-> use[o[2]]])
  /\ basket' = [o \in Orders |-> IF o \in new THEN PartAt(b, o[2]) ELSE basket[o]]

(* The goods of the given rows of one user. *)
Goods(u, rows) == [s \in Skus |-> IF <<u, s>> \in rows THEN quantity[<<u, s>>] ELSE 0]

(* Variant, to see CartLeavesAsOrdered fail: all that is selected goes.    *)
BoughtSelected(r, rows) == {row \in selected : row[1] = BuyerOf[r]}
Bought(r, rows) == rows

(* The rows asked for are all there and selected.  They leave the cart.    *)
CreateCartOrders(r, rows, use) ==
  /\ r \in CartRequests
  /\ rows # {} /\ rows \subseteq {row \in selected : row[1] = BuyerOf[r]}
  /\ Place(r, Goods(BuyerOf[r], rows), use)
  /\ Drop(Bought(r, rows))
  /\ UNCHANGED <<onSale, campaignVars>>

CreateOrder(r, s, n, use) ==
  /\ r \in DirectRequests
  /\ n \in 1 .. Limit[s]
  /\ Place(r, [t \in Skus |-> IF t = s THEN n ELSE 0], use)
  /\ UNCHANGED <<cartVars, onSale, campaignVars>>

CancelOrder(o) ==
  /\ Book!Cancel(o)
  /\ UNCHANGED <<basket, cartVars, onSale, campaignVars>>

PayOrder(o) ==
  /\ Book!Pay(o)
  /\ UNCHANGED <<basket, cartVars, onSale, campaignVars>>

(* restoreCoupon: a coupon of a campaign that is over comes back to expire. *)
RestoredTo(o) ==
  IF couponOf[o] \in Coupons /\ CampaignOf[couponOf[o]] \in ended
  THEN "EXPIRED" ELSE "AVAILABLE"

RefundInFull(o) ==
  /\ Book!Repay(o, RestoredTo(o))
  /\ UNCHANGED <<basket, cartVars, onSale, campaignVars>>

-----------------------------------------------------------------------------
(* The catalogue: the status of a product, or isActive of a sku, changes.  *)

TakeOffSale(s) ==
  /\ s \in Managed /\ onSale' = onSale \ {s}
  /\ UNCHANGED <<bookVars, basket, cartVars, campaignVars>>

PutOnSale(s) ==
  /\ s \in Managed /\ onSale' = onSale \cup {s}
  /\ UNCHANGED <<bookVars, basket, cartVars, campaignVars>>

-----------------------------------------------------------------------------

Uses == [Shops -> Coupons \cup {NoCoupon}]

CartStep ==
  \/ \E w \in Workers, row \in Rows, n \in 1 .. MaxQuantity : AddItemRead(w, row, n)
  \/ \E w \in Workers, o \in Orders, s \in Skus, to \in 1 .. MaxQuantity :
       BuyAgainRead(w, o, s, to)
  \/ \E w \in Workers : WriteItem(w)
  \/ \E row \in Rows, n \in 1 .. MaxQuantity, select \in BOOLEAN :
       UpdateItem(row, n, select)
  \/ \E row \in Rows : DeleteItem(row)
  \/ \E rows \in SUBSET Rows, select \in BOOLEAN : SelectItems(rows, select)

OrderStep ==
  \/ \E r \in Requests, use \in Uses :
       \/ \E rows \in SUBSET Rows : CreateCartOrders(r, rows, use)
       \/ \E s \in Skus, n \in 1 .. MaxQuantity : CreateOrder(r, s, n, use)
  \/ \E o \in Orders : CancelOrder(o) \/ PayOrder(o) \/ RefundInFull(o)

ShopStep ==
  \/ \E c \in Coupons : ClaimCoupon(c)
  \/ \E g \in Campaigns : EndCampaign(g)
  \/ \E s \in Skus : TakeOffSale(s) \/ PutOnSale(s)

Next == CartStep \/ OrderStep \/ ShopStep

Spec == Init /\ [][Next]_vars

-----------------------------------------------------------------------------
(* Properties *)

(* The orders that carry a coupon of campaign g, whatever became of them.  *)
Carrying(g) == {o \in Orders : couponOf[o] \in Coupons /\ CampaignOf[couponOf[o]] = g}

(* A campaign never gives more discounts than it has coupons, nor a user   *)
(* more than the limit, however many orders were cancelled or repaid and   *)
(* had their coupon come back in between.                                  *)
DiscountsWithinCampaign ==
  \A g \in Campaigns :
    /\ Cardinality(Carrying(g)) <= Total[g]
    /\ \A u \in Users :
         Cardinality({o \in Carrying(g) : BuyerOf[o[1]] = u}) <= PerUser[g]

(* Goods leave a cart by the buyer's hand, or into an order of exactly as  *)
(* many, placed in the same step: a checkout that fails leaves the cart,   *)
(* and one that succeeds takes nothing it did not sell.                    *)
CartLeavesAsOrdered ==
  [][\A row \in Rows :
       quantity[row] > 0 /\ quantity'[row] = 0 =>
         \/ DeleteItem(row)
         \/ \E r \in CartRequests :
              LET o == <<r, ShopOf[row[2]]>> IN
              /\ BuyerOf[r] = row[1]
              /\ stage[o] = "NONE" /\ stage'[o] # "NONE"
              /\ basket'[o][row[2]] = quantity[row]]_vars

(* docs/api.md: a coupon that was given back is AVAILABLE again.  One that *)
(* is can be spent on another order.  The code does not keep it: the order *)
(* it was given back for still names it, under a unique index.             *)
GivenBackIsUsable ==
  \A c \in claimed :
    coupon[c] = "AVAILABLE" => \A o \in Orders : couponOf[o] # c
=============================================================================
