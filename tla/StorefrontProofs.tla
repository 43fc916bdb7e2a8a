--------------------------- MODULE StorefrontProofs ---------------------------
(* Theorems about Storefront, for every value of its constants. *)
EXTENDS Storefront, FiniteSetTheorems, FunctionTheorems, TLAPS

-----------------------------------------------------------------------------
(* Types *)

(* The types hold at the start.                                            *)
LEMMA InitTypeOK == Init => TypeOK
  BY StorefrontAssumption
     DEF Init, TypeOK, Baskets, Book!Init, Book!Stages, Book!CouponStatus

(* A shop's part of a basket is a basket.                                  *)
LEMMA PartIsBasket ==
  ASSUME NEW b \in Baskets, NEW sh
  PROVE  PartAt(b, sh) \in Baskets
  BY StorefrontAssumption DEF PartAt, Baskets

(* Placing orders keeps the types of what it writes.                       *)
LEMMA PlaceTyped ==
  ASSUME TypeOK, NEW r \in Requests, NEW b \in Baskets, NEW use \in Uses,
         Place(r, b, use)
  PROVE  /\ stage' \in [Orders -> Book!Stages]
         /\ couponOf' \in [Orders -> Coupons \cup {NoCoupon}]
         /\ coupon' \in [Coupons -> Book!CouponStatus]
         /\ basket' \in [Orders -> Baskets]
<1> DEFINE new == {r} \X ShopsIn(b)
<1>1. Book!Place(new, [o \in new |-> use[o[2]]])
  BY DEF Place
<1>2. /\ stage' \in [Orders -> Book!Stages]
      /\ coupon' \in [Coupons -> Book!CouponStatus]
  BY <1>1 DEF TypeOK, Book!Place, Book!Stages, Book!CouponStatus
<1>3. \A o \in new : o[2] \in Shops
  BY StorefrontAssumption DEF ShopsIn
<1>4. couponOf' \in [Orders -> Coupons \cup {NoCoupon}]
  BY <1>1, <1>3 DEF TypeOK, Book!Place, Uses
<1>5. basket' \in [Orders -> Baskets]
  BY PartIsBasket DEF TypeOK, Place
<1>6. QED
  BY <1>2, <1>4, <1>5

(* The goods of rows of a cart are a basket.                               *)
LEMMA GoodsAreBasket ==
  ASSUME TypeOK, NEW u \in Users, NEW rows \in SUBSET Rows
  PROVE  Goods(u, rows) \in Baskets
  BY StorefrontAssumption DEF TypeOK, Goods, Baskets, Rows

(* Every step keeps the types.                                             *)
LEMMA StepTypeOK == TypeOK /\ [Next]_vars => TypeOK'
<1> SUFFICES ASSUME TypeOK, [Next]_vars PROVE TypeOK'
  OBVIOUS
<1> USE StorefrontAssumption
<1>1. CASE CartStep
  <2>1. ASSUME NEW w \in Workers, NEW row \in Rows, NEW to \in 1 .. MaxQuantity,
               Read(w, row, to)
        PROVE  TypeOK'
    BY <2>1 DEF Read, TypeOK, bookVars, campaignVars
  <2>2. ASSUME NEW w \in Workers, NEW row \in Rows, NEW n \in 1 .. MaxQuantity,
               AddItemRead(w, row, n)
        PROVE  TypeOK'
    <3>1. row[2] \in Skus /\ quantity[row] \in Nat /\ Limit[row[2]] \in 0 .. MaxQuantity
      BY DEF TypeOK, Rows
    <3>2. quantity[row] + n \in 1 .. MaxQuantity
      BY <2>2, <3>1 DEF AddItemRead
    <3>3. QED
      BY <2>1, <2>2, <3>2 DEF AddItemRead
  <2>3. ASSUME NEW w \in Workers, NEW o \in Orders, NEW s \in Skus,
               NEW to \in 1 .. MaxQuantity, BuyAgainRead(w, o, s, to)
        PROVE  TypeOK'
    <3>1. <<BuyerOf[o[1]], s>> \in Rows
      BY DEF Orders, Rows
    <3>2. QED
      BY <2>1, <2>3, <3>1 DEF BuyAgainRead
  <2>4. ASSUME NEW w \in Workers, WriteItem(w) PROVE TypeOK'
    <3>1. PICK item \in writing[w] : /\ quantity' = [quantity EXCEPT ![item.row] = item.to]
                                     /\ selected' = selected \cup {item.row}
      BY <2>4 DEF WriteItem
    <3>2. item.row \in Rows /\ item.to \in 1 .. MaxQuantity
      BY <3>1 DEF TypeOK
    <3>3. /\ quantity' \in [Rows -> 0 .. MaxQuantity]
          /\ selected' \subseteq {row \in Rows : quantity'[row] > 0}
      BY <3>1, <3>2 DEF TypeOK
    <3>4. writing' \in [Workers -> SUBSET [row : Rows, to : 1 .. MaxQuantity]]
      BY <2>4 DEF WriteItem, TypeOK
    <3>5. QED
      BY <2>4, <3>3, <3>4 DEF WriteItem, TypeOK, bookVars, campaignVars
  <2>5. ASSUME NEW row \in Rows, NEW n \in 1 .. MaxQuantity, NEW select \in BOOLEAN,
               UpdateItem(row, n, select)
        PROVE  TypeOK'
    BY <2>5 DEF UpdateItem, TypeOK, bookVars, campaignVars
  <2>6. ASSUME NEW row \in Rows, DeleteItem(row) PROVE TypeOK'
    BY <2>6 DEF DeleteItem, Drop, TypeOK, bookVars, campaignVars
  <2>7. ASSUME NEW rows \in SUBSET Rows, NEW select \in BOOLEAN, SelectItems(rows, select)
        PROVE  TypeOK'
    BY <2>7 DEF SelectItems, TypeOK, bookVars, campaignVars
  <2>8. QED
    BY <1>1, <2>2, <2>3, <2>4, <2>5, <2>6, <2>7 DEF CartStep
<1>2. CASE OrderStep
  <2>1. ASSUME NEW r \in Requests, NEW use \in Uses, NEW rows \in SUBSET Rows,
               CreateCartOrders(r, rows, use)
        PROVE  TypeOK'
    <3>1. Goods(BuyerOf[r], rows) \in Baskets
      BY GoodsAreBasket
    <3>2. /\ quantity' \in [Rows -> 0 .. MaxQuantity] /\ writing' = writing
          /\ selected' \subseteq {row \in Rows : quantity'[row] > 0}
      BY <2>1 DEF CreateCartOrders, Drop, TypeOK
    <3>3. QED
      BY <2>1, <3>1, <3>2, PlaceTyped DEF CreateCartOrders, TypeOK, campaignVars
  <2>2. ASSUME NEW r \in Requests, NEW use \in Uses, NEW s \in Skus,
               NEW n \in 1 .. MaxQuantity, CreateOrder(r, s, n, use)
        PROVE  TypeOK'
    <3>1. [t \in Skus |-> IF t = s THEN n ELSE 0] \in Baskets
      BY DEF Baskets
    <3>2. QED
      BY <2>2, <3>1, PlaceTyped DEF CreateOrder, TypeOK, cartVars, campaignVars
  <2>3. ASSUME NEW o \in Orders, CancelOrder(o) \/ PayOrder(o) \/ RefundInFull(o)
        PROVE  TypeOK'
    <3>1. /\ stage' \in [Orders -> Book!Stages] /\ couponOf' = couponOf
          /\ coupon' \in [Coupons -> Book!CouponStatus]
      BY <2>3 DEF TypeOK, CancelOrder, PayOrder, RefundInFull, RestoredTo, Book!Cancel,
                  Book!Pay, Book!Repay, Book!Return, Book!Stages, Book!CouponStatus
    <3>2. QED
      BY <2>3, <3>1
         DEF TypeOK, CancelOrder, PayOrder, RefundInFull, cartVars, campaignVars
  <2>4. QED
    BY <1>2, <2>1, <2>2, <2>3 DEF OrderStep
<1>3. CASE ShopStep
  BY <1>3 DEF ShopStep, ClaimCoupon, EndCampaign, TakeOffSale, PutOnSale, TypeOK,
              bookVars, cartVars, campaignVars
<1>4. CASE UNCHANGED vars
  BY <1>4 DEF vars, TypeOK, bookVars, cartVars, campaignVars
<1>5. QED
  BY <1>1, <1>2, <1>3, <1>4 DEF Next

(* Every row keeps its type; a cart never holds more of a sku than the     *)
(* largest limit, and selects only rows that are there, whichever          *)
(* additions, changes, removals and checkouts overlap.                     *)
THEOREM TypeCorrect == Spec => []TypeOK
  BY InitTypeOK, StepTypeOK, PTL DEF Spec

-----------------------------------------------------------------------------
(* Campaigns *)

(* What was claimed of a campaign, counted.                                *)
Counted(g) ==
  /\ claimedQuantity[g] = Cardinality(Issued(g))
  /\ Cardinality(Issued(g)) <= Total[g]
  /\ \A u \in Users : Cardinality(Held(g, u)) <= PerUser[g]

(* An order names a coupon its buyer has claimed, and is the only one to.  *)
Carried ==
  /\ \A o \in Orders : couponOf[o] \in Coupons =>
       couponOf[o] \in claimed /\ OwnerOf[couponOf[o]] = BuyerOf[o[1]]
  /\ \A o, n \in Orders : couponOf[o] = couponOf[n] /\ couponOf[o] \in Coupons => o = n

(* What DiscountsWithinCampaign follows from.                              *)
CampaignInv == (\A g \in Campaigns : Counted(g)) /\ Carried

(* Coupons are counted in a finite set.                                    *)
LEMMA CouponsFinite ==
  ASSUME NEW S \in SUBSET Coupons
  PROVE  IsFiniteSet(S) /\ Cardinality(S) \in Nat
  BY StorefrontAssumption, FS_Subset, FS_CardinalityType

(* A claim adds one coupon to its campaign and its owner, within limits.   *)
LEMMA ClaimCounted ==
  ASSUME TypeOK, NEW c \in Coupons, ClaimCoupon(c), NEW g \in Campaigns, Counted(g)
  PROVE  Counted(g)'
<1>1. /\ CampaignOf[c] \in Campaigns /\ OwnerOf[c] \in Users
      /\ Total[g] \in Nat /\ PerUser[g] \in Nat /\ claimedQuantity[g] \in Nat
  BY StorefrontAssumption DEF TypeOK
<1>2. /\ c \notin claimed /\ claimed' = claimed \cup {c} /\ claimed \subseteq Coupons
      /\ claimedQuantity' = [claimedQuantity EXCEPT ![CampaignOf[c]] = @ + 1]
      /\ claimedQuantity[CampaignOf[c]] < Total[CampaignOf[c]]
      /\ Cardinality(Held(CampaignOf[c], OwnerOf[c])) < PerUser[CampaignOf[c]]
  BY DEF ClaimCoupon, TypeOK
<1>3. CASE g # CampaignOf[c]
  <2>1. Issued(g)' = Issued(g) /\ \A u \in Users : Held(g, u)' = Held(g, u)
    BY <1>2, <1>3 DEF Issued, Held
  <2>2. claimedQuantity'[g] = claimedQuantity[g]
    BY <1>1, <1>2, <1>3 DEF TypeOK
  <2>3. QED
    BY <2>1, <2>2 DEF Counted
<1>4. CASE g = CampaignOf[c]
  <2>1. Issued(g)' = Issued(g) \cup {c} /\ c \notin Issued(g)
    BY <1>2, <1>4 DEF Issued
  <2>2. Issued(g) \in SUBSET Coupons
    BY <1>2 DEF Issued
  <2>3. Cardinality(Issued(g) \cup {c}) = Cardinality(Issued(g)) + 1
    BY <2>1, <2>2, CouponsFinite, FS_AddElement
  <2>4. claimedQuantity'[g] = claimedQuantity[g] + 1 /\ claimedQuantity[g] < Total[g]
    BY <1>1, <1>2, <1>4 DEF TypeOK
  <2>5. ASSUME NEW u \in Users PROVE Cardinality(Held(g, u)') <= PerUser[g]
    <3>1. Held(g, u) \in SUBSET Coupons /\ c \notin Held(g, u)
      BY <1>2 DEF Issued, Held
    <3>2. CASE u = OwnerOf[c]
      <4>1. Held(g, u)' = Held(g, u) \cup {c}
        BY <1>2, <1>4, <3>2 DEF Issued, Held
      <4>2. Cardinality(Held(g, u) \cup {c}) = Cardinality(Held(g, u)) + 1
        BY <3>1, CouponsFinite, FS_AddElement
      <4>3. Cardinality(Held(g, u)) < PerUser[g] /\ Cardinality(Held(g, u)) \in Nat
        BY <1>2, <1>4, <3>1, <3>2, CouponsFinite
      <4>4. QED
        BY <1>1, <4>1, <4>2, <4>3
    <3>3. CASE u # OwnerOf[c]
      <4>1. Held(g, u)' = Held(g, u)
        BY <1>2, <3>3 DEF Issued, Held
      <4>2. QED
        BY <4>1 DEF Counted
    <3>4. QED
      BY <3>2, <3>3
  <2>6. claimedQuantity[g] = Cardinality(Issued(g))
    BY DEF Counted
  <2>7. Cardinality(Issued(g)') = claimedQuantity'[g] /\ claimedQuantity'[g] <= Total[g]
    BY <1>1, <2>1, <2>3, <2>4, <2>6
  <2>8. QED
    BY <2>5, <2>7 DEF Counted
<1>5. QED
  BY <1>3, <1>4

(* New orders carry coupons of their buyer that no order named before.     *)
LEMMA PlaceCarried ==
  ASSUME TypeOK, Carried, NEW r \in Requests, NEW b \in Baskets, NEW use \in Uses,
         Place(r, b, use), claimed' = claimed
  PROVE  Carried'
<1> DEFINE new  == {r} \X ShopsIn(b)
<1>1. \A o \in new : o \in Orders /\ o[1] = r /\ o[2] \in ShopsIn(b)
  BY StorefrontAssumption DEF ShopsIn, Orders
<1>2. Book!Place(new, [o \in new |-> use[o[2]]])
  BY DEF Place
<1>3. \A sh \in ShopsIn(b) : use[sh] # NoCoupon =>
        use[sh] \in claimed /\ OwnerOf[use[sh]] = BuyerOf[r]
  BY DEF Place, Accepted
<1> HIDE DEF new
<1>4. /\ \A o \in Orders : couponOf'[o] = IF o \in new THEN use[o[2]] ELSE couponOf[o]
      /\ \A o \in new : use[o[2]] # NoCoupon => \A n \in Orders : couponOf[n] # use[o[2]]
      /\ \A o, n \in new : use[o[2]] = use[n[2]] /\ use[o[2]] # NoCoupon => o = n
  BY <1>2 DEF Book!Place, Book!Usable
<1>5. ASSUME NEW o \in Orders, couponOf'[o] \in Coupons
      PROVE  couponOf'[o] \in claimed /\ OwnerOf[couponOf'[o]] = BuyerOf[o[1]]
  <2>1. CASE o \in new
    <3>1. couponOf'[o] = use[o[2]] /\ use[o[2]] # NoCoupon /\ o[1] = r /\ o[2] \in ShopsIn(b)
      BY <1>1, <1>4, <1>5, <2>1, StorefrontAssumption
    <3>2. QED
      BY <1>3, <3>1
  <2>2. CASE o \notin new
    BY <1>4, <1>5, <2>2 DEF Carried
  <2>3. QED
    BY <2>1, <2>2
<1>6. ASSUME NEW o \in Orders, NEW n \in Orders,
             couponOf'[o] = couponOf'[n], couponOf'[o] \in Coupons
      PROVE  o = n
  <2>1. couponOf'[o] # NoCoupon /\ couponOf'[n] # NoCoupon
    BY <1>6, StorefrontAssumption
  <2>2. CASE o \in new /\ n \in new
    BY <1>4, <1>6, <2>1, <2>2
  <2>3. CASE o \in new /\ n \notin new
    BY <1>4, <1>6, <2>1, <2>3
  <2>4. CASE o \notin new /\ n \in new
    BY <1>4, <1>6, <2>1, <2>4
  <2>5. CASE o \notin new /\ n \notin new
    BY <1>4, <1>6, <2>5 DEF Carried
  <2>6. QED
    BY <2>2, <2>3, <2>4, <2>5
<1>7. QED
  BY <1>5, <1>6 DEF Carried

(* Every step keeps the count and the carriers.                            *)
LEMMA StepCampaignInv == TypeOK /\ CampaignInv /\ [Next]_vars => CampaignInv'
<1> SUFFICES ASSUME TypeOK, CampaignInv, [Next]_vars PROVE CampaignInv'
  OBVIOUS
<1> USE StorefrontAssumption
<1>1. ASSUME UNCHANGED <<claimed, claimedQuantity>>
      PROVE  \A g \in Campaigns : Counted(g)'
  BY <1>1 DEF CampaignInv, Counted, Issued, Held
<1>2. ASSUME UNCHANGED couponOf, claimed \subseteq claimed' PROVE Carried'
  BY <1>2 DEF CampaignInv, Carried
<1>3. ASSUME NEW r \in Requests, NEW use \in Uses, NEW b \in Baskets,
             Place(r, b, use), UNCHANGED campaignVars
      PROVE  CampaignInv'
  BY <1>1, <1>3, PlaceCarried DEF CampaignInv, campaignVars
<1>4. CASE CartStep
  <2>1. UNCHANGED <<couponOf, claimed, claimedQuantity>>
    BY <1>4 DEF CartStep, AddItemRead, BuyAgainRead, Read, WriteItem, UpdateItem, DeleteItem,
                SelectItems, bookVars, campaignVars
  <2>2. QED
    BY <1>1, <1>2, <2>1 DEF CampaignInv
<1>5. CASE OrderStep
  <2>1. ASSUME NEW r \in Requests, NEW use \in Uses, NEW rows \in SUBSET Rows,
               CreateCartOrders(r, rows, use)
        PROVE  CampaignInv'
    <3>1. Goods(BuyerOf[r], rows) \in Baskets
      BY GoodsAreBasket
    <3>2. QED
      BY <1>3, <2>1, <3>1 DEF CreateCartOrders
  <2>2. ASSUME NEW r \in Requests, NEW use \in Uses, NEW s \in Skus,
               NEW n \in 1 .. MaxQuantity, CreateOrder(r, s, n, use)
        PROVE  CampaignInv'
    <3>1. [t \in Skus |-> IF t = s THEN n ELSE 0] \in Baskets
      BY DEF Baskets
    <3>2. QED
      BY <1>3, <2>2, <3>1 DEF CreateOrder
  <2>3. ASSUME NEW o \in Orders, CancelOrder(o) \/ PayOrder(o) \/ RefundInFull(o)
        PROVE  CampaignInv'
    BY <1>1, <1>2, <2>3
       DEF CancelOrder, PayOrder, RefundInFull, Book!Cancel, Book!Pay, Book!Repay,
           campaignVars, CampaignInv
  <2>4. QED
    BY <1>5, <2>1, <2>2, <2>3 DEF OrderStep
<1>6. ASSUME NEW c \in Coupons, ClaimCoupon(c) PROVE CampaignInv'
  <2>1. Carried'
    BY <1>2, <1>6 DEF ClaimCoupon, bookVars
  <2>2. QED
    BY <1>6, <2>1, ClaimCounted DEF CampaignInv
<1>7. CASE ShopStep /\ ~\E c \in Coupons : ClaimCoupon(c)
  BY <1>1, <1>2, <1>7
     DEF ShopStep, EndCampaign, TakeOffSale, PutOnSale, bookVars, campaignVars, CampaignInv
<1>8. CASE UNCHANGED vars
  BY <1>1, <1>2, <1>8 DEF vars, bookVars, campaignVars, CampaignInv
<1>9. QED
  BY <1>4, <1>5, <1>6, <1>7, <1>8 DEF Next

(* Before the first claim nothing is counted and nothing carried.          *)
LEMMA InitCampaignInv == Init => CampaignInv
<1> SUFFICES ASSUME Init PROVE CampaignInv
  OBVIOUS
<1>1. ASSUME NEW g \in Campaigns PROVE Counted(g)
  <2>1. Issued(g) = {} /\ \A u \in Users : Held(g, u) = {}
    BY DEF Init, Issued, Held
  <2>2. Total[g] \in Nat /\ PerUser[g] \in Nat /\ claimedQuantity[g] = 0
    BY StorefrontAssumption DEF Init
  <2>3. QED
    BY <2>1, <2>2, FS_EmptySet DEF Counted
<1>2. Carried
  BY StorefrontAssumption DEF Init, Book!Init, Carried
<1>3. QED
  BY <1>1, <1>2 DEF CampaignInv

(* The orders that carry coupons of a set are at most as many as those.    *)
LEMMA CarriersCounted ==
  ASSUME Carried, NEW S \in SUBSET Coupons, NEW O \in SUBSET Orders,
         \A o \in O : couponOf[o] \in S
  PROVE  Cardinality(O) <= Cardinality(S)
<1> DEFINE f == [o \in O |-> couponOf[o]]
<1>1. f \in [O -> S]
  OBVIOUS
<1>2. ASSUME NEW o \in O, NEW n \in O, f[o] = f[n] PROVE o = n
  <2>1. couponOf[o] = couponOf[n] /\ couponOf[o] \in Coupons
    BY <1>2
  <2>2. QED
    BY <2>1 DEF Carried
<1> HIDE DEF f
<1>3. f \in Injection(O, S)
  BY <1>1, <1>2, Fun_IsInj
<1>4. QED
  BY <1>3, CouponsFinite, FS_Injection

(* However often coupons come back from cancelled and repaid orders, a     *)
(* campaign discounts no more orders than it has coupons, and no more of   *)
(* one buyer than it allows.                                               *)
THEOREM DiscountsWithinCampaignAlways == Spec => []DiscountsWithinCampaign
<1>1. TypeOK /\ CampaignInv => DiscountsWithinCampaign
  <2> SUFFICES ASSUME TypeOK, CampaignInv, NEW g \in Campaigns
               PROVE  /\ Cardinality(Carrying(g)) <= Total[g]
                      /\ \A u \in Users :
                           Cardinality({o \in Carrying(g) : BuyerOf[o[1]] = u}) <= PerUser[g]
    BY DEF DiscountsWithinCampaign
  <2>1. Total[g] \in Nat /\ PerUser[g] \in Nat /\ Counted(g) /\ Carried
    BY StorefrontAssumption DEF CampaignInv
  <2>2. Issued(g) \in SUBSET Coupons /\ Cardinality(Issued(g)) \in Nat
    <3>1. Issued(g) \in SUBSET Coupons
      BY DEF TypeOK, Issued
    <3>2. QED
      BY <3>1, CouponsFinite
  <2>3. Cardinality(Carrying(g)) <= Cardinality(Issued(g))
    <3>1. Carrying(g) \in SUBSET Orders /\ \A o \in Carrying(g) : couponOf[o] \in Issued(g)
      BY <2>1 DEF Carrying, Carried, Issued
    <3>2. QED
      BY <2>1, <2>2, <3>1, CarriersCounted
  <2>4. Cardinality(Carrying(g)) <= Total[g]
    <3>1. IsFiniteSet(Carrying(g))
      <4>1. IsFiniteSet(Orders)
        BY StorefrontAssumption, FS_Product DEF Orders
      <4>2. QED
        BY <4>1, FS_Subset DEF Carrying
    <3>2. Cardinality(Carrying(g)) \in Nat
      BY <3>1, FS_CardinalityType
    <3>3. QED
      BY <2>1, <2>2, <2>3, <3>2 DEF Counted
  <2>5. ASSUME NEW u \in Users
        PROVE  Cardinality({o \in Carrying(g) : BuyerOf[o[1]] = u}) <= PerUser[g]
    <3> DEFINE O == {o \in Carrying(g) : BuyerOf[o[1]] = u}
    <3>1. Held(g, u) \in SUBSET Coupons /\ Cardinality(Held(g, u)) <= PerUser[g]
      BY <2>1 DEF TypeOK, Issued, Held, Counted
    <3>2. O \in SUBSET Orders /\ \A o \in O : couponOf[o] \in Held(g, u)
      BY <2>1 DEF Carrying, Carried, Issued, Held
    <3>3. Cardinality(O) <= Cardinality(Held(g, u))
      BY <2>1, <3>1, <3>2, CarriersCounted
    <3>4. IsFiniteSet(O)
      <4>1. IsFiniteSet(Orders)
        BY StorefrontAssumption, FS_Product DEF Orders
      <4>2. QED
        BY <4>1, FS_Subset DEF Carrying
    <3>5. Cardinality(O) \in Nat /\ Cardinality(Held(g, u)) \in Nat
      BY <3>1, <3>4, CouponsFinite, FS_CardinalityType
    <3>6. QED
      BY <2>1, <3>1, <3>3, <3>5
  <2>6. QED
    BY <2>4, <2>5
<1>2. QED
  BY <1>1, InitTypeOK, StepTypeOK, InitCampaignInv, StepCampaignInv, PTL DEF Spec

-----------------------------------------------------------------------------
(* The cart *)

(* A row that a checkout takes is in an order that the checkout placed.    *)
LEMMA CheckoutTakes ==
  ASSUME TypeOK, NEW r \in Requests, NEW rows \in SUBSET Rows, NEW use \in Uses,
         CreateCartOrders(r, rows, use),
         NEW row \in Rows, quantity[row] > 0, quantity'[row] = 0
  PROVE  LET o == <<r, ShopOf[row[2]]>>
         IN  /\ r \in CartRequests /\ BuyerOf[r] = row[1]
             /\ stage[o] = "NONE" /\ stage'[o] # "NONE"
             /\ basket'[o][row[2]] = quantity[row]
<1> DEFINE u == BuyerOf[r]
           s == row[2]
           b == Goods(u, rows)
           sh == ShopOf[s]
           new == {r} \X ShopsIn(b)
<1>1. /\ r \in CartRequests /\ rows \subseteq {x \in selected : x[1] = u}
      /\ Place(r, b, use) /\ Drop(rows)
  BY DEF CreateCartOrders, Bought
<1>2. row \in rows
  BY <1>1 DEF Drop
<1>3. s \in Skus /\ sh \in Shops /\ row[1] = u /\ row = <<u, s>>
  BY <1>1, <1>2, StorefrontAssumption DEF Rows
<1>4. b[s] = quantity[row]
  BY <1>2, <1>3 DEF Goods
<1>5. sh \in ShopsIn(b)
  BY <1>3, <1>4 DEF ShopsIn
<1> HIDE DEF b
<1>6. <<r, sh>> \in new /\ <<r, sh>> \in Orders
  BY <1>3, <1>5 DEF Orders
<1>7. stage[<<r, sh>>] = "NONE"
  BY <1>1, <1>3 DEF Place
<1>8. stage'[<<r, sh>>] # "NONE"
  <2>1. Book!Place(new, [o \in new |-> use[o[2]]])
    BY <1>1 DEF Place
  <2>2. QED
    BY <1>6, <2>1 DEF Book!Place
<1>9. basket'[<<r, sh>>][s] = quantity[row]
  <2>1. basket'[<<r, sh>>] = PartAt(b, sh)
    BY <1>1, <1>6 DEF Place
  <2>2. QED
    BY <1>3, <1>4, <2>1 DEF PartAt
<1>10. QED
  BY <1>1, <1>3, <1>7, <1>8, <1>9

(* No other step but the buyer's takes a row away.                         *)
LEMMA RowTaken ==
  ASSUME TypeOK, [Next]_vars,
         NEW row \in Rows, quantity[row] > 0, quantity'[row] = 0
  PROVE  \/ DeleteItem(row)
         \/ \E r \in Requests, rows \in SUBSET Rows, use \in Uses : CreateCartOrders(r, rows, use)
<1>1. ASSUME quantity' = quantity PROVE FALSE
  BY <1>1
<1>2. CASE CartStep
  <2>1. ASSUME NEW w \in Workers, WriteItem(w) PROVE FALSE
    <3>1. PICK item \in writing[w] : quantity' = [quantity EXCEPT ![item.row] = item.to]
      BY <2>1 DEF WriteItem
    <3>2. item.row \in Rows /\ item.to > 0
      BY <3>1 DEF TypeOK
    <3>3. QED
      BY <3>1, <3>2 DEF TypeOK
  <2>2. ASSUME NEW x \in Rows, NEW n \in 1 .. MaxQuantity, NEW select \in BOOLEAN,
               UpdateItem(x, n, select)
        PROVE  FALSE
    BY <2>2 DEF UpdateItem, TypeOK
  <2>3. ASSUME NEW x \in Rows, DeleteItem(x) PROVE x = row
    BY <2>3 DEF DeleteItem, Drop
  <2>4. ASSUME NEW rows \in SUBSET Rows, NEW select \in BOOLEAN, SelectItems(rows, select)
        PROVE  FALSE
    BY <1>1, <2>4 DEF SelectItems
  <2>5. QED
    BY <1>1, <1>2, <2>1, <2>2, <2>3, <2>4 DEF CartStep, AddItemRead, BuyAgainRead, Read
<1>3. CASE OrderStep
  <2>1. ASSUME NEW r \in Requests, NEW use \in Uses, NEW s \in Skus,
               NEW n \in 1 .. MaxQuantity, CreateOrder(r, s, n, use)
        PROVE  FALSE
    BY <1>1, <2>1 DEF CreateOrder, cartVars
  <2>2. ASSUME NEW o \in Orders, CancelOrder(o) \/ PayOrder(o) \/ RefundInFull(o)
        PROVE  FALSE
    BY <1>1, <2>2 DEF CancelOrder, PayOrder, RefundInFull, cartVars
  <2>3. QED
    BY <1>3, <2>1, <2>2 DEF OrderStep
<1>4. CASE ShopStep
  BY <1>1, <1>4 DEF ShopStep, ClaimCoupon, EndCampaign, TakeOffSale, PutOnSale, cartVars
<1>5. CASE UNCHANGED vars
  BY <1>1, <1>5 DEF vars, cartVars
<1>6. QED
  BY <1>2, <1>3, <1>4, <1>5 DEF Next

(* Whatever overlaps, goods leave a cart by the buyer's hand or into an    *)
(* order of exactly as many, placed in the same step.                      *)
THEOREM CartLeavesAsOrderedAlways == Spec => CartLeavesAsOrdered
<1> DEFINE Left(row) ==
             \/ DeleteItem(row)
             \/ \E r \in CartRequests :
                  LET o == <<r, ShopOf[row[2]]>> IN
                  /\ BuyerOf[r] = row[1]
                  /\ stage[o] = "NONE" /\ stage'[o] # "NONE"
                  /\ basket'[o][row[2]] = quantity[row]
<1>1. ASSUME TypeOK, [Next]_vars
      PROVE  \A row \in Rows : quantity[row] > 0 /\ quantity'[row] = 0 => Left(row)
  <2> SUFFICES ASSUME NEW row \in Rows, quantity[row] > 0, quantity'[row] = 0
               PROVE  Left(row)
    OBVIOUS
  <2>1. CASE DeleteItem(row)
    BY <2>1
  <2>2. ASSUME NEW r \in Requests, NEW rows \in SUBSET Rows, NEW use \in Uses,
               CreateCartOrders(r, rows, use)
        PROVE  Left(row)
    BY <1>1, <2>2, CheckoutTakes
  <2>3. QED
    BY <1>1, <2>1, <2>2, RowTaken
<1>2. TypeOK /\ [Next]_vars
        => [\A row \in Rows : quantity[row] > 0 /\ quantity'[row] = 0 => Left(row)]_vars
  BY <1>1
<1>3. QED
  BY <1>2, TypeCorrect, PTL DEF Spec, CartLeavesAsOrdered
=============================================================================
