----------------------------- MODULE AmountsProofs -----------------------------
(* Theorems about Amounts, for any number of lines, units, prices, coupons *)
(* and claims.                                                             *)
EXTENDS Amounts, Sums

-----------------------------------------------------------------------------
(* Operators *)

(* An order has finitely many lines.                                       *)
LEMMA LinesFinite == IsFiniteSet(Lines)
  BY AmountsAssumption, FS_Interval DEF Lines

(* The greatest of finitely many numbers.                                  *)
LEMMA MaxIsGreatest ==
  ASSUME NEW S, IsFiniteSet(S), S \subseteq Int, S # {}
  PROVE  Max(S) \in S /\ \A x \in S : x <= Max(S)
<1> DEFINE F == {T \in SUBSET S : T = {} \/ \E m \in T : \A x \in T : m >= x}
<1>1. {} \in F
  OBVIOUS
<1>2. ASSUME NEW T \in F, NEW y \in S \ T PROVE T \cup {y} \in F
  <2>1. CASE T = {}
    BY <2>1
  <2>2. CASE T # {}
    <3>1. PICK m \in T : \A x \in T : m >= x
      BY <2>2
    <3>2. CASE m >= y
      BY <3>1, <3>2
    <3>3. CASE ~ (m >= y)
      <4>1. \A x \in T \cup {y} : y >= x
        BY <3>1, <3>3
      <4>2. QED
        BY <4>1
    <3>4. QED
      BY <3>2, <3>3
  <2>3. QED
    BY <2>1, <2>2
<1>3. S \in F
  <2>1. F \in SUBSET SUBSET S
    OBVIOUS
  <2> HIDE DEF F
  <2>2. QED
    BY <1>1, <1>2, <2>1, FamilyGrows
<1>4. PICK m \in S : \A x \in S : m >= x
  BY <1>3
<1>5. Max(S) \in S /\ \A x \in S : Max(S) >= x
  BY <1>4 DEF Max
<1>6. QED
  BY <1>5

(* The units of a claim, without the bound that lets TLC list them.        *)
LEMMA UnitsAre ==
  ASSUME NEW u
  PROVE  u \in Units <=> u \in [Lines -> Nat] /\ \A l \in Lines : u[l] <= Quantity[l]
<1> DEFINE Q == {Quantity[l] : l \in Lines}
<1>1. IsFiniteSet(Q) /\ Q \subseteq Int /\ Q # {}
  <2>1. Quantity \in Surjection(Lines, Q)
    BY AmountsAssumption DEF Surjection
  <2>2. IsFiniteSet(Q)
    BY <2>1, LinesFinite, FS_Surjection
  <2>3. 1 \in Lines
    BY AmountsAssumption DEF Lines
  <2>4. QED
    BY <2>2, <2>3, AmountsAssumption
<1>2. Max(Q) \in Q /\ \A l \in Lines : Quantity[l] <= Max(Q)
  BY <1>1, MaxIsGreatest
<1>3. Max(Q) \in Nat
  BY <1>2, AmountsAssumption
<1>4. Units = {v \in [Lines -> 0 .. Max(Q)] : \A l \in Lines : v[l] <= Quantity[l]}
  BY DEF Units
<1>5. \A l \in Lines : Quantity[l] \in Nat
  BY AmountsAssumption
<1> HIDE DEF Q
<1>6. ASSUME u \in [Lines -> Nat], \A l \in Lines : u[l] <= Quantity[l]
      PROVE  u \in [Lines -> 0 .. Max(Q)]
  BY <1>2, <1>3, <1>5, <1>6
<1>7. QED
  BY <1>3, <1>4, <1>6

-----------------------------------------------------------------------------
(* Prices *)

(* Prices are numbers and a coupon covers lines of the order.              *)
Priced == price \in [Lines -> Nat] /\ eligible \subseteq Lines

(* What lines cost, alone and together, is a number.                       *)
LEMMA GoodsTyped ==
  ASSUME Priced
  PROVE  /\ \A l \in Lines : Goods(l) \in Nat
         /\ IsFiniteSet(eligible) /\ EligibleAmount \in Int /\ GoodsAmount \in Int
<1>1. \A l \in Lines : Goods(l) \in Nat
  BY AmountsAssumption DEF Priced, Goods
<1>2. IsFiniteSet(eligible)
  BY LinesFinite, FS_Subset DEF Priced
<1> DEFINE f == [l \in Lines |-> Goods(l)]
           g == [l \in eligible |-> Goods(l)]
<1>3. /\ DOMAIN f = Lines /\ \A l \in Lines : f[l] \in Int
      /\ DOMAIN g = eligible /\ \A l \in eligible : g[l] \in Int
  BY <1>1 DEF Priced
<1> HIDE DEF f, g
<1>4. SumFunction(f) \in Int
  BY <1>3, LinesFinite, SumFunctionInt
<1>5. SumFunction(g) \in Int
  BY <1>2, <1>3, SumFunctionInt
<1>6. QED
  BY <1>1, <1>2, <1>4, <1>5 DEF EligibleAmount, GoodsAmount, f, g

(* The last line, and the others with their parts of discount d.           *)
LEMMA Parts ==
  ASSUME Priced, eligible # {}, Divides, NEW d \in Nat
  PROVE  LET last == Max(eligible)
             over(l) == Part(l, d) * EligibleAmount - d * Goods(l)
         IN  /\ last \in eligible
             /\ \A l \in eligible \ {last} :
                  /\ EligibleAmount > 0 /\ Part(l, d) \in Int
                  /\ over(l) > -EligibleAmount /\ over(l) <= 0
<1> DEFINE last == Max(eligible)
<1>1. last \in eligible
  <2>1. eligible \subseteq Int
    BY DEF Priced, Lines
  <2>2. QED
    BY <2>1, GoodsTyped, MaxIsGreatest
<1> HIDE DEF last
<1>2. ASSUME NEW l \in eligible \ {last}
      PROVE  /\ EligibleAmount > 0 /\ Part(l, d) \in Int
             /\ Part(l, d) * EligibleAmount - d * Goods(l) > -EligibleAmount
             /\ Part(l, d) * EligibleAmount - d * Goods(l) <= 0
  <2>1. EligibleAmount > 0
    <3>1. Cardinality(eligible) # 1
      <4> SUFFICES ASSUME Cardinality(eligible) = 1 PROVE FALSE
        OBVIOUS
      <4>1. PICK x : eligible = {x}
        BY GoodsTyped, FS_Singleton
      <4>2. QED
        BY <1>1, <4>1
    <3>2. QED
      BY <3>1 DEF Divides
  <2> DEFINE a == d * Goods(l)
             b == EligibleAmount
  <2>2. a \in Int /\ b \in Int /\ b > 0 /\ Part(l, d) = a \div b
    BY <2>1, GoodsTyped DEF Part, Priced
  <2>3. (a \div b) \in Int /\ (a \div b) * b - a > -b /\ (a \div b) * b - a <= 0
    <3> HIDE DEF a, b
    <3>1. QED
      BY <2>2
  <2>4. QED
    BY <2>1, <2>2, <2>3
<1>3. QED
  BY <1>1, <1>2 DEF last

(* The shares make the discount.                                           *)
LEMMA SharesMakeDiscount ==
  ASSUME Priced, eligible # {}, Divides, NEW d \in Nat
  PROVE  LET shares == DistributeDiscount(d)
         IN  /\ shares \in [Lines -> Int]
             /\ SumFunction(shares) = d
<1> DEFINE last == Max(eligible)
           rest == eligible \ {last}
           parts == [l \in rest |-> Part(l, d)]
           taken == SumFunction(parts)
           shares == [l \in Lines |-> CASE l \notin eligible -> 0
                                       [] l = last          -> d - taken
                                       [] OTHER             -> Part(l, d)]
<1>1. DistributeDiscount(d) = shares
  BY DEF DistributeDiscount
<1>2. last \in eligible /\ \A l \in rest : Part(l, d) \in Int
  BY Parts
<1>3. IsFiniteSet(eligible) /\ IsFiniteSet(rest)
  BY GoodsTyped, FS_RemoveElement
<1>4. DOMAIN parts = rest /\ \A l \in rest : parts[l] \in Int /\ parts[l] = Part(l, d)
  BY <1>2
<1> HIDE DEF last, parts
<1>5. taken \in Int
  BY <1>3, <1>4, SumFunctionInt
<1>6. /\ shares[last] = d - taken
      /\ \A l \in rest : shares[l] = parts[l]
      /\ \A l \in Lines \ eligible : shares[l] = 0
  BY <1>2, <1>4 DEF Priced
<1>7. \A l \in Lines : shares[l] \in Int
  BY <1>2, <1>4, <1>5, <1>6 DEF Priced
<1>8. DOMAIN shares = Lines
  OBVIOUS
<1> HIDE DEF shares
<1>9. SumFunctionOnSet(shares, rest) = taken
  <2>1. SumFunctionOnSet(shares, rest) = SumFunctionOnSet(parts, rest)
    BY <1>3, <1>4, <1>6, SumEqual
  <2>2. QED
    BY <1>4, <2>1 DEF SumFunction
<1>10. SumFunctionOnSet(shares, eligible) = d
  <2>1. SumFunctionOnSet(shares, eligible) = shares[last] + SumFunctionOnSet(shares, rest)
    BY <1>2, <1>3, <1>7, SumWithout DEF Priced
  <2>2. QED
    BY <1>5, <1>6, <1>9, <2>1
<1>11. SumFunctionOnSet(shares, Lines \ eligible) = 0
  <2>1. IsFiniteSet(Lines \ eligible)
    BY LinesFinite, FS_Difference
  <2>2. SumFunctionOnSet(shares, Lines \ eligible) = 0 * Cardinality(Lines \ eligible)
    BY <1>6, <2>1, SumOfSame
  <2>3. QED
    BY <2>1, <2>2, FS_CardinalityType
<1>12. SumFunctionOnSet(shares, Lines) = d
  <2>1. IsFiniteSet(Lines \ eligible) /\ eligible \cap (Lines \ eligible) = {}
          /\ eligible \cup (Lines \ eligible) = Lines
    BY LinesFinite, FS_Difference DEF Priced
  <2>2. SumFunctionOnSet(shares, eligible \cup (Lines \ eligible))
          = SumFunctionOnSet(shares, eligible) + SumFunctionOnSet(shares, Lines \ eligible)
    BY <1>3, <1>7, <2>1, SumUnion
  <2>3. QED
    BY <1>10, <1>11, <2>1, <2>2
<1>13. QED
  BY <1>1, <1>7, <1>8, <1>12 DEF SumFunction, shares

(* What the last line gets over its part is what the others lost.          *)
LEMMA SharesAreFair ==
  ASSUME Priced, eligible # {}, EligibleAmount > 0, NEW d \in Nat, NEW l \in eligible
  PROVE  LET over == DistributeDiscount(d)[l] * EligibleAmount - d * Goods(l)
         IN  /\ over > -EligibleAmount
             /\ over <= (Cardinality(eligible) - 1) * (EligibleAmount - 1)
<1> DEFINE E == EligibleAmount
           last == Max(eligible)
           rest == eligible \ {last}
           n == Cardinality(eligible) - 1
           over == DistributeDiscount(d)[l] * E - d * Goods(l)
<1>1. E \in Int /\ E > 0 /\ l \in Lines
  BY GoodsTyped DEF Priced
<1>2. /\ last \in eligible /\ last \in Lines
      /\ \A k \in rest : /\ Part(k, d) \in Int
                          /\ Part(k, d) * E - d * Goods(k) > -E
                          /\ Part(k, d) * E - d * Goods(k) <= 0
  BY Parts DEF Divides, Priced
<1>3. IsFiniteSet(eligible) /\ IsFiniteSet(rest)
  BY GoodsTyped, FS_RemoveElement
<1>4. Cardinality(rest) = n /\ n \in Nat
  BY <1>2, <1>3, FS_RemoveElement, FS_CardinalityType
<1>5. n * (E - 1) >= 0
  BY <1>1, <1>4
<1>6. CASE l \in rest
  <2>1. DistributeDiscount(d)[l] = Part(l, d)
    BY <1>1, <1>6 DEF DistributeDiscount
  <2>2. over > -E /\ over <= 0
    BY <1>2, <1>6, <2>1
  <2>3. over \in Int
    <3>1. Part(l, d) \in Int /\ Goods(l) \in Int
      BY <1>1, <1>2, <1>6, GoodsTyped
    <3>2. QED
      BY <1>1, <2>1, <3>1
  <2>4. over <= n * (E - 1)
    <3> HIDE DEF over, E, n
    <3>1. n * (E - 1) \in Int
      BY <1>1, <1>4
    <3>2. QED
      BY <1>5, <2>2, <2>3, <3>1
  <2>5. QED
    BY <2>2, <2>4
<1>7. CASE l = last
  <2> DEFINE parts == [k \in rest |-> Part(k, d)]
             goods == [k \in rest |-> Goods(k)]
             p == [k \in rest |-> Part(k, d) * E]
             g == [k \in rest |-> d * Goods(k)]
             r == [k \in rest |-> d * Goods(k) - Part(k, d) * E]
             most == [k \in rest |-> E - 1]
             none == [k \in rest |-> 0]
             taken == SumFunctionOnSet(parts, rest)
             others == SumFunctionOnSet(goods, rest)
             lost == SumFunctionOnSet(r, rest)
  <2>1. \A k \in rest : Goods(k) \in Int /\ Part(k, d) \in Int
    BY <1>2, GoodsTyped DEF Priced
  <2>2. \A k \in rest :
          /\ parts[k] \in Int /\ p[k] = E * parts[k] /\ p[k] \in Int
          /\ goods[k] \in Int /\ g[k] = d * goods[k] /\ g[k] \in Int
          /\ r[k] \in Int /\ g[k] = p[k] + r[k]
    BY <1>1, <2>1
  <2>3. \A k \in rest : /\ none[k] = 0 /\ none[k] \in Int /\ most[k] = E - 1 /\ most[k] \in Int
                        /\ r[k] \in Int /\ none[k] <= r[k] /\ r[k] <= most[k]
    BY <1>1, <1>2, <2>1
  <2>4. DistributeDiscount(d)[l] = d - taken
    BY <1>1, <1>2, <1>7 DEF DistributeDiscount, SumFunction
  <2>5. E = Goods(last) + others
    <3> DEFINE f == [k \in eligible |-> Goods(k)]
    <3>1. \A k \in eligible : f[k] \in Int
      BY GoodsTyped DEF Priced
    <3>2. f[last] = Goods(last) /\ \A k \in rest : f[k] \in Int /\ goods[k] = f[k]
      BY <1>2, <3>1
    <3>3. E = SumFunctionOnSet(f, eligible)
      BY DEF EligibleAmount, SumFunction
    <3> HIDE DEF f, goods, last
    <3>4. SumFunctionOnSet(f, eligible) = f[last] + SumFunctionOnSet(f, rest)
      BY <1>2, <1>3, <3>1, SumWithout
    <3>5. SumFunctionOnSet(goods, rest) = SumFunctionOnSet(f, rest)
      BY <1>3, <3>2, SumEqual
    <3>6. QED
      BY <3>2, <3>3, <3>4, <3>5
  <2> HIDE DEF parts, goods, p, g, r, most, none, rest
  <2>6. SumFunctionOnSet(p, rest) = E * taken
    BY <1>1, <1>3, <2>2, SumTimes
  <2>7. SumFunctionOnSet(g, rest) = d * others
    BY <1>3, <2>2, SumTimes
  <2>8. SumFunctionOnSet(g, rest) = SumFunctionOnSet(p, rest) + lost
    BY <1>3, <2>2, SumPlus
  <2>9. lost >= 0
    <3>1. SumFunctionOnSet(none, rest) = 0 * Cardinality(rest)
      BY <1>3, <2>3, SumOfSame
    <3>2. SumFunctionOnSet(none, rest) <= lost
      BY <1>3, <2>3, SumAtMost
    <3>3. QED
      BY <1>4, <3>1, <3>2
  <2>10. lost <= (E - 1) * n
    <3>1. SumFunctionOnSet(most, rest) = (E - 1) * Cardinality(rest)
      BY <1>1, <1>3, <2>3, SumOfSame
    <3>2. lost <= SumFunctionOnSet(most, rest)
      BY <1>3, <2>3, SumAtMost
    <3>3. QED
      BY <1>4, <3>1, <3>2
  <2>11. taken \in Int /\ others \in Int /\ lost \in Int /\ Goods(last) \in Int
    BY <1>2, <1>3, <2>2, SumInt, GoodsTyped
  <2>12. over = lost
    <3>1. over = (d - taken) * E - d * Goods(last)
      BY <1>7, <2>4
    <3>2. d * others = E * taken + lost
      BY <2>6, <2>7, <2>8
    <3> DEFINE a == Goods(last)
    <3>3. E = a + others /\ a \in Int
      BY <2>5, <2>11
    <3> HIDE DEF E, taken, others, lost, over, a
    <3>4. d * E = d * a + d * others
      BY <1>1, <2>11, <3>3
    <3>5. (d - taken) * E = d * E - E * taken
      BY <1>1, <2>11
    <3>6. QED
      BY <1>1, <2>11, <3>1, <3>2, <3>3, <3>4, <3>5 DEF a
  <2>13. over > -E /\ over <= n * (E - 1)
    <3>1. (E - 1) * n = n * (E - 1)
      BY <1>1, <1>4
    <3> HIDE DEF over, E, n, lost
    <3>2. n * (E - 1) \in Int
      BY <1>1, <1>4
    <3>3. QED
      BY <1>1, <2>9, <2>10, <2>11, <2>12, <3>1, <3>2
  <2>14. QED
    BY <2>13
<1>8. QED
  BY <1>6, <1>7

-----------------------------------------------------------------------------
(* The order *)

(* What the lines cost less their shares.                                  *)
LEMMA PayableSum ==
  ASSUME Priced, NEW s \in [Lines -> Int]
  PROVE  SumFunction([l \in Lines |-> Goods(l) - s[l]]) = GoodsAmount - SumFunction(s)
<1> DEFINE f == [l \in Lines |-> Goods(l) - s[l]]
           g == [l \in Lines |-> Goods(l)]
<1>1. \A l \in Lines : f[l] \in Int /\ s[l] \in Int /\ g[l] = f[l] + s[l]
  BY GoodsTyped
<1>2. /\ SumFunction(f) = SumFunctionOnSet(f, Lines) /\ SumFunction(s) = SumFunctionOnSet(s, Lines)
      /\ GoodsAmount = SumFunctionOnSet(g, Lines)
  BY DEF SumFunction, GoodsAmount
<1> HIDE DEF f, g
<1>3. SumFunctionOnSet(g, Lines) = SumFunctionOnSet(f, Lines) + SumFunctionOnSet(s, Lines)
  BY <1>1, LinesFinite, SumPlus
<1>4. SumFunctionOnSet(f, Lines) \in Int /\ SumFunctionOnSet(s, Lines) \in Int
  BY <1>1, LinesFinite, SumInt
<1>5. QED
  BY <1>2, <1>3, <1>4 DEF f

(* Before it is placed nothing was taken off an order or given back.       *)
Unplaced ==
  ~ placed =>
    /\ share = Nothing /\ discount = 0 /\ shipping = 0
    /\ \A c \in Claims : sale[c] = "NONE"
    /\ claimed = Nothing /\ back = Nothing /\ pieces = Nothing
    /\ refunded = 0

(* With these units nothing is left to come back.                          *)
TakesAll(u) == \A l \in Lines : claimed[l] + u[l] >= Quantity[l]

(* A claim asks for what its units are worth at most, and for the shipping *)
(* only if nothing is left besides them.                                   *)
AsksFor(c) ==
  /\ units[c] # Nothing
  /\ asked[c] <= ItemAmount(units[c]) + (IF TakesAll(units[c]) THEN shipping ELSE 0)

Claiming == \A c \in Claims : sale[c] # "NONE" => AsksFor(c)

(* Everything that was bought has come back.                               *)
AllClaimed == \A l \in Lines : claimed[l] = Quantity[l]

(* No more came back than was bought.                                      *)
NoneTwice == \A l \in Lines : claimed[l] <= Quantity[l]

(* Then no more is refunded than units brought back, and the shipping at   *)
(* the very end.                                                           *)
RefundsAreBack ==
  NoneTwice => refunded <= SumFunction(back) + (IF AllClaimed THEN shipping ELSE 0)

(* The inductive invariant.                                                *)
Inv ==
  /\ TypeOK /\ Unplaced /\ Claiming
  /\ DiscountIsSpread /\ RefundsFollowUnits /\ RefundsAreBack

(* The types, line by line.                                                *)
LEMMA Types ==
  ASSUME TypeOK
  PROVE  /\ Priced /\ shipping \in Nat
         /\ \A l \in Lines : /\ Quantity[l] \in Nat /\ Quantity[l] > 0
                             /\ Goods(l) \in Nat /\ share[l] \in Nat /\ Payable(l) \in Nat
                             /\ claimed[l] \in Nat /\ pieces[l] \in Nat /\ back[l] \in Nat
         /\ refunded \in Nat /\ Paid \in Int
<1>1. Priced /\ shipping \in Nat
  <2>1. Prices \subseteq Nat /\ Fees \subseteq Nat
    BY AmountsAssumption
  <2>2. price \in [Lines -> Prices] /\ eligible \subseteq Lines /\ shipping \in Fees \cup {0}
    BY DEF TypeOK
  <2>3. price \in [Lines -> Nat]
    BY <2>1, <2>2
  <2>4. QED
    BY <2>1, <2>2, <2>3 DEF Priced
<1>2. \A l \in Lines : /\ Quantity[l] \in Nat /\ Quantity[l] > 0
                      /\ Goods(l) \in Nat /\ share[l] \in Nat /\ Payable(l) \in Nat
  BY <1>1, GoodsTyped, AmountsAssumption DEF TypeOK, Payable
<1>3. Paid \in Int
  BY <1>1, GoodsTyped DEF TypeOK, Paid
<1>4. QED
  BY <1>1, <1>2, <1>3 DEF TypeOK

(* The claim on no units.                                                  *)
LEMMA NothingTyped ==
  /\ Nothing \in [Lines -> Nat] /\ Nothing \in Units
  /\ \A l \in Lines : Nothing[l] = 0
  /\ SumFunction(Nothing) = 0
<1>1. Nothing \in [Lines -> Nat] /\ \A l \in Lines : Nothing[l] = 0
  BY DEF Nothing
<1>2. Nothing \in Units
  BY <1>1, UnitsAre, AmountsAssumption
<1>3. SumFunction(Nothing) = 0 * Cardinality(Lines)
  BY <1>1, LinesFinite, SumOfSame DEF SumFunction
<1>4. QED
  BY <1>1, <1>2, <1>3, LinesFinite, FS_CardinalityType

(* A basket before it is ordered.                                          *)
LEMMA InitInv == Init => Inv
<1> SUFFICES ASSUME Init PROVE Inv
  OBVIOUS
<1>1. Priced
  <2>1. Prices \subseteq Nat
    BY AmountsAssumption
  <2>2. price \in [Lines -> Prices] /\ eligible \subseteq Lines
    BY DEF Init
  <2>3. QED
    BY <2>1, <2>2 DEF Priced
<1>2. \A l \in Lines : Goods(l) \in Nat /\ Payable(l) = Goods(l)
  BY <1>1, GoodsTyped, NothingTyped DEF Init, Payable
<1> DEFINE f == [l \in Lines |-> Payable(l)]
<1>3. Paid = GoodsAmount /\ GoodsAmount = SumFunction(f)
  BY <1>1, <1>2, GoodsTyped DEF Init, Paid, GoodsAmount
<1>4. SumFunction(f) \in Nat
  <2>1. DOMAIN f = Lines /\ \A l \in Lines : f[l] \in Nat
    BY <1>2
  <2> HIDE DEF f
  <2>2. QED
    BY <2>1, LinesFinite, SumNat DEF SumFunction
<1> HIDE DEF f
<1>5. TypeOK
  <2>1. placed \in BOOLEAN /\ price \in [Lines -> Prices] /\ eligible \subseteq Lines
    BY DEF Init
  <2>2. share \in [Lines -> Nat] /\ discount \in Nat /\ shipping \in Fees \cup {0}
    BY NothingTyped DEF Init
  <2>3. /\ sale \in [Claims -> Active \cup {"NONE", "REJECTED"}]
        /\ units \in [Claims -> Units] /\ asked \in [Claims -> Nat]
        /\ claimed \in [Lines -> Nat] /\ back \in [Lines -> Nat] /\ pieces \in [Lines -> Nat]
    BY NothingTyped DEF Init
  <2>4. \A l \in Lines : Payable(l) >= 0
    BY <1>2
  <2>5. refunded \in Nat /\ refunded <= Paid
    BY <1>3, <1>4 DEF Init
  <2>6. QED
    BY <2>1, <2>2, <2>3, <2>4, <2>5 DEF TypeOK
<1>6. DiscountIsSpread
  BY <1>3, <1>4 DEF Init, DiscountIsSpread, f
<1>7. RefundsFollowUnits
  <2>1. \A l \in Lines : Quantity[l] \in Nat
    BY AmountsAssumption
  <2>2. \A l \in Lines : Payable(l) \in Nat /\ claimed[l] = 0 /\ back[l] = 0 /\ pieces[l] = 0
    BY <1>2, NothingTyped DEF Init
  <2>3. QED
    BY <2>1, <2>2 DEF RefundsFollowUnits
<1>8. RefundsAreBack
  BY NothingTyped DEF Init, RefundsAreBack
<1>9. QED
  BY <1>5, <1>6, <1>7, <1>8, NothingTyped DEF Init, Inv, Unplaced, Claiming

-----------------------------------------------------------------------------
(* Pricing the order *)

(* An order that is written with shares that make its discount.            *)
LEMMA PlaceKeeps ==
  ASSUME Inv, NEW shares \in [Lines -> Int], NEW d \in Nat, Place(shares, d),
         Writable(shares), SumFunction(shares) = d,
         d > 0 => \A l \in eligible :
           LET over == shares[l] * EligibleAmount - d * Goods(l)
           IN  over > -EligibleAmount /\ over <= (Cardinality(eligible) - 1) * (EligibleAmount - 1)
  PROVE  Inv'
<1>1. /\ Priced /\ Priced' /\ ~ placed /\ placed'
      /\ price' = price /\ eligible' = eligible /\ share' = shares /\ discount' = d
      /\ sale' = sale /\ units' = units /\ asked' = asked /\ claimed' = claimed
      /\ back' = back /\ pieces' = pieces /\ refunded' = refunded
  <2>1. Priced
    BY Types DEF Inv
  <2>2. QED
    BY <2>1 DEF Place, claimVars, refundVars, Priced
<1>2. /\ \A c \in Claims : sale[c] = "NONE"
      /\ claimed = Nothing /\ back = Nothing /\ pieces = Nothing /\ refunded = 0
  BY <1>1 DEF Inv, Unplaced
<1>3. shipping' \in Fees \cup {0} /\ shipping' \in Nat
  <2>1. Fees \subseteq Nat
    BY AmountsAssumption
  <2>2. PICK fee \in Fees : shipping' = ShippingAmount(fee)
    BY DEF Place
  <2>3. QED
    BY <2>1, <2>2 DEF ShippingAmount
<1>4. /\ \A l \in Lines : Goods(l)' = Goods(l)
      /\ GoodsAmount' = GoodsAmount /\ EligibleAmount' = EligibleAmount
  BY <1>1 DEF Goods, GoodsAmount, EligibleAmount
<1>5. \A l \in Lines : Payable(l)' = Goods(l) - shares[l]
  BY <1>1, <1>4 DEF Payable
<1>6. \A l \in Lines : /\ Goods(l) \in Nat /\ shares[l] \in Nat
                       /\ Goods(l) - shares[l] \in Nat
  BY <1>1, GoodsTyped DEF Writable
<1> DEFINE f == [l \in Lines |-> Goods(l) - shares[l]]
<1>7. [l \in Lines |-> Payable(l)]' = f
  BY <1>5
<1>8. SumFunction(f) = GoodsAmount - d
  BY <1>1, PayableSum
<1>9. SumFunction(f) \in Nat
  <2>1. DOMAIN f = Lines /\ \A l \in Lines : f[l] \in Nat
    BY <1>6
  <2> HIDE DEF f
  <2>2. QED
    BY <2>1, LinesFinite, SumNat DEF SumFunction
<1> HIDE DEF f
<1>10. Paid' = SumFunction(f) + shipping'
  BY <1>1, <1>3, <1>4, <1>8, GoodsTyped DEF Paid
<1>11. TypeOK'
  <2>1. placed' \in BOOLEAN /\ price' \in [Lines -> Prices] /\ (eligible \subseteq Lines)'
    BY <1>1 DEF Inv, TypeOK
  <2>2. shares \in [Lines -> Nat]
    BY <1>6
  <2>3. \A l \in Lines : Payable(l)' >= 0
    BY <1>5, <1>6
  <2>4. /\ sale' \in [Claims -> Active \cup {"NONE", "REJECTED"}]
        /\ units' \in [Claims -> Units] /\ asked' \in [Claims -> Nat]
        /\ claimed' \in [Lines -> Nat] /\ back' \in [Lines -> Nat] /\ pieces' \in [Lines -> Nat]
    BY <1>1 DEF Inv, TypeOK
  <2>5. refunded' \in Nat /\ refunded' <= Paid'
    BY <1>1, <1>2, <1>3, <1>9, <1>10
  <2>6. QED
    BY <1>1, <1>3, <2>1, <2>2, <2>3, <2>4, <2>5 DEF TypeOK
<1>12. DiscountIsSpread'
  <2>1. (Paid = SumFunction([l \in Lines |-> Payable(l)]) + shipping)'
    BY <1>7, <1>10
  <2>2. ASSUME discount' > 0, NEW l \in eligible
        PROVE  LET over == shares[l] * EligibleAmount - d * Goods(l)
               IN  over > -EligibleAmount /\ over <= (Cardinality(eligible) - 1) * (EligibleAmount - 1)
    BY <1>1, <2>2
  <2>3. \A l \in eligible : l \in Lines
    BY <1>1 DEF Priced
  <2>4. QED
    BY <1>1, <1>4, <2>1, <2>2, <2>3 DEF DiscountIsSpread
<1>13. RefundsFollowUnits'
  <2>1. \A l \in Lines : Quantity[l] \in Nat
    BY AmountsAssumption
  <2>2. \A l \in Lines : Payable(l)' \in Nat /\ claimed'[l] = 0 /\ back'[l] = 0 /\ pieces'[l] = 0
    BY <1>1, <1>2, <1>5, <1>6, NothingTyped
  <2>3. QED
    BY <2>1, <2>2 DEF RefundsFollowUnits
<1>14. RefundsAreBack'
  <2>1. SumFunction(back)' = 0 /\ refunded' = 0
    BY <1>1, <1>2, NothingTyped
  <2> DEFINE x == IF AllClaimed' THEN shipping' ELSE 0
  <2>2. x \in Nat
    BY <1>3
  <2> HIDE DEF x
  <2>3. 0 <= 0 + x
    BY <2>2
  <2>4. refunded' <= SumFunction(back)' + x
    BY <2>1, <2>3
  <2>5. QED
    BY <2>4 DEF RefundsAreBack, x
<1>15. Unplaced' /\ Claiming'
  BY <1>1, <1>2, NothingTyped DEF Unplaced, Claiming
<1>16. QED
  BY <1>11, <1>12, <1>13, <1>14, <1>15 DEF Inv

(* Without a coupon the shares are nothing.                                *)
LEMMA PlainKeeps ==
  ASSUME Inv, PlacePlainOrder
  PROVE  Inv'
<1>1. Priced
  BY Types DEF Inv
<1>2. Writable(Nothing)
  BY <1>1, GoodsTyped, NothingTyped DEF Writable
<1>3. Nothing \in [Lines -> Int]
  BY NothingTyped
<1>4. QED
  BY <1>2, <1>3, NothingTyped, PlaceKeeps DEF PlacePlainOrder

(* With a coupon they are what distributeDiscount returns.                 *)
LEMMA CouponKeeps ==
  ASSUME Inv, NEW c \in Coupons, PlaceCouponOrder(c)
  PROVE  Inv'
<1> DEFINE d == Min({c.discount, EligibleAmount})
           shares == DistributeDiscount(d)
<1>1. Priced
  BY Types DEF Inv
<1>2. c.discount \in Nat /\ c.threshold \in Nat
  BY AmountsAssumption
<1>3. EligibleAmount \in Int /\ EligibleAmount >= c.threshold /\ eligible # {} /\ Divides
  BY <1>1, GoodsTyped DEF PlaceCouponOrder
<1>4. d \in Nat /\ d <= EligibleAmount
  <2> DEFINE E == EligibleAmount
  <2>1. c.discount \in Int /\ E \in Int
    BY <1>2, <1>3
  <2>2. d = IF c.discount <= E THEN c.discount ELSE E
    <3> HIDE DEF E
    <3>1. Min({c.discount, E}) = IF c.discount <= E THEN c.discount ELSE E
      BY <2>1 DEF Min
    <3>2. QED
      BY <3>1 DEF E
  <2>3. QED
    BY <1>2, <1>3, <2>2
<1>5. Writable(shares) /\ Place(shares, d)
  BY DEF PlaceCouponOrder
<1> HIDE DEF d
<1>6. shares \in [Lines -> Int] /\ SumFunction(shares) = d
  BY <1>1, <1>3, <1>4, SharesMakeDiscount
<1>7. ASSUME d > 0, NEW l \in eligible
      PROVE  LET over == shares[l] * EligibleAmount - d * Goods(l)
             IN  over > -EligibleAmount /\ over <= (Cardinality(eligible) - 1) * (EligibleAmount - 1)
  <2>1. EligibleAmount > 0
    BY <1>3, <1>4, <1>7
  <2>2. QED
    BY <1>1, <1>3, <1>4, <2>1, SharesAreFair
<1> HIDE DEF shares
<1>8. QED
  BY <1>4, <1>5, <1>6, <1>7, PlaceKeeps

-----------------------------------------------------------------------------
(* Claims *)

(* The part of u units of Q in an amount P, rounded down.                  *)
LEMMA PartRounded ==
  ASSUME NEW P \in Nat, NEW Q \in Nat, Q > 0, NEW u \in Nat
  PROVE  LET part == (P * u) \div Q
         IN  part \in Nat /\ P * u - part * Q >= 0 /\ P * u - part * Q <= Q - 1
<1> DEFINE a == P * u
<1>1. a \in Nat
  OBVIOUS
<1> HIDE DEF a
<1>2. (a \div Q) \in Nat /\ a - (a \div Q) * Q >= 0 /\ a - (a \div Q) * Q <= Q - 1
  BY <1>1
<1>3. QED
  BY <1>2 DEF a

(* Parts of c and of u units that are no more than Q make no more than P.  *)
LEMMA PartsFit ==
  ASSUME NEW P \in Nat, NEW Q \in Nat, Q > 0, NEW u \in Nat, NEW c \in Nat, c + u <= Q,
         NEW part \in Nat, part * Q <= P * u, NEW b \in Nat, b * Q <= P * c
  PROVE  part + b <= P
<1>1. (part + b) * Q = part * Q + b * Q /\ P * (c + u) = P * c + P * u
  OBVIOUS
<1>2. P * (c + u) <= P * Q
  OBVIOUS
<1>3. (part + b) * Q <= P * Q
  <2> DEFINE x == part * Q
             y == b * Q
             v == P * u
             w == P * c
             z == P * Q
  <2>1. x \in Int /\ y \in Int /\ v \in Int /\ w \in Int /\ z \in Int
    OBVIOUS
  <2>2. (part + b) * Q = x + y /\ w + v <= z /\ x <= v /\ y <= w
    BY <1>1, <1>2
  <2> HIDE DEF x, y, v, w, z
  <2>3. x + y <= z
    BY <2>1, <2>2
  <2>4. QED
    BY <2>2, <2>3 DEF z
<1>4. CASE part + b >= P + 1
  <2>1. (part + b) * Q >= (P + 1) * Q
    BY <1>4
  <2>2. (P + 1) * Q = P * Q + Q /\ P * Q \in Int /\ (part + b) * Q \in Int
    OBVIOUS
  <2>3. QED
    BY <1>3, <2>1, <2>2
<1>5. QED
  BY <1>4

(* A part of what a line cost, rounded down by less than a cent.           *)
LEMMA RefundAmountTyped ==
  ASSUME TypeOK, NEW u \in Units, NEW l \in Lines
  PROVE  /\ u[l] \in Nat /\ u[l] <= Quantity[l]
         /\ RefundAmount(l, u) \in Nat
         /\ Payable(l) * u[l] - RefundAmount(l, u) * Quantity[l] >= 0
         /\ Payable(l) * u[l] - RefundAmount(l, u) * Quantity[l] <= Quantity[l] - 1
<1>1. u[l] \in Nat /\ u[l] <= Quantity[l]
  BY UnitsAre
<1>2. Payable(l) \in Nat /\ Quantity[l] \in Nat /\ Quantity[l] > 0
  BY Types
<1>3. QED
  BY <1>1, <1>2, PartRounded DEF RefundAmount

(* What a claim asks for its lines is a number.                            *)
LEMMA ItemAmountTyped ==
  ASSUME TypeOK, NEW u \in Units
  PROVE  ItemAmount(u) \in Nat /\ RequestedAmount(u) \in Nat
<1> DEFINE f == [l \in Lines |-> RefundAmount(l, u)]
<1>1. DOMAIN f = Lines /\ \A l \in Lines : f[l] \in Nat
  BY RefundAmountTyped
<1> HIDE DEF f
<1>2. SumFunction(f) \in Nat
  BY <1>1, LinesFinite, SumNat DEF SumFunction
<1>3. QED
  BY <1>2, Types DEF ItemAmount, RequestedAmount, f

(* A claim on all that is left is about every line, and takes its last     *)
(* units.                                                                  *)
LEMMA LastUnits ==
  ASSUME TypeOK, NEW u \in Units, AllItemsAndQuantity(u)
  PROVE  \A l \in Lines : u[l] > 0 /\ claimed[l] + u[l] = Quantity[l]
<1> SUFFICES ASSUME NEW l \in Lines PROVE u[l] > 0 /\ claimed[l] + u[l] = Quantity[l]
  OBVIOUS
<1>1. Previous(l, u) + u[l] = Quantity[l] /\ Quantity[l] \in Nat /\ Quantity[l] > 0
  BY Types DEF AllItemsAndQuantity
<1>2. u[l] \in Nat
  BY UnitsAre
<1>3. QED
  BY <1>1, <1>2 DEF Previous

(* Claims change nothing of what the order costs.                          *)
LEMMA OrderStays ==
  ASSUME UNCHANGED orderVars
  PROVE  /\ placed' = placed /\ share' = share /\ discount' = discount /\ shipping' = shipping
         /\ \A l : Payable(l)' = Payable(l)
         /\ Paid' = Paid
         /\ DiscountIsSpread => DiscountIsSpread'
<1>1. /\ placed' = placed /\ price' = price /\ eligible' = eligible /\ share' = share
      /\ discount' = discount /\ shipping' = shipping
  BY DEF orderVars
<1>2. \A l : Goods(l)' = Goods(l) /\ Payable(l)' = Payable(l)
  BY <1>1 DEF Goods, Payable
<1>3. GoodsAmount' = GoodsAmount /\ EligibleAmount' = EligibleAmount
  BY <1>1, <1>2 DEF GoodsAmount, EligibleAmount
<1>4. Paid' = Paid
  BY <1>1, <1>3 DEF Paid
<1>5. DiscountIsSpread => DiscountIsSpread'
  BY <1>1, <1>2, <1>3, <1>4 DEF DiscountIsSpread
<1>6. QED
  BY <1>1, <1>2, <1>4, <1>5

(* What units are worth depends on the order, and whether they are the     *)
(* last on the units that came back, of which there are ever more.         *)
LEMMA AskedStays ==
  ASSUME Inv, UNCHANGED orderVars, \A l \in Lines : claimed'[l] \in Nat /\ claimed'[l] >= claimed[l],
         NEW c \in Claims, AsksFor(c), units'[c] = units[c], asked'[c] = asked[c]
  PROVE  AsksFor(c)'
<1> DEFINE u == units[c]
<1>1. shipping' = shipping /\ \A l : Payable(l)' = Payable(l)
  BY OrderStays
<1>2. ItemAmount(units[c])' = ItemAmount(u)
  <2>1. \A l \in Lines : RefundAmount(l, units[c])' = RefundAmount(l, u)
    BY <1>1 DEF RefundAmount
  <2>2. QED
    BY <2>1 DEF ItemAmount
<1>3. TypeOK /\ u \in Units /\ asked[c] \in Nat /\ shipping \in Nat
  BY Types DEF Inv, TypeOK
<1>4. ItemAmount(u) \in Nat
  BY <1>3, ItemAmountTyped
<1>5. \A l \in Lines : u[l] \in Nat /\ claimed[l] \in Nat /\ Quantity[l] \in Nat
  BY <1>3, Types, UnitsAre
<1>6. TakesAll(u) => TakesAll(units[c])'
  BY <1>5 DEF TakesAll
<1>7. QED
  BY <1>1, <1>2, <1>3, <1>4, <1>6 DEF AsksFor

(* Opening and turning down a claim leaves what was refunded as it is.     *)
LEMMA RefundsStay ==
  ASSUME Inv, UNCHANGED <<orderVars, refundVars>>
  PROVE  DiscountIsSpread' /\ RefundsFollowUnits' /\ RefundsAreBack'
<1>1. /\ claimed' = claimed /\ back' = back /\ pieces' = pieces /\ refunded' = refunded
      /\ shipping' = shipping /\ \A l : Payable(l)' = Payable(l)
  BY OrderStays DEF refundVars
<1>2. DiscountIsSpread'
  BY OrderStays DEF Inv
<1>3. RefundsFollowUnits'
  BY <1>1 DEF Inv, RefundsFollowUnits
<1>4. RefundsAreBack'
  <2>1. AllClaimed' <=> AllClaimed
    BY <1>1 DEF AllClaimed
  <2>2. QED
    BY <1>1, <2>1 DEF Inv, RefundsAreBack, NoneTwice
<1>5. QED
  BY <1>2, <1>3, <1>4

(* A claim asks for what its units are worth.                              *)
LEMMA CreateKeeps ==
  ASSUME Inv, NEW c \in Claims, NEW u \in Units, CreateAfterSale(c, u)
  PROVE  Inv'
<1>1. /\ placed /\ u # Nothing /\ UNCHANGED <<orderVars, refundVars>>
      /\ sale' = [sale EXCEPT ![c] = "PENDING"]
      /\ units' = [units EXCEPT ![c] = u]
      /\ asked' = [asked EXCEPT ![c] = RequestedAmount(u)]
  BY DEF CreateAfterSale
<1>2. placed' /\ Paid' = Paid /\ \A l : Payable(l)' = Payable(l)
  BY <1>1, OrderStays
<1>3. TypeOK /\ RequestedAmount(u) \in Nat /\ ItemAmount(u) \in Nat /\ shipping \in Nat
  BY Types, ItemAmountTyped DEF Inv
<1>4. TypeOK'
  BY <1>1, <1>2, <1>3 DEF TypeOK, orderVars, refundVars, Active
<1>5. AsksFor(c)'
  <2>1. AllItemsAndQuantity(u) => TakesAll(u)
    <3> SUFFICES ASSUME AllItemsAndQuantity(u), NEW l \in Lines
                 PROVE  claimed[l] + u[l] >= Quantity[l]
      BY DEF TakesAll
    <3>1. claimed[l] + u[l] = Quantity[l] /\ Quantity[l] \in Nat
      BY <1>3, LastUnits, Types
    <3>2. QED
      BY <3>1
  <2>2. /\ units'[c] = u /\ asked'[c] = RequestedAmount(u)
        /\ shipping' = shipping /\ claimed' = claimed
    BY <1>1, <1>3 DEF TypeOK, orderVars, refundVars
  <2>3. ItemAmount(units[c])' = ItemAmount(u) /\ TakesAll(units[c])' = TakesAll(u)
    <3>1. \A l \in Lines : RefundAmount(l, units[c])' = RefundAmount(l, u)
      BY <1>2, <2>2 DEF RefundAmount
    <3>2. QED
      BY <2>2, <3>1 DEF ItemAmount, TakesAll
  <2>4. RequestedAmount(u) <= ItemAmount(u) + (IF TakesAll(u) THEN shipping ELSE 0)
    BY <1>3, <2>1 DEF RequestedAmount
  <2>5. QED
    BY <1>1, <2>2, <2>3, <2>4 DEF AsksFor
<1>6. ASSUME NEW d \in Claims, sale'[d] # "NONE" PROVE AsksFor(d)'
  <2>1. CASE d = c
    BY <1>5, <2>1
  <2>2. CASE d # c
    <3>1. sale'[d] = sale[d] /\ units'[d] = units[d] /\ asked'[d] = asked[d]
      BY <1>1, <1>3, <2>2 DEF TypeOK
    <3>2. \A l \in Lines : claimed'[l] \in Nat /\ claimed'[l] >= claimed[l]
      BY <1>1, <1>3, Types DEF refundVars
    <3>3. AsksFor(d)
      BY <1>6, <3>1 DEF Inv, Claiming
    <3>4. QED
      BY <1>1, <3>1, <3>2, <3>3, AskedStays
  <2>3. QED
    BY <2>1, <2>2
<1>7. Unplaced' /\ Claiming'
  BY <1>2, <1>6 DEF Unplaced, Claiming
<1>8. QED
  BY <1>1, <1>4, <1>7, RefundsStay DEF Inv

(* A claim that is rejected, taken up by arbitration or forgotten leaves   *)
(* what was refunded as it was.                                            *)
LEMMA VerdictKeeps ==
  ASSUME Inv, NEW c \in Claims,
         RejectAfterSale(c) \/ RequestArbitration(c) \/ RejectInArbitration(c)
  PROVE  Inv'
<1>1. UNCHANGED <<orderVars, refundVars>>
  BY DEF RejectAfterSale, RequestArbitration, RejectInArbitration
<1>2. placed' = placed /\ Paid' = Paid /\ \A l : Payable(l)' = Payable(l)
  BY <1>1, OrderStays
<1>3. TypeOK /\ Nothing \in Units
  BY NothingTyped DEF Inv
<1>4. TypeOK'
  BY <1>1, <1>2, <1>3
     DEF RejectAfterSale, RequestArbitration, RejectInArbitration, Forget, TypeOK,
         orderVars, refundVars, Active
<1>5. ASSUME NEW d \in Claims, sale'[d] # "NONE"
      PROVE  sale[d] # "NONE" /\ units'[d] = units[d] /\ asked'[d] = asked[d]
  BY <1>3, <1>5
     DEF RejectAfterSale, RequestArbitration, RejectInArbitration, Forget, TypeOK
<1>6. Claiming'
  <2>1. \A l \in Lines : claimed'[l] \in Nat /\ claimed'[l] >= claimed[l]
    BY <1>1, <1>3, Types DEF refundVars
  <2>2. ASSUME NEW d \in Claims, sale'[d] # "NONE" PROVE AsksFor(d)'
    BY <1>1, <1>5, <2>1, <2>2, AskedStays DEF Inv, Claiming
  <2>3. QED
    BY <2>2 DEF Claiming
<1>7. Unplaced'
  <2>1. ~ placed => \A d \in Claims : sale'[d] = "NONE"
    BY <1>5 DEF Inv, Unplaced
  <2>2. QED
    BY <1>1, <1>2, <2>1 DEF Inv, Unplaced, orderVars, refundVars
<1>8. QED
  BY <1>1, <1>4, <1>6, <1>7, RefundsStay DEF Inv

(* A refunded claim adds its units and their worth.                        *)
LEMMA CompleteKeeps ==
  ASSUME Inv, NEW c \in Claims, NEW g \in 1 .. asked[c], CompleteRefund(c, g)
  PROVE  Inv'
<1> DEFINE claim == units[c]
<1>1. /\ sale[c] # "NONE" /\ UNCHANGED orderVars
      /\ refunded' = refunded + g /\ refunded + g <= Paid
      /\ claimed' = [l \in Lines |-> claimed[l] + claim[l]]
      /\ back' = [l \in Lines |-> back[l] + RefundAmount(l, claim)]
      /\ pieces' = [l \in Lines |-> pieces[l] + (IF claim[l] > 0 THEN 1 ELSE 0)]
      /\ Forget(c)
  BY DEF CompleteRefund, Active
<1>2. /\ placed' = placed /\ shipping' = shipping /\ Paid' = Paid
      /\ \A l : Payable(l)' = Payable(l)
  BY <1>1, OrderStays
<1>3. /\ TypeOK /\ Paid \in Int /\ refunded \in Nat /\ asked[c] \in Nat /\ shipping \in Nat
      /\ g \in Nat /\ g <= asked[c] /\ claim \in Units /\ Nothing \in Units
  BY Types, NothingTyped DEF Inv, TypeOK
<1>4. placed /\ AsksFor(c)
  BY <1>1 DEF Inv, Claiming, Unplaced
<1>5. \A l \in Lines : /\ Quantity[l] \in Nat /\ Quantity[l] > 0 /\ Payable(l) \in Nat
                       /\ claim[l] \in Nat /\ claimed[l] \in Nat /\ pieces[l] \in Nat
                       /\ back[l] \in Nat
  BY <1>3, Types, UnitsAre
<1>6. claim # Nothing
  BY <1>4 DEF AsksFor
<1>7. \A l \in Lines :
        /\ RefundAmount(l, claim) \in Nat
        /\ Payable(l) * claim[l] - RefundAmount(l, claim) * Quantity[l] >= 0
        /\ Payable(l) * claim[l] - RefundAmount(l, claim) * Quantity[l] <= Quantity[l] - 1
  BY <1>3, RefundAmountTyped
<1>8. \A l \in Lines :
        /\ claimed'[l] = claimed[l] + claim[l] /\ back'[l] = back[l] + RefundAmount(l, claim)
        /\ pieces'[l] = pieces[l] + (IF claim[l] > 0 THEN 1 ELSE 0)
        /\ claimed'[l] \in Nat /\ back'[l] \in Nat /\ pieces'[l] \in Nat
        /\ claimed'[l] >= claimed[l]
  <2>1. \A l \in Lines :
        /\ claimed'[l] = claimed[l] + claim[l] /\ back'[l] = back[l] + RefundAmount(l, claim)
        /\ pieces'[l] = pieces[l] + (IF claim[l] > 0 THEN 1 ELSE 0)
    BY <1>1
  <2>2. QED
    BY <1>5, <1>7, <2>1
<1>9. TypeOK'
  <2>1. /\ placed' \in BOOLEAN /\ price' \in [Lines -> Prices] /\ eligible' \subseteq Lines
        /\ share' \in [Lines -> Nat] /\ discount' \in Nat /\ shipping' \in Fees \cup {0}
    BY <1>1, <1>3 DEF TypeOK, orderVars
  <2>2. claimed' \in [Lines -> Nat] /\ back' \in [Lines -> Nat] /\ pieces' \in [Lines -> Nat]
    BY <1>1, <1>8
  <2>3. \A l \in Lines : Payable(l)' >= 0
    BY <1>2, <1>5
  <2>4. refunded' \in Nat /\ refunded' <= Paid'
    BY <1>1, <1>2, <1>3
  <2>5. /\ sale' \in [Claims -> Active \cup {"NONE", "REJECTED"}]
        /\ units' \in [Claims -> Units] /\ asked' \in [Claims -> Nat]
    BY <1>1, <1>3 DEF Forget, TypeOK
  <2>6. QED
    BY <2>1, <2>2, <2>3, <2>4, <2>5 DEF TypeOK
<1>10. Unplaced' /\ Claiming'
  <2>1. ASSUME NEW d \in Claims, sale'[d] # "NONE" PROVE AsksFor(d)'
    <3>1. sale[d] # "NONE" /\ units'[d] = units[d] /\ asked'[d] = asked[d]
      BY <1>1, <1>3, <2>1 DEF Forget, TypeOK
    <3>2. AsksFor(d)
      BY <3>1 DEF Inv, Claiming
    <3>3. QED
      BY <1>1, <1>8, <3>1, <3>2, AskedStays
  <2>2. QED
    BY <1>2, <1>4, <2>1 DEF Unplaced, Claiming
<1>11. RefundsFollowUnits'
  <2> SUFFICES ASSUME NEW l \in Lines
               PROVE  /\ Payable(l) * claimed'[l] - back'[l] * Quantity[l] >= 0
                      /\ Payable(l) * claimed'[l] - back'[l] * Quantity[l]
                           <= pieces'[l] * (Quantity[l] - 1)
    BY <1>2 DEF RefundsFollowUnits
  <2> DEFINE P == Payable(l)
             Q == Quantity[l]
             u == claim[l]
             part == RefundAmount(l, claim)
             before == P * claimed[l] - back[l] * Q
             now == P * u - part * Q
  <2>1. before >= 0 /\ before <= pieces[l] * (Q - 1)
    BY DEF Inv, RefundsFollowUnits
  <2>2. now >= 0 /\ now <= Q - 1 /\ (u = 0 => now = 0)
    <3>1. now >= 0 /\ now <= Q - 1 /\ part \in Nat /\ P \in Nat /\ Q \in Nat /\ Q > 0
      BY <1>5, <1>7
    <3>2. ASSUME u = 0 PROVE now = 0
      <4>1. P * u = 0
        BY <3>1, <3>2
      <4>2. part = 0 \div Q
        BY <4>1 DEF RefundAmount
      <4>3. 0 \div Q = 0
        <5> HIDE DEF Q
        <5>1. QED
          BY <3>1
      <4>4. part = 0 /\ part * Q = 0
        <5> HIDE DEF Q, part
        <5>1. QED
          BY <3>1, <4>2, <4>3
      <4>5. QED
        <5> HIDE DEF P, Q, u, part
        <5>1. QED
          BY <4>1, <4>4
    <3>3. QED
      BY <3>1, <3>2
  <2>3. Payable(l) * claimed'[l] - back'[l] * Quantity[l] = before + now
    <3>1. /\ P \in Int /\ Q \in Int /\ u \in Int /\ part \in Int
          /\ claimed[l] \in Int /\ back[l] \in Int
      BY <1>5, <1>7
    <3>2. claimed'[l] = claimed[l] + u /\ back'[l] = back[l] + part
      BY <1>8
    <3>3. P * (claimed[l] + u) = P * claimed[l] + P * u
            /\ (back[l] + part) * Q = back[l] * Q + part * Q
      <4> HIDE DEF P, Q, u, part
      <4>1. QED
        BY <3>1
    <3>4. QED
      BY <3>1, <3>2, <3>3
  <2>4. pieces'[l] * (Q - 1) = pieces[l] * (Q - 1) + (IF u > 0 THEN Q - 1 ELSE 0)
    <3>1. pieces[l] \in Nat /\ Q \in Nat /\ u \in Nat
      BY <1>5
    <3>2. pieces'[l] = pieces[l] + (IF u > 0 THEN 1 ELSE 0)
      BY <1>8
    <3> DEFINE m == pieces[l]
    <3>3. (m + 1) * (Q - 1) = m * (Q - 1) + (Q - 1) /\ m * (Q - 1) \in Int
      BY <3>1
    <3>4. QED
      BY <3>1, <3>2, <3>3
  <2>5. before \in Int /\ now \in Int /\ pieces[l] * (Q - 1) \in Int /\ u \in Nat /\ Q \in Nat
    BY <1>5, <1>7
  <2> HIDE DEF before, now, u, Q
  <2>6. before + now >= 0 /\ before + now <= pieces[l] * (Q - 1) + (IF u > 0 THEN Q - 1 ELSE 0)
    BY <2>1, <2>2, <2>5
  <2>7. QED
    BY <2>3, <2>4, <2>6 DEF Q
<1>12. RefundsAreBack'
  <2> SUFFICES ASSUME NoneTwice'
               PROVE  refunded' <= SumFunction(back)' + (IF AllClaimed' THEN shipping' ELSE 0)
    BY DEF RefundsAreBack
  <2> DEFINE part == [l \in Lines |-> RefundAmount(l, claim)]
             before == SumFunctionOnSet(back, Lines)
             now == SumFunctionOnSet(part, Lines)
  <2>1. SumFunctionOnSet(back', Lines) = before + now /\ before \in Int /\ now \in Int
    <3>1. \A l \in Lines : /\ back[l] \in Int /\ part[l] \in Int
                           /\ back'[l] = back[l] + part[l]
      BY <1>5, <1>7, <1>8
    <3> HIDE DEF part
    <3>2. QED
      BY <3>1, LinesFinite, SumPlus, SumInt
  <2>2. DOMAIN back = Lines /\ DOMAIN back' = Lines
    BY <1>1, <1>3 DEF TypeOK
  <2>3. SumFunction(back)' = before + now /\ SumFunction(back) = before
    BY <2>1, <2>2 DEF SumFunction
  <2>4. ItemAmount(claim) = now
    BY DEF ItemAmount, SumFunction
  <2>5. \A l \in Lines : claimed[l] + claim[l] <= Quantity[l]
    BY <1>8 DEF NoneTwice
  <2>6. NoneTwice /\ ~ AllClaimed
    <3>1. PICK l \in Lines : claim[l] # 0
      <4>1. claim \in [Lines -> Nat]
        BY <1>3, UnitsAre
      <4>2. QED
        BY <1>6, <4>1 DEF Nothing
    <3>2. claimed[l] < Quantity[l]
      BY <1>5, <2>5, <3>1
    <3>3. QED
      BY <1>5, <2>5, <3>2 DEF NoneTwice, AllClaimed
  <2>7. refunded <= before
    <3>1. refunded <= SumFunction(back) + 0
      BY <2>6 DEF Inv, RefundsAreBack
    <3> HIDE DEF before
    <3>2. QED
      BY <2>1, <2>3, <3>1
  <2>8. TakesAll(claim) => AllClaimed'
    <3> SUFFICES ASSUME TakesAll(claim), NEW l \in Lines PROVE claimed'[l] = Quantity[l]
      BY DEF AllClaimed
    <3>1. claimed[l] + claim[l] >= Quantity[l]
      BY DEF TakesAll
    <3>2. QED
      BY <1>5, <1>8, <2>5, <3>1
  <2>9. refunded' <= before + now + (IF TakesAll(claim) THEN shipping ELSE 0)
    <3> HIDE DEF before, now, claim
    <3>1. asked[c] <= now + (IF TakesAll(claim) THEN shipping ELSE 0)
      BY <1>4, <2>4 DEF AsksFor, claim
    <3>2. QED
      BY <1>1, <1>3, <2>1, <2>7, <3>1
  <2>10. refunded' <= before + now + (IF AllClaimed' THEN shipping' ELSE 0)
    <3> HIDE DEF before, now, claim
    <3>1. refunded' \in Int
      BY <1>1, <1>3
    <3>2. QED
      BY <1>2, <1>3, <2>1, <2>8, <2>9, <3>1
  <2>11. QED
    BY <2>3, <2>10
<1>13. QED
  BY <1>1, <1>9, <1>10, <1>11, <1>12, OrderStays DEF Inv

(* Every step keeps the invariant.                                         *)
LEMMA InvStep ==
  ASSUME Inv, [Next]_vars
  PROVE  Inv'
<1>1. CASE PlacePlainOrder
  BY <1>1, PlainKeeps
<1>2. CASE \E c \in Coupons : PlaceCouponOrder(c)
  BY <1>2, CouponKeeps
<1>3. ASSUME NEW c \in Claims, NEW u \in Units, CreateAfterSale(c, u) PROVE Inv'
  BY <1>3, CreateKeeps
<1>4. ASSUME NEW c \in Claims,
             RejectAfterSale(c) \/ RequestArbitration(c) \/ RejectInArbitration(c)
      PROVE  Inv'
  BY <1>4, VerdictKeeps
<1>5. ASSUME NEW c \in Claims, NEW granted \in 1 .. asked[c], CompleteRefund(c, granted)
      PROVE  Inv'
  BY <1>5, CompleteKeeps
<1>6. CASE UNCHANGED vars
  <2>1. /\ UNCHANGED <<orderVars, refundVars>>
        /\ sale' = sale /\ units' = units /\ asked' = asked
    BY <1>6 DEF vars, claimVars
  <2>2. placed' = placed /\ Paid' = Paid /\ \A l : Payable(l)' = Payable(l)
    BY <2>1, OrderStays
  <2>3. TypeOK'
    BY <2>1, <2>2 DEF Inv, TypeOK, orderVars, refundVars
  <2>4. Unplaced'
    BY <2>1 DEF Inv, Unplaced, orderVars, refundVars
  <2>5. Claiming'
    <3>1. \A l \in Lines : claimed'[l] \in Nat /\ claimed'[l] >= claimed[l]
      BY <2>1, Types DEF Inv, refundVars
    <3>2. ASSUME NEW c \in Claims, sale'[c] # "NONE" PROVE AsksFor(c)'
      BY <2>1, <3>1, <3>2, AskedStays DEF Inv, Claiming
    <3>3. QED
      BY <3>2 DEF Claiming
  <2>6. QED
    BY <2>1, <2>3, <2>4, <2>5, RefundsStay DEF Inv
<1>7. QED
  BY <1>1, <1>2, <1>3, <1>4, <1>5, <1>6 DEF Next

-----------------------------------------------------------------------------
(* Theorems *)

(* The invariant, of which the theorems below are parts or follow.         *)
LEMMA InvAlways == Spec => []Inv
  BY InitInv, InvStep, PTL DEF Spec

(* Everything has its type, no line costs less than nothing, and no more   *)
(* is refunded than was paid, also when arbitration has units come back    *)
(* twice.                                                                  *)
THEOREM TypeCorrect == Spec => []TypeOK
<1>1. Inv => TypeOK
  BY DEF Inv
<1>2. QED
  BY <1>1, InvAlways, PTL

(* No cent of a coupon's discount is lost or made up on its way to the     *)
(* lines, and every line gets its fair part of it.                         *)
THEOREM DiscountIsSpreadAlways == Spec => []DiscountIsSpread
<1>1. Inv => DiscountIsSpread
  BY DEF Inv
<1>2. QED
  BY <1>1, InvAlways, PTL

(* Whatever the claims a line's units come back in, they bring back their  *)
(* part of what was paid, less under a cent a claim.                       *)
THEOREM RefundsFollowUnitsAlways == Spec => []RefundsFollowUnits
<1>1. Inv => RefundsFollowUnits
  BY DEF Inv
<1>2. QED
  BY <1>1, InvAlways, PTL

(* While no unit came back twice, what was brought back and what is asked  *)
(* for now are no more than what was paid for each line, and the shipping  *)
(* is asked for once.                                                      *)
LEMMA UnitsAreCovered ==
  ASSUME Inv, NoneTwice, NEW u \in Units, Within(u)
  PROVE  RequestedAmount(u) <= Paid - refunded
<1> DEFINE part == [l \in Lines |-> RefundAmount(l, u)]
           both == [l \in Lines |-> back[l] + RefundAmount(l, u)]
           payable == [l \in Lines |-> Payable(l)]
           b == SumFunctionOnSet(back, Lines)
           p == SumFunctionOnSet(part, Lines)
           x == IF AllClaimed THEN shipping ELSE 0
           y == IF AllItemsAndQuantity(u) THEN shipping ELSE 0
<1>1. TypeOK
  BY DEF Inv
<1>2. \A l \in Lines : /\ Quantity[l] \in Nat /\ Quantity[l] > 0 /\ Payable(l) \in Nat
                       /\ claimed[l] \in Nat /\ back[l] \in Nat
  BY <1>1, Types
<1>3. \A l \in Lines :
        /\ u[l] \in Nat /\ RefundAmount(l, u) \in Nat
        /\ Payable(l) * u[l] - RefundAmount(l, u) * Quantity[l] >= 0
  BY <1>1, RefundAmountTyped
<1>4. ASSUME NEW l \in Lines
      PROVE  back[l] + RefundAmount(l, u) <= Payable(l)
  <2> DEFINE P == Payable(l)
             Q == Quantity[l]
             r == RefundAmount(l, u)
             c == claimed[l]
             v == u[l]
             d == back[l]
  <2>1. P \in Nat /\ Q \in Nat /\ Q > 0 /\ r \in Nat /\ c \in Nat /\ v \in Nat /\ d \in Nat
    BY <1>2, <1>3
  <2>2. c + v <= Q
    <3>1. c <= Q
      BY DEF NoneTwice
    <3>2. v > 0 => c + v <= Q
      BY DEF Within, Previous
    <3>3. QED
      BY <2>1, <3>1, <3>2
  <2>3. P * v - r * Q >= 0 /\ P * c - d * Q >= 0
    BY <1>3 DEF Inv, RefundsFollowUnits
  <2> HIDE DEF P, Q, r, c, v, d
  <2>4. r * Q <= P * v /\ d * Q <= P * c
    <3>1. P * v \in Int /\ r * Q \in Int /\ P * c \in Int /\ d * Q \in Int
      BY <2>1
    <3>2. QED
      BY <2>3, <3>1
  <2>5. r + d <= P
    BY <2>1, <2>2, <2>4, PartsFit
  <2>6. d + r <= P
    BY <2>1, <2>5
  <2>7. QED
    BY <2>6 DEF P, r, d
<1>5. b \in Int /\ p \in Int /\ b + p <= SumFunctionOnSet(payable, Lines)
  <2>1. \A l \in Lines : /\ back[l] \in Int /\ part[l] \in Int /\ both[l] \in Int /\ payable[l] \in Int
                         /\ both[l] = back[l] + part[l] /\ both[l] <= payable[l]
    BY <1>2, <1>3, <1>4
  <2> HIDE DEF part, both, payable
  <2>2. SumFunctionOnSet(both, Lines) = b + p
    BY <2>1, LinesFinite, SumPlus
  <2>3. SumFunctionOnSet(both, Lines) <= SumFunctionOnSet(payable, Lines)
    BY <2>1, LinesFinite, SumAtMost
  <2>4. QED
    BY <2>1, <2>2, <2>3, LinesFinite, SumInt
<1>6. /\ SumFunction(back) = b /\ ItemAmount(u) = p
      /\ Paid = SumFunctionOnSet(payable, Lines) + shipping
  <2>1. DOMAIN back = Lines
    BY <1>1 DEF TypeOK
  <2>2. QED
    BY <2>1 DEF SumFunction, ItemAmount, Inv, DiscountIsSpread
<1>7. x + y <= shipping
  <2>1. ~ (AllClaimed /\ AllItemsAndQuantity(u))
    <3> SUFFICES ASSUME AllClaimed, AllItemsAndQuantity(u) PROVE FALSE
      OBVIOUS
    <3>1. 1 \in Lines
      BY AmountsAssumption DEF Lines
    <3>2. u[1] > 0 /\ claimed[1] + u[1] = Quantity[1] /\ claimed[1] = Quantity[1]
      BY <1>1, <3>1, LastUnits DEF AllClaimed
    <3>3. QED
      BY <1>2, <1>3, <3>1, <3>2
  <2>2. QED
    BY <1>1, <2>1, Types
<1>8. refunded <= b + x
  BY <1>6 DEF Inv, RefundsAreBack
<1>9. RequestedAmount(u) = p + y
  BY <1>6 DEF RequestedAmount
<1>10. x \in Int /\ y \in Int /\ refunded \in Int /\ shipping \in Int
  BY <1>1, Types
<1>11. SumFunctionOnSet(payable, Lines) \in Int
  <2>1. \A l \in Lines : payable[l] \in Int
    BY <1>2
  <2> HIDE DEF payable
  <2>2. QED
    BY <2>1, LinesFinite, SumInt
<1> HIDE DEF b, p, x, y, payable
<1>12. QED
  BY <1>5, <1>6, <1>7, <1>8, <1>9, <1>10, <1>11

(* Whatever claims were rejected, taken up again by arbitration and        *)
(* refunded: while no more units were refunded than were bought, the check *)
(* against the money left refuses no claim on units that are left.         *)
THEOREM MoneyCoversUnitsAlways == Spec => []MoneyCoversUnits
<1>1. Inv => MoneyCoversUnits
  BY UnitsAreCovered DEF MoneyCoversUnits, NoneTwice
<1>2. QED
  BY <1>1, InvAlways, PTL
=============================================================================
