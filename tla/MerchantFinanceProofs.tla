------------------------- MODULE MerchantFinanceProofs -------------------------
(* Theorems about MerchantFinance, for any number of withdrawals of any    *)
(* amount beside any orders, rates and settlements.                        *)
EXTENDS MerchantFinance, Sums

-----------------------------------------------------------------------------
(* Counting money *)

(* Units of money are counted in finite sets.                              *)
LEMMA UnitsFinite ==
  ASSUME NEW S PROVE IsFiniteSet(Units(S))
<1>1. IsFiniteSet(1 .. MaxAmount)
  BY FinanceAssumption, FS_Interval
<1>2. IsFiniteSet(Withdrawals \X (1 .. MaxAmount))
  BY <1>1, FinanceAssumption, FS_Product
<1>3. QED
  BY <1>2, FS_Subset DEF Units

(* They are after a step too.                                              *)
LEMMA UnitsFiniteAfter ==
  ASSUME NEW S PROVE IsFiniteSet(Units(S)')
<1>1. IsFiniteSet(1 .. MaxAmount)
  BY FinanceAssumption, FS_Interval
<1>2. IsFiniteSet(Withdrawals \X (1 .. MaxAmount))
  BY <1>1, FinanceAssumption, FS_Product
<1>3. QED
  BY <1>2, FS_Subset DEF Units

(* A finite set with the n units of a withdrawal that had none in it.      *)
LEMMA UnitsAdded ==
  ASSUME NEW U, IsFiniteSet(U), NEW w, NEW n \in Nat,
         \A k \in 1 .. n : <<w, k>> \notin U
  PROVE  Cardinality(U \cup ({w} \X (1 .. n))) = Cardinality(U) + n
<1> DEFINE B == {w} \X (1 .. n)
<1>1. IsFiniteSet({w}) /\ Cardinality({w}) = 1
  BY FS_Singleton
<1>2. IsFiniteSet(1 .. n) /\ Cardinality(1 .. n) = n
  BY FS_Interval
<1>3. IsFiniteSet(B) /\ Cardinality(B) = Cardinality({w}) * Cardinality(1 .. n)
  BY <1>1, <1>2, FS_Product
<1>4. Cardinality(B) = n
  BY <1>1, <1>2, <1>3
<1>5. U \cap B = {}
  OBVIOUS
<1>6. Cardinality(U \cap B) = 0
  BY <1>5, FS_EmptySet
<1>7. Cardinality(U \cup B) = Cardinality(U) + Cardinality(B) - Cardinality(U \cap B)
  BY <1>3, FS_Union
<1>8. Cardinality(U) \in Nat
  BY FS_CardinalityType
<1> HIDE DEF B
<1>9. Cardinality(U \cup B) = Cardinality(U) + n
  BY <1>4, <1>6, <1>7, <1>8
<1>10. QED
  BY <1>9 DEF B

-----------------------------------------------------------------------------

(* The rows of withdrawals are typed.                                      *)
Typed ==
  /\ withdrawal \in [Withdrawals -> WithdrawalStatus]
  /\ amount \in [Withdrawals -> 0 .. MaxAmount]

(* What FrozenIsOpen needs to be inductive.                                *)
Inv == Typed /\ FrozenIsOpen

(* There are no withdrawals.                                               *)
LEMMA InitInv == Init => Inv
<1> SUFFICES ASSUME Init PROVE Inv
  OBVIOUS
<1>1. Typed
  BY FinanceAssumption DEF Init, Typed, WithdrawalStatus
<1>2. Units({"PENDING", "APPROVED"}) = {} /\ Units({"COMPLETED"}) = {}
  BY DEF Init, Units
<1>3. account.frozen = 0 /\ account.withdrawn = 0
  BY DEF Init, Balances
<1>4. QED
  BY <1>1, <1>2, <1>3, FS_EmptySet DEF Inv, FrozenIsOpen

(* A withdrawal that comes to have one of the statuses S brings its units; *)
(* one that has one before and after, or neither, changes no count.        *)
LEMMA MovedUnits ==
  ASSUME Typed, Typed', NEW w \in Withdrawals, NEW S,
         \A v \in Withdrawals \ {w} : withdrawal'[v] = withdrawal[v] /\ amount'[v] = amount[v]
  PROVE  /\ withdrawal[w] \notin S /\ withdrawal'[w] \in S =>
              Cardinality(Units(S)') = Cardinality(Units(S)) + amount'[w]
         /\ withdrawal[w] \in S /\ withdrawal'[w] \notin S =>
              Cardinality(Units(S)) = Cardinality(Units(S)') + amount[w]
         /\ withdrawal[w] \notin S /\ withdrawal'[w] \notin S => Units(S)' = Units(S)
         /\ amount'[w] = amount[w] /\ withdrawal[w] \in S /\ withdrawal'[w] \in S =>
              Units(S)' = Units(S)
<1>1. amount[w] \in 0 .. MaxAmount /\ amount'[w] \in 0 .. MaxAmount /\ MaxAmount \in Nat
  BY FinanceAssumption DEF Typed
<1>2. ASSUME NEW v \in Withdrawals \ {w}, NEW k \in 1 .. MaxAmount
      PROVE  <<v, k>> \in Units(S)' <=> <<v, k>> \in Units(S)
  BY DEF Units
<1>3. \A k \in 1 .. MaxAmount :
        /\ <<w, k>> \in Units(S) <=> withdrawal[w] \in S /\ k <= amount[w]
        /\ <<w, k>> \in Units(S)' <=> withdrawal'[w] \in S /\ k <= amount'[w]
  BY DEF Units
<1>4. /\ Units(S) \subseteq Withdrawals \X (1 .. MaxAmount)
      /\ Units(S)' \subseteq Withdrawals \X (1 .. MaxAmount)
  BY DEF Units
<1>5. IsFiniteSet(Units(S))
  BY UnitsFinite
<1>6. IsFiniteSet(Units(S)')
  BY UnitsFiniteAfter
<1>7. ASSUME withdrawal[w] \notin S, withdrawal'[w] \in S
      PROVE  Cardinality(Units(S)') = Cardinality(Units(S)) + amount'[w]
  <2>1. Units(S)' = Units(S) \cup ({w} \X (1 .. amount'[w]))
    <3>1. ASSUME NEW v \in Withdrawals, NEW k \in 1 .. MaxAmount
          PROVE  <<v, k>> \in Units(S)' <=> <<v, k>> \in Units(S) \cup ({w} \X (1 .. amount'[w]))
      BY <1>1, <1>2, <1>3, <1>7
    <3>2. Units(S) \cup ({w} \X (1 .. amount'[w])) \subseteq Withdrawals \X (1 .. MaxAmount)
      BY <1>1, <1>4
    <3>3. QED
      BY <1>4, <3>1, <3>2, SMTT(40)
  <2>2. \A k \in 1 .. amount'[w] : <<w, k>> \notin Units(S)
    BY <1>1, <1>3, <1>7
  <2>3. amount'[w] \in Nat
    BY <1>1
  <2>4. Cardinality(Units(S) \cup ({w} \X (1 .. amount'[w]))) = Cardinality(Units(S)) + amount'[w]
    BY <1>5, <2>2, <2>3, UnitsAdded
  <2>5. QED
    BY <2>1, <2>4
<1>8. ASSUME withdrawal[w] \in S, withdrawal'[w] \notin S
      PROVE  Cardinality(Units(S)) = Cardinality(Units(S)') + amount[w]
  <2>1. Units(S) = Units(S)' \cup ({w} \X (1 .. amount[w]))
    <3>1. ASSUME NEW v \in Withdrawals, NEW k \in 1 .. MaxAmount
          PROVE  <<v, k>> \in Units(S) <=> <<v, k>> \in Units(S)' \cup ({w} \X (1 .. amount[w]))
      BY <1>1, <1>2, <1>3, <1>8
    <3>2. Units(S)' \cup ({w} \X (1 .. amount[w])) \subseteq Withdrawals \X (1 .. MaxAmount)
      BY <1>1, <1>4
    <3>3. QED
      BY <1>4, <3>1, <3>2, SMTT(40)
  <2>2. \A k \in 1 .. amount[w] : <<w, k>> \notin Units(S)'
    BY <1>1, <1>3, <1>8
  <2>3. amount[w] \in Nat
    BY <1>1
  <2>4. Cardinality(Units(S)' \cup ({w} \X (1 .. amount[w]))) = Cardinality(Units(S)') + amount[w]
    BY <1>6, <2>2, <2>3, UnitsAdded
  <2>5. QED
    BY <2>1, <2>4
<1>9. ASSUME \/ withdrawal[w] \notin S /\ withdrawal'[w] \notin S
             \/ amount'[w] = amount[w] /\ withdrawal[w] \in S /\ withdrawal'[w] \in S
      PROVE  Units(S)' = Units(S)
  <2>1. ASSUME NEW v \in Withdrawals, NEW k \in 1 .. MaxAmount
        PROVE  <<v, k>> \in Units(S)' <=> <<v, k>> \in Units(S)
    BY <1>2, <1>3, <1>9
  <2>2. QED
    BY <1>4, <2>1, SMTT(40)
<1>10. QED
  BY <1>7, <1>8, <1>9

(* A step that leaves withdrawals alone moves nothing in or out of them.   *)
LEMMA OtherMoneyKeeps ==
  ASSUME Inv, UNCHANGED <<withdrawal, amount>>,
         account'.frozen = account.frozen, account'.withdrawn = account.withdrawn
  PROVE  Inv'
BY DEF Inv, Typed, FrozenIsOpen, Units

(* What the balances of an account become.                                 *)
LEMMA PlusBalances ==
  ASSUME NEW to
  PROVE  /\ Plus(to).frozen = account.frozen + IF "frozen" \in DOMAIN to THEN to["frozen"] ELSE 0
         /\ Plus(to).withdrawn =
              account.withdrawn + IF "withdrawn" \in DOMAIN to THEN to["withdrawn"] ELSE 0
  BY DEF Plus, Balances

(* Every step keeps the invariant.                                         *)
LEMMA StepInv == Inv /\ [Next]_vars => Inv'
<1> SUFFICES ASSUME Inv, [Next]_vars PROVE Inv'
  OBVIOUS
<1> DEFINE Open == {"PENDING", "APPROVED"}
           Done == {"COMPLETED"}
<1>1. /\ account.frozen \in Nat /\ account.withdrawn \in Nat
      /\ account.frozen = Cardinality(Units(Open))
      /\ account.withdrawn = Cardinality(Units(Done))
  <2>1. Cardinality(Units(Open)) \in Nat /\ Cardinality(Units(Done)) \in Nat
    BY UnitsFinite, FS_CardinalityType
  <2>2. QED
    BY <2>1 DEF Inv, FrozenIsOpen
<1>2. ASSUME NEW o \in Orders, OrderStep(o) PROVE Inv'
  <2>1. UNCHANGED <<withdrawal, amount>>
    BY <1>2 DEF OrderStep, Pay, Complete, OpenClaim, RejectClaim, RequestArbitration,
                MoveOrder, RecordRefundReversal
  <2>2. \/ account' = account
        \/ \E b \in {"pending", "available"} : \E n : account' = Plus(In(b, n))
    BY <1>2 DEF OrderStep, Pay, Complete, OpenClaim, RejectClaim, RequestArbitration,
                MoveOrder, RecordRefundReversal, AccountField
  <2>3. ASSUME NEW b \in {"pending", "available"}, NEW n, account' = Plus(In(b, n))
        PROVE  account'.frozen = account.frozen /\ account'.withdrawn = account.withdrawn
    <3>1. DOMAIN In(b, n) = {b}
      BY DEF In
    <3>2. QED
      BY <1>1, <2>3, <3>1, PlusBalances
  <2>4. QED
    BY <2>1, <2>2, <2>3, OtherMoneyKeeps
<1>3. ASSUME NEW r \in Rates, UpdateCommission(r) PROVE Inv'
  BY <1>3, OtherMoneyKeeps DEF UpdateCommission
<1>4. ASSUME NEW q \in Requests, NEW period \in SUBSET Orders, CreateSettlement(q, period)
      PROVE  Inv'
  <2>1. UNCHANGED <<withdrawal, amount>>
    BY <1>4 DEF CreateSettlement
  <2> DEFINE total == NetOfAll({o \in period : Settleable(o)})
             moves == [b \in {"pending", "available"} |->
                         IF b = "pending" THEN -total ELSE total]
  <2>2. account' = Plus(moves)
    BY <1>4 DEF CreateSettlement
  <2>3. DOMAIN moves = {"pending", "available"}
    OBVIOUS
  <2> HIDE DEF moves
  <2>4. account'.frozen = account.frozen /\ account'.withdrawn = account.withdrawn
    BY <1>1, <2>2, <2>3, PlusBalances
  <2>5. QED
    BY <2>1, <2>4, OtherMoneyKeeps
<1>5. ASSUME NEW w \in Withdrawals, WithdrawalStep(w) PROVE Inv'
  <2>1. ASSUME NEW n \in 1 .. MaxAmount, CreateWithdrawal(w, n) PROVE Inv'
    <3>1. /\ withdrawal[w] = "NONE" /\ withdrawal'[w] = "PENDING" /\ amount'[w] = n
          /\ \A v \in Withdrawals \ {w} : withdrawal'[v] = withdrawal[v] /\ amount'[v] = amount[v]
          /\ Typed /\ Typed'
      BY <2>1 DEF CreateWithdrawal, Inv, Typed, WithdrawalStatus
    <3>2. account'.frozen = account.frozen + n /\ account'.withdrawn = account.withdrawn
      BY <1>1, <2>1, PlusBalances DEF CreateWithdrawal, Freeze
    <3>3. Cardinality(Units(Open)') = Cardinality(Units(Open)) + n /\ Units(Done)' = Units(Done)
      BY <3>1, MovedUnits
    <3>4. QED
      BY <1>1, <3>1, <3>2, <3>3 DEF Inv, FrozenIsOpen
  <2>2. CASE ApproveWithdrawal(w)
    <3>1. /\ withdrawal[w] = "PENDING" /\ withdrawal'[w] = "APPROVED" /\ amount' = amount
          /\ \A v \in Withdrawals \ {w} : withdrawal'[v] = withdrawal[v]
          /\ Typed /\ Typed' /\ account' = account
      BY <2>2 DEF ApproveWithdrawal, Review, Inv, Typed, WithdrawalStatus
    <3>2. Units(Open)' = Units(Open) /\ Units(Done)' = Units(Done)
      BY <3>1, MovedUnits
    <3>3. QED
      BY <1>1, <3>1, <3>2 DEF Inv, FrozenIsOpen
  <2>3. CASE RejectWithdrawal(w)
    <3>1. /\ withdrawal[w] = "PENDING" /\ withdrawal'[w] = "REJECTED" /\ amount' = amount
          /\ \A v \in Withdrawals \ {w} : withdrawal'[v] = withdrawal[v]
          /\ Typed /\ Typed'
      BY <2>3 DEF RejectWithdrawal, Rejectable, Review, Inv, Typed, WithdrawalStatus
    <3>2. amount[w] \in Nat
      BY <3>1, FinanceAssumption DEF Typed
    <3>3. account'.frozen = account.frozen - amount[w] /\ account'.withdrawn = account.withdrawn
      BY <1>1, <2>3, <3>2, PlusBalances DEF RejectWithdrawal, Freeze
    <3>4. /\ Cardinality(Units(Open)) = Cardinality(Units(Open)') + amount[w]
          /\ Units(Done)' = Units(Done)
      BY <3>1, MovedUnits
    <3>5. Cardinality(Units(Open)') \in Nat
      BY UnitsFiniteAfter, FS_CardinalityType
    <3>6. QED
      BY <1>1, <3>1, <3>2, <3>3, <3>4, <3>5 DEF Inv, FrozenIsOpen
  <2>4. CASE CompleteWithdrawal(w)
    <3>1. /\ withdrawal[w] = "APPROVED" /\ withdrawal'[w] = "COMPLETED" /\ amount' = amount
          /\ \A v \in Withdrawals \ {w} : withdrawal'[v] = withdrawal[v]
          /\ Typed /\ Typed'
      BY <2>4 DEF CompleteWithdrawal, Review, Inv, Typed, WithdrawalStatus
    <3>2. amount[w] \in Nat
      BY <3>1, FinanceAssumption DEF Typed
    <3>3. /\ account'.frozen = account.frozen - amount[w]
          /\ account'.withdrawn = account.withdrawn + amount[w]
      BY <1>1, <2>4, <3>2, PlusBalances DEF CompleteWithdrawal, PaidOut
    <3>4. /\ Cardinality(Units(Open)) = Cardinality(Units(Open)') + amount[w]
          /\ Cardinality(Units(Done)') = Cardinality(Units(Done)) + amount[w]
      BY <3>1, MovedUnits
    <3>5. Cardinality(Units(Open)') \in Nat
      BY UnitsFiniteAfter, FS_CardinalityType
    <3>6. QED
      BY <1>1, <3>1, <3>2, <3>3, <3>4, <3>5 DEF Inv, FrozenIsOpen
  <2>5. QED
    BY <1>5, <2>1, <2>2, <2>3, <2>4 DEF WithdrawalStep
<1>6. CASE UNCHANGED vars
  BY <1>6, OtherMoneyKeeps DEF vars
<1>7. QED
  BY <1>2, <1>3, <1>4, <1>5, <1>6 DEF Next

-----------------------------------------------------------------------------
(* Theorems *)

(* Whatever is settled, refunded and withdrawn beside it, the frozen       *)
(* balance is the sum of the withdrawals under way and the withdrawn one   *)
(* of those paid: reviewWithdrawal decides and pays each once.             *)
THEOREM FrozenIsOpenAlways == Spec => []FrozenIsOpen
<1>1. Inv => FrozenIsOpen
  BY DEF Inv
<1>2. QED
  BY <1>1, InitInv, StepInv, PTL DEF Spec

-----------------------------------------------------------------------------
(* The books *)

(* The ledger has finitely many entries, which move numbers.               *)
Entries ==
  /\ IsFiniteSet(ledger)
  /\ \A e \in ledger : e.net \in Int /\ e.moves \in [Balances -> Int]

(* An order is paid once; what a claim or a settlement gets hold of is paid. *)
PaidOnce ==
  /\ \A e \in ledger : e.type = "PAYMENT" =>
       /\ e.order \in Orders /\ e.ref = e.order /\ e.rate \in Rates
       /\ \A f \in ledger : f.type = "PAYMENT" /\ f.ref = e.ref => f = e
  /\ \A o \in Orders :
       \/ order[o] # "PENDING_PAYMENT" \/ o \in rejected
       \/ Settled(o) \/ RefundsOf(o) # {}
       => Recorded("PAYMENT", o)

(* The refunds of an order are numbered.                                   *)
Numbered ==
  \A o \in Orders : \A e \in RefundsOf(o) :
    /\ e.gross \in Int
    /\ \E k \in Nat : k < Cardinality(RefundsOf(o)) /\ e.ref = <<o, k>>

(* What an entry about the account alone says has been done.               *)
Done ==
  \A e \in ledger :
    /\ e.type = "SETTLEMENT" => \E s \in settled : s.request = e.ref
    /\ e.type = "WITHDRAWAL" => e.ref \in Withdrawals /\ withdrawal[e.ref] # "NONE"
    /\ e.type = "WITHDRAWAL_RESTORE" =>
         e.ref \in Withdrawals /\ withdrawal[e.ref] = "REJECTED"
    /\ e.type = "WITHDRAWAL_COMPLETE" =>
         e.ref \in Withdrawals /\ withdrawal[e.ref] = "COMPLETED"

(* What the ledger, the orders and the withdrawals say of one another.     *)
Books ==
  /\ DOMAIN order = Orders /\ DOMAIN previous = Orders
  /\ \A o \in Orders : previous[o] # "PENDING_PAYMENT"
  /\ rate \in Rates /\ account \in [Balances -> Int]
  /\ Typed /\ Entries /\ PaidOnce /\ Numbered /\ Done

(* The properties that are sums over the ledger.                           *)
Balanced ==
  /\ AccountMatchesLedger /\ PendingIsUnsettled /\ AvailableIsSettled
  /\ CommissionWithinRounding

-----------------------------------------------------------------------------
(* Sums over the ledger *)

(* What an order earned is a number.                                       *)
LEMMA NetOfInt ==
  ASSUME Entries, NEW o
  PROVE  IsFiniteSet(Earned(o)) /\ NetOf(o) \in Int
<1>1. IsFiniteSet(Earned(o)) /\ \A e \in Earned(o) : e.net \in Int
  BY FS_Subset DEF Entries, Earned
<1> DEFINE f == [e \in Earned(o) |-> e.net]
<1>2. DOMAIN f = Earned(o) /\ \A e \in DOMAIN f : f[e] \in Int
  BY <1>1
<1> HIDE DEF f
<1>3. SumFunction(f) \in Int
  BY <1>1, <1>2, SumFunctionInt
<1>4. QED
  BY <1>1, <1>3 DEF NetOf, f

(* What was refunded of an order is a number.                              *)
LEMMA RefundedInt ==
  ASSUME Entries, Numbered, NEW o \in Orders
  PROVE  /\ IsFiniteSet(RefundsOf(o)) /\ Cardinality(RefundsOf(o)) \in Nat
         /\ Refunded(o) \in Int
<1>1. IsFiniteSet(RefundsOf(o)) /\ \A e \in RefundsOf(o) : e.gross \in Int
  BY FS_Subset DEF Entries, Numbered, RefundsOf, Earned
<1> DEFINE f == [e \in RefundsOf(o) |-> e.gross]
<1>2. DOMAIN f = RefundsOf(o) /\ \A e \in DOMAIN f : f[e] \in Int
  BY <1>1
<1> HIDE DEF f
<1>3. SumFunction(f) \in Int
  BY <1>1, <1>2, SumFunctionInt
<1>4. QED
  BY <1>1, <1>3, FS_CardinalityType DEF Refunded, f

(* What several orders earned is a number.                                 *)
LEMMA NetOfAllInt ==
  ASSUME Entries, NEW S, IsFiniteSet(S)
  PROVE  NetOfAll(S) \in Int
<1> DEFINE f == [o \in S |-> NetOf(o)]
<1>1. DOMAIN f = S /\ \A o \in DOMAIN f : f[o] \in Int
  BY NetOfInt
<1> HIDE DEF f
<1>2. SumFunction(f) \in Int
  BY <1>1, SumFunctionInt
<1>3. QED
  BY <1>2 DEF NetOfAll, f

(* One entry more, that moves the account by what it says.                 *)
LEMMA EntryAdded ==
  ASSUME Entries, AccountMatchesLedger, account \in [Balances -> Int],
         NEW e, e \notin ledger, ledger' = ledger \cup {e},
         e.net \in Int, e.moves \in [Balances -> Int],
         account' = [b \in Balances |-> account[b] + e.moves[b]]
  PROVE  Entries' /\ AccountMatchesLedger' /\ account' \in [Balances -> Int]
<1>1. Entries'
  BY FS_AddElement DEF Entries
<1>2. ASSUME NEW b \in Balances
      PROVE  account'[b] = SumFunction([x \in ledger' |-> x.moves[b]])
  <2> DEFINE f == [x \in ledger |-> x.moves[b]]
             g == [x \in ledger' |-> x.moves[b]]
  <2>1. DOMAIN g = ledger \cup {e} /\ \A x \in ledger \cup {e} : g[x] \in Int
    BY DEF Entries
  <2>2. f = [x \in ledger |-> g[x]] /\ g[e] = e.moves[b]
    OBVIOUS
  <2>3. IsFiniteSet(ledger) /\ account[b] = SumFunction(f) /\ account[b] \in Int
    BY DEF Entries, AccountMatchesLedger
  <2> HIDE DEF f, g
  <2>4. SumFunction(g) = SumFunction([x \in ledger |-> g[x]]) + g[e]
    BY <2>1, <2>3, SumFunctionWith
  <2>5. account'[b] = account[b] + e.moves[b]
    OBVIOUS
  <2>6. QED
    BY <2>2, <2>3, <2>4, <2>5 DEF g
<1>3. account' \in [Balances -> Int]
  OBVIOUS
<1>4. AccountMatchesLedger'
  BY <1>2 DEF AccountMatchesLedger
<1>5. QED
  BY <1>1, <1>3, <1>4

(* An entry about no order leaves what orders earned.                      *)
LEMMA AccountEntryAdded ==
  ASSUME NEW e, ledger' = ledger \cup {e}, e.type \notin {"PAYMENT", "REFUND"}
  PROVE  \A o : /\ Earned(o)' = Earned(o) /\ RefundsOf(o)' = RefundsOf(o)
               /\ NetOf(o)' = NetOf(o) /\ Refunded(o)' = Refunded(o)
<1> TAKE o
<1>1. Earned(o)' = Earned(o)
  BY DEF Earned
<1>2. QED
  BY <1>1 DEF RefundsOf, NetOf, Refunded

(* An entry about an order adds to what it earned, and to no other.        *)
LEMMA OrderEntryAdded ==
  ASSUME Entries, NEW o \in Orders, NEW e, e \notin ledger, ledger' = ledger \cup {e},
         e.type \in {"PAYMENT", "REFUND"}, e.order = o, e.net \in Int
  PROVE  /\ NetOf(o)' = NetOf(o) + e.net
         /\ e.type = "PAYMENT" => RefundsOf(o)' = RefundsOf(o) /\ Refunded(o)' = Refunded(o)
         /\ \A p \in Orders \ {o} :
              /\ Earned(p)' = Earned(p) /\ RefundsOf(p)' = RefundsOf(p)
              /\ NetOf(p)' = NetOf(p) /\ Refunded(p)' = Refunded(p)
<1>1. Earned(o)' = Earned(o) \cup {e} /\ e \notin Earned(o)
  BY DEF Earned
<1>2. NetOf(o)' = NetOf(o) + e.net
  <2> DEFINE f == [x \in Earned(o) |-> x.net]
             g == [x \in Earned(o)' |-> x.net]
  <2>1. f = [x \in Earned(o) |-> g[x]] /\ g[e] = e.net
    BY <1>1
  <2>2. DOMAIN g = Earned(o) \cup {e} /\ \A x \in Earned(o) \cup {e} : g[x] \in Int
    BY <1>1 DEF Entries, Earned
  <2>3. NetOf(o) = SumFunction(f) /\ NetOf(o)' = SumFunction(g)
    BY DEF NetOf
  <2>4. IsFiniteSet(Earned(o))
    BY NetOfInt
  <2> HIDE DEF f, g
  <2>5. SumFunction(g) = SumFunction([x \in Earned(o) |-> g[x]]) + g[e]
    BY <1>1, <2>2, <2>4, SumFunctionWith
  <2>6. QED
    BY <2>1, <2>3, <2>5
<1>3. e.type = "PAYMENT" => RefundsOf(o)' = RefundsOf(o)
  BY <1>1 DEF RefundsOf
<1>4. \A p \in Orders \ {o} : Earned(p)' = Earned(p)
  BY DEF Earned
<1>5. QED
  BY <1>2, <1>3, <1>4 DEF RefundsOf, NetOf, Refunded

(* A refund adds to what was refunded.                                     *)
LEMMA RefundAdded ==
  ASSUME Entries, Numbered, NEW o \in Orders, NEW e, e \notin ledger,
         ledger' = ledger \cup {e}, e.type = "REFUND", e.order = o, e.gross \in Int
  PROVE  /\ RefundsOf(o)' = RefundsOf(o) \cup {e}
         /\ Cardinality(RefundsOf(o)') = Cardinality(RefundsOf(o)) + 1
         /\ Refunded(o)' = Refunded(o) - e.gross
<1>1. RefundsOf(o)' = RefundsOf(o) \cup {e} /\ e \notin RefundsOf(o)
  BY DEF RefundsOf, Earned
<1>2. IsFiniteSet(RefundsOf(o))
  BY RefundedInt
<1>3. Cardinality(RefundsOf(o) \cup {e}) = Cardinality(RefundsOf(o)) + 1
  BY <1>1, <1>2, FS_AddElement
<1> DEFINE f == [x \in RefundsOf(o) |-> x.gross]
           g == [x \in RefundsOf(o)' |-> x.gross]
<1>4. f = [x \in RefundsOf(o) |-> g[x]] /\ g[e] = e.gross
  BY <1>1
<1>5. /\ DOMAIN f = RefundsOf(o) /\ \A x \in RefundsOf(o) : f[x] \in Int
      /\ DOMAIN g = RefundsOf(o) \cup {e} /\ \A x \in RefundsOf(o) \cup {e} : g[x] \in Int
  BY <1>1 DEF Numbered
<1>6. Refunded(o) = - SumFunction(f) /\ Refunded(o)' = - SumFunction(g)
  BY DEF Refunded
<1> HIDE DEF f, g
<1>7. SumFunction(f) \in Int
  BY <1>2, <1>5, SumFunctionInt
<1>8. SumFunction(g) = SumFunction([x \in RefundsOf(o) |-> g[x]]) + g[e]
  BY <1>1, <1>2, <1>5, SumFunctionWith
<1>9. QED
  BY <1>4, <1>1, <1>3, <1>6, <1>7, <1>8

(* A sum over orders one of which earned d more.                           *)
LEMMA NetOfAllChanges ==
  ASSUME Entries, Entries', NEW S, IsFiniteSet(S), NEW o \in S, NEW d \in Int,
         NetOf(o)' = NetOf(o) + d, \A p \in S \ {o} : NetOf(p)' = NetOf(p)
  PROVE  SumFunction([p \in S |-> NetOf(p)']) = SumFunction([p \in S |-> NetOf(p)]) + d
<1> DEFINE f == [p \in S |-> NetOf(p)]
           g == [p \in S |-> NetOf(p)']
<1>1. \A p \in S : NetOf(p) \in Int
  BY NetOfInt
<1>2. /\ DOMAIN f = S /\ DOMAIN g = S /\ \A p \in S : f[p] \in Int /\ g[p] \in Int
      /\ \A p \in S \ {o} : g[p] = f[p]
      /\ f[o] = NetOf(o) /\ g[o] = NetOf(o) + d
  BY <1>1
<1> HIDE DEF f, g
<1>3. SumFunction(g) = SumFunction(f) + (g[o] - f[o])
  BY <1>2, SumFunctionChanges
<1>4. SumFunction(f) \in Int
  BY <1>2, SumFunctionInt
<1>5. NetOf(o) \in Int
  BY <1>1
<1>6. QED
  BY <1>2, <1>3, <1>4, <1>5 DEF f, g

(* A sum over orders in two sets that share none.                          *)
LEMMA NetOfBoth ==
  ASSUME Entries, NEW R, IsFiniteSet(R), NEW S, IsFiniteSet(S), R \cap S = {}
  PROVE  NetOfAll(R \cup S) = NetOfAll(R) + NetOfAll(S)
<1> DEFINE f == [o \in R |-> NetOf(o)]
           g == [o \in S |-> NetOf(o)]
           h == [o \in R \cup S |-> NetOf(o)]
<1>1. /\ \A x \in R : h[x] \in Int /\ f[x] = h[x]
      /\ \A x \in S : h[x] \in Int /\ g[x] = h[x]
      /\ \A x \in R \cup S : h[x] \in Int
  BY NetOfInt
<1>2. /\ NetOfAll(R) = SumFunctionOnSet(f, R) /\ NetOfAll(S) = SumFunctionOnSet(g, S)
      /\ NetOfAll(R \cup S) = SumFunctionOnSet(h, R \cup S)
  BY DEF NetOfAll, SumFunction
<1> HIDE DEF f, g, h
<1>3. SumFunctionOnSet(h, R \cup S) = SumFunctionOnSet(h, R) + SumFunctionOnSet(h, S)
  BY <1>1, SumUnion
<1>4. SumFunctionOnSet(f, R) = SumFunctionOnSet(h, R)
  BY <1>1, SumEqual
<1>5. SumFunctionOnSet(g, S) = SumFunctionOnSet(h, S)
  BY <1>1, SumEqual
<1>6. QED
  BY <1>2, <1>3, <1>4, <1>5

(* The orders whose earnings are pending.                                  *)
Unsettled == {o \in Orders : ~ Settled(o)}

(* The orders whose earnings are available.                                *)
SettledOnes == {o \in Orders : Settled(o)}

(* Both are finitely many.                                                 *)
LEMMA OrdersFinite ==
  /\ IsFiniteSet(Unsettled) /\ IsFiniteSet(SettledOnes)
  /\ Unsettled \cap SettledOnes = {}
  BY FinanceAssumption, FS_Subset DEF Unsettled, SettledOnes

(* Where order o is settled, its part of the sums grows by d, and that of  *)
(* the other orders stays.                                                 *)
LEMMA NetMoves ==
  ASSUME Entries, Entries', settled' = settled, NEW o \in Orders, NEW d \in Int,
         NetOf(o)' = NetOf(o) + d, \A p \in Orders \ {o} : NetOf(p)' = NetOf(p)
  PROVE  /\ NetOfAll(Unsettled)' = NetOfAll(Unsettled) + (IF Settled(o) THEN 0 ELSE d)
         /\ NetOfAll(SettledOnes)' = NetOfAll(SettledOnes) + (IF Settled(o) THEN d ELSE 0)
<1>1. Unsettled' = Unsettled /\ SettledOnes' = SettledOnes
  BY DEF Unsettled, SettledOnes, Settled
<1>2. NetOfAll(Unsettled) \in Int /\ NetOfAll(SettledOnes) \in Int
  BY OrdersFinite, NetOfAllInt
<1>3. /\ NetOfAll(Unsettled)' = SumFunction([p \in Unsettled |-> NetOf(p)'])
      /\ NetOfAll(SettledOnes)' = SumFunction([p \in SettledOnes |-> NetOf(p)'])
      /\ NetOfAll(Unsettled) = SumFunction([p \in Unsettled |-> NetOf(p)])
      /\ NetOfAll(SettledOnes) = SumFunction([p \in SettledOnes |-> NetOf(p)])
  BY <1>1 DEF NetOfAll
<1>4. /\ IsFiniteSet(Unsettled) /\ IsFiniteSet(SettledOnes)
      /\ Unsettled \subseteq Orders /\ SettledOnes \subseteq Orders
  BY OrdersFinite DEF Unsettled, SettledOnes
<1>5. CASE Settled(o)
  <2>1. o \in SettledOnes /\ o \notin Unsettled
    BY <1>5 DEF Unsettled, SettledOnes
  <2>2. SumFunction([p \in SettledOnes |-> NetOf(p)'])
          = SumFunction([p \in SettledOnes |-> NetOf(p)]) + d
    BY <1>4, <2>1, NetOfAllChanges
  <2>3. [p \in Unsettled |-> NetOf(p)'] = [p \in Unsettled |-> NetOf(p)]
    BY <1>4, <2>1
  <2>4. QED
    BY <1>2, <1>3, <1>5, <2>2, <2>3
<1>6. CASE ~ Settled(o)
  <2>1. o \in Unsettled /\ o \notin SettledOnes
    BY <1>6 DEF Unsettled, SettledOnes
  <2>2. SumFunction([p \in Unsettled |-> NetOf(p)'])
          = SumFunction([p \in Unsettled |-> NetOf(p)]) + d
    BY <1>4, <2>1, NetOfAllChanges
  <2>3. [p \in SettledOnes |-> NetOf(p)'] = [p \in SettledOnes |-> NetOf(p)]
    BY <1>4, <2>1
  <2>4. QED
    BY <1>2, <1>3, <1>6, <2>2, <2>3
<1>7. QED
  BY <1>5, <1>6

(* What the account becomes is what the entry says.                        *)
LEMMA PlusMoves ==
  ASSUME account \in [Balances -> Int], NEW to, DOMAIN to \subseteq Balances,
         \A b \in DOMAIN to : to[b] \in Int
  PROVE  /\ Moves(to) \in [Balances -> Int]
         /\ Plus(to) = [b \in Balances |-> account[b] + Moves(to)[b]]
  BY DEF Plus, Moves

(* An entry that moves one balance changes that balance.                   *)
LEMMA InMoves ==
  ASSUME account \in [Balances -> Int], NEW b \in Balances, NEW n \in Int,
         account' = Plus(In(b, n))
  PROVE  /\ Moves(In(b, n)) \in [Balances -> Int]
         /\ account' = [c \in Balances |-> account[c] + Moves(In(b, n))[c]]
         /\ account'[b] = account[b] + n
         /\ \A c \in Balances \ {b} : account'[c] = account[c]
<1>1. DOMAIN In(b, n) = {b} /\ In(b, n)[b] = n
  BY DEF In
<1>2. /\ Moves(In(b, n)) \in [Balances -> Int]
      /\ Plus(In(b, n)) = [c \in Balances |-> account[c] + Moves(In(b, n))[c]]
  BY <1>1, PlusMoves
<1>3. QED
  BY <1>1, <1>2 DEF Plus

-----------------------------------------------------------------------------
(* Steps of orders *)

(* The commission kept of order o is that of what was not refunded.        *)
Rounded(o, r) ==
  LET kept == Paid[o] - Refunded(o)
      commission == kept - NetOf(o)
      fair == Commission(kept, r)
  IN  fair <= commission /\ commission <= fair + Cardinality(RefundsOf(o))

(* CommissionWithinRounding is about one order at a time.                  *)
LEMMA RoundedIsWithin ==
  CommissionWithinRounding <=> \A e \in ledger : e.type = "PAYMENT" => Rounded(e.order, e.rate)
  BY DEF CommissionWithinRounding, Rounded

(* The same after a step.                                                  *)
LEMMA WithinIsRounded ==
  ASSUME \A e \in ledger' : e.type = "PAYMENT" => Rounded(e.order, e.rate)'
  PROVE  CommissionWithinRounding'
  BY DEF CommissionWithinRounding, Rounded

(* An order without a new entry keeps its commission.                      *)
LEMMA RoundedKept ==
  ASSUME NEW o, NEW r, Rounded(o, r),
         NetOf(o)' = NetOf(o), Refunded(o)' = Refunded(o), RefundsOf(o)' = RefundsOf(o)
  PROVE  Rounded(o, r)'
  BY DEF Rounded

(* A commission is a number.                                               *)
LEMMA CommissionInt ==
  ASSUME NEW n \in Int, NEW r \in Rates
  PROVE  Commission(n, r) \in Int
  BY FinanceAssumption DEF Commission

(* Rounding down a difference loses at most one more than the parts do.    *)
LEMMA CommissionOfRest ==
  ASSUME NEW k \in Int, NEW n \in Int, NEW r \in Rates
  PROVE  /\ Commission(k - n, r) <= Commission(k, r) - Commission(n, r)
         /\ Commission(k, r) - Commission(n, r) <= Commission(k - n, r) + 1
<1> DEFINE a == k * r
           b == n * r
<1>1. r \in Int /\ Scale \in Nat \ {0}
  BY FinanceAssumption
<1>2. (k - n) * r = a - b /\ a \in Int /\ b \in Int
  BY <1>1
<1>3. Commission(k - n, r) = (a - b) \div Scale
  BY <1>2 DEF Commission
<1>4. Commission(k, r) = a \div Scale /\ Commission(n, r) = b \div Scale
  BY DEF Commission
<1> HIDE DEF a, b
<1>5. /\ (a - b) \div Scale <= (a \div Scale) - (b \div Scale)
      /\ (a \div Scale) - (b \div Scale) <= ((a - b) \div Scale) + 1
  BY <1>1, <1>2
<1>6. QED
  BY <1>3, <1>4, <1>5

(* An entry for order o, of the balance it is settled in or will be.       *)
LEMMA OrderEntryKeeps ==
  ASSUME Entries, account \in [Balances -> Int],
         AccountMatchesLedger, PendingIsUnsettled, AvailableIsSettled,
         NEW o \in Orders, NEW e, e \notin ledger, ledger' = ledger \cup {e},
         e.type \in {"PAYMENT", "REFUND"}, e.order = o, e.net \in Int,
         e.moves = Moves(In(IF Settled(o) THEN "available" ELSE "pending", e.net)),
         account' = Plus(In(IF Settled(o) THEN "available" ELSE "pending", e.net)),
         settled' = settled
  PROVE  /\ Entries' /\ account' \in [Balances -> Int]
         /\ AccountMatchesLedger' /\ PendingIsUnsettled' /\ AvailableIsSettled'
<1> DEFINE b == IF Settled(o) THEN "available" ELSE "pending"
<1>1. b \in Balances /\ "pending" \in Balances /\ "available" \in Balances
  BY DEF Balances
<1>2. /\ e.moves \in [Balances -> Int]
      /\ account' = [c \in Balances |-> account[c] + e.moves[c]]
      /\ account'[b] = account[b] + e.net
      /\ \A c \in Balances \ {b} : account'[c] = account[c]
  BY <1>1, InMoves
<1>3. Entries' /\ AccountMatchesLedger' /\ account' \in [Balances -> Int]
  BY <1>2, EntryAdded
<1>4. /\ NetOf(o)' = NetOf(o) + e.net
      /\ \A p \in Orders \ {o} : NetOf(p)' = NetOf(p)
  BY OrderEntryAdded
<1>5. /\ NetOfAll(Unsettled)' = NetOfAll(Unsettled) + (IF Settled(o) THEN 0 ELSE e.net)
      /\ NetOfAll(SettledOnes)' = NetOfAll(SettledOnes) + (IF Settled(o) THEN e.net ELSE 0)
  BY <1>3, <1>4, NetMoves
<1>6. NetOfAll(Unsettled) \in Int /\ NetOfAll(SettledOnes) \in Int
  BY OrdersFinite, NetOfAllInt
<1>7. account.pending \in Int /\ account.available \in Int /\ account.frozen \in Int
        /\ account.withdrawn \in Int
  BY DEF Balances
<1>8. PendingIsUnsettled'
  BY <1>1, <1>2, <1>5, <1>6, <1>7 DEF PendingIsUnsettled, Unsettled
<1>9. AvailableIsSettled'
  <2>1. account'.frozen = account.frozen /\ account'.withdrawn = account.withdrawn
    BY <1>2 DEF Balances
  <2>2. QED
    BY <1>1, <1>2, <1>5, <1>6, <1>7, <2>1 DEF AvailableIsSettled, SettledOnes
<1>10. QED
  BY <1>3, <1>8, <1>9

(* A payment is the first entry of its order.                              *)
LEMMA PayKeeps ==
  ASSUME Books, Balanced, NEW o \in Orders, Pay(o)
  PROVE  Books' /\ Balanced'
<1> DEFINE c == Commission(Paid[o], rate)
           e == OrderEntry("PAYMENT", o, o, rate, Paid[o], c, In("pending", Paid[o] - c))
<1>1. Paid[o] \in Int /\ rate \in Rates
  BY FinanceAssumption DEF Books
<1>2. c \in Int
  BY <1>1, CommissionInt
<1>3. /\ e.type = "PAYMENT" /\ e.ref = o /\ e.order = o /\ e.rate = rate
      /\ e.net = Paid[o] - c /\ e.moves = Moves(In("pending", e.net))
  BY DEF OrderEntry
<1>4. /\ ledger' = ledger \cup {e} /\ account' = Plus(In("pending", e.net))
      /\ order[o] = "PENDING_PAYMENT" /\ ~ Recorded("PAYMENT", o)
      /\ order' = [order EXCEPT ![o] = "PAID"]
      /\ UNCHANGED <<previous, rejected, rate, settled, withdrawal, amount>>
  BY DEF Pay
<1> HIDE DEF c, e
<1>5. e.net \in Int
  BY <1>1, <1>2, <1>3
<1>6. e \notin ledger
  BY <1>3, <1>4 DEF Recorded
<1>7. ~ Settled(o) /\ RefundsOf(o) = {}
  BY <1>4 DEF Books, PaidOnce
<1>8. Entries' /\ account' \in [Balances -> Int] /\ AccountMatchesLedger'
        /\ PendingIsUnsettled' /\ AvailableIsSettled'
  BY <1>3, <1>4, <1>5, <1>6, <1>7, OrderEntryKeeps DEF Books, Balanced
<1>9. /\ NetOf(o)' = NetOf(o) + e.net
      /\ RefundsOf(o)' = RefundsOf(o) /\ Refunded(o)' = Refunded(o)
      /\ \A p \in Orders \ {o} :
           /\ Earned(p)' = Earned(p) /\ RefundsOf(p)' = RefundsOf(p)
           /\ NetOf(p)' = NetOf(p) /\ Refunded(p)' = Refunded(p)
  BY <1>3, <1>4, <1>5, <1>6, OrderEntryAdded DEF Books
<1>10. PaidOnce'
  <2>1. ASSUME NEW f \in ledger', f.type = "PAYMENT"
        PROVE  /\ f.order \in Orders /\ f.ref = f.order /\ f.rate \in Rates
               /\ \A h \in ledger' : h.type = "PAYMENT" /\ h.ref = f.ref => h = f
    BY <1>1, <1>3, <1>4, <2>1 DEF Books, PaidOnce, Recorded
  <2>2. \A p \in Orders : Recorded("PAYMENT", p) => Recorded("PAYMENT", p)'
    BY <1>4 DEF Recorded
  <2>3. Recorded("PAYMENT", o)'
    BY <1>3, <1>4 DEF Recorded
  <2>4. ASSUME NEW p \in Orders \ {o},
               \/ order'[p] # "PENDING_PAYMENT" \/ p \in rejected'
               \/ Settled(p)' \/ RefundsOf(p)' # {}
        PROVE  Recorded("PAYMENT", p)'
    BY <1>4, <1>9, <2>2, <2>4 DEF Books, PaidOnce, Settled
  <2>5. QED
    BY <2>1, <2>3, <2>4 DEF PaidOnce
<1>11. Numbered'
  BY <1>9 DEF Books, Numbered
<1>12. Done'
  BY <1>3, <1>4 DEF Books, Done
<1>13. Books'
  BY <1>4, <1>8, <1>10, <1>11, <1>12 DEF Books, Typed
<1>14. CommissionWithinRounding'
  <2>1. Rounded(o, rate)'
    <3>1. Earned(o) = {}
      BY <1>4, <1>7 DEF Earned, RefundsOf, Recorded, Books, PaidOnce
    <3>2. NetOf(o) = 0 /\ Refunded(o) = 0
      BY <1>7, <3>1, SumFunctionEmpty DEF NetOf, Refunded
    <3>3. Cardinality(RefundsOf(o)') = 0
      BY <1>7, <1>9, FS_EmptySet
    <3>4. Paid[o] - Refunded(o)' = Paid[o] /\ NetOf(o)' = Paid[o] - c
      BY <1>1, <1>2, <1>3, <1>9, <3>2
    <3>5. c = Commission(Paid[o], rate')
      BY <1>4 DEF c
    <3>6. QED
      BY <1>1, <1>2, <3>3, <3>4, <3>5 DEF Rounded
  <2>2. ASSUME NEW f \in ledger, f.type = "PAYMENT" PROVE Rounded(f.order, f.rate)'
    <3>1. f.order \in Orders \ {o} /\ Rounded(f.order, f.rate)
      BY <1>4, <2>2, RoundedIsWithin DEF Books, Balanced, PaidOnce, Recorded
    <3>2. QED
      BY <1>9, <3>1, RoundedKept
  <2>3. \A f \in ledger' : f.type = "PAYMENT" => Rounded(f.order, f.rate)'
    BY <1>3, <1>4, <2>1, <2>2
  <2>4. QED
    BY <2>3, WithinIsRounded
<1>15. QED
  BY <1>8, <1>13, <1>14 DEF Balanced

(* A refund comes off the balance its order's earnings are in.             *)
LEMMA RefundKeeps ==
  ASSUME Books, Balanced, NEW o \in Orders, NEW n \in 1 .. Paid[o], RecordRefundReversal(o, n)
  PROVE  Books' /\ Balanced'
<1> DEFINE b == IF Settled(o) THEN "available" ELSE "pending"
           c == Commission(n, RateOf(o))
           k == Cardinality(RefundsOf(o))
           e == OrderEntry("REFUND", <<o, k>>, o, RateOf(o), -n, -c, In(b, -(n + -c)))
<1>1. n \in Int /\ Paid[o] \in Int
  BY FinanceAssumption
<1>2. /\ ledger' = ledger \cup {e} /\ account' = Plus(In(b, -(n + -c)))
      /\ order[o] = "AFTER_SALE"
      /\ order' = [order EXCEPT ![o] =
                     IF Refunded(o) + n = Paid[o] THEN "REFUNDED" ELSE previous[o]]
      /\ UNCHANGED <<previous, rejected, rate, settled, withdrawal, amount>>
  BY DEF RecordRefundReversal, AccountField
<1>3. PICK p \in ledger : p.type = "PAYMENT" /\ p.ref = o
  BY <1>2 DEF Books, PaidOnce, Recorded
<1>4. RateOf(o) = p.rate /\ p.rate \in Rates /\ p.order = o
  BY <1>3 DEF RateOf, Books, PaidOnce
<1>5. c \in Int
  BY <1>1, <1>4, CommissionInt
<1>6. /\ e.type = "REFUND" /\ e.ref = <<o, k>> /\ e.order = o /\ e.gross = -n
      /\ e.net = -n - -c /\ e.moves = Moves(In(b, -(n + -c)))
  BY DEF OrderEntry
<1>7. e.net = -(n + -c) /\ e.net = c - n /\ e.net \in Int /\ e.gross \in Int
  BY <1>1, <1>5, <1>6
<1>8. k \in Nat
  BY RefundedInt DEF Books
<1> HIDE DEF c, e, k
<1>9. e \notin ledger
  <2> SUFFICES ASSUME e \in ledger PROVE FALSE
    OBVIOUS
  <2>1. e \in RefundsOf(o)
    BY <1>6 DEF RefundsOf, Earned
  <2>2. PICK j \in Nat : j < Cardinality(RefundsOf(o)) /\ e.ref = <<o, j>>
    BY <2>1 DEF Books, Numbered
  <2>3. QED
    BY <1>6, <1>8, <2>2 DEF k
<1>10. Entries' /\ account' \in [Balances -> Int] /\ AccountMatchesLedger'
        /\ PendingIsUnsettled' /\ AvailableIsSettled'
  BY <1>2, <1>6, <1>7, <1>9, OrderEntryKeeps DEF Books, Balanced
<1>11. /\ NetOf(o)' = NetOf(o) + e.net
       /\ \A q \in Orders \ {o} :
            /\ Earned(q)' = Earned(q) /\ RefundsOf(q)' = RefundsOf(q)
            /\ NetOf(q)' = NetOf(q) /\ Refunded(q)' = Refunded(q)
  BY <1>2, <1>6, <1>7, <1>9, OrderEntryAdded DEF Books
<1>12. /\ RefundsOf(o)' = RefundsOf(o) \cup {e} /\ Cardinality(RefundsOf(o)') = k + 1
       /\ Refunded(o)' = Refunded(o) + n
  <2>1. Refunded(o) \in Int /\ Refunded(o)' = Refunded(o) - e.gross
    BY <1>2, <1>6, <1>7, <1>9, RefundAdded, RefundedInt DEF Books
  <2>2. QED
    BY <1>1, <1>2, <1>6, <1>7, <1>9, <2>1, RefundAdded DEF Books, k
<1>13. \A q \in Orders : Recorded("PAYMENT", q) => Recorded("PAYMENT", q)'
  BY <1>2 DEF Recorded
<1>14. PaidOnce'
  <2>1. ASSUME NEW f \in ledger', f.type = "PAYMENT"
        PROVE  /\ f.order \in Orders /\ f.ref = f.order /\ f.rate \in Rates
               /\ \A h \in ledger' : h.type = "PAYMENT" /\ h.ref = f.ref => h = f
    BY <1>2, <1>6, <2>1 DEF Books, PaidOnce
  <2>2. Recorded("PAYMENT", o)'
    BY <1>3, <1>13 DEF Recorded
  <2>3. ASSUME NEW q \in Orders \ {o},
               \/ order'[q] # "PENDING_PAYMENT" \/ q \in rejected'
               \/ Settled(q)' \/ RefundsOf(q)' # {}
        PROVE  Recorded("PAYMENT", q)'
    BY <1>2, <1>11, <1>13, <2>3 DEF Books, PaidOnce, Settled
  <2>4. QED
    BY <2>1, <2>2, <2>3 DEF PaidOnce
<1>15. Numbered'
  <2>1. ASSUME NEW f \in RefundsOf(o)'
        PROVE  /\ f.gross \in Int
               /\ \E j \in Nat : j < k + 1 /\ f.ref = <<o, j>>
    <3>1. CASE f = e
      BY <1>6, <1>7, <1>8, <3>1
    <3>2. CASE f # e
      <4>1. f \in RefundsOf(o)
        BY <1>12, <3>2
      <4>2. PICK j \in Nat : j < k /\ f.ref = <<o, j>>
        BY <4>1 DEF Books, Numbered, k
      <4>3. j < k + 1
        BY <1>8, <4>2
      <4>4. QED
        BY <4>1, <4>2, <4>3 DEF Books, Numbered
    <3>3. QED
      BY <3>1, <3>2
  <2>2. QED
    BY <1>11, <1>12, <2>1 DEF Books, Numbered
<1>16. Done'
  BY <1>2, <1>6 DEF Books, Done
<1>17. Books'
  BY <1>2, <1>10, <1>14, <1>15, <1>16 DEF Books, Typed
<1>18. CommissionWithinRounding'
  <2>1. Rounded(o, p.rate)'
    <3>1. Rounded(o, p.rate)
      BY <1>3, <1>4, RoundedIsWithin DEF Balanced
    <3>2. Refunded(o) \in Int /\ NetOf(o) \in Int
      BY RefundedInt, NetOfInt DEF Books
    <3> DEFINE kept == Paid[o] - Refunded(o)
    <3>3. kept \in Int /\ Paid[o] - Refunded(o)' = kept - n
      BY <1>1, <1>12, <3>2
    <3>4. /\ Commission(kept, p.rate) <= kept - NetOf(o)
          /\ kept - NetOf(o) <= Commission(kept, p.rate) + k
      BY <3>1 DEF Rounded, k
    <3> HIDE DEF kept
    <3>5. /\ Commission(kept - n, p.rate) <= Commission(kept, p.rate) - c
          /\ Commission(kept, p.rate) - c <= Commission(kept - n, p.rate) + 1
      BY <1>1, <1>4, <3>3, CommissionOfRest DEF c
    <3>6. /\ Commission(kept, p.rate) \in Int /\ Commission(kept - n, p.rate) \in Int
      BY <1>1, <1>4, <3>3, CommissionInt
    <3>7. (kept - n) - NetOf(o)' = (kept - NetOf(o)) - c
      BY <1>1, <1>5, <1>7, <1>11, <3>2, <3>3
    <3>8. /\ Commission(kept - n, p.rate) <= (kept - n) - NetOf(o)'
          /\ (kept - n) - NetOf(o)' <= Commission(kept - n, p.rate) + (k + 1)
      BY <1>5, <1>8, <3>2, <3>3, <3>4, <3>5, <3>6, <3>7
    <3>9. QED
      BY <1>12, <3>3, <3>8 DEF Rounded
  <2>2. ASSUME NEW f \in ledger, f.type = "PAYMENT" PROVE Rounded(f.order, f.rate)'
    <3>1. f.order \in Orders /\ f.ref = f.order /\ Rounded(f.order, f.rate)
      BY <2>2, RoundedIsWithin DEF Books, Balanced, PaidOnce
    <3>2. CASE f.order = o
      <4>1. f = p
        BY <1>3, <2>2, <3>1, <3>2 DEF Books, PaidOnce
      <4>2. QED
        BY <2>1, <3>2, <4>1
    <3>3. CASE f.order # o
      BY <1>11, <3>1, <3>3, RoundedKept
    <3>4. QED
      BY <3>2, <3>3
  <2>3. \A f \in ledger' : f.type = "PAYMENT" => Rounded(f.order, f.rate)'
    BY <1>2, <1>6, <2>2
  <2>4. QED
    BY <2>3, WithinIsRounded
<1>19. QED
  BY <1>10, <1>17, <1>18 DEF Balanced

(* Nothing is written to the ledger.                                       *)
LEMMA LedgerUntouched ==
  ASSUME Books, Balanced, UNCHANGED <<account, ledger, settled>>,
         Typed', DOMAIN order' = Orders, DOMAIN previous' = Orders, rate' \in Rates,
         \A o \in Orders : previous'[o] # "PENDING_PAYMENT",
         \A o \in Orders : order'[o] # "PENDING_PAYMENT" \/ o \in rejected'
                            => order[o] # "PENDING_PAYMENT" \/ o \in rejected,
         \A w \in Withdrawals :
           withdrawal[w] = "NONE" \/ withdrawal'[w] = withdrawal[w]
             \/ (withdrawal[w] = "PENDING" /\ withdrawal'[w] = "APPROVED")
  PROVE  Books' /\ Balanced'
<1>1. \A o : /\ Earned(o)' = Earned(o) /\ RefundsOf(o)' = RefundsOf(o)
             /\ NetOf(o)' = NetOf(o) /\ Refunded(o)' = Refunded(o)
             /\ Settled(o)' = Settled(o) /\ Recorded("PAYMENT", o)' = Recorded("PAYMENT", o)
  BY DEF Earned, RefundsOf, NetOf, Refunded, Settled, Recorded
<1>2. Entries' /\ PaidOnce' /\ Numbered'
  BY <1>1 DEF Books, Entries, PaidOnce, Numbered
<1>3. Done'
  BY DEF Books, Done
<1>4. AccountMatchesLedger' /\ PendingIsUnsettled' /\ AvailableIsSettled'
  BY <1>1 DEF Balanced, AccountMatchesLedger, PendingIsUnsettled, AvailableIsSettled, NetOfAll
<1>5. CommissionWithinRounding'
  <2>1. ASSUME NEW e \in ledger, e.type = "PAYMENT" PROVE Rounded(e.order, e.rate)'
    <3>1. Rounded(e.order, e.rate)
      BY <2>1, RoundedIsWithin DEF Balanced
    <3>2. QED
      BY <1>1, <3>1, RoundedKept
  <2>2. QED
    BY <2>1, WithinIsRounded
<1>6. QED
  BY <1>2, <1>3, <1>4, <1>5 DEF Books, Balanced

(* What happens to an order keeps the books.                               *)
LEMMA OrderStepKeeps ==
  ASSUME Books, Balanced, NEW o \in Orders, OrderStep(o)
  PROVE  Books' /\ Balanced'
<1>1. CASE Complete(o) \/ OpenClaim(o) \/ RejectClaim(o) \/ RequestArbitration(o)
  <2>1. UNCHANGED <<rate, account, ledger, settled, withdrawal, amount>>
    BY <1>1 DEF Complete, OpenClaim, RejectClaim, RequestArbitration, MoveOrder
  <2>2. /\ DOMAIN order' = Orders /\ DOMAIN previous' = Orders
        /\ \A p \in Orders : previous'[p] # "PENDING_PAYMENT"
        /\ \A p \in Orders : order'[p] # "PENDING_PAYMENT" \/ p \in rejected'
                            => order[p] # "PENDING_PAYMENT" \/ p \in rejected
    BY <1>1 DEF Complete, OpenClaim, RejectClaim, RequestArbitration, MoveOrder, Books
  <2>3. Typed' /\ rate' \in Rates
    BY <2>1 DEF Books, Typed
  <2>4. QED
    BY <2>1, <2>2, <2>3, LedgerUntouched
<1>2. QED
  BY <1>1, PayKeeps, RefundKeeps DEF OrderStep

-----------------------------------------------------------------------------
(* Steps of the account *)

(* An entry about the account alone, of a settlement or a withdrawal.      *)
LEMMA AccountEntryKeeps ==
  ASSUME Books, Balanced, NEW e, e \notin ledger, ledger' = ledger \cup {e},
         e.type \notin {"PAYMENT", "REFUND"}, e.net \in Int,
         NEW to, DOMAIN to \subseteq Balances, \A b \in DOMAIN to : to[b] \in Int,
         e.moves = Moves(to), account' = Plus(to),
         UNCHANGED <<orderVars, rate>>, Typed', Done',
         \A o \in Orders : Settled(o)' => Recorded("PAYMENT", o)
  PROVE  Books' /\ AccountMatchesLedger' /\ CommissionWithinRounding'
<1>1. /\ e.moves \in [Balances -> Int]
      /\ account' = [b \in Balances |-> account[b] + e.moves[b]]
  BY PlusMoves DEF Books
<1>2. Entries' /\ AccountMatchesLedger' /\ account' \in [Balances -> Int]
  BY <1>1, EntryAdded DEF Books, Balanced
<1>3. \A o : /\ Earned(o)' = Earned(o) /\ RefundsOf(o)' = RefundsOf(o)
             /\ NetOf(o)' = NetOf(o) /\ Refunded(o)' = Refunded(o)
  BY AccountEntryAdded
<1>4. PaidOnce'
  BY <1>3 DEF Books, PaidOnce, Recorded, orderVars
<1>5. Numbered'
  BY <1>3 DEF Books, Numbered
<1>6. CommissionWithinRounding'
  <2>1. ASSUME NEW f \in ledger', f.type = "PAYMENT" PROVE Rounded(f.order, f.rate)'
    <3>1. Rounded(f.order, f.rate)
      BY <2>1, RoundedIsWithin DEF Balanced
    <3>2. QED
      BY <1>3, <3>1, RoundedKept
  <2>2. QED
    BY <2>1, WithinIsRounded
<1>7. QED
  BY <1>2, <1>4, <1>5, <1>6 DEF Books, orderVars

(* What moves within the money of settled orders.                          *)
LEMMA BalancesStay ==
  ASSUME Books, Balanced, NEW e, ledger' = ledger \cup {e},
         e.type \notin {"PAYMENT", "REFUND"}, settled' = settled,
         account'.pending = account.pending,
         account'.available + account'.frozen + account'.withdrawn
           = account.available + account.frozen + account.withdrawn
  PROVE  PendingIsUnsettled' /\ AvailableIsSettled'
<1>1. \A o : NetOf(o)' = NetOf(o)
  BY AccountEntryAdded
<1>2. QED
  BY <1>1 DEF Balanced, PendingIsUnsettled, AvailableIsSettled, NetOfAll, Settled

(* A settlement moves what its orders earned from pending to available.    *)
LEMMA SettlementKeeps ==
  ASSUME Books, Balanced, NEW q \in Requests, NEW period \in SUBSET Orders,
         CreateSettlement(q, period)
  PROVE  Books' /\ Balanced'
<1> DEFINE due == {o \in period : Settleable(o)}
           total == NetOfAll(due)
           moves == [b \in {"pending", "available"} |->
                       IF b = "pending" THEN -total ELSE total]
           e == AccountEntry("SETTLEMENT", q, total, moves)
           rows == {[request |-> q, order |-> o, net |-> NetOf(o)] : o \in due}
<1>1. /\ \A s \in settled : s.request # q
      /\ due # {} /\ settled' = settled \cup rows
      /\ account' = Plus(moves) /\ ledger' = ledger \cup {e}
      /\ UNCHANGED <<orderVars, rate, withdrawal, amount>>
  BY DEF CreateSettlement
<1>2. due \subseteq Unsettled /\ \A o \in due : Recorded("PAYMENT", o)
  BY DEF Settleable, Unsettled
<1>3. IsFiniteSet(due)
  BY <1>2, OrdersFinite, FS_Subset
<1>4. total \in Int
  BY <1>3, NetOfAllInt DEF Books
<1>5. /\ e.type = "SETTLEMENT" /\ e.ref = q /\ e.net = total /\ e.moves = Moves(moves)
  BY DEF AccountEntry
<1>6. /\ DOMAIN moves = {"pending", "available"}
      /\ moves["pending"] = -total /\ moves["available"] = total
  OBVIOUS
<1> HIDE DEF due, total, moves, e
<1>7. /\ \E s \in settled' : s.request = q
      /\ \A o \in Orders : Settled(o)' <=> Settled(o) \/ o \in due
  <2>1. \A s \in rows : s.request = q /\ s.order \in due
    OBVIOUS
  <2>2. ASSUME NEW o \in due PROVE \E s \in rows : s.order = o
    <3>1. [request |-> q, order |-> o, net |-> NetOf(o)] \in rows
      OBVIOUS
    <3>2. QED
      BY <3>1
  <2> HIDE DEF rows
  <2>3. \E s \in settled' : s.request = q
    BY <1>1, <2>1, <2>2
  <2>4. ASSUME NEW o \in Orders PROVE Settled(o)' <=> Settled(o) \/ o \in due
    BY <1>1, <2>1, <2>2 DEF Settled
  <2>5. QED
    BY <2>3, <2>4
<1> HIDE DEF rows
<1>8. e \notin ledger
  BY <1>1, <1>5 DEF Books, Done
<1>9. Done'
  BY <1>1, <1>5, <1>7 DEF Books, Done
<1>10. /\ DOMAIN moves \subseteq Balances /\ \A b \in DOMAIN moves : moves[b] \in Int
  BY <1>4, <1>6 DEF Balances
<1>11. Books' /\ AccountMatchesLedger' /\ CommissionWithinRounding'
  <2>1. \A o \in Orders : Settled(o)' => Recorded("PAYMENT", o)
    BY <1>2, <1>7 DEF Books, PaidOnce
  <2>2. Typed'
    BY <1>1 DEF Books, Typed
  <2>3. QED
    BY <1>1, <1>4, <1>5, <1>8, <1>9, <1>10, <2>1, <2>2, AccountEntryKeeps
<1>12. \A o : NetOf(o)' = NetOf(o)
  BY <1>1, <1>5, AccountEntryAdded
<1>13. /\ account'.pending = account.pending - total
       /\ account'.available = account.available + total
       /\ account'.frozen = account.frozen /\ account'.withdrawn = account.withdrawn
  BY <1>1, <1>4, <1>6 DEF Books, Plus, Balances
<1>14. Unsettled' = Unsettled \ due /\ SettledOnes' = SettledOnes \cup due
  BY <1>2, <1>7 DEF Unsettled, SettledOnes
<1>15. \A o \in Orders : NetOf(o) \in Int
  BY NetOfInt DEF Books
<1>16. NetOfAll(Unsettled) = NetOfAll(Unsettled \ due) + total
  <2>1. (Unsettled \ due) \cup due = Unsettled /\ (Unsettled \ due) \cap due = {}
    BY <1>2
  <2>2. IsFiniteSet(Unsettled \ due) /\ Unsettled \ due \subseteq Orders /\ due \subseteq Orders
    BY <1>2, OrdersFinite, FS_Difference DEF Unsettled
  <2>3. NetOfAll((Unsettled \ due) \cup due) = NetOfAll(Unsettled \ due) + NetOfAll(due)
    BY <1>3, <2>1, <2>2, NetOfBoth DEF Books
  <2>4. QED
    BY <2>1, <2>3 DEF total
<1>17. NetOfAll(SettledOnes \cup due) = NetOfAll(SettledOnes) + total
  <2>1. SettledOnes \cap due = {}
    BY <1>2, OrdersFinite
  <2>2. NetOfAll(SettledOnes \cup due) = NetOfAll(SettledOnes) + NetOfAll(due)
    BY <1>3, <2>1, OrdersFinite, NetOfBoth DEF Books
  <2>3. QED
    BY <2>2 DEF total
<1>18. /\ NetOfAll(Unsettled)' = NetOfAll(Unsettled \ due)
       /\ NetOfAll(SettledOnes)' = NetOfAll(SettledOnes \cup due)
  BY <1>12, <1>14 DEF NetOfAll
<1>19. /\ NetOfAll(Unsettled \ due) \in Int /\ NetOfAll(SettledOnes) \in Int
       /\ account.pending \in Int /\ account.available \in Int
       /\ account.frozen \in Int /\ account.withdrawn \in Int
  BY OrdersFinite, FS_Difference, NetOfAllInt DEF Books, Balances
<1>20. PendingIsUnsettled'
  BY <1>4, <1>13, <1>16, <1>18, <1>19 DEF Balanced, PendingIsUnsettled, Unsettled
<1>21. AvailableIsSettled'
  BY <1>4, <1>13, <1>17, <1>18, <1>19 DEF Balanced, AvailableIsSettled, SettledOnes
<1>22. QED
  BY <1>11, <1>20, <1>21 DEF Balanced

(* Money of settled orders moves from one balance to another, in a         *)
(* withdrawal that could not have moved it so before.                      *)
LEMMA TransferKeeps ==
  ASSUME Books, Balanced, NEW w \in Withdrawals, NEW e, ledger' = ledger \cup {e},
         e.ref = w, e.net \in Int, UNCHANGED <<orderVars, rate, settled>>, Typed',
         \A v \in Withdrawals \ {w} : withdrawal'[v] = withdrawal[v],
         \/ e.type = "WITHDRAWAL" /\ withdrawal[w] = "NONE" /\ withdrawal'[w] = "PENDING"
         \/ /\ e.type = "WITHDRAWAL_RESTORE"
            /\ withdrawal[w] = "PENDING" /\ withdrawal'[w] = "REJECTED"
         \/ /\ e.type = "WITHDRAWAL_COMPLETE"
            /\ withdrawal[w] = "APPROVED" /\ withdrawal'[w] = "COMPLETED",
         NEW b \in Balances, NEW c \in Balances, b # "pending", c # "pending", b # c,
         NEW n \in Int, NEW to, DOMAIN to = {b, c}, to[b] = -n, to[c] = n,
         e.moves = Moves(to), account' = Plus(to)
  PROVE  Books' /\ Balanced'
<1>1. e \notin ledger
  BY DEF Books, Done
<1>2. Done'
  BY DEF Books, Done
<1>3. DOMAIN to \subseteq Balances /\ \A d \in DOMAIN to : to[d] \in Int
  OBVIOUS
<1>4. Books' /\ AccountMatchesLedger' /\ CommissionWithinRounding'
  <2>1. \A o \in Orders : Settled(o)' => Recorded("PAYMENT", o)
    BY DEF Books, PaidOnce, Settled
  <2>2. QED
    BY <1>1, <1>2, <1>3, <2>1, AccountEntryKeeps
<1>5. /\ account'.pending = account.pending
      /\ account'.available + account'.frozen + account'.withdrawn
           = account.available + account.frozen + account.withdrawn
  <2>1. /\ account.available \in Int /\ account.frozen \in Int
        /\ account.withdrawn \in Int /\ account.pending \in Int
    BY DEF Books, Balances
  <2>2. \A d \in Balances : account'[d] = account[d] + IF d \in {b, c} THEN to[d] ELSE 0
    BY DEF Plus
  <2>3. QED
    BY <2>1, <2>2 DEF Balances
<1>6. PendingIsUnsettled' /\ AvailableIsSettled'
  BY <1>5, BalancesStay
<1>7. QED
  BY <1>4, <1>6 DEF Balanced

(* A withdrawal moves money between available, frozen and withdrawn.       *)
LEMMA WithdrawalStepKeeps ==
  ASSUME Books, Balanced, NEW w \in Withdrawals, WithdrawalStep(w)
  PROVE  Books' /\ Balanced'
<1>1. /\ amount[w] \in Int /\ -amount[w] \in Int
      /\ "available" \in Balances /\ "frozen" \in Balances /\ "withdrawn" \in Balances
  BY FinanceAssumption DEF Books, Balances, Typed
<1>2. ASSUME NEW n \in 1 .. MaxAmount, CreateWithdrawal(w, n) PROVE Books' /\ Balanced'
  <2> DEFINE e == AccountEntry("WITHDRAWAL", w, -n, Freeze(n))
             to == Freeze(n)
  <2>1. /\ e.type = "WITHDRAWAL" /\ e.ref = w /\ e.net = -n /\ e.moves = Moves(to)
    BY DEF AccountEntry
  <2>2. DOMAIN to = {"available", "frozen"} /\ to["available"] = -n /\ to["frozen"] = n
    BY DEF Freeze
  <2>3. /\ withdrawal[w] = "NONE" /\ withdrawal' = [withdrawal EXCEPT ![w] = "PENDING"]
        /\ amount' = [amount EXCEPT ![w] = n]
        /\ account' = Plus(to) /\ ledger' = ledger \cup {e}
        /\ UNCHANGED <<orderVars, rate, settled>>
    BY <1>2 DEF CreateWithdrawal
  <2>4. /\ Typed' /\ withdrawal'[w] = "PENDING"
        /\ \A v \in Withdrawals \ {w} : withdrawal'[v] = withdrawal[v]
    BY <2>3 DEF Books, Typed, WithdrawalStatus
  <2>5. n \in Int /\ -n \in Int
    OBVIOUS
  <2> HIDE DEF e, to
  <2>6. QED
    BY <1>1, <2>1, <2>2, <2>3, <2>4, <2>5, TransferKeeps
<1>3. CASE ApproveWithdrawal(w)
  <2>1. /\ withdrawal[w] = "PENDING" /\ withdrawal' = [withdrawal EXCEPT ![w] = "APPROVED"]
        /\ UNCHANGED <<orderVars, rate, account, ledger, settled, amount>>
    BY <1>3 DEF ApproveWithdrawal, Review
  <2>2. Typed'
    BY <2>1 DEF Books, Typed, WithdrawalStatus
  <2>3. \A v \in Withdrawals :
          \/ withdrawal'[v] = withdrawal[v]
          \/ withdrawal[v] = "PENDING" /\ withdrawal'[v] = "APPROVED"
    BY <2>1 DEF Books, Typed
  <2>4. QED
    BY <2>1, <2>2, <2>3, LedgerUntouched DEF Books, orderVars
<1>4. CASE RejectWithdrawal(w)
  <2> DEFINE to == Freeze(-amount[w])
             e == AccountEntry("WITHDRAWAL_RESTORE", w, amount[w], to)
  <2>1. /\ e.type = "WITHDRAWAL_RESTORE" /\ e.ref = w /\ e.net = amount[w]
        /\ e.moves = Moves(to)
    BY DEF AccountEntry
  <2>2. /\ DOMAIN to = {"available", "frozen"}
        /\ to["available"] = -(-amount[w]) /\ to["frozen"] = -amount[w]
    BY DEF Freeze
  <2>3. /\ withdrawal[w] = "PENDING" /\ withdrawal' = [withdrawal EXCEPT ![w] = "REJECTED"]
        /\ account' = Plus(to) /\ ledger' = ledger \cup {e}
        /\ UNCHANGED <<orderVars, rate, settled, amount>>
    BY <1>4 DEF RejectWithdrawal, Rejectable, Review
  <2>4. /\ Typed' /\ withdrawal'[w] = "REJECTED"
        /\ \A v \in Withdrawals \ {w} : withdrawal'[v] = withdrawal[v]
    BY <2>3 DEF Books, Typed, WithdrawalStatus
  <2> HIDE DEF e, to
  <2>5. QED
    BY <1>1, <2>1, <2>2, <2>3, <2>4, TransferKeeps
<1>5. CASE CompleteWithdrawal(w)
  <2> DEFINE to == PaidOut(amount[w])
             e == AccountEntry("WITHDRAWAL_COMPLETE", w, -amount[w], to)
  <2>1. /\ e.type = "WITHDRAWAL_COMPLETE" /\ e.ref = w /\ e.net = -amount[w]
        /\ e.moves = Moves(to)
    BY DEF AccountEntry
  <2>2. /\ DOMAIN to = {"frozen", "withdrawn"}
        /\ to["frozen"] = -amount[w] /\ to["withdrawn"] = amount[w]
    BY DEF PaidOut
  <2>3. /\ withdrawal[w] = "APPROVED" /\ withdrawal' = [withdrawal EXCEPT ![w] = "COMPLETED"]
        /\ account' = Plus(to) /\ ledger' = ledger \cup {e}
        /\ UNCHANGED <<orderVars, rate, settled, amount>>
    BY <1>5 DEF CompleteWithdrawal, Review
  <2>4. /\ Typed' /\ withdrawal'[w] = "COMPLETED"
        /\ \A v \in Withdrawals \ {w} : withdrawal'[v] = withdrawal[v]
    BY <2>3 DEF Books, Typed, WithdrawalStatus
  <2> HIDE DEF e, to
  <2>5. QED
    BY <1>1, <2>1, <2>2, <2>3, <2>4, TransferKeeps
<1>6. QED
  BY <1>2, <1>3, <1>4, <1>5 DEF WithdrawalStep

-----------------------------------------------------------------------------
(* Theorems *)

(* The empty books balance.                                                *)
LEMMA InitBooks == Init => Books /\ Balanced
<1> SUFFICES ASSUME Init PROVE Books /\ Balanced
  OBVIOUS
<1>1. Typed
  BY InitInv DEF Inv
<1>2. ledger = {} /\ settled = {} /\ account = [b \in Balances |-> 0]
  BY DEF Init
<1>3. \A o : Earned(o) = {} /\ RefundsOf(o) = {}
  BY <1>2 DEF Earned, RefundsOf
<1>4. Books
  BY <1>1, <1>2, <1>3, FS_EmptySet
     DEF Init, Books, Entries, PaidOnce, Numbered, Done, Settled
<1>5. AccountMatchesLedger
  BY <1>2, SumFunctionEmpty DEF AccountMatchesLedger
<1>6. \A o : NetOf(o) = 0
  BY <1>3, SumFunctionEmpty DEF NetOf
<1>7. SettledOnes = {} /\ NetOfAll(SettledOnes) = 0
  BY <1>2, SumFunctionEmpty DEF SettledOnes, NetOfAll, Settled
<1>8. NetOfAll(Unsettled) = 0
  <2> DEFINE f == [o \in Unsettled |-> NetOf(o)]
  <2>1. NetOfAll(Unsettled) = SumFunctionOnSet(f, Unsettled)
    BY DEF NetOfAll, SumFunction
  <2>2. \A o \in Unsettled : f[o] = 0
    BY <1>6
  <2> HIDE DEF f
  <2>3. SumFunctionOnSet(f, Unsettled) = 0 * Cardinality(Unsettled)
    BY <2>2, OrdersFinite, SumOfSame
  <2>4. Cardinality(Unsettled) \in Nat
    BY OrdersFinite, FS_CardinalityType
  <2>5. QED
    BY <2>1, <2>3, <2>4
<1>9. PendingIsUnsettled /\ AvailableIsSettled
  BY <1>2, <1>7, <1>8
     DEF PendingIsUnsettled, AvailableIsSettled, Unsettled, SettledOnes, Balances
<1>10. CommissionWithinRounding
  BY <1>2 DEF CommissionWithinRounding
<1>11. QED
  BY <1>4, <1>5, <1>9, <1>10 DEF Balanced

(* Every step keeps the books balanced.                                    *)
LEMMA StepBooks == Books /\ Balanced /\ [Next]_vars => Books' /\ Balanced'
<1> SUFFICES ASSUME Books, Balanced, [Next]_vars PROVE Books' /\ Balanced'
  OBVIOUS
<1>1. ASSUME NEW r \in Rates, UpdateCommission(r) PROVE Books' /\ Balanced'
  BY <1>1, LedgerUntouched DEF UpdateCommission, Books, Typed, orderVars
<1>2. CASE UNCHANGED vars
  BY <1>2, LedgerUntouched DEF vars, Books, Typed, orderVars
<1>3. QED
  BY <1>1, <1>2, OrderStepKeeps, SettlementKeeps, WithdrawalStepKeeps DEF Next

(* The books, of whose balance the theorems below are parts.               *)
LEMMA BooksAlways == Spec => [](Books /\ Balanced)
  BY InitBooks, StepBooks, PTL DEF Spec

(* Each balance is the sum of what the ledger's entries moved: whatever    *)
(* overlaps, no operation of merchantFinanceService.js changes the account *)
(* without its entry, or writes an entry twice.                            *)
THEOREM AccountMatchesLedgerAlways == Spec => []AccountMatchesLedger
<1>1. Balanced => AccountMatchesLedger
  BY DEF Balanced
<1>2. QED
  BY <1>1, BooksAlways, PTL

(* The pending balance is what the unsettled orders earned, for any orders *)
(* and refunds: createSettlement and recordRefundReversal agree on which   *)
(* balance an order's money is in.                                         *)
THEOREM PendingIsUnsettledAlways == Spec => []PendingIsUnsettled
<1>1. Balanced => PendingIsUnsettled
  BY DEF Balanced
<1>2. QED
  BY <1>1, BooksAlways, PTL

(* No withdrawal makes or loses money: what settled orders earned is       *)
(* available, frozen or paid out.                                          *)
THEOREM AvailableIsSettledAlways == Spec => []AvailableIsSettled
<1>1. Balanced => AvailableIsSettled
  BY DEF Balanced
<1>2. QED
  BY <1>1, BooksAlways, PTL

(* For any price, rate and scale and any number of refunds, the commission *)
(* kept is that of what was not refunded, and at most one more a refund:   *)
(* recordRefundReversal rounds each down at the rate of the payment.       *)
THEOREM CommissionWithinRoundingAlways == Spec => []CommissionWithinRounding
<1>1. Balanced => CommissionWithinRounding
  BY DEF Balanced
<1>2. QED
  BY <1>1, BooksAlways, PTL

(* MerchantLedgerEntryType, as far as the model has it.                    *)
EntryTypes == {"PAYMENT", "REFUND", "SETTLEMENT", "WITHDRAWAL", "WITHDRAWAL_RESTORE",
               "WITHDRAWAL_COMPLETE"}

(* The types hold at the start.                                            *)
LEMMA InitTypeOK == Init => TypeOK
  BY FinanceAssumption DEF Init, TypeOK, OrderStatus, WithdrawalStatus, Balances

(* The types of orders, entries and settlements.                           *)
Shapes ==
  /\ order \in [Orders -> OrderStatus] /\ previous \in [Orders -> {"PAID", "COMPLETED"}]
  /\ rejected \subseteq Orders /\ \A e \in ledger : e.type \in EntryTypes
  /\ \A s \in settled : s.order \in Orders /\ s.request \in Requests /\ s.net \in Int

(* An entry is of the type it is written with.                             *)
LEMMA TypeOfEntry ==
  \A t, ref, moves, net, o, r, gross, c :
    /\ AccountEntry(t, ref, net, moves).type = t
    /\ OrderEntry(t, ref, o, r, gross, c, moves).type = t
  BY DEF AccountEntry, OrderEntry

(* What the sums say of the numbers, and the actions of the rest.          *)
LEMMA StepTypeOK ==
  ASSUME TypeOK, Books, Books', FrozenIsOpen', [Next]_vars
  PROVE  TypeOK'
<1>1. /\ rate' \in Rates /\ account' \in [Balances -> Int]
      /\ withdrawal' \in [Withdrawals -> WithdrawalStatus]
      /\ amount' \in [Withdrawals -> 0 .. MaxAmount]
      /\ \A e \in ledger' : e.net \in Int /\ e.moves \in [Balances -> Int]
  BY DEF Books, Typed, Entries
<1>2. account'.frozen >= 0 /\ account'.withdrawn >= 0
  <2>1. /\ Cardinality(Units({"PENDING", "APPROVED"})') \in Nat
        /\ Cardinality(Units({"COMPLETED"})') \in Nat
    BY UnitsFiniteAfter, FS_CardinalityType
  <2>2. QED
    BY <2>1 DEF FrozenIsOpen
<1>3. Shapes'
  <2> USE DEF Shapes
  <2>1. Shapes
    BY DEF TypeOK, EntryTypes
  <2>2. ASSUME NEW o \in Orders, OrderStep(o) PROVE Shapes'
    <3>1. settled' = settled
      BY <2>2 DEF OrderStep, Pay, Complete, OpenClaim, RejectClaim, RequestArbitration,
                  MoveOrder, RecordRefundReversal
    <3>2. /\ order' \in [Orders -> OrderStatus]
          /\ previous' \in [Orders -> {"PAID", "COMPLETED"}] /\ rejected' \subseteq Orders
      BY <2>1, <2>2 DEF OrderStep, Pay, Complete, OpenClaim, RejectClaim, RequestArbitration,
                        MoveOrder, RecordRefundReversal, OrderStatus
    <3>3. \A e \in ledger' : e.type \in EntryTypes
      <4>1. CASE Pay(o)
        BY <2>1, <4>1, TypeOfEntry DEF Pay, EntryTypes
      <4>2. ASSUME NEW n, RecordRefundReversal(o, n)
            PROVE  \A e \in ledger' : e.type \in EntryTypes
        BY <2>1, <4>2, TypeOfEntry DEF RecordRefundReversal, EntryTypes
      <4>3. CASE Complete(o) \/ OpenClaim(o) \/ RejectClaim(o) \/ RequestArbitration(o)
        BY <2>1, <4>3 DEF Complete, OpenClaim, RejectClaim, RequestArbitration, MoveOrder
      <4>4. QED
        BY <2>2, <4>1, <4>2, <4>3 DEF OrderStep
    <3>4. QED
      BY <2>1, <3>1, <3>2, <3>3
  <2>3. ASSUME NEW q \in Requests, NEW period \in SUBSET Orders, CreateSettlement(q, period)
        PROVE  Shapes'
    <3> DEFINE due == {o \in period : Settleable(o)}
    <3>1. UNCHANGED orderVars
      BY <2>3 DEF CreateSettlement
    <3>2. settled' = settled \cup {[request |-> q, order |-> o, net |-> NetOf(o)] : o \in due}
      BY <2>3 DEF CreateSettlement
    <3> DEFINE total == NetOfAll(due)
               moves == [b \in {"pending", "available"} |->
                           IF b = "pending" THEN -total ELSE total]
    <3>3. ledger' = ledger \cup {AccountEntry("SETTLEMENT", q, total, moves)}
      BY <2>3 DEF CreateSettlement
    <3> HIDE DEF moves, total
    <3>4. \A e \in ledger' : e.type \in EntryTypes
      BY <2>1, <3>3, TypeOfEntry DEF EntryTypes
    <3>5. \A o \in due : o \in Orders /\ NetOf(o) \in Int
      BY NetOfInt DEF Books
    <3>6. QED
      BY <2>1, <3>1, <3>2, <3>5, <3>4 DEF orderVars
  <2>4. ASSUME NEW w \in Withdrawals, WithdrawalStep(w) PROVE Shapes'
    <3>1. UNCHANGED <<orderVars, settled>>
      BY <2>4 DEF WithdrawalStep, CreateWithdrawal, ApproveWithdrawal, RejectWithdrawal,
                  CompleteWithdrawal, Review
    <3>2. ASSUME NEW n \in 1 .. MaxAmount, CreateWithdrawal(w, n)
          PROVE  \A e \in ledger' : e.type \in EntryTypes
      BY <2>1, <3>2, TypeOfEntry DEF CreateWithdrawal, EntryTypes
    <3>3. CASE ApproveWithdrawal(w)
      BY <2>1, <3>1, <3>3 DEF ApproveWithdrawal, orderVars
    <3>4. CASE RejectWithdrawal(w)
      BY <2>1, <3>1, <3>4, TypeOfEntry DEF RejectWithdrawal, EntryTypes, orderVars
    <3>5. CASE CompleteWithdrawal(w)
      BY <2>1, <3>1, <3>5, TypeOfEntry DEF CompleteWithdrawal, EntryTypes, orderVars
    <3>6. QED
      BY <2>1, <2>4, <3>1, <3>2, <3>3, <3>4, <3>5 DEF WithdrawalStep, orderVars
  <2>5. ASSUME (\E r \in Rates : UpdateCommission(r)) \/ UNCHANGED vars PROVE Shapes'
    BY <2>1, <2>5 DEF UpdateCommission, vars, orderVars
  <2>6. QED
    BY <2>2, <2>3, <2>4, <2>5 DEF Next
<1>4. QED
  BY <1>1, <1>2, <1>3 DEF TypeOK, Shapes, EntryTypes

(* Every value keeps its type; what is frozen and withdrawn is never       *)
(* negative.                                                               *)
THEOREM TypeCorrect == Spec => []TypeOK
<1>1. Books /\ Balanced /\ Inv /\ TypeOK /\ [Next]_vars => (Books /\ Balanced /\ Inv /\ TypeOK)'
  BY StepBooks, StepInv, StepTypeOK DEF Inv
<1>2. Init => Books /\ Balanced /\ Inv /\ TypeOK
  BY InitBooks, InitInv, InitTypeOK
<1>3. QED
  BY <1>1, <1>2, PTL DEF Spec
=============================================================================
