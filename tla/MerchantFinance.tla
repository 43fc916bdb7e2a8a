---------------------------- MODULE MerchantFinance ----------------------------
(***************************************************************************)
(* A merchant's money: src/services/merchantFinanceService.js.             *)
(*                                                                         *)
(* A payment earns its merchant the amount less a commission, into the     *)
(* pending balance; a refund takes its part back.  A settlement moves what *)
(* completed orders earned from pending to available; a withdrawal freezes *)
(* part of that until the platform pays it out or turns it down.  Every    *)
(* move is written to a ledger that is never changed.                      *)
(*                                                                         *)
(* Every transaction here is one step: settlements and withdrawals run at  *)
(* Serializable, payments and refunds change an order whose status keeps   *)
(* the settlement away until they commit.  That is so while the claims of  *)
(* an order do not overlap: a refund of an order that another claim let go *)
(* (reopened by arbitration) may read, before a settlement commits, that   *)
(* the order is not settled; that race is left out.  The merchant has one  *)
(* shop.                                                                   *)
(***************************************************************************)
EXTENDS Integers, FiniteSets, Functions

CONSTANTS
  Orders,
  Paid,            \* Paid[o]: what the customer pays for o
  Scale, Rates,    \* commission rates in use, in parts of Scale
  Requests,        \* clientRequestIds of settlements
  Withdrawals,     \* clientRequestIds of withdrawals
  MaxAmount,       \* bound: the largest withdrawal asked for
  MaxRefunds       \* bound: refunds of one order

ASSUME FinanceAssumption ==
  /\ Paid \in [Orders -> Nat \ {0}]
  /\ Scale \in Nat \ {0} /\ Rates \subseteq 0 .. Scale /\ Rates # {}
  /\ IsFiniteSet(Orders) /\ IsFiniteSet(Withdrawals)
  /\ MaxAmount \in Nat /\ MaxRefunds \in Nat

(* PAID stands for every status between payment and receipt, AFTER_SALE    *)
(* for every status that holds the order for a claim.                      *)
OrderStatus == {"PENDING_PAYMENT", "PAID", "COMPLETED", "AFTER_SALE", "REFUNDED"}
WithdrawalStatus == {"NONE", "PENDING", "APPROVED", "REJECTED", "COMPLETED"}
Balances == {"pending", "available", "frozen", "withdrawn"}

VARIABLES
  order, previous,   \* status of each order, and the one a claim took it from
  rejected,          \* orders with a rejected claim, which arbitration may reopen
  rate,              \* the shop's commissionRateBps
  account,           \* the merchant's balances
  ledger,            \* entries: type, reference, order, rate, gross, commission,
                     \* net, and what each moved between the balances
  settled,           \* MerchantSettlementOrder rows: request, order, net
  withdrawal,        \* status of each withdrawal
  amount             \* and its amount

orderVars == <<order, previous, rejected>>
vars == <<orderVars, rate, account, ledger, settled, withdrawal, amount>>

TypeOK ==
  /\ order \in [Orders -> OrderStatus]
  /\ previous \in [Orders -> {"PAID", "COMPLETED"}]
  /\ rejected \subseteq Orders
  /\ rate \in Rates
  /\ account \in [Balances -> Int]
  /\ account.frozen >= 0 /\ account.withdrawn >= 0
  /\ \A e \in ledger : /\ e.type \in {"PAYMENT", "REFUND", "SETTLEMENT", "WITHDRAWAL",
                                      "WITHDRAWAL_RESTORE", "WITHDRAWAL_COMPLETE"}
                       /\ e.net \in Int /\ e.moves \in [Balances -> Int]
  /\ \A s \in settled : s.order \in Orders /\ s.request \in Requests /\ s.net \in Int
  /\ withdrawal \in [Withdrawals -> WithdrawalStatus]
  /\ amount \in [Withdrawals -> 0 .. MaxAmount]

Init ==
  /\ order = [o \in Orders |-> "PENDING_PAYMENT"]
  /\ previous = [o \in Orders |-> "PAID"]
  /\ rejected = {}
  /\ rate \in Rates
  /\ account = [b \in Balances |-> 0]
  /\ ledger = {}
  /\ settled = {}
  /\ withdrawal = [w \in Withdrawals |-> "NONE"]
  /\ amount = [w \in Withdrawals |-> 0]

-----------------------------------------------------------------------------
(* The ledger. *)

Earned(o) == {e \in ledger : e.type \in {"PAYMENT", "REFUND"} /\ e.order = o}
NetOf(o)  == SumFunction([e \in Earned(o) |-> e.net])
RefundsOf(o) == {e \in Earned(o) : e.type = "REFUND"}
Refunded(o)  == - SumFunction([e \in RefundsOf(o) |-> e.gross])

Recorded(type, ref) == \E e \in ledger : e.type = type /\ e.ref = ref
Settled(o) == \E s \in settled : s.order = o

Commission(n, r) == (n * r) \div Scale

(* Move each balance b in to by to[b]. *)
Plus(to) == [b \in Balances |-> account[b] + IF b \in DOMAIN to THEN to[b] ELSE 0]
Moves(to) == [b \in Balances |-> IF b \in DOMAIN to THEN to[b] ELSE 0]

(* An entry about an order, and one about the account alone. *)
OrderEntry(type, ref, o, r, gross, commission, moves) ==
  [type |-> type, ref |-> ref, order |-> o, rate |-> r, gross |-> gross,
   commission |-> commission, net |-> gross - commission, moves |-> Moves(moves)]
AccountEntry(type, ref, net, moves) ==
  [type |-> type, ref |-> ref, net |-> net, moves |-> Moves(moves)]

In(balance, n) == [b \in {balance} |-> n]

-----------------------------------------------------------------------------
(* Orders: payment, receipt and claims, as the other services make them.   *)

(* recordPaymentRevenue, in the transaction that marks the order paid. *)
Pay(o) ==
  LET commission == Commission(Paid[o], rate)
      entry == OrderEntry("PAYMENT", o, o, rate, Paid[o], commission,
                          In("pending", Paid[o] - commission))
  IN  /\ order[o] = "PENDING_PAYMENT" /\ ~ Recorded("PAYMENT", o)
      /\ order' = [order EXCEPT ![o] = "PAID"]
      /\ account' = Plus(In("pending", entry.net))
      /\ ledger' = ledger \cup {entry}
      /\ UNCHANGED <<previous, rejected, rate, settled, withdrawal, amount>>

MoveOrder(o, to) ==
  /\ order' = [order EXCEPT ![o] = to]
  /\ UNCHANGED <<rate, account, ledger, settled, withdrawal, amount>>

Complete(o) ==
  /\ order[o] = "PAID" /\ MoveOrder(o, "COMPLETED")
  /\ UNCHANGED <<previous, rejected>>

OpenClaim(o) ==
  /\ order[o] \in {"PAID", "COMPLETED"} /\ MoveOrder(o, "AFTER_SALE")
  /\ previous' = [previous EXCEPT ![o] = order[o]]
  /\ UNCHANGED rejected

RejectClaim(o) ==
  /\ order[o] = "AFTER_SALE" /\ MoveOrder(o, previous[o])
  /\ rejected' = rejected \cup {o}
  /\ UNCHANGED previous

(* requestArbitration asks nothing of the order's status. *)
RequestArbitration(o) ==
  /\ o \in rejected /\ MoveOrder(o, "AFTER_SALE")
  /\ rejected' = rejected \ {o}
  /\ UNCHANGED previous

(* The rate a refund is reversed at: the one the payment was recorded at.  *)
RateNow(o) == rate
RateOf(o)  == (CHOOSE e \in ledger : e.type = "PAYMENT" /\ e.ref = o).rate

(* The balance a refund is taken from.                                     *)
PendingAlways(o) == "pending"
AccountField(o)  == IF Settled(o) THEN "available" ELSE "pending"

(* recordRefundReversal, in the transaction that completes the refund of a *)
(* claim that holds the order.                                             *)
RecordRefundReversal(o, n) ==
  LET commission == - Commission(n, RateOf(o))
      net   == - (n + commission)
      entry == OrderEntry("REFUND", <<o, Cardinality(RefundsOf(o))>>, o, RateOf(o), -n,
                 commission, In(IF Settled(o) THEN "available" ELSE "pending", net))
  IN  /\ order[o] = "AFTER_SALE"
      /\ n <= Paid[o] - Refunded(o) /\ Cardinality(RefundsOf(o)) < MaxRefunds
      /\ order' = [order EXCEPT ![o] =
                     IF Refunded(o) + n = Paid[o] THEN "REFUNDED" ELSE previous[o]]
      /\ account' = Plus(In(AccountField(o), net))
      /\ ledger' = ledger \cup {entry}
      /\ UNCHANGED <<previous, rejected, rate, settled, withdrawal, amount>>

UpdateCommission(r) ==
  /\ r \in Rates \ {rate} /\ rate' = r
  /\ UNCHANGED <<orderVars, account, ledger, settled, withdrawal, amount>>

-----------------------------------------------------------------------------
(* Settlements and withdrawals. *)

SettleableAgain(o) == order[o] = "COMPLETED" /\ Recorded("PAYMENT", o)
Settleable(o) == order[o] = "COMPLETED" /\ Recorded("PAYMENT", o) /\ ~ Settled(o)
NetOfAll(os) == SumFunction([o \in os |-> NetOf(o)])

(* The orders completed in period; a request seen before changes nothing.  *)
CreateSettlement(q, period) ==
  LET due == {o \in period : Settleable(o)}
      total == NetOfAll(due)
      moves == [b \in {"pending", "available"} |-> IF b = "pending" THEN -total ELSE total]
  IN  /\ \A s \in settled : s.request # q
      /\ due # {}
      /\ account.pending >= total
      /\ settled' = settled \cup {[request |-> q, order |-> o, net |-> NetOf(o)] : o \in due}
      /\ account' = Plus(moves)
      /\ ledger' = ledger \cup {AccountEntry("SETTLEMENT", q, total, moves)}
      /\ UNCHANGED <<orderVars, rate, withdrawal, amount>>

Freeze(n) == [b \in {"available", "frozen"} |-> IF b = "available" THEN -n ELSE n]

CreateWithdrawal(w, n) ==
  /\ withdrawal[w] = "NONE"
  /\ account.available >= n
  /\ withdrawal' = [withdrawal EXCEPT ![w] = "PENDING"]
  /\ amount' = [amount EXCEPT ![w] = n]
  /\ account' = Plus(Freeze(n))
  /\ ledger' = ledger \cup {AccountEntry("WITHDRAWAL", w, -n, Freeze(n))}
  /\ UNCHANGED <<orderVars, rate, settled>>

Review(w, to) ==
  /\ withdrawal' = [withdrawal EXCEPT ![w] = to]
  /\ UNCHANGED <<orderVars, rate, settled, amount>>

ApproveWithdrawal(w) ==
  /\ withdrawal[w] = "PENDING"
  /\ Review(w, "APPROVED")
  /\ UNCHANGED <<account, ledger>>

RejectableAgain(w) == withdrawal[w] \in {"PENDING", "REJECTED"}
Rejectable(w)      == withdrawal[w] = "PENDING"

RejectWithdrawal(w) ==
  /\ Rejectable(w)
  /\ account' = Plus(Freeze(-amount[w]))
  /\ ledger' = ledger \cup
       {AccountEntry("WITHDRAWAL_RESTORE", w, amount[w], Freeze(-amount[w]))}
  /\ Review(w, "REJECTED")

PaidOut(n) == [b \in {"frozen", "withdrawn"} |-> IF b = "frozen" THEN -n ELSE n]

CompleteWithdrawal(w) ==
  /\ withdrawal[w] = "APPROVED"
  /\ account' = Plus(PaidOut(amount[w]))
  /\ ledger' = ledger \cup
       {AccountEntry("WITHDRAWAL_COMPLETE", w, -amount[w], PaidOut(amount[w]))}
  /\ Review(w, "COMPLETED")

-----------------------------------------------------------------------------
OrderStep(o) ==
  \/ Pay(o) \/ Complete(o) \/ OpenClaim(o) \/ RejectClaim(o) \/ RequestArbitration(o)
  \/ \E n \in 1 .. Paid[o] : RecordRefundReversal(o, n)

WithdrawalStep(w) ==
  \/ \E n \in 1 .. MaxAmount : CreateWithdrawal(w, n)
  \/ ApproveWithdrawal(w) \/ RejectWithdrawal(w) \/ CompleteWithdrawal(w)

Next ==
  \/ \E o \in Orders : OrderStep(o)
  \/ \E r \in Rates : UpdateCommission(r)
  \/ \E q \in Requests, period \in SUBSET Orders : CreateSettlement(q, period)
  \/ \E w \in Withdrawals : WithdrawalStep(w)

Spec == Init /\ [][Next]_vars

-----------------------------------------------------------------------------
(* Properties. *)

(* reconcile-database.js: each balance is the sum of the ledger's moves.   *)
AccountMatchesLedger ==
  \A b \in Balances : account[b] = SumFunction([e \in ledger |-> e.moves[b]])

(* Pending is what unsettled orders have earned, whatever was refunded     *)
(* before and after other orders were settled.                             *)
PendingIsUnsettled ==
  account.pending = NetOfAll({o \in Orders : ~ Settled(o)})

(* What settled orders have earned, refunds after settlement included, is  *)
(* available, frozen or paid out: no withdrawal makes or loses money.      *)
AvailableIsSettled ==
  account.available + account.frozen + account.withdrawn
    = NetOfAll({o \in Orders : Settled(o)})

(* The units of money in withdrawals with one of these statuses. *)
Units(statuses) ==
  {x \in Withdrawals \X (1 .. MaxAmount) :
     withdrawal[x[1]] \in statuses /\ x[2] <= amount[x[1]]}

(* What is frozen is in withdrawals still to be decided or paid, and what  *)
(* is withdrawn in those that were paid: each is decided and paid once.    *)
FrozenIsOpen ==
  /\ account.frozen = Cardinality(Units({"PENDING", "APPROVED"}))
  /\ account.withdrawn = Cardinality(Units({"COMPLETED"}))

(* However an order is refunded, and whatever the rate is by then, the     *)
(* commission kept is that of what was not refunded, and at most one unit  *)
(* more for each refund.                                                   *)
CommissionWithinRounding ==
  \A e \in ledger : e.type = "PAYMENT" =>
    LET kept == Paid[e.order] - Refunded(e.order)
        commission == kept - NetOf(e.order)
        fair == Commission(kept, e.rate)
    IN  fair <= commission /\ commission <= fair + Cardinality(RefundsOf(e.order))

(* merchantFinanceService.js: pending covers the orders to settle, or the  *)
(* account needs a check.  The code does not keep it: the commission given *)
(* back is rounded refund by refund, so a refunded order may cost a cent.  *)
PendingCoversCompleted ==
  account.pending >= NetOfAll({o \in Orders : Settleable(o)})
=============================================================================
