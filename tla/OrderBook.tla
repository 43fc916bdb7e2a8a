------------------------------ MODULE OrderBook ------------------------------
(***************************************************************************)
(* What checkout promises, with no word of locks, payments or messages: an *)
(* order takes its goods off the shelf as it is placed, puts them back if  *)
(* and when it is cancelled unpaid, and otherwise moves along the state    *)
(* machine of the shop.  Once it is paid, claims may hold it, send it back *)
(* to where it has been and put some of its goods back, but never take it  *)
(* on.  Orders of one request are placed together.                         *)
(***************************************************************************)
EXTENDS Integers

CONSTANTS Orders, Skus, Baskets

VARIABLES
  status,   \* where each order is
  basket,   \* what it took
  been,     \* the statuses it has moved through since it was paid
  free      \* goods on the shelf, by sku

vars == <<status, basket, been, free>>

Init ==
  /\ status = [o \in Orders |-> "NONE"]
  /\ basket = [o \in Orders |-> [s \in Skus |-> 0]]
  /\ been = [o \in Orders |-> {}]
  /\ free \in [Skus -> Nat]

Fresh == {o \in Orders : status[o] = "NONE"}

(* The goods taken in total are split over the new orders, each sku to one *)
(* of them.                                                                *)
Place(new) ==
  /\ new \subseteq Fresh
  /\ status' = [o \in Orders |-> IF o \in new THEN "PENDING_PAYMENT" ELSE status[o]]
  /\ \E total \in Baskets :
       /\ \A s \in Skus : total[s] <= free[s]
       /\ free' = [s \in Skus |-> free[s] - total[s]]
       /\ \E taker \in [Skus -> new] :
            basket' = [o \in Orders |->
                         IF o \in new
                         THEN [s \in Skus |-> IF taker[s] = o THEN total[s] ELSE 0]
                         ELSE basket[o]]
  /\ UNCHANGED been

Cancel(o) ==
  /\ status[o] = "PENDING_PAYMENT"
  /\ status' = [status EXCEPT ![o] = "CANCELLED"]
  /\ free' = [s \in Skus |-> free[s] + basket[o][s]]
  /\ UNCHANGED <<basket, been>>

Moves == { <<"PENDING_PAYMENT", "PAID">>, <<"PAID", "PROCESSING">>,
           <<"PROCESSING", "SHIPPED">>, <<"SHIPPED", "COMPLETED">> }

Advance(o, m) ==
  /\ m \in Moves
  /\ status[o] = m[1]
  /\ status' = [status EXCEPT ![o] = m[2]]
  /\ been' = [been EXCEPT ![o] = @ \cup {m[2]}]
  /\ UNCHANGED <<basket, free>>

Held == {"AFTER_SALE", "REFUNDING", "REFUNDED"}

(* Nobody advances an order by a claim. *)
Claim(o) ==
  /\ status[o] \notin {"NONE", "PENDING_PAYMENT", "CANCELLED"}
  /\ \E to \in been[o] \cup Held : status' = [status EXCEPT ![o] = to]
  /\ \E back \in Baskets :
       /\ \A s \in Skus : back[s] <= basket[o][s]
       /\ free' = [s \in Skus |-> free[s] + back[s]]
  /\ UNCHANGED <<basket, been>>

(* Somebody counts the shelf. *)
Correct(s) ==
  /\ free'[s] \in Nat
  /\ free' = [free EXCEPT ![s] = free'[s]]
  /\ UNCHANGED <<status, basket, been>>

Next ==
  \/ \E o \in Orders : Cancel(o) \/ Claim(o) \/ \E m \in Moves : Advance(o, m)
  \/ \E s \in Skus : Correct(s)
  \/ \E new \in (SUBSET Fresh) \ {{}} : Place(new)

Spec == Init /\ [][Next]_vars
=============================================================================
