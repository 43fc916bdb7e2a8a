---------------------------- MODULE AfterSaleRaces ----------------------------
(***************************************************************************)
(* AfterSale with the overlaps the database allows.  reviewAfterSale,      *)
(* confirmReturn, retryRefund and processRefundCallback run at MySQL's     *)
(* default REPEATABLE READ: they read the claim without a lock, decide,    *)
(* and write by primary key.  So each is a read and, later, a write that   *)
(* still believes what was read.  Everything that runs at Serializable, or *)
(* writes under a condition, stays one step.                               *)
(***************************************************************************)
EXTENDS AfterSale

CONSTANT Workers   \* requests being served at the same time

VARIABLE reading   \* reading[w]: the transaction that has read and not written,
                   \* in a set of at most one

raceVars == <<vars, reading>>

RaceInit == Init /\ reading = [w \in Workers |-> {}]

(* A transaction works on claim e[1]; a callback is about attempt e.       *)
(* What each transaction asks of the row it reads; without it, it throws.  *)
(* The notices of a refund have ids of their own: none waits for another.  *)
Wanted(op, e) ==
  CASE op = "REVIEW"   -> Reviewable(Row(e[1])) /\ e[2] = 0
    [] op = "CONFIRM"  -> sale[e[1]] = "RETURNED" /\ e[2] = 0
    [] op = "RETRY"    -> Retriable(Row(e[1])) /\ e[2] = 0
    [] op = "CALLBACK" -> Expected(Row(e[1])) /\ outcome[e] # "NONE"

Read(w, op, e) ==
  /\ reading[w] = {}
  /\ Wanted(op, e)
  /\ reading' = [reading EXCEPT ![w] = {[op |-> op, on |-> e, row |-> Row(e[1])]}]
  /\ UNCHANGED vars

WriteOf(j) ==
  \/ j.op = "REVIEW" /\ \E n \in Amounts : ReviewAfterSale(j.on[1], n, j.row)
  \/ j.op = "CONFIRM" /\ ConfirmReturn(j.on[1], j.row)
  \/ j.op = "RETRY" /\ RetryRefund(j.on[1], j.row)
  \/ j.op = "CALLBACK" /\ ProcessRefundCallback(j.on, j.row)

Write(w) ==
  /\ \E j \in reading[w] : WriteOf(j)
  /\ reading' = [reading EXCEPT ![w] = {}]

(* It throws, loses its connection or is the victim of a deadlock. *)
Rollback(w) ==
  /\ reading[w] # {}
  /\ reading' = [reading EXCEPT ![w] = {}]
  /\ UNCHANGED vars

RaceNext ==
  \/ (OtherStep \/ \E c \in Claims : SerialStep(c)) /\ UNCHANGED reading
  \/ \E w \in Workers :
       \/ \E op \in {"REVIEW", "CONFIRM", "RETRY", "CALLBACK"}, e \in Attempts :
            Read(w, op, e)
       \/ Write(w) \/ Rollback(w)

(* As in AfterSale, whatever the workers are doing. *)
RaceFairness ==
  \A c \in Claims : WF_raceVars(RemindOverdueAfterSale(c) /\ UNCHANGED reading)

RaceSpec == RaceInit /\ [][RaceNext]_raceVars /\ RaceFairness

-----------------------------------------------------------------------------
(* GoodsBeforeMoney, HeldForAClaim and StageIsReminded survive the         *)
(* overlaps; RefundsAddUp, CompletedIffRefunded, ReturnedOnce and          *)
(* RefundIsFinal do not.                                                   *)

(* This half of ArbitrationIsOpen survives too: whatever reviews meet the  *)
(* request and the verdict, a claim that waits for the platform has a case *)
(* to decide.  The other does not: a review that read PENDING may answer   *)
(* the claim after the request, and leave the case behind, for good.       *)
ArbitratedHasCase ==
  \A c \in Claims : sale[c] = "ARBITRATING" => arb[c] = "PENDING"
=============================================================================
