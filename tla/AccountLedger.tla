---------------------------- MODULE AccountLedger ---------------------------
(***************************************************************************)
(* What billing promises about one account, with no Redis, no leases and   *)
(* no time: a pot of funds that every call changes at most once, that no   *)
(* charge overdraws, and that pays back only what was charged.             *)
(*                                                                         *)
(* QuotaLease implements this specification: see QuotaLease!Ledger.        *)
(***************************************************************************)
EXTENDS Integers

CONSTANTS
  NumOps, ChargeOp, RefundOp,  \* the calls, numbered, of Charge and of Refund
  Order, OrderOf,              \* what each call is for: equal dedupe keys
  Price,                       \* credits of each order
  OpeningFunds,
  Adjustments                  \* amounts a recharge or an administrator may move

VARIABLES
  funds,     \* credits the user owns
  deposits,  \* sum of the recharge and adjust rows of billing_transactions
  charged,   \* calls that have written a charge row
  refunded   \* calls that have written a refund row

vars == <<funds, deposits, charged, refunded>>

Init ==
  /\ funds = OpeningFunds
  /\ deposits = OpeningFunds
  /\ charged = {}
  /\ refunded = {}

Adjust(d) ==
  /\ funds + d >= 0
  /\ funds' = funds + d
  /\ deposits' = deposits + d
  /\ UNCHANGED <<charged, refunded>>

Charge(o) ==
  /\ o \in ChargeOp \ charged
  /\ funds >= Price[OrderOf[o]]
  /\ funds' = funds - Price[OrderOf[o]]
  /\ charged' = charged \cup {o}
  /\ UNCHANGED <<deposits, refunded>>

Refund(o) ==
  /\ o \in RefundOp \ refunded
  /\ \E c \in charged : OrderOf[c] = OrderOf[o]
  /\ funds' = funds + Price[OrderOf[o]]
  /\ refunded' = refunded \cup {o}
  /\ UNCHANGED <<deposits, charged>>

Next ==
  \/ \E d \in Adjustments : Adjust(d)
  \/ \E o \in ChargeOp : Charge(o)
  \/ \E o \in RefundOp : Refund(o)

Spec == Init /\ [][Next]_vars
=============================================================================
