-------------------------------- MODULE Sums --------------------------------
(***************************************************************************)
(* SUM(...) over numbered rows: f[1] + ... + f[n].  The billing code sums  *)
(* lease rows in SQL (SpendableBalanceTx, AuditBalanceReconciliation) and  *)
(* in a loop (SyncQuotaToRedis).  The sum is a recursive function, not a   *)
(* RECURSIVE operator, so that SumTheorems can reason about it.            *)
(***************************************************************************)
EXTENDS Integers

SumTo(n, f) ==
  LET s[i \in 0..n] == IF i = 0 THEN 0 ELSE s[i-1] + f[i]
  IN  s[n]
=============================================================================
