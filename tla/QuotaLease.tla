----------------------------- MODULE QuotaLease -----------------------------
(***************************************************************************)
(* The credit of one user, as internal/billing/quota_lease.go keeps it:    *)
(* users.balance (durable, free), billing_quota_leases (durable, moved out *)
(* of the balance for spending) and the Redis bucket billing:quota:<uid>   *)
(* (hot, may be lost).  A charge reserves what Redis is short of, takes    *)
(* the price from Redis, and then WriteTx mirrors it into the leases       *)
(* together with the billing_transactions row.  A refund runs the other    *)
(* way.  A reclaimer returns expired leases to the balance.                *)
(*                                                                         *)
(* One step is one Redis command or one database transaction: everything   *)
(* between two of them may interleave with other calls, with time, with    *)
(* the reclaimer, with a lost key or with a crash.  Transactions that      *)
(* write lease rows hold pg_advisory_xact_lock(20260618, uid) from before  *)
(* their first read of a row, so what follows the lock is one step.  The   *)
(* lookup of an earlier row with the same dedupe key comes before the      *)
(* lock, in a READ COMMITTED transaction and with no unique index behind   *)
(* it, so WriteTx is two steps: the lookup, and the rest.  All keys, rows  *)
(* and locks are per user, so one user is enough.                          *)
(***************************************************************************)
EXTENDS Integers, FiniteSets, Sums

CONSTANTS
  NumOps, ChargeOp, RefundOp,  \* calls of Charge+WriteTx, of Refund+WriteTx
  Order, OrderOf,       \* the order each call is for: equal dedupe keys
  Price, OpeningFunds, Adjustments,  \* as in AccountLedger
  MaxDeposits,          \* bound: recharges stop when deposits reach it
  MaxLease,             \* bound: number of lease rows ever inserted
  LeaseTTL,             \* quotaLeaseTTL, in ticks
  Grace                 \* quotaLeaseReclaimGrace, in ticks

Row == 1..MaxLease
Op  == 1..NumOps

ASSUME ConstantsAssumption ==
  /\ NumOps \in Nat /\ MaxLease \in Nat
  /\ Price \in [Order -> Nat \ {0}]
  /\ OpeningFunds \in Nat
  /\ Adjustments \subseteq Int
  /\ MaxDeposits \in Nat
  /\ OrderOf \in [Op -> Order]
  /\ ChargeOp \cup RefundOp = Op /\ ChargeOp \cap RefundOp = {}
  /\ LeaseTTL \in Nat \ {0} /\ Grace \in 0..LeaseTTL

VARIABLES
  balance,    \* users.balance
  lease,      \* billing_quota_leases rows of the user, by id
  quota,      \* value of billing:quota:<uid>
  quotaTTL,   \* ticks the key has left; 0 = no such key
  versioned,  \* billing:quota_version:<uid> = "2"
  deposits,   \* sum of the recharge/adjust rows of billing_transactions
  charged,    \* calls whose charge row is in billing_transactions
  refunded,   \* calls whose refund row is
  op,         \* local state of each call
  clearing    \* the reclaimer has committed and not yet cleared the cache

vars == <<balance, lease, quota, quotaTTL, versioned, deposits, charged,
          refunded, op, clearing>>
dbVars    == <<balance, lease, deposits, charged, refunded>>
redisVars == <<quota, quotaTTL, versioned>>

-----------------------------------------------------------------------------
(* Lease rows.  left counts down to the moment the row may be reclaimed,   *)
(* so expires_at > NOW() is left > Grace and the clock needs no bound.     *)

FullLife == LeaseTTL + Grace

LeaseRow == [status : {"none", "active", "expired"}, remaining : Nat,
             left : 0..FullLife]

NoRow == [status |-> "none", remaining |-> 0, left |-> 0]

Active(l) == lease[l].status = "active"
Live(l)   == Active(l) /\ lease[l].left > Grace

Newest(S) == CHOOSE l \in S : \A k \in S : k <= l

LiveRows   == {l \in Row : Live(l)}
ActiveRows == {l \in Row : Active(l)}

\* the id the next INSERT gets
IsNextId(l) ==
  /\ lease[l].status = "none"
  /\ \A k \in Row : k < l => lease[k].status # "none"

Remaining == [l \in Row |-> lease[l].remaining]
LeaseTotal == SumTo(MaxLease, Remaining)
LiveTotal  == SumTo(MaxLease, [l \in Row |-> IF Live(l) THEN lease[l].remaining ELSE 0])

\* Insert a live row, or top up the newest live one: reserveQuota, and the
\* refund branch of ApplyQuotaLeaseTx.
CreditNewestLive(amount) ==
  \/ /\ LiveRows # {}
     /\ LET l == Newest(LiveRows) IN
          lease' = [lease EXCEPT ![l] = [status |-> "active",
                     remaining |-> lease[l].remaining + amount, left |-> FullLife]]
  \/ /\ LiveRows = {}
     /\ \E l \in Row :
          /\ IsNextId(l)
          /\ lease' = [lease EXCEPT ![l] = [status |-> "active",
                         remaining |-> amount, left |-> FullLife]]

\* quotaLeaseDebitPlan over the live rows by (expires_at, id): each earlier row
\* is emptied before a later one is touched.
Earlier(k, l) ==
  \/ lease[k].left < lease[l].left
  \/ lease[k].left = lease[l].left /\ k < l

\* Variant: a shortfall is not reported, the plan takes what there is.
DebitPlansPartial(price) ==
  {plan \in [Row -> 0..price] :
     /\ \A l \in Row : plan[l] > 0 => Live(l) /\ plan[l] <= lease[l].remaining
     /\ SumTo(MaxLease, plan) = IF LiveTotal < price THEN LiveTotal ELSE price}

DebitPlans(price) ==
  {plan \in [Row -> 0..price] :
     /\ \A l \in Row : plan[l] > 0 => Live(l) /\ plan[l] <= lease[l].remaining
     /\ SumTo(MaxLease, plan) = price
     /\ \A k, l \in Row : Live(k) /\ Earlier(k, l) /\ plan[l] > 0
                            => plan[k] = lease[k].remaining}

\* consuming from a row extends it
Debited(plan) ==
  [l \in Row |-> IF plan[l] > 0
     THEN [lease[l] EXCEPT !.remaining = lease[l].remaining - plan[l], !.left = FullLife]
     ELSE lease[l]]

-----------------------------------------------------------------------------
(* Calls.  pc names the next command; next is where to go after a rebuild  *)
(* of the bucket or after an INCRBY.                                       *)

Ended == {"done", "denied", "crashed"}

PC == {"idle", "look", "sync", "fill", "gap", "incr", "release", "lua",
       "charged", "debit", "ensure", "credited", "mirror", "deferred", "job",
       "undo"} \cup Ended

Onward == {"idle", "gap", "look", "lua", "incr", "credited", "done", "denied"}

Attempt == {"first", "rebuilt", "retry", "wait"}

CallState == [pc : PC, try : Attempt, avail : Int, snap : Int,
              snapLeft : 0..FullLife, amt : Nat, next : Onward]

At(pc) == [pc |-> pc, try |-> "first", avail |-> 0, snap |-> 0, snapLeft |-> 0,
           amt |-> 0, next |-> "idle"]

PriceOf(o) == Price[OrderOf[o]]

\* billingTxExistsByDedupeKey, refundTxExists
ChargeRowExists(o) == \E c \in charged : OrderOf[c] = OrderOf[o]
RefundRowExists(o) == \E c \in refunded : OrderOf[c] = OrderOf[o]

Goto(o, state) == op' = [op EXCEPT ![o] = state]

\* where quotaRemaining hands its value to: ensureQuota / the retries of Charge,
\* or Refund
Resume(o, avail) ==
  IF o \in ChargeOp
  THEN [At("gap") EXCEPT !.try = op[o].try, !.avail = avail]
  ELSE [At("incr") EXCEPT !.amt = PriceOf(o), !.next = "credited"]

BucketCurrent == quotaTTL > 0 /\ versioned

SetBucket(value, ttl) ==
  /\ quota' = value
  /\ quotaTTL' = ttl
  /\ versioned' = TRUE

ClearBucket ==
  /\ quota' = 0
  /\ quotaTTL' = 0
  /\ versioned' = FALSE

-----------------------------------------------------------------------------

Init ==
  /\ balance = OpeningFunds
  /\ lease = [l \in Row |-> NoRow]
  /\ quota = 0 /\ quotaTTL = 0 /\ versioned = FALSE
  /\ deposits = OpeningFunds
  /\ charged = {} /\ refunded = {}
  /\ op = [o \in Op |-> At("idle")]
  /\ clearing = FALSE

StartCharge(o) ==
  /\ o \in ChargeOp /\ op[o].pc = "idle"
  /\ Goto(o, At("look"))
  /\ UNCHANGED <<dbVars, redisVars, clearing>>

\* Callers refund what they have charged: the charge row is there.
StartRefund(o) ==
  /\ o \in RefundOp /\ op[o].pc = "idle"
  /\ ChargeRowExists(o)
  /\ Goto(o, At("ensure"))
  /\ UNCHANGED <<dbVars, redisVars, clearing>>

\* quotaRemaining: GET the bucket, or rebuild it.
Look(o) ==
  /\ op[o].pc = "look"
  /\ Goto(o, IF BucketCurrent
             THEN Resume(o, quota)
             ELSE [At("sync") EXCEPT !.try = op[o].try,
                     !.next = IF o \in ChargeOp THEN "gap" ELSE "incr"])
  /\ UNCHANGED <<dbVars, redisVars, clearing>>

\* SyncQuotaToRedis, the SELECT: no lock, the sum is only as fresh as the read.
SyncRead(o) ==
  /\ op[o].pc = "sync"
  /\ LET paying == {l \in LiveRows : lease[l].remaining > 0}
         first  == CHOOSE l \in paying : \A k \in paying : lease[l].left <= lease[k].left
     IN  Goto(o, [op[o] EXCEPT !.pc = "fill", !.snap = LiveTotal,
                    !.snapLeft = IF paying = {} THEN 0 ELSE lease[first].left])
  /\ UNCHANGED <<dbVars, redisVars, clearing>>

\* SyncQuotaToRedis, the SET (or the DEL when nothing is left to spend).
SyncFill(o) ==
  /\ op[o].pc = "fill"
  /\ LET s == op[o]
         gone == s.snap <= 0 \/ s.snapLeft = 0
     IN  /\ IF gone
            THEN ClearBucket
            ELSE SetBucket(s.snap, IF s.snapLeft > Grace THEN s.snapLeft - Grace
                                                         ELSE s.snapLeft)
         /\ Goto(o, IF s.next \in {"gap", "incr"}
                    THEN Resume(o, IF gone THEN 0 ELSE s.snap)
                    ELSE [At(s.next) EXCEPT !.try = s.try])
  /\ UNCHANGED <<dbVars, clearing>>

\* reserveQuota: nothing to reserve.
GapCovered(o) ==
  /\ op[o].pc = "gap"
  /\ op[o].avail >= PriceOf(o)
  /\ Goto(o, [At("lua") EXCEPT !.try = op[o].try])
  /\ UNCHANGED <<dbVars, redisVars, clearing>>

\* Variant: the lease gets the whole price, the balance pays only the gap.
ReserveWhole(o) ==
  /\ op[o].pc = "gap"
  /\ LET needed == PriceOf(o) - op[o].avail IN
       /\ needed > 0
       /\ balance >= needed
       /\ balance' = balance - needed
       /\ CreditNewestLive(PriceOf(o))
       /\ Goto(o, [At("incr") EXCEPT !.try = op[o].try, !.amt = needed, !.next = "lua"])
  /\ UNCHANGED <<redisVars, deposits, charged, refunded, clearing>>

\* reserveQuota, the transaction: move the gap from users.balance to a lease.
\* The INCRBY that makes it spendable is a later step.
Reserve(o) ==
  /\ op[o].pc = "gap"
  /\ LET needed == PriceOf(o) - op[o].avail IN
       /\ needed > 0
       /\ balance >= needed
       /\ balance' = balance - needed
       /\ CreditNewestLive(needed)
       /\ Goto(o, [At("incr") EXCEPT !.try = op[o].try, !.amt = needed, !.next = "lua"])
  /\ UNCHANGED <<redisVars, deposits, charged, refunded, clearing>>

ReserveRefused(o) ==
  /\ op[o].pc = "gap"
  /\ op[o].avail < PriceOf(o)
  /\ balance < PriceOf(o) - op[o].avail
  /\ Goto(o, At("denied"))
  /\ UNCHANGED <<dbVars, redisVars, clearing>>

\* INCRBY creates a missing key; the version and the full TTL are then set.
Incr(o) ==
  /\ op[o].pc = "incr"
  /\ SetBucket(quota + op[o].amt, LeaseTTL)
  /\ Goto(o, [At(op[o].next) EXCEPT !.try = op[o].try])
  /\ UNCHANGED <<dbVars, clearing>>

\* Redis refuses the INCRBY: a reserve is given back, other callers give up.
IncrFails(o) ==
  /\ op[o].pc = "incr"
  /\ Goto(o, IF op[o].next = "lua"
             THEN [At("release") EXCEPT !.amt = op[o].amt]
             ELSE At("denied"))
  /\ UNCHANGED <<dbVars, redisVars, clearing>>

\* releaseReservedQuota: LEAST(remaining, credits) of the newest active row,
\* expired or not.
Release(o) ==
  /\ op[o].pc = "release"
  /\ \/ /\ ActiveRows = {}
        /\ UNCHANGED <<balance, lease>>
     \/ /\ ActiveRows # {}
        /\ LET l == Newest(ActiveRows)
               back == IF lease[l].remaining < op[o].amt THEN lease[l].remaining
                                                         ELSE op[o].amt
           IN  /\ lease' = [lease EXCEPT ![l].remaining = lease[l].remaining - back]
               /\ balance' = balance + back
  /\ Goto(o, At("denied"))
  /\ UNCHANGED <<redisVars, deposits, charged, refunded, clearing>>

\* luaCharge succeeds: the price leaves the bucket, whose TTL starts anew.
LuaCharge(o) ==
  /\ op[o].pc = "lua"
  /\ quotaTTL > 0 /\ quota >= PriceOf(o)
  /\ SetBucket(quota - PriceOf(o), LeaseTTL)
  /\ Goto(o, At("charged"))
  /\ UNCHANGED <<dbVars, clearing>>

\* luaCharge returns -2 (no key): rebuild once, then give up.
LuaMissing(o) ==
  /\ op[o].pc = "lua"
  /\ quotaTTL = 0
  /\ Goto(o, IF op[o].try = "first"
             THEN [At("sync") EXCEPT !.try = "rebuilt", !.next = "look"]
             ELSE At("denied"))
  /\ UNCHANGED <<dbVars, redisVars, clearing>>

\* luaCharge returns -1 (short): reserve again, wait and reserve again, give up.
LuaShort(o) ==
  /\ op[o].pc = "lua"
  /\ quotaTTL > 0 /\ quota < PriceOf(o)
  /\ Goto(o, CASE op[o].try \in {"first", "rebuilt"} -> [At("look") EXCEPT !.try = "retry"]
               [] op[o].try = "retry"              -> [At("look") EXCEPT !.try = "wait"]
               [] op[o].try = "wait"               -> At("denied"))
  /\ UNCHANGED <<dbVars, redisVars, clearing>>

\* Variant: the lookup finds nothing.
ChargeLookupBlind(o) ==
  /\ op[o].pc = "charged"
  /\ Goto(o, At("debit"))
  /\ UNCHANGED <<dbVars, redisVars, clearing>>

\* WriteTx("charge"), the lookup: a second charge of the order rolls back.
ChargeLookup(o) ==
  /\ op[o].pc = "charged"
  /\ Goto(o, IF ChargeRowExists(o) THEN [At("undo") EXCEPT !.next = "denied"]
                                   ELSE At("debit"))
  /\ UNCHANGED <<dbVars, redisVars, clearing>>

\* WriteTx("charge"), from the lock to the commit: the row and its lease debits.
CommitCharge(o) ==
  /\ o \in ChargeOp /\ op[o].pc = "debit"
  /\ \E plan \in DebitPlans(PriceOf(o)) : lease' = Debited(plan)
  /\ charged' = charged \cup {o}
  /\ UNCHANGED <<balance, redisVars, deposits, refunded, clearing>>

WriteCharge(o) ==
  /\ CommitCharge(o)
  /\ Goto(o, At("done"))

\* The commit takes effect and its answer is lost: handled as a failure.
ChargeAnswerLost(o) ==
  /\ CommitCharge(o)
  /\ Goto(o, [At("undo") EXCEPT !.next = "denied"])

\* WriteTx("charge") rolls back: leases that do not cover the price, or a database
\* error.  The bucket is to be compensated.
ChargeRollsBack(o) ==
  /\ op[o].pc \in {"charged", "debit"}
  /\ Goto(o, [At("undo") EXCEPT !.next = "denied"])
  /\ UNCHANGED <<dbVars, redisVars, clearing>>

-----------------------------------------------------------------------------
(* Refund                                                                  *)

\* ensureRefundQuotaLease: a live row for the refund to be mirrored into.
EnsureLease(o) ==
  /\ op[o].pc = "ensure"
  /\ \/ LiveRows # {} /\ UNCHANGED lease
     \/ LiveRows = {} /\ CreditNewestLive(0)
  /\ Goto(o, At("look"))
  /\ UNCHANGED <<balance, redisVars, deposits, charged, refunded, clearing>>

\* WriteTx("refund"), the lookup.  When the order is refunded already, a first
\* attempt takes its credit back out of the bucket; a job attempt (deferred) has
\* skip_redis_sync and just ends.
RefundLookup(o) ==
  /\ \/ op[o].pc = "credited" /\ Goto(o, IF RefundRowExists(o)
                                         THEN [At("undo") EXCEPT !.next = "done"]
                                         ELSE At("mirror"))
     \/ op[o].pc = "deferred" /\ Goto(o, IF RefundRowExists(o) THEN At("done")
                                                               ELSE At("job"))
  /\ UNCHANGED <<dbVars, redisVars, clearing>>

\* WriteTx("refund"), from the lock to the commit: the row, and the credit to the
\* newest live lease.
CommitRefund(o) ==
  /\ o \in RefundOp /\ op[o].pc \in {"mirror", "job"}
  /\ CreditNewestLive(PriceOf(o))
  /\ refunded' = refunded \cup {o}
  /\ UNCHANGED <<balance, redisVars, deposits, charged, clearing>>

WriteRefund(o) ==
  /\ CommitRefund(o)
  /\ Goto(o, At("done"))

\* handlePreAppliedFailure: the refund becomes a job, or, when that fails too, is
\* taken back out of the bucket and given up.  A job that fails, or whose server
\* stops, goes back to the queue.
DeferRefund(o) ==
  \/ Goto(o, At("deferred"))
  \/ op[o].pc # "job" /\ Goto(o, [At("undo") EXCEPT !.next = "denied"])

RefundAnswerLost(o) ==
  /\ CommitRefund(o)
  /\ DeferRefund(o)

RefundFails(o) ==
  /\ op[o].pc \in {"credited", "mirror", "job"}
  /\ DeferRefund(o)
  /\ UNCHANGED <<dbVars, redisVars, clearing>>

\* Variant: compensation rebuilds an unversioned bucket but not a missing one.
UndoRebuildVersion(o) ==
  /\ op[o].pc = "undo"
  /\ quotaTTL > 0 /\ ~versioned
  /\ Goto(o, [At("sync") EXCEPT !.next = op[o].next])
  /\ UNCHANGED <<dbVars, redisVars, clearing>>

\* ApplyQuotaDelta: compensation touches Redis only; a bucket that is gone or
\* unversioned is rebuilt from the leases instead.
UndoRebuild(o) ==
  /\ op[o].pc = "undo"
  /\ ~BucketCurrent
  /\ Goto(o, [At("sync") EXCEPT !.next = op[o].next])
  /\ UNCHANGED <<dbVars, redisVars, clearing>>

UndoCharge(o) ==
  /\ op[o].pc = "undo" /\ o \in ChargeOp
  /\ BucketCurrent
  /\ Goto(o, [At("incr") EXCEPT !.amt = PriceOf(o), !.next = "denied"])
  /\ UNCHANGED <<dbVars, redisVars, clearing>>

\* luaCharge again; a bucket too short is left alone and the error logged.
UndoRefund(o) ==
  /\ op[o].pc = "undo" /\ o \in RefundOp
  /\ BucketCurrent
  /\ \/ quota >= PriceOf(o) /\ SetBucket(quota - PriceOf(o), LeaseTTL)
     \/ quota < PriceOf(o) /\ UNCHANGED redisVars
  /\ Goto(o, At(op[o].next))
  /\ UNCHANGED <<dbVars, clearing>>

\* The process stops, or a store answers with an error that ends the call.  A
\* deferred refund is a durable job and survives.
Crash(o) ==
  /\ op[o].pc \notin {"idle", "deferred", "job"} \cup Ended
  /\ Goto(o, At("crashed"))
  /\ UNCHANGED <<dbVars, redisVars, clearing>>

-----------------------------------------------------------------------------
(* Environment                                                             *)

\* WriteTx("recharge" / "adjust"): users.balance may not go below zero.
Adjust(d) ==
  /\ balance + d >= 0
  /\ deposits + d <= MaxDeposits
  /\ balance' = balance + d
  /\ deposits' = deposits + d
  /\ UNCHANGED <<lease, redisVars, charged, refunded, op, clearing>>

\* Variant: the credit goes back to the balance and stays in the row.
ReclaimKeeps(l) ==
  /\ ~clearing
  /\ Active(l) /\ lease[l].left = 0
  /\ balance' = balance + lease[l].remaining
  /\ lease' = [lease EXCEPT ![l].status = "expired"]
  /\ clearing' = TRUE
  /\ UNCHANGED <<redisVars, deposits, charged, refunded, op>>

\* Variant: the test on the remaining credit is inverted.
ReclaimEmptyOnly(l) ==
  /\ ~clearing
  /\ Active(l) /\ lease[l].left = 0
  /\ lease[l].remaining = 0
  /\ lease' = [lease EXCEPT ![l].status = "expired"]
  /\ clearing' = TRUE
  /\ UNCHANGED <<balance, redisVars, deposits, charged, refunded, op>>

\* reclaimQuotaLease, the transaction.
Reclaim(l) ==
  /\ ~clearing
  /\ Active(l) /\ lease[l].left = 0
  /\ balance' = balance + lease[l].remaining
  /\ lease' = [lease EXCEPT ![l].remaining = 0, ![l].status = "expired"]
  /\ clearing' = TRUE
  /\ UNCHANGED <<redisVars, deposits, charged, refunded, op>>

\* reclaimQuotaLease, clearQuotaCache after the commit.
ReclaimClear ==
  /\ clearing
  /\ ClearBucket
  /\ clearing' = FALSE
  /\ UNCHANGED <<dbVars, op>>

\* The server stops, or Redis refuses the DEL, in between.
ReclaimCrash ==
  /\ clearing
  /\ clearing' = FALSE
  /\ UNCHANGED <<dbVars, redisVars, op>>

\* Redis loses the bucket, or only its version key.
LoseKey ==
  /\ quotaTTL > 0
  /\ \/ ClearBucket
     \/ versioned /\ versioned' = FALSE /\ UNCHANGED <<quota, quotaTTL>>
  /\ UNCHANGED <<dbVars, op, clearing>>

Dec(n) == IF n > 0 THEN n - 1 ELSE 0

Tick ==
  /\ lease' = [l \in Row |-> [lease[l] EXCEPT !.left = Dec(lease[l].left)]]
  /\ quotaTTL' = Dec(quotaTTL)
  /\ quota' = IF quotaTTL' = 0 THEN 0 ELSE quota
  /\ versioned' = (versioned /\ quotaTTL' > 0)
  /\ op' = [o \in Op |-> [op[o] EXCEPT !.snapLeft = Dec(op[o].snapLeft)]]
  /\ UNCHANGED <<balance, deposits, charged, refunded, clearing>>

-----------------------------------------------------------------------------

\* what a call does when nothing fails
Proceed(o) ==
  \/ Look(o) \/ SyncRead(o) \/ SyncFill(o)
  \/ GapCovered(o) \/ Reserve(o) \/ ReserveRefused(o)
  \/ Incr(o) \/ Release(o)
  \/ LuaCharge(o) \/ LuaMissing(o) \/ LuaShort(o)
  \/ ChargeLookup(o) \/ WriteCharge(o)
  \/ EnsureLease(o) \/ RefundLookup(o) \/ WriteRefund(o)
  \/ UndoRebuild(o) \/ UndoCharge(o) \/ UndoRefund(o)

Next ==
  \/ \E o \in Op :
       \/ StartCharge(o) \/ StartRefund(o)
       \/ Proceed(o)
       \/ IncrFails(o) \/ ChargeRollsBack(o) \/ RefundFails(o) \/ Crash(o)
       \/ ChargeAnswerLost(o) \/ RefundAnswerLost(o)
  \/ \E d \in Adjustments : Adjust(d)
  \/ \E l \in Row : Reclaim(l)
  \/ ReclaimClear \/ ReclaimCrash \/ LoseKey \/ Tick

Spec == Init /\ [][Next]_vars

\* The syncer's ticker and the clock never stop; a call runs on unless it
\* crashes; a refund job that is retried forever is written in the end.
Fairness ==
  /\ \A o \in RefundOp : SF_vars(WriteRefund(o))
  /\ WF_vars(Tick)
  /\ WF_vars(\E l \in Row : Reclaim(l))
  /\ WF_vars(ReclaimClear)
  /\ \A o \in Op : WF_vars(Proceed(o) \/ ChargeRollsBack(o))

FairSpec == Spec /\ Fairness

\* Calls with the same dedupe key come one after the other: a repeated call starts
\* when the earlier one has ended or crashed.
Alike(k, o) == OrderOf[k] = OrderOf[o] /\ (k \in ChargeOp) = (o \in ChargeOp)
Resting(o)  == op[o].pc \in {"idle"} \cup Ended

SerialNext ==
  /\ Next
  /\ \A o \in Op : op[o].pc = "idle" /\ op'[o].pc # "idle"
                    => \A k \in Op \ {o} : Alike(k, o) => Resting(k)

SerialSpec == Init /\ [][SerialNext]_vars

-----------------------------------------------------------------------------
(* Properties                                                              *)

TypeOK ==
  /\ balance \in Nat
  /\ lease \in [Row -> LeaseRow]
  /\ quota \in Nat
  /\ quotaTTL \in 0..LeaseTTL
  /\ versioned \in BOOLEAN
  /\ deposits \in Int
  /\ charged \subseteq ChargeOp
  /\ refunded \subseteq RefundOp
  /\ op \in [Op -> CallState]
  /\ clearing \in BOOLEAN

\* What billing_transactions says the user owns: AuditBalanceReconciliation's
\* ledger_balance.
NetSpent(o) == (IF o \in charged THEN PriceOf(o) ELSE 0)
               - (IF o \in refunded THEN PriceOf(o) ELSE 0)
LedgerBalance == deposits - SumTo(NumOps, [o \in Op |-> NetSpent(o)])

\* Whatever interleaves, fails or crashes, the free balance and the lease rows
\* add up to the ledger: no reserve, release, debit, refund or reclaim creates
\* or loses a credit.
Reconciled == balance + LeaseTotal = LedgerBalance

\* A row that was reclaimed or never inserted holds nothing: credit returned to
\* the balance cannot be spent a second time.
RetiredRowsEmpty ==
  \A l \in Row : ~Active(l) => lease[l].remaining = 0

\* ErrDuplicateBillingTransaction (billing.go:20) and the duplicate_refund_tx and
\* duplicate_consumption_tx branches of WriteTx: an order's price is taken by one
\* row, and given back by one row, however often the call is repeated.
OncePerOrder ==
  \A a, b \in charged \cup refunded :
    (a \in charged) = (b \in charged) /\ OrderOf[a] = OrderOf[b] => a = b

\* The account is what AccountLedger promises, with the funds spread over the
\* balance and the leases.
Ledger == INSTANCE AccountLedger WITH funds <- balance + LeaseTotal
LedgerSpec == Ledger!Spec

\* When calls stop, every credit left in a lease comes back to users.balance:
\* a crash between the bucket and the database strands nothing for good.
LeasesDrain == <>[](LeaseTotal = 0)

\* A started call ends, one way or the other; a deferred refund is written.
CallsEnd == \A o \in Op : (op[o].pc # "idle") ~> (op[o].pc \in Ended)
=============================================================================
