-------------------------- MODULE QuotaLease_proofs -------------------------
(***************************************************************************)
(* Proofs about QuotaLease for any number of lease rows, orders and calls, *)
(* any prices and any lease lifetime.                                      *)
(***************************************************************************)
EXTENDS QuotaLease, SumTheorems

LEMMA NewestMember ==
  ASSUME NEW S \in SUBSET Row, S # {}
  PROVE  Newest(S) \in S
<1> DEFINE T == {MaxLease - l : l \in S}
<1>1. T \in SUBSET Nat /\ T # {}
  <2>1. \A l \in S : MaxLease - l \in Nat
    BY ConstantsAssumption DEF Row
  <2>2. PICK l \in S : TRUE
    OBVIOUS
  <2> QED
    BY <2>1, <2>2
<1>2. PICK m \in T : \A k \in T : m <= k
  <2> HIDE DEF T
  <2> QED BY <1>1, LeastElement
<1>3. PICK l \in S : m = MaxLease - l
  BY <1>2
<1>4. \A k \in S : k <= l
  <2>1. TAKE k \in S
  <2>2. MaxLease - k \in T
    OBVIOUS
  <2>3. m <= MaxLease - k
    BY <1>2, <2>2
  <2> QED
    BY <1>3, <2>3, ConstantsAssumption DEF Row
<1> QED
  BY <1>4 DEF Newest

LEMMA TimeConstants ==
  /\ LeaseTTL \in Nat /\ LeaseTTL > 0
  /\ Grace \in Nat /\ Grace <= LeaseTTL
  /\ FullLife \in Nat /\ FullLife = LeaseTTL + Grace
BY ConstantsAssumption DEF FullLife

\* The row SyncQuotaToRedis takes its TTL from exists whenever some row pays.
LEMMA EarliestMember ==
  ASSUME TypeOK, NEW S \in SUBSET Row, S # {}
  PROVE  (CHOOSE l \in S : \A k \in S : lease[l].left <= lease[k].left) \in S
<1> DEFINE T == {lease[l].left : l \in S}
<1>1. T \in SUBSET Nat /\ T # {}
  BY ConstantsAssumption DEF TypeOK, LeaseRow, FullLife
<1>2. PICK m \in T : \A k \in T : m <= k
  <2> HIDE DEF T
  <2> QED BY <1>1, LeastElement
<1>3. PICK l \in S : m = lease[l].left
  BY <1>2
<1>4. \A k \in S : lease[l].left <= lease[k].left
  BY <1>2, <1>3
<1> QED
  BY <1>4

LEMMA StateTypes ==
  ASSUME TypeOK
  PROVE  /\ \A pc \in PC : At(pc) \in CallState
         /\ \A o \in Op : PriceOf(o) \in Nat \ {0} /\ OrderOf[o] \in Order
         /\ \A o \in Op : op[o] \in CallState
         /\ \A l \in Row : lease[l] \in LeaseRow
         /\ LiveTotal \in Nat
         /\ FullLife \in Nat
<1>1. \A l \in Row : lease[l] \in LeaseRow
  BY DEF TypeOK
<1>2. LiveTotal \in Nat
  <2> DEFINE f == [l \in Row |-> IF Live(l) THEN lease[l].remaining ELSE 0]
  <2>1. f \in [1..MaxLease -> Nat]
    BY <1>1 DEF LeaseRow, Row
  <2> HIDE DEF f
  <2>2. SumTo(MaxLease, f) \in Nat
    BY <2>1, SumToNat, ConstantsAssumption
  <2> QED
    BY <2>2 DEF LiveTotal, f
<1>3. \A pc \in PC : At(pc) \in CallState
  BY ConstantsAssumption DEF At, CallState, Attempt, PC, Onward, FullLife
<1>4. \A o \in Op : PriceOf(o) \in Nat \ {0} /\ OrderOf[o] \in Order
  BY ConstantsAssumption DEF PriceOf
<1> QED
  BY <1>1, <1>2, <1>3, <1>4, ConstantsAssumption DEF TypeOK, FullLife

\* A row credited by CreditNewestLive is a row of the table.
LEMMA CreditType ==
  ASSUME TypeOK, NEW amount \in Nat, CreditNewestLive(amount)
  PROVE  lease' \in [Row -> LeaseRow]
<1>1. \A l \in Row : lease[l] \in LeaseRow
  BY DEF TypeOK
<1>2. FullLife \in 0..FullLife
  BY ConstantsAssumption DEF FullLife
<1>3. CASE LiveRows # {}
  <2>1. Newest(LiveRows) \in Row
    <3>1. LiveRows \in SUBSET Row
      BY DEF LiveRows
    <3> QED BY <1>3, <3>1, NewestMember
  <2> DEFINE l == Newest(LiveRows)
  <2>2. lease' = [lease EXCEPT ![l] = [status |-> "active",
                    remaining |-> lease[l].remaining + amount, left |-> FullLife]]
    BY <1>3 DEF CreditNewestLive
  <2> HIDE DEF l
  <2> QED
    BY <1>1, <1>2, <2>1, <2>2 DEF TypeOK, LeaseRow, l
<1>4. CASE LiveRows = {}
  <2>1. PICK l \in Row : lease' = [lease EXCEPT ![l] = [status |-> "active",
                         remaining |-> amount, left |-> FullLife]]
    BY <1>4 DEF CreditNewestLive
  <2> QED
    BY <1>2, <2>1 DEF TypeOK, LeaseRow
<1> QED
  BY <1>3, <1>4

LEMMA TypeInit == Init => TypeOK
<1> SUFFICES ASSUME Init PROVE TypeOK
  OBVIOUS
<1>1. At("idle") \in CallState
  BY ConstantsAssumption DEF At, CallState, Attempt, PC, Onward, FullLife
<1>2. NoRow \in LeaseRow
  BY ConstantsAssumption DEF NoRow, LeaseRow, FullLife
<1>3. lease \in [Row -> LeaseRow] /\ op \in [Op -> CallState]
  BY <1>1, <1>2 DEF Init
<1>4. balance \in Nat /\ quota \in Nat /\ quotaTTL \in 0..LeaseTTL /\ deposits \in Int
  BY ConstantsAssumption DEF Init
<1>5. charged \subseteq ChargeOp /\ refunded \subseteq RefundOp
  BY DEF Init
<1>6. versioned \in BOOLEAN /\ clearing \in BOOLEAN
  BY DEF Init
<1> QED
  BY <1>3, <1>4, <1>5, <1>6 DEF TypeOK

-----------------------------------------------------------------------------
(* Type correctness, one step per action.                                  *)

LEMMA GotoType ==
  ASSUME TypeOK, NEW o \in Op, NEW s \in CallState, Goto(o, s)
  PROVE  op' \in [Op -> CallState]
BY DEF Goto, TypeOK

\* A step that only moves a call.
LEMMA MoveType ==
  ASSUME TypeOK, NEW o \in Op, NEW s \in CallState, Goto(o, s),
         UNCHANGED <<dbVars, redisVars, clearing>>
  PROVE  TypeOK'
<1>1. op' \in [Op -> CallState]
  BY GotoType
<1> QED
  BY <1>1 DEF TypeOK, dbVars, redisVars

\* A step that moves a call and changes the bucket.
LEMMA BucketType ==
  ASSUME TypeOK, NEW o \in Op, NEW s \in CallState, Goto(o, s),
         UNCHANGED <<dbVars, clearing>>,
         quota' \in Nat, quotaTTL' \in 0..LeaseTTL, versioned' \in BOOLEAN
  PROVE  TypeOK'
<1>1. op' \in [Op -> CallState]
  BY GotoType
<1> QED
  BY <1>1 DEF TypeOK, dbVars

LEMMA ResumeType ==
  ASSUME TypeOK, NEW o \in Op, NEW avail \in Int
  PROVE  Resume(o, avail) \in CallState
<1>1. op[o] \in CallState /\ PriceOf(o) \in Nat
  BY StateTypes
<1>2. At("gap") \in CallState /\ At("incr") \in CallState
  BY StateTypes DEF PC
<1> QED
  BY <1>1, <1>2 DEF Resume, CallState, Onward

LEMMA TypeLook ==
  ASSUME TypeOK, NEW o \in Op, Look(o)
  PROVE  TypeOK'
<1> DEFINE s == IF BucketCurrent
                THEN Resume(o, quota)
                ELSE [At("sync") EXCEPT !.try = op[o].try,
                        !.next = IF o \in ChargeOp THEN "gap" ELSE "incr"]
<1>1. s \in CallState
  <2>1. Resume(o, quota) \in CallState
    BY ResumeType DEF TypeOK
  <2>2. op[o] \in CallState /\ At("sync") \in CallState
    BY StateTypes DEF PC
  <2> QED
    BY <2>1, <2>2 DEF CallState, Onward
<1>2. Goto(o, s) /\ UNCHANGED <<dbVars, redisVars, clearing>>
  BY DEF Look
<1> HIDE DEF s
<1> QED
  BY <1>1, <1>2, MoveType

LEMMA TypeSyncRead ==
  ASSUME TypeOK, NEW o \in Op, SyncRead(o)
  PROVE  TypeOK'
<1> DEFINE paying == {l \in LiveRows : lease[l].remaining > 0}
           first  == CHOOSE l \in paying : \A k \in paying : lease[l].left <= lease[k].left
           s == [op[o] EXCEPT !.pc = "fill", !.snap = LiveTotal,
                   !.snapLeft = IF paying = {} THEN 0 ELSE lease[first].left]
<1>1. paying \in SUBSET Row
  BY DEF LiveRows
<1>2. paying # {} => first \in Row
  <2> SUFFICES ASSUME paying # {} PROVE first \in Row
    OBVIOUS
  <2> HIDE DEF paying
  <2>1. first \in paying
    BY <1>1, EarliestMember
  <2> QED
    BY <1>1, <2>1
<1>3. (IF paying = {} THEN 0 ELSE lease[first].left) \in 0..FullLife
  <2> HIDE DEF first, paying
  <2> QED
    BY <1>2, StateTypes DEF LeaseRow
<1>4. s \in CallState
  <2>1. op[o] \in CallState /\ LiveTotal \in Int /\ "fill" \in PC
    BY StateTypes DEF PC
  <2> HIDE DEF first, paying
  <2> QED
    BY <1>3, <2>1 DEF CallState
<1>5. Goto(o, s) /\ UNCHANGED <<dbVars, redisVars, clearing>>
  BY DEF SyncRead
<1> HIDE DEF s
<1> QED
  BY <1>4, <1>5, MoveType

LEMMA TypeSyncFill ==
  ASSUME TypeOK, NEW o \in Op, SyncFill(o)
  PROVE  TypeOK'
<1> DEFINE s == op[o]
           gone == s.snap <= 0 \/ s.snapLeft = 0
           r == IF s.next \in {"gap", "incr"}
                THEN Resume(o, IF gone THEN 0 ELSE s.snap)
                ELSE [At(s.next) EXCEPT !.try = s.try]
<1>1. s \in CallState
  BY StateTypes
<1>2. r \in CallState
  <2>1. Resume(o, IF gone THEN 0 ELSE s.snap) \in CallState
    <3>1. (IF gone THEN 0 ELSE s.snap) \in Int
      BY <1>1 DEF CallState
    <3> HIDE DEF gone, s
    <3> QED
      BY <3>1, ResumeType
  <2>2. At(s.next) \in CallState
    BY <1>1, StateTypes DEF CallState, PC, Onward, Ended
  <2> HIDE DEF s, gone
  <2> QED
    BY <1>1, <2>1, <2>2 DEF CallState
<1>3. Goto(o, r) /\ UNCHANGED <<dbVars, clearing>>
  BY DEF SyncFill
<1>4. CASE gone
  <2>1. quota' = 0 /\ quotaTTL' = 0 /\ versioned' = FALSE
    BY <1>4 DEF SyncFill, ClearBucket
  <2>2. quota' \in Nat /\ quotaTTL' \in 0..LeaseTTL
    BY <2>1, TimeConstants
  <2>3. versioned' \in BOOLEAN
    BY <2>1
  <2> HIDE DEF r, s, gone
  <2> QED
    BY <1>2, <1>3, <2>2, <2>3, BucketType
<1>5. CASE ~gone
  <2>1. /\ quota' = s.snap
        /\ quotaTTL' = IF s.snapLeft > Grace THEN s.snapLeft - Grace ELSE s.snapLeft
        /\ versioned' = TRUE
    BY <1>5 DEF SyncFill, SetBucket
  <2>2. s.snap \in Int /\ s.snapLeft \in 0..FullLife
    BY <1>1 DEF CallState
  <2>3. quota' \in Nat /\ quotaTTL' \in 0..LeaseTTL
    BY <1>5, <2>1, <2>2, TimeConstants
  <2>4. versioned' \in BOOLEAN
    BY <2>1
  <2> HIDE DEF r, s, gone
  <2> QED
    BY <1>2, <1>3, <2>3, <2>4, BucketType
<1> QED
  BY <1>4, <1>5

\* The local states the calls are set to.
LEMMA AtTypes ==
  ASSUME TypeOK
  PROVE  /\ \A pc \in PC : At(pc) \in CallState
         /\ \A pc \in PC, t \in Attempt : [At(pc) EXCEPT !.try = t] \in CallState
         /\ \A pc \in PC, n \in Onward : [At(pc) EXCEPT !.next = n] \in CallState
         /\ \A pc \in PC, n \in Nat : [At(pc) EXCEPT !.amt = n] \in CallState
         /\ \A pc \in PC, t \in Attempt, n \in Onward :
              [At(pc) EXCEPT !.try = t, !.next = n] \in CallState
         /\ \A pc \in PC, a \in Nat, n \in Onward :
              [At(pc) EXCEPT !.amt = a, !.next = n] \in CallState
         /\ \A pc \in PC, t \in Attempt, a \in Nat, n \in Onward :
              [At(pc) EXCEPT !.try = t, !.amt = a, !.next = n] \in CallState
<1>1. \A pc \in PC : At(pc) \in CallState
  BY StateTypes
<1>2. \A pc \in PC, t \in Attempt : [At(pc) EXCEPT !.try = t] \in CallState
  BY <1>1 DEF CallState
<1>3. \A pc \in PC, n \in Onward : [At(pc) EXCEPT !.next = n] \in CallState
  BY <1>1 DEF CallState
<1>4. \A pc \in PC, n \in Nat : [At(pc) EXCEPT !.amt = n] \in CallState
  BY <1>1 DEF CallState
<1>5. \A pc \in PC, t \in Attempt, n \in Onward :
        [At(pc) EXCEPT !.try = t, !.next = n] \in CallState
  BY <1>2 DEF CallState
<1>6. \A pc \in PC, a \in Nat, n \in Onward :
        [At(pc) EXCEPT !.amt = a, !.next = n] \in CallState
  BY <1>4 DEF CallState
<1>7. \A pc \in PC, t \in Attempt, a \in Nat, n \in Onward :
        [At(pc) EXCEPT !.try = t, !.amt = a, !.next = n] \in CallState
  BY <1>2 DEF CallState
<1> QED
  BY <1>1, <1>2, <1>3, <1>4, <1>5, <1>6, <1>7

\* The actions that only move a call.
Moves(o) ==
  \/ StartCharge(o) \/ StartRefund(o) \/ GapCovered(o) \/ ReserveRefused(o)
  \/ IncrFails(o) \/ LuaMissing(o) \/ LuaShort(o) \/ ChargeRollsBack(o)
  \/ ChargeLookup(o) \/ RefundLookup(o) \/ RefundFails(o) \/ UndoRebuild(o)
  \/ UndoCharge(o) \/ Crash(o)

LEMMA TypeMoves ==
  ASSUME TypeOK, NEW o \in Op, Moves(o)
  PROVE  TypeOK'
<1>2. UNCHANGED <<dbVars, redisVars, clearing>>
  BY DEF Moves, StartCharge, StartRefund, GapCovered, ReserveRefused, IncrFails,
     LuaMissing, LuaShort, ChargeRollsBack, ChargeLookup, RefundLookup, RefundFails,
     UndoRebuild, UndoCharge, Crash
<1>3. op[o] \in CallState /\ PriceOf(o) \in Nat
  BY StateTypes
<1>4. op[o].try \in Attempt /\ op[o].next \in Onward /\ op[o].amt \in Nat
  BY <1>3 DEF CallState
<1>5. \E s \in CallState : Goto(o, s)
  <2>1. CASE StartCharge(o) \/ StartRefund(o) \/ ReserveRefused(o) \/ Crash(o)
    <3>1. At("look") \in CallState /\ At("ensure") \in CallState
          /\ At("denied") \in CallState /\ At("crashed") \in CallState
      BY AtTypes DEF PC, Ended
    <3> QED
      BY <2>1, <3>1 DEF StartCharge, StartRefund, ReserveRefused, Crash
  <2>2. CASE GapCovered(o)
    <3>1. [At("lua") EXCEPT !.try = op[o].try] \in CallState
      BY <1>4, AtTypes DEF PC
    <3> QED
      BY <2>2, <3>1 DEF GapCovered
  <2>3. CASE IncrFails(o)
    <3>1. [At("release") EXCEPT !.amt = op[o].amt] \in CallState /\ At("denied") \in CallState
      BY <1>4, AtTypes DEF PC, Ended
    <3> QED
      BY <2>3, <3>1 DEF IncrFails
  <2>4. CASE LuaMissing(o)
    <3>1. [At("sync") EXCEPT !.try = "rebuilt", !.next = "look"] \in CallState
          /\ At("denied") \in CallState
      BY AtTypes DEF PC, Onward, Ended, Attempt
    <3> QED
      BY <2>4, <3>1 DEF LuaMissing
  <2>5. CASE LuaShort(o)
    <3>1. [At("look") EXCEPT !.try = "retry"] \in CallState
          /\ [At("look") EXCEPT !.try = "wait"] \in CallState
          /\ At("denied") \in CallState
      BY AtTypes DEF PC, Onward, Ended, Attempt
    <3> QED
      BY <1>4, <2>5, <3>1 DEF LuaShort, Attempt
  <2>6. CASE ChargeRollsBack(o) \/ RefundFails(o)
    <3>1. [At("undo") EXCEPT !.next = "denied"] \in CallState
          /\ At("deferred") \in CallState
      BY AtTypes DEF PC, Onward, Ended
    <3> QED
      BY <2>6, <3>1 DEF ChargeRollsBack, RefundFails, DeferRefund
  <2>7. CASE ChargeLookup(o) \/ RefundLookup(o)
    <3>1. /\ [At("undo") EXCEPT !.next = "done"] \in CallState
          /\ [At("undo") EXCEPT !.next = "denied"] \in CallState
          /\ At("done") \in CallState /\ At("debit") \in CallState
          /\ At("mirror") \in CallState /\ At("job") \in CallState
      BY AtTypes DEF PC, Onward, Ended
    <3> QED
      BY <2>7, <3>1 DEF ChargeLookup, RefundLookup
  <2>8. CASE UndoRebuild(o)
    <3>1. [At("sync") EXCEPT !.next = op[o].next] \in CallState
      BY <1>4, AtTypes DEF PC
    <3> QED
      BY <2>8, <3>1 DEF UndoRebuild
  <2>9. CASE UndoCharge(o)
    <3>1. [At("incr") EXCEPT !.amt = PriceOf(o), !.next = "denied"] \in CallState
      BY <1>3, AtTypes DEF PC, Onward, Ended
    <3> QED
      BY <2>9, <3>1 DEF UndoCharge
  <2> QED
    BY <2>1, <2>2, <2>3, <2>4, <2>5, <2>6, <2>7, <2>8, <2>9 DEF Moves
<1> QED
  BY <1>2, <1>5, MoveType

LEMMA TypeBucketSteps ==
  ASSUME TypeOK, NEW o \in Op, Incr(o) \/ LuaCharge(o) \/ UndoRefund(o)
  PROVE  TypeOK'
<1>1. /\ op[o] \in CallState /\ PriceOf(o) \in Nat /\ quota \in Nat
      /\ quotaTTL \in 0..LeaseTTL /\ LeaseTTL \in 0..LeaseTTL
  BY StateTypes, TimeConstants DEF TypeOK
<1>2. op[o].try \in Attempt /\ op[o].next \in Onward /\ op[o].amt \in Nat
  BY <1>1 DEF CallState
<1>3. UNCHANGED <<dbVars, clearing>>
  BY DEF Incr, LuaCharge, UndoRefund
<1>4. CASE Incr(o)
  <2>1. [At(op[o].next) EXCEPT !.try = op[o].try] \in CallState
    BY <1>2, AtTypes DEF PC, Onward, Ended
  <2>2. Goto(o, [At(op[o].next) EXCEPT !.try = op[o].try])
    BY <1>4 DEF Incr
  <2>3. quota' = quota + op[o].amt /\ quotaTTL' = LeaseTTL /\ versioned' = TRUE
    BY <1>4 DEF Incr, SetBucket
  <2>4. quota' \in Nat
    BY <1>1, <1>2, <2>3
  <2>5. versioned' \in BOOLEAN
    BY <2>3
  <2> QED
    BY <1>1, <1>3, <2>1, <2>2, <2>3, <2>4, <2>5, BucketType
<1>5. CASE LuaCharge(o)
  <2>1. At("charged") \in CallState
    BY AtTypes DEF PC
  <2>2. Goto(o, At("charged"))
    BY <1>5 DEF LuaCharge
  <2>3. quota' = quota - PriceOf(o) /\ quotaTTL' = LeaseTTL /\ versioned' = TRUE
    BY <1>5 DEF LuaCharge, SetBucket
  <2>4. quota' \in Nat
    BY <1>1, <1>5, <2>3 DEF LuaCharge
  <2>5. versioned' \in BOOLEAN
    BY <2>3
  <2> QED
    BY <1>1, <1>3, <2>1, <2>2, <2>3, <2>4, <2>5, BucketType
<1>6. CASE UndoRefund(o)
  <2>1. At(op[o].next) \in CallState
    BY <1>2, AtTypes DEF PC, Onward, Ended
  <2>2. Goto(o, At(op[o].next))
    BY <1>6 DEF UndoRefund
  <2>3. CASE quota >= PriceOf(o) /\ SetBucket(quota - PriceOf(o), LeaseTTL)
    <3>1. quota' = quota - PriceOf(o) /\ quotaTTL' = LeaseTTL /\ versioned' = TRUE
      BY <2>3 DEF SetBucket
    <3>2. quota' \in Nat
      BY <1>1, <2>3, <3>1
    <3>3. versioned' \in BOOLEAN
      BY <3>1
    <3> QED
      BY <1>1, <1>3, <2>1, <2>2, <3>1, <3>2, <3>3, BucketType
  <2>4. CASE UNCHANGED redisVars
    <3>1. UNCHANGED <<dbVars, redisVars, clearing>>
      BY <1>3, <2>4
    <3> QED
      BY <2>1, <2>2, <3>1, MoveType
  <2> QED
    BY <1>6, <2>3, <2>4 DEF UndoRefund
<1> QED
  BY <1>4, <1>5, <1>6

-----------------------------------------------------------------------------
(* What each kind of step does to the lease rows and to the ledger.        *)

LEMMA RemainingType ==
  ASSUME lease \in [Row -> LeaseRow]
  PROVE  Remaining \in [1..MaxLease -> Nat] /\ LeaseTotal \in Nat
<1>1. Remaining \in [1..MaxLease -> Nat]
  BY DEF Remaining, LeaseRow, Row
<1> QED
  BY <1>1, SumToNat, ConstantsAssumption DEF LeaseTotal

\* A step that changes what one row holds changes the total by that much.
LEMMA RowChange ==
  ASSUME lease \in [Row -> LeaseRow], lease' \in [Row -> LeaseRow],
         NEW l \in Row, \A k \in Row : k # l => lease'[k].remaining = lease[k].remaining
  PROVE  LeaseTotal' = LeaseTotal + lease'[l].remaining - lease[l].remaining
<1> DEFINE f == Remaining
           g == [k \in Row |-> lease'[k].remaining]
<1>1. f \in [1..MaxLease -> Int] /\ g \in [1..MaxLease -> Int]
  BY DEF Remaining, LeaseRow, Row
<1>2. l \in 1..MaxLease /\ \A i \in 1..MaxLease : i # l => g[i] = f[i]
  BY DEF Remaining, Row
<1>3. g[l] = lease'[l].remaining /\ f[l] = lease[l].remaining
  BY DEF Remaining
<1>4. LeaseTotal' = SumTo(MaxLease, g) /\ LeaseTotal = SumTo(MaxLease, f)
  BY DEF LeaseTotal, Remaining
<1> HIDE DEF f, g
<1>5. MaxLease \in Nat
  BY ConstantsAssumption
<1>6. SumTo(MaxLease, g) = SumTo(MaxLease, f) + g[l] - f[l]
  BY <1>1, <1>2, <1>5, SumToUpdate
<1> QED
  BY <1>3, <1>4, <1>6

LEMMA RowsKept ==
  ASSUME \A k \in Row : lease'[k].remaining = lease[k].remaining
  PROVE  LeaseTotal' = LeaseTotal
<1>1. [k \in Row |-> lease'[k].remaining] = [k \in Row |-> lease[k].remaining]
  OBVIOUS
<1> QED
  BY <1>1 DEF LeaseTotal, Remaining

\* Inserting or topping up a row adds the amount, and leaves retired rows empty.
LEMMA CreditEffect ==
  ASSUME TypeOK, RetiredRowsEmpty, NEW amount \in Nat, CreditNewestLive(amount)
  PROVE  LeaseTotal' = LeaseTotal + amount /\ RetiredRowsEmpty'
<1>1. lease \in [Row -> LeaseRow] /\ lease' \in [Row -> LeaseRow]
  BY CreditType DEF TypeOK
<1>2. \E l \in Row : lease' = [lease EXCEPT ![l] = [status |-> "active",
                       remaining |-> lease[l].remaining + amount, left |-> FullLife]]
  <2>1. CASE LiveRows # {}
    <3>1. LiveRows \in SUBSET Row
      BY DEF LiveRows
    <3>2. Newest(LiveRows) \in Row
      BY <2>1, <3>1, NewestMember
    <3> QED
      BY <2>1, <3>2 DEF CreditNewestLive
  <2>2. CASE LiveRows = {}
    <3>1. PICK l \in Row :
            /\ IsNextId(l)
            /\ lease' = [lease EXCEPT ![l] = [status |-> "active",
                           remaining |-> amount, left |-> FullLife]]
      BY <2>2 DEF CreditNewestLive
    <3>2. lease[l].remaining = 0
      BY <3>1 DEF IsNextId, RetiredRowsEmpty, Active
    <3>3. lease[l].remaining + amount = amount
      BY <3>2
    <3> QED
      BY <3>1, <3>3
  <2> QED
    BY <2>1, <2>2
<1>3. PICK l \in Row : lease' = [lease EXCEPT ![l] = [status |-> "active",
                         remaining |-> lease[l].remaining + amount, left |-> FullLife]]
  BY <1>2
<1>4. lease'[l].remaining = lease[l].remaining + amount /\ lease'[l].status = "active"
  BY <1>1, <1>3
<1>5. \A k \in Row : k # l => lease'[k] = lease[k]
  BY <1>1, <1>3
<1>6. LeaseTotal' = LeaseTotal + amount
  <2>1. LeaseTotal' = LeaseTotal + lease'[l].remaining - lease[l].remaining
    BY <1>1, <1>5, RowChange
  <2>2. LeaseTotal \in Nat /\ lease[l].remaining \in Nat
    BY <1>1, RemainingType DEF LeaseRow
  <2> QED
    BY <1>4, <2>1, <2>2
<1>7. RetiredRowsEmpty'
  BY <1>4, <1>5 DEF RetiredRowsEmpty, Active
<1> QED
  BY <1>6, <1>7

\* The rows of WriteCharge after a debit plan has been taken from them.
LEMMA DebitEffect ==
  ASSUME TypeOK, RetiredRowsEmpty, NEW price \in Nat, NEW plan \in DebitPlans(price),
         lease' = Debited(plan)
  PROVE  /\ lease' \in [Row -> LeaseRow]
         /\ LeaseTotal' = LeaseTotal - price
         /\ RetiredRowsEmpty'
<1>1. /\ plan \in [Row -> 0..price]
      /\ \A l \in Row : plan[l] > 0 => Live(l) /\ plan[l] <= lease[l].remaining
      /\ SumTo(MaxLease, plan) = price
  BY DEF DebitPlans
<1>2. \A l \in Row : lease[l] \in LeaseRow /\ lease[l].remaining \in Nat
                     /\ plan[l] \in Nat
  BY <1>1 DEF TypeOK, LeaseRow
<1>3. \A l \in Row : /\ lease'[l] \in LeaseRow
                     /\ lease'[l].remaining = lease[l].remaining - plan[l]
                     /\ lease'[l].status = lease[l].status
  <2>1. FullLife \in 0..FullLife
    BY TimeConstants
  <2> SUFFICES ASSUME NEW l \in Row
               PROVE  /\ lease'[l] \in LeaseRow
                      /\ lease'[l].remaining = lease[l].remaining - plan[l]
                      /\ lease'[l].status = lease[l].status
    OBVIOUS
  <2>2. CASE plan[l] > 0
    <3>1. lease'[l] = [lease[l] EXCEPT !.remaining = lease[l].remaining - plan[l],
                                       !.left = FullLife]
      BY <2>2 DEF Debited
    <3>2. lease[l].remaining - plan[l] \in Nat
      BY <1>1, <1>2, <2>2
    <3> QED
      BY <1>2, <2>1, <3>1, <3>2 DEF LeaseRow
  <2>3. CASE ~(plan[l] > 0)
    <3>1. plan[l] = 0
      BY <1>2, <2>3
    <3>2. lease'[l] = lease[l]
      BY <2>3 DEF Debited
    <3> QED
      BY <1>2, <3>1, <3>2
  <2> QED
    BY <2>2, <2>3
<1>4. lease' \in [Row -> LeaseRow]
  BY <1>3 DEF Debited
<1>5. LeaseTotal' = LeaseTotal - price
  <2> DEFINE f == [l \in Row |-> lease[l].remaining]
             g == plan
             h == [l \in Row |-> lease'[l].remaining]
  <2>1. /\ f \in [1..MaxLease -> Int] /\ g \in [1..MaxLease -> Int]
        /\ h \in [1..MaxLease -> Int]
    BY <1>1, <1>2, <1>3 DEF Row, LeaseRow
  <2>2. \A i \in 1..MaxLease : h[i] = f[i] - g[i]
    BY <1>3 DEF Row
  <2>3. LeaseTotal = SumTo(MaxLease, f) /\ LeaseTotal' = SumTo(MaxLease, h)
    BY DEF LeaseTotal, Remaining
  <2>4. SumTo(MaxLease, g) = price
    BY <1>1
  <2> HIDE DEF f, g, h
  <2>5. MaxLease \in Nat
    BY ConstantsAssumption
  <2>6. SumTo(MaxLease, h) = SumTo(MaxLease, f) - SumTo(MaxLease, g)
    BY <2>1, <2>2, <2>5, SumToMinus
  <2> QED
    BY <2>3, <2>4, <2>6
<1>6. RetiredRowsEmpty'
  BY <1>1, <1>2, <1>3 DEF RetiredRowsEmpty, Active, Live
<1> QED
  BY <1>4, <1>5, <1>6

Spent == [o \in Op |-> NetSpent(o)]

LEMMA SpentType ==
  /\ Spent \in [1..NumOps -> Int]
  /\ SumTo(NumOps, Spent) \in Int
  /\ LedgerBalance = deposits - SumTo(NumOps, Spent)
<1>1. \A o \in Op : PriceOf(o) \in Nat
  BY ConstantsAssumption DEF PriceOf
<1>2. \A o \in Op : NetSpent(o) \in Int
  BY <1>1 DEF NetSpent
<1>3. Spent \in [1..NumOps -> Int]
  BY <1>2 DEF Spent, Op
<1>4. NumOps \in Nat
  BY ConstantsAssumption
<1> QED
  BY <1>3, <1>4, SumToType DEF LedgerBalance, Spent

LEMMA LedgerKept ==
  ASSUME UNCHANGED <<charged, refunded>>, deposits \in Int, deposits' \in Int
  PROVE  LedgerBalance' = LedgerBalance + deposits' - deposits
<1>1. Spent' = Spent
  BY DEF Spent, NetSpent
<1>2. LedgerBalance' = deposits' - SumTo(NumOps, Spent)
  BY <1>1 DEF LedgerBalance, Spent
<1> QED
  BY <1>2, SpentType

\* A new charge row or a new refund row moves the ledger by the price of the call.
LEMMA LedgerMoved ==
  ASSUME deposits \in Int, deposits' = deposits, NEW o \in Op, NEW price \in Int,
         \A k \in Op : k # o => NetSpent(k)' = NetSpent(k),
         NetSpent(o)' = NetSpent(o) + price, NetSpent(o)' \in Int
  PROVE  LedgerBalance' = LedgerBalance - price
<1> DEFINE f == Spent
           g == [k \in Op |-> NetSpent(k)']
<1>1. f \in [1..NumOps -> Int] /\ SumTo(NumOps, f) \in Int
      /\ LedgerBalance = deposits - SumTo(NumOps, f)
  BY SpentType
<1>2. \A k \in 1..NumOps : k # o => g[k] = f[k]
  BY DEF Spent, Op
<1>3. g[o] = NetSpent(o)' /\ f[o] = NetSpent(o) /\ f[o] \in Int
  BY <1>1 DEF Spent, Op
<1>4. g \in [1..NumOps -> Int]
  <2>1. \A k \in Op : NetSpent(k) \in Int
    BY <1>1 DEF Spent, Op
  <2>2. \A k \in Op : NetSpent(k)' \in Int
    BY <2>1
  <2> QED
    BY <2>2 DEF Op
<1>5. LedgerBalance' = deposits - SumTo(NumOps, g)
  BY DEF LedgerBalance, Spent
<1>6. NumOps \in Nat /\ o \in 1..NumOps
  BY ConstantsAssumption DEF Op
<1> HIDE DEF f, g
<1>7. SumTo(NumOps, g) = SumTo(NumOps, f) + g[o] - f[o]
  BY <1>1, <1>2, <1>4, <1>6, SumToUpdate
<1> QED
  BY <1>1, <1>3, <1>5, <1>7

LEMMA LedgerCharged ==
  ASSUME TypeOK, NEW o \in Op, o \notin charged,
         charged' = charged \cup {o}, UNCHANGED <<deposits, refunded>>
  PROVE  LedgerBalance' = LedgerBalance - PriceOf(o)
<1>1. PriceOf(o) \in Nat
  BY ConstantsAssumption DEF PriceOf
<1>2. \A k \in Op : k # o => NetSpent(k)' = NetSpent(k)
  BY DEF NetSpent
<1>3. NetSpent(o)' = NetSpent(o) + PriceOf(o) /\ NetSpent(o)' \in Int
  BY <1>1 DEF NetSpent
<1> QED
  BY <1>1, <1>2, <1>3, LedgerMoved DEF TypeOK

LEMMA LedgerRefunded ==
  ASSUME TypeOK, NEW o \in Op, o \notin refunded,
         refunded' = refunded \cup {o}, UNCHANGED <<deposits, charged>>
  PROVE  LedgerBalance' = LedgerBalance + PriceOf(o)
<1>1. PriceOf(o) \in Nat
  BY ConstantsAssumption DEF PriceOf
<1>2. \A k \in Op : k # o => NetSpent(k)' = NetSpent(k)
  BY DEF NetSpent
<1>3. NetSpent(o)' = NetSpent(o) + (0 - PriceOf(o)) /\ NetSpent(o)' \in Int
  BY <1>1 DEF NetSpent
<1>4. LedgerBalance' = LedgerBalance - (0 - PriceOf(o))
  BY <1>1, <1>2, <1>3, LedgerMoved DEF TypeOK
<1>5. LedgerBalance \in Int
  BY SpentType DEF TypeOK
<1> QED
  BY <1>1, <1>4, <1>5

-----------------------------------------------------------------------------
(* The inductive invariant.  Reconciled alone is not inductive: that a new *)
(* row starts from nothing needs RetiredRowsEmpty.                         *)

AInv == TypeOK /\ RetiredRowsEmpty /\ Reconciled

LEMMA InitAInv == Init => AInv
<1> SUFFICES ASSUME Init PROVE AInv
  OBVIOUS
<1>1. TypeOK
  BY TypeInit
<1>2. \A l \in Row : lease[l].remaining = 0
  BY DEF Init, NoRow
<1>3. RetiredRowsEmpty
  BY <1>2 DEF RetiredRowsEmpty
<1>4. LeaseTotal = 0
  <2>1. Remaining \in [1..MaxLease -> Int] /\ \A i \in 1..MaxLease : Remaining[i] = 0
    BY <1>2 DEF Remaining, Row
  <2>2. MaxLease \in Nat
    BY ConstantsAssumption
  <2> HIDE DEF Remaining
  <2> QED
    BY <2>1, <2>2, SumToZero DEF LeaseTotal
<1>5. SumTo(NumOps, Spent) = 0
  <2>1. \A o \in Op : NetSpent(o) = 0
    BY DEF Init, NetSpent
  <2>2. \A i \in 1..NumOps : Spent[i] = 0
    BY <2>1 DEF Spent, Op
  <2>3. NumOps \in Nat
    BY ConstantsAssumption
  <2> QED
    BY <2>2, <2>3, SpentType, SumToZero
<1>6. balance + LeaseTotal = deposits - SumTo(NumOps, Spent)
  BY <1>1, <1>4, <1>5 DEF Init, TypeOK
<1> QED
  BY <1>1, <1>3, <1>6, SpentType DEF AInv, Reconciled

\* Steps that leave the durable account alone.
LEMMA KeepsAccount ==
  ASSUME AInv, TypeOK', UNCHANGED dbVars
  PROVE  AInv'
<1>1. RetiredRowsEmpty'
  BY DEF AInv, RetiredRowsEmpty, Active, dbVars
<1>2. LeaseTotal' = LeaseTotal
  BY DEF dbVars, LeaseTotal, Remaining
<1>3. LedgerBalance' = LedgerBalance
  BY DEF dbVars, LedgerBalance, NetSpent
<1> QED
  BY <1>1, <1>2, <1>3 DEF AInv, Reconciled, dbVars

LEMMA StepReserve ==
  ASSUME AInv, NEW o \in Op, Reserve(o)
  PROVE  AInv'
<1> DEFINE needed == PriceOf(o) - op[o].avail
           s == [At("incr") EXCEPT !.try = op[o].try, !.amt = needed, !.next = "lua"]
<1>1. TypeOK /\ RetiredRowsEmpty
  BY DEF AInv
<1>2. /\ needed > 0 /\ balance >= needed /\ balance' = balance - needed
      /\ CreditNewestLive(needed) /\ Goto(o, s)
      /\ UNCHANGED <<redisVars, deposits, charged, refunded, clearing>>
  BY DEF Reserve
<1>3. needed \in Nat
  <2>1. PriceOf(o) \in Int /\ op[o].avail \in Int
    BY <1>1, StateTypes DEF CallState
  <2> QED
    BY <1>2, <2>1
<1>4. s \in CallState
  <2>1. op[o].try \in Attempt
    BY <1>1, StateTypes DEF CallState
  <2> HIDE DEF needed
  <2> QED
    BY <1>1, <1>3, <2>1, AtTypes DEF PC, Onward
<1> HIDE DEF needed, s
<1>5. lease' \in [Row -> LeaseRow]
  BY <1>1, <1>2, <1>3, CreditType
<1>6. LeaseTotal' = LeaseTotal + needed /\ RetiredRowsEmpty'
  BY <1>1, <1>2, <1>3, CreditEffect
<1>7. op' \in [Op -> CallState]
  BY <1>1, <1>2, <1>4, GotoType
<1>8. balance' \in Nat
  BY <1>1, <1>2, <1>3 DEF TypeOK
<1>9. TypeOK'
  BY <1>1, <1>2, <1>5, <1>7, <1>8 DEF TypeOK, redisVars
<1>10. LedgerBalance' = LedgerBalance
  BY <1>2 DEF LedgerBalance, NetSpent
<1>11. balance' + LeaseTotal' = balance + LeaseTotal
  <2>1. LeaseTotal \in Nat /\ balance \in Nat
    BY <1>1, RemainingType DEF TypeOK
  <2> QED
    BY <1>2, <1>3, <1>6, <2>1
<1> QED
  BY <1>6, <1>9, <1>10, <1>11 DEF AInv, Reconciled

LEMMA StepRelease ==
  ASSUME AInv, NEW o \in Op, Release(o)
  PROVE  AInv'
<1>1. TypeOK /\ RetiredRowsEmpty
  BY DEF AInv
<1>2. op' \in [Op -> CallState]
  <2>1. At("denied") \in CallState
    BY <1>1, AtTypes DEF PC, Ended
  <2> QED
    BY <1>1, <2>1, GotoType DEF Release
<1>3. UNCHANGED <<redisVars, deposits, charged, refunded, clearing>>
  BY DEF Release
<1>4. LedgerBalance' = LedgerBalance
  BY <1>3 DEF LedgerBalance, NetSpent
<1>5. CASE UNCHANGED <<balance, lease>>
  <2>1. TypeOK'
    BY <1>1, <1>2, <1>3, <1>5 DEF TypeOK, redisVars
  <2>2. UNCHANGED dbVars
    BY <1>3, <1>5 DEF dbVars
  <2> QED
    BY <2>1, <2>2, KeepsAccount
<1>6. CASE ActiveRows # {}
           /\ LET l == Newest(ActiveRows)
                  back == IF lease[l].remaining < op[o].amt THEN lease[l].remaining
                                                            ELSE op[o].amt
              IN  /\ lease' = [lease EXCEPT ![l].remaining = lease[l].remaining - back]
                  /\ balance' = balance + back
  <2> DEFINE l == Newest(ActiveRows)
             back == IF lease[l].remaining < op[o].amt THEN lease[l].remaining
                                                       ELSE op[o].amt
  <2>1. lease' = [lease EXCEPT ![l].remaining = lease[l].remaining - back]
        /\ balance' = balance + back
    BY <1>6
  <2>2. l \in Row /\ Active(l)
    <3>1. ActiveRows \in SUBSET Row
      BY DEF ActiveRows
    <3>2. l \in ActiveRows
      BY <1>6, <3>1, NewestMember
    <3> QED
      BY <3>2 DEF ActiveRows
  <2> HIDE DEF l
  <2>3. /\ lease[l].remaining \in Nat /\ op[o].amt \in Nat /\ balance \in Nat
        /\ \A k \in Row : lease[k] \in LeaseRow
    BY <1>1, <2>2, StateTypes DEF TypeOK, LeaseRow, CallState
  <2>4. back \in Nat /\ lease[l].remaining - back \in Nat
    BY <2>3
  <2> HIDE DEF back
  <2>5. lease' \in [Row -> LeaseRow]
    <3>1. [lease[l] EXCEPT !.remaining = lease[l].remaining - back] \in LeaseRow
      BY <2>2, <2>3, <2>4 DEF LeaseRow
    <3> QED
      BY <1>1, <2>1, <2>2, <3>1 DEF TypeOK
  <2>6. /\ lease'[l].remaining = lease[l].remaining - back
        /\ lease'[l].status = lease[l].status
        /\ \A k \in Row : k # l => lease'[k] = lease[k]
    BY <1>1, <2>1, <2>2, <2>3 DEF TypeOK, LeaseRow
  <2>7. LeaseTotal' = LeaseTotal + lease'[l].remaining - lease[l].remaining
    BY <1>1, <2>2, <2>5, <2>6, RowChange DEF TypeOK
  <2>8. RetiredRowsEmpty'
    BY <1>1, <2>2, <2>6 DEF RetiredRowsEmpty, Active
  <2>9. balance' \in Nat
    BY <2>1, <2>3, <2>4
  <2>10. TypeOK'
    BY <1>1, <1>2, <1>3, <2>5, <2>9 DEF TypeOK, redisVars
  <2>11. balance' + LeaseTotal' = balance + LeaseTotal
    <3>1. LeaseTotal \in Nat
      BY <1>1, RemainingType DEF TypeOK
    <3> QED
      BY <2>1, <2>3, <2>4, <2>6, <2>7, <3>1
  <2> QED
    BY <1>4, <2>8, <2>10, <2>11 DEF AInv, Reconciled
<1> QED
  BY <1>5, <1>6 DEF Release

LEMMA StepCommitCharge ==
  ASSUME AInv, NEW o \in Op, o \notin charged, CommitCharge(o),
         NEW s \in CallState, Goto(o, s)
  PROVE  AInv'
<1> DEFINE price == PriceOf(o)
<1>1. TypeOK /\ RetiredRowsEmpty
  BY DEF AInv
<1>2. price \in Nat
  BY <1>1, StateTypes
<1>3. /\ o \in ChargeOp /\ charged' = charged \cup {o}
      /\ UNCHANGED <<balance, redisVars, deposits, refunded, clearing>>
  BY DEF CommitCharge
<1>4. PICK plan \in DebitPlans(price) : lease' = Debited(plan)
  BY DEF CommitCharge
<1>5. LedgerBalance' = LedgerBalance - price
  BY <1>1, <1>3, LedgerCharged
<1> HIDE DEF price
<1>6. /\ lease' \in [Row -> LeaseRow]
      /\ LeaseTotal' = LeaseTotal - price
      /\ RetiredRowsEmpty'
  BY <1>1, <1>2, <1>4, DebitEffect
<1>7. op' \in [Op -> CallState]
  BY <1>1, GotoType
<1>8. TypeOK'
  BY <1>1, <1>3, <1>6, <1>7 DEF TypeOK, redisVars
<1>9. LeaseTotal \in Nat /\ balance \in Nat
  BY <1>1, RemainingType DEF TypeOK
<1> QED
  BY <1>2, <1>3, <1>5, <1>6, <1>8, <1>9 DEF AInv, Reconciled

LEMMA StepEnsureLease ==
  ASSUME AInv, NEW o \in Op, EnsureLease(o)
  PROVE  AInv'
<1>1. TypeOK /\ RetiredRowsEmpty
  BY DEF AInv
<1>2. /\ Goto(o, At("look"))
      /\ UNCHANGED <<balance, redisVars, deposits, charged, refunded, clearing>>
  BY DEF EnsureLease
<1>3. op' \in [Op -> CallState]
  <2>1. At("look") \in CallState
    BY <1>1, AtTypes DEF PC
  <2> QED
    BY <1>1, <1>2, <2>1, GotoType
<1>4. LedgerBalance' = LedgerBalance
  BY <1>2 DEF LedgerBalance, NetSpent
<1>5. CASE UNCHANGED lease
  <2>1. TypeOK'
    BY <1>1, <1>2, <1>3, <1>5 DEF TypeOK, redisVars
  <2>2. UNCHANGED dbVars
    BY <1>2, <1>5 DEF dbVars
  <2> QED
    BY <2>1, <2>2, KeepsAccount
<1>6. CASE CreditNewestLive(0)
  <2>1. lease' \in [Row -> LeaseRow]
    BY <1>1, <1>6, CreditType
  <2>2. LeaseTotal' = LeaseTotal + 0 /\ RetiredRowsEmpty'
    BY <1>1, <1>6, CreditEffect
  <2>3. TypeOK'
    BY <1>1, <1>2, <1>3, <2>1 DEF TypeOK, redisVars
  <2>4. LeaseTotal \in Nat
    BY <1>1, RemainingType DEF TypeOK
  <2> QED
    BY <1>2, <1>4, <2>2, <2>3, <2>4 DEF AInv, Reconciled
<1> QED
  BY <1>5, <1>6 DEF EnsureLease

LEMMA StepCommitRefund ==
  ASSUME AInv, NEW o \in Op, o \notin refunded, CommitRefund(o),
         NEW s \in CallState, Goto(o, s)
  PROVE  AInv'
<1> DEFINE price == PriceOf(o)
<1>1. TypeOK /\ RetiredRowsEmpty
  BY DEF AInv
<1>2. price \in Nat
  BY <1>1, StateTypes
<1>3. /\ o \in RefundOp /\ refunded' = refunded \cup {o} /\ CreditNewestLive(price)
      /\ UNCHANGED <<balance, redisVars, deposits, charged, clearing>>
  BY DEF CommitRefund
<1>4. LedgerBalance' = LedgerBalance + price
  BY <1>1, <1>3, LedgerRefunded
<1> HIDE DEF price
<1>5. lease' \in [Row -> LeaseRow]
  BY <1>1, <1>2, <1>3, CreditType
<1>6. LeaseTotal' = LeaseTotal + price /\ RetiredRowsEmpty'
  BY <1>1, <1>2, <1>3, CreditEffect
<1>7. op' \in [Op -> CallState]
  BY <1>1, GotoType
<1>8. TypeOK'
  BY <1>1, <1>3, <1>5, <1>7 DEF TypeOK, redisVars
<1>9. LeaseTotal \in Nat /\ balance \in Nat
  BY <1>1, RemainingType DEF TypeOK
<1> QED
  BY <1>2, <1>3, <1>4, <1>6, <1>8, <1>9 DEF AInv, Reconciled

LEMMA StepAdjust ==
  ASSUME AInv, NEW d \in Adjustments, Adjust(d)
  PROVE  AInv'
<1>1. TypeOK /\ RetiredRowsEmpty /\ d \in Int
  BY ConstantsAssumption DEF AInv
<1>2. balance' \in Nat /\ deposits' \in Int
  BY <1>1 DEF TypeOK, Adjust
<1>3. TypeOK'
  BY <1>1, <1>2 DEF TypeOK, Adjust, redisVars
<1>4. RetiredRowsEmpty' /\ LeaseTotal' = LeaseTotal
  BY <1>1 DEF Adjust, RetiredRowsEmpty, Active, LeaseTotal, Remaining
<1>5. LedgerBalance' = LedgerBalance + deposits' - deposits
  BY <1>1, <1>2, LedgerKept DEF TypeOK, Adjust
<1>6. LeaseTotal \in Nat /\ LedgerBalance \in Int
  BY <1>1, RemainingType, SpentType DEF TypeOK
<1> QED
  BY <1>1, <1>3, <1>4, <1>5, <1>6 DEF AInv, Reconciled, Adjust, TypeOK

LEMMA StepReclaim ==
  ASSUME AInv, NEW l \in Row, Reclaim(l)
  PROVE  AInv'
<1>1. TypeOK /\ RetiredRowsEmpty
  BY DEF AInv
<1>2. /\ balance' = balance + lease[l].remaining
      /\ lease' = [lease EXCEPT ![l].remaining = 0, ![l].status = "expired"]
      /\ clearing' = TRUE
      /\ UNCHANGED <<redisVars, deposits, charged, refunded, op>>
  BY DEF Reclaim
<1>3. lease[l] \in LeaseRow /\ lease[l].remaining \in Nat /\ balance \in Nat
  BY <1>1 DEF TypeOK, LeaseRow
<1>4. lease' \in [Row -> LeaseRow]
  <2>1. [lease[l] EXCEPT !.remaining = 0, !.status = "expired"] \in LeaseRow
    BY <1>3 DEF LeaseRow
  <2>2. lease' = [lease EXCEPT ![l] = [lease[l] EXCEPT !.remaining = 0, !.status = "expired"]]
    BY <1>1, <1>2, <1>3 DEF TypeOK, LeaseRow
  <2> QED
    BY <1>1, <2>1, <2>2 DEF TypeOK
<1>5. lease'[l].remaining = 0 /\ \A k \in Row : k # l => lease'[k] = lease[k]
  BY <1>1, <1>2, <1>3 DEF TypeOK, LeaseRow
<1>6. LeaseTotal' = LeaseTotal + lease'[l].remaining - lease[l].remaining
  BY <1>1, <1>4, <1>5, RowChange DEF TypeOK
<1>7. RetiredRowsEmpty'
  BY <1>1, <1>5 DEF RetiredRowsEmpty, Active
<1>8. TypeOK'
  <2>1. balance' \in Nat
    BY <1>2, <1>3
  <2>2. clearing' \in BOOLEAN
    BY <1>2
  <2> QED
    BY <1>1, <1>2, <1>4, <2>1, <2>2 DEF TypeOK, redisVars
<1>9. LedgerBalance' = LedgerBalance
  BY <1>2 DEF LedgerBalance, NetSpent
<1>10. LeaseTotal \in Nat
  BY <1>1, RemainingType DEF TypeOK
<1>11. balance' + LeaseTotal' = balance + LeaseTotal
  BY <1>2, <1>3, <1>5, <1>6, <1>10
<1> QED
  BY <1>7, <1>8, <1>9, <1>11 DEF AInv, Reconciled

\* The cache is cleared, kept or lost.
LEMMA StepCache ==
  ASSUME AInv, ReclaimClear \/ ReclaimCrash \/ LoseKey
  PROVE  AInv'
<1>1. TypeOK /\ 0 \in 0..LeaseTTL
  BY TimeConstants DEF AInv
<1>2. UNCHANGED <<dbVars, op>>
  BY DEF ReclaimClear, ReclaimCrash, LoseKey
<1>3. quota' \in Nat /\ quotaTTL' \in 0..LeaseTTL
  BY <1>1 DEF TypeOK, ReclaimClear, ReclaimCrash, LoseKey, ClearBucket, redisVars
<1>4. versioned' \in BOOLEAN /\ clearing' \in BOOLEAN
  BY <1>1 DEF TypeOK, ReclaimClear, ReclaimCrash, LoseKey, ClearBucket, redisVars
<1>5. TypeOK'
  BY <1>1, <1>2, <1>3, <1>4 DEF TypeOK, dbVars
<1> QED
  BY <1>2, <1>5, KeepsAccount

LEMMA StepTick ==
  ASSUME AInv, Tick
  PROVE  AInv'
<1>1. TypeOK /\ RetiredRowsEmpty
  BY DEF AInv
<1>2. \A n \in Nat : Dec(n) \in Nat /\ Dec(n) <= n
  BY DEF Dec
<1>3. \A l \in Row : lease[l] \in LeaseRow
  BY <1>1 DEF TypeOK
<1>4. \A l \in Row : lease'[l] = [lease[l] EXCEPT !.left = Dec(lease[l].left)]
  BY DEF Tick
<1>5. \A l \in Row : /\ lease'[l] \in LeaseRow
                     /\ lease'[l].remaining = lease[l].remaining
                     /\ lease'[l].status = lease[l].status
  <2> SUFFICES ASSUME NEW l \in Row
               PROVE  /\ lease'[l] \in LeaseRow
                      /\ lease'[l].remaining = lease[l].remaining
                      /\ lease'[l].status = lease[l].status
    OBVIOUS
  <2>1. lease[l] \in LeaseRow /\ lease[l].left \in 0..FullLife
    BY <1>3 DEF LeaseRow
  <2>2. Dec(lease[l].left) \in 0..FullLife
    BY <1>2, <2>1, TimeConstants
  <2> QED
    BY <1>4, <2>1, <2>2 DEF LeaseRow
<1>6. lease' \in [Row -> LeaseRow]
  BY <1>5 DEF Tick
<1>7. op' \in [Op -> CallState]
  <2> SUFFICES ASSUME NEW o \in Op
               PROVE  [op[o] EXCEPT !.snapLeft = Dec(op[o].snapLeft)] \in CallState
    BY DEF Tick
  <2>1. op[o] \in CallState /\ op[o].snapLeft \in 0..FullLife
    BY <1>1 DEF TypeOK, CallState
  <2>2. Dec(op[o].snapLeft) \in 0..FullLife
    BY <1>2, <2>1, TimeConstants
  <2> QED
    BY <2>1, <2>2 DEF CallState
<1>8. quota' \in Nat /\ quotaTTL' \in 0..LeaseTTL
  BY <1>1, <1>2, TimeConstants DEF TypeOK, Tick
<1>9. versioned' \in BOOLEAN
  BY DEF Tick
<1>10. TypeOK'
  BY <1>1, <1>6, <1>7, <1>8, <1>9 DEF TypeOK, Tick
<1>11. LeaseTotal' = LeaseTotal
  BY <1>5, RowsKept
<1>12. RetiredRowsEmpty'
  BY <1>1, <1>5 DEF RetiredRowsEmpty, Active
<1>13. LedgerBalance' = LedgerBalance /\ balance' = balance
  BY DEF Tick, LedgerBalance, NetSpent
<1> QED
  BY <1>10, <1>11, <1>12, <1>13 DEF AInv, Reconciled

\* WriteTx writes only what the lookup has not found.
Pending ==
  \A o \in Op : /\ op[o].pc = "debit" => o \notin charged
                /\ op[o].pc \in {"mirror", "job"} => o \notin refunded

LEMMA NextAInv == AInv /\ Pending /\ [Next]_vars => AInv'
<1> SUFFICES ASSUME AInv, Pending, [Next]_vars PROVE AInv'
  OBVIOUS
<1>1. TypeOK
  BY DEF AInv
<1>2. ASSUME NEW o \in Op, Moves(o) PROVE AInv'
  <2>1. UNCHANGED dbVars
    BY <1>2 DEF Moves, StartCharge, StartRefund, GapCovered, ReserveRefused, IncrFails,
       LuaMissing, LuaShort, ChargeRollsBack, ChargeLookup, RefundLookup, RefundFails,
       UndoRebuild, UndoCharge, Crash
  <2> QED
    BY <1>1, <1>2, <2>1, TypeMoves, KeepsAccount
<1>3. ASSUME NEW o \in Op, Look(o) PROVE AInv'
  <2>1. UNCHANGED dbVars
    BY <1>3 DEF Look
  <2> QED
    BY <1>1, <1>3, <2>1, TypeLook, KeepsAccount
<1>4. ASSUME NEW o \in Op, SyncRead(o) PROVE AInv'
  <2>1. UNCHANGED dbVars
    BY <1>4 DEF SyncRead
  <2> QED
    BY <1>1, <1>4, <2>1, TypeSyncRead, KeepsAccount
<1>5. ASSUME NEW o \in Op, SyncFill(o) PROVE AInv'
  <2>1. UNCHANGED dbVars
    BY <1>5 DEF SyncFill
  <2> QED
    BY <1>1, <1>5, <2>1, TypeSyncFill, KeepsAccount
<1>6. ASSUME NEW o \in Op, Incr(o) \/ LuaCharge(o) \/ UndoRefund(o) PROVE AInv'
  <2>1. UNCHANGED dbVars
    BY <1>6 DEF Incr, LuaCharge, UndoRefund
  <2> QED
    BY <1>1, <1>6, <2>1, TypeBucketSteps, KeepsAccount
<1>7. CASE UNCHANGED vars
  <2>1. TypeOK'
    BY <1>1, <1>7 DEF vars, TypeOK, redisVars
  <2>2. UNCHANGED dbVars
    BY <1>7 DEF vars, dbVars
  <2> QED
    BY <2>1, <2>2, KeepsAccount
<1>8. ASSUME NEW o \in Op, WriteCharge(o) \/ ChargeAnswerLost(o) PROVE AInv'
  <2>1. At("done") \in CallState /\ [At("undo") EXCEPT !.next = "denied"] \in CallState
    BY <1>1, AtTypes DEF PC, Onward, Ended
  <2>2. CommitCharge(o) /\ \E s \in CallState : Goto(o, s)
    BY <1>8, <2>1 DEF WriteCharge, ChargeAnswerLost
  <2>3. o \notin charged
    BY <2>2 DEF Pending, CommitCharge
  <2> QED
    BY <2>2, <2>3, StepCommitCharge
<1>9. ASSUME NEW o \in Op, WriteRefund(o) \/ RefundAnswerLost(o) PROVE AInv'
  <2>1. /\ At("done") \in CallState /\ At("deferred") \in CallState
        /\ [At("undo") EXCEPT !.next = "denied"] \in CallState
    BY <1>1, AtTypes DEF PC, Onward, Ended
  <2>2. CommitRefund(o) /\ \E s \in CallState : Goto(o, s)
    BY <1>9, <2>1 DEF WriteRefund, RefundAnswerLost, DeferRefund
  <2>3. o \notin refunded
    BY <2>2 DEF Pending, CommitRefund
  <2> QED
    BY <2>2, <2>3, StepCommitRefund
<1>10. ASSUME NEW o \in Op, Proceed(o) PROVE AInv'
  BY <1>2, <1>3, <1>4, <1>5, <1>6, <1>8, <1>9, <1>10, StepReserve, StepRelease,
     StepEnsureLease DEF Proceed, Moves
<1>11. CASE \E o \in Op : StartCharge(o) \/ StartRefund(o) \/ Proceed(o) \/ IncrFails(o)
                          \/ ChargeRollsBack(o) \/ RefundFails(o) \/ Crash(o)
                          \/ ChargeAnswerLost(o) \/ RefundAnswerLost(o)
  BY <1>2, <1>8, <1>9, <1>10, <1>11 DEF Moves
<1>12. CASE \E d \in Adjustments : Adjust(d)
  BY <1>12, StepAdjust
<1>13. CASE \E l \in Row : Reclaim(l)
  BY <1>13, StepReclaim
<1> QED
  BY <1>7, <1>11, <1>12, <1>13, StepCache, StepTick DEF Next

-----------------------------------------------------------------------------
(* The steps of a call by what they do to billing_transactions.            *)

\* The steps of a call that leave billing_transactions alone.
Internal(o) ==
  \/ Look(o) \/ SyncRead(o) \/ SyncFill(o) \/ GapCovered(o) \/ Reserve(o)
  \/ ReserveRefused(o) \/ Incr(o) \/ IncrFails(o) \/ Release(o)
  \/ LuaCharge(o) \/ LuaMissing(o) \/ LuaShort(o) \/ ChargeLookup(o)
  \/ ChargeRollsBack(o) \/ EnsureLease(o) \/ RefundLookup(o) \/ RefundFails(o)
  \/ UndoRebuild(o) \/ UndoCharge(o) \/ UndoRefund(o) \/ Crash(o)

Start(o) == StartCharge(o) \/ StartRefund(o)

Commit(o) ==
  \/ WriteCharge(o) \/ ChargeAnswerLost(o)
  \/ WriteRefund(o) \/ RefundAnswerLost(o)

LEMMA InternalEffect ==
  ASSUME NEW o \in Op, Internal(o)
  PROVE  /\ UNCHANGED <<deposits, charged, refunded>>
         /\ op[o].pc # "idle"
         /\ \E s : Goto(o, s)
<1>1. CASE Look(o) \/ SyncRead(o) \/ SyncFill(o)
  BY <1>1 DEF Look, SyncRead, SyncFill, dbVars
<1>2. CASE GapCovered(o) \/ Reserve(o) \/ ReserveRefused(o)
  BY <1>2 DEF GapCovered, Reserve, ReserveRefused, dbVars
<1>3. CASE Incr(o) \/ IncrFails(o) \/ Release(o)
  BY <1>3 DEF Incr, IncrFails, Release, dbVars
<1>4. CASE LuaCharge(o) \/ LuaMissing(o) \/ LuaShort(o) \/ ChargeLookup(o)
           \/ ChargeRollsBack(o)
  BY <1>4 DEF LuaCharge, LuaMissing, LuaShort, ChargeLookup, ChargeRollsBack, dbVars
<1>5. CASE EnsureLease(o) \/ RefundLookup(o) \/ RefundFails(o)
  BY <1>5 DEF EnsureLease, RefundLookup, RefundFails, DeferRefund, dbVars
<1>6. CASE UndoRebuild(o) \/ UndoCharge(o) \/ UndoRefund(o)
  BY <1>6 DEF UndoRebuild, UndoCharge, UndoRefund, dbVars
<1>7. CASE Crash(o)
  BY <1>7 DEF Crash, dbVars
<1> QED
  BY <1>1, <1>2, <1>3, <1>4, <1>5, <1>6, <1>7 DEF Internal

LEMMA NextSplit ==
  ASSUME Next
  PROVE  \/ \E o \in Op : Start(o) \/ Internal(o) \/ Commit(o)
         \/ \E d \in Adjustments : Adjust(d)
         \/ \E l \in Row : Reclaim(l)
         \/ ReclaimClear \/ ReclaimCrash \/ LoseKey \/ Tick
BY DEF Next, Proceed, Start, Internal, Commit

LEMMA CommitEffect ==
  ASSUME NEW o \in Op, Commit(o)
  PROVE  /\ UNCHANGED deposits
         /\ op[o].pc # "idle"
         /\ \E s : Goto(o, s)
         /\ charged \subseteq charged' /\ charged' \subseteq charged \cup {o}
         /\ refunded' \subseteq refunded \cup {o}
<1>1. CASE WriteCharge(o) \/ ChargeAnswerLost(o)
  BY <1>1 DEF WriteCharge, ChargeAnswerLost, CommitCharge
<1>2. CASE WriteRefund(o) \/ RefundAnswerLost(o)
  BY <1>2 DEF WriteRefund, RefundAnswerLost, CommitRefund, DeferRefund
<1> QED
  BY <1>1, <1>2 DEF Commit

\* The clock moves no call.
LEMMA TickKeepsPC ==
  ASSUME TypeOK, Tick
  PROVE  /\ \A o \in Op : op'[o].pc = op[o].pc
         /\ UNCHANGED <<deposits, charged, refunded>>
<1>1. ASSUME NEW o \in Op PROVE op'[o].pc = op[o].pc
  <2>1. op[o] \in CallState
    BY DEF TypeOK
  <2>2. op'[o] = [op[o] EXCEPT !.snapLeft = Dec(op[o].snapLeft)]
    BY DEF Tick
  <2> QED
    BY <2>1, <2>2 DEF CallState
<1> QED
  BY <1>1 DEF Tick

\* Steps that move no call at all.
LEMMA StoreSteps ==
  ASSUME \/ \E d \in Adjustments : Adjust(d)
         \/ \E l \in Row : Reclaim(l)
         \/ ReclaimClear \/ ReclaimCrash \/ LoseKey \/ UNCHANGED vars
  PROVE  UNCHANGED <<op, charged, refunded>>
BY DEF Adjust, Reclaim, ReclaimClear, ReclaimCrash, LoseKey, vars, dbVars

\* Only the two lookups lead to a commit.
LEMMA NoCommitAhead ==
  ASSUME TypeOK, NEW o \in Op, Start(o) \/ Internal(o) \/ Commit(o),
         ~ChargeLookup(o), ~RefundLookup(o)
  PROVE  op'[o].pc \notin {"debit", "mirror", "job"}
<1>1. op[o] \in CallState
  BY StateTypes
<1>2. op[o].next \notin {"debit", "mirror", "job"}
  BY <1>1 DEF CallState, Onward
<1>3. \A s : Goto(o, s) => op'[o] = s
  BY DEF Goto, TypeOK
<1>4. CASE Start(o)
  BY <1>3, <1>4 DEF Start, StartCharge, StartRefund, At
<1>5. CASE Look(o) \/ SyncRead(o)
  <2>1. CASE Look(o)
    <3>1. Resume(o, quota).pc \in {"gap", "incr"}
      BY DEF Resume, At
    <3>2. [At("sync") EXCEPT !.try = op[o].try,
             !.next = IF o \in ChargeOp THEN "gap" ELSE "incr"].pc = "sync"
      BY DEF At
    <3>3. op'[o].pc \in {"gap", "incr", "sync"}
      BY <1>3, <2>1, <3>1, <3>2 DEF Look
    <3> QED
      BY <3>3
  <2>2. CASE SyncRead(o)
    BY <1>1, <1>2, <1>3, <2>2 DEF SyncRead, Resume, At, CallState
  <2> QED
    BY <1>5, <2>1, <2>2
<1>6. CASE SyncFill(o)
  BY <1>1, <1>2, <1>3, <1>6 DEF SyncFill, Resume, At
<1>7. CASE GapCovered(o) \/ Reserve(o) \/ ReserveRefused(o)
  <2>1. CASE GapCovered(o)
    <3>1. op'[o] = [At("lua") EXCEPT !.try = op[o].try]
      BY <1>3, <2>1 DEF GapCovered
    <3> QED
      BY <3>1 DEF At
  <2>2. CASE Reserve(o)
    <3>1. PICK n : op'[o] = [At("incr") EXCEPT !.try = op[o].try, !.amt = n, !.next = "lua"]
      BY <1>3, <2>2 DEF Reserve
    <3> QED
      BY <3>1 DEF At
  <2>3. CASE ReserveRefused(o)
    BY <1>3, <2>3 DEF ReserveRefused, At
  <2> QED
    BY <1>7, <2>1, <2>2, <2>3
<1>8. CASE Incr(o) \/ IncrFails(o) \/ Release(o)
  BY <1>2, <1>3, <1>8 DEF Incr, IncrFails, Release, At
<1>9. CASE LuaCharge(o) \/ LuaMissing(o)
  <2>1. CASE LuaCharge(o)
    BY <1>3, <2>1 DEF LuaCharge, At
  <2>2. CASE LuaMissing(o) /\ op[o].try = "first"
    <3>1. op'[o] = [At("sync") EXCEPT !.try = "rebuilt", !.next = "look"]
      BY <1>3, <2>2 DEF LuaMissing
    <3> QED
      BY <3>1 DEF At
  <2>3. CASE LuaMissing(o) /\ op[o].try # "first"
    <3>1. op'[o] = At("denied")
      BY <1>3, <2>3 DEF LuaMissing
    <3> QED
      BY <3>1 DEF At
  <2> QED
    BY <1>9, <2>1, <2>2, <2>3
<1>10. CASE LuaShort(o)
  BY <1>1, <1>3, <1>10 DEF LuaShort, At, CallState, Attempt
<1>11. CASE ChargeRollsBack(o) \/ EnsureLease(o) \/ RefundFails(o)
  BY <1>3, <1>11 DEF ChargeRollsBack, EnsureLease, RefundFails, DeferRefund, At
<1>12. CASE UndoRebuild(o) \/ UndoCharge(o) \/ UndoRefund(o) \/ Crash(o)
  <2>1. CASE UndoRebuild(o)
    <3>1. op'[o] = [At("sync") EXCEPT !.next = op[o].next]
      BY <1>3, <2>1 DEF UndoRebuild
    <3> QED
      BY <3>1 DEF At
  <2>2. CASE UndoCharge(o)
    <3>1. op'[o] = [At("incr") EXCEPT !.amt = PriceOf(o), !.next = "denied"]
      BY <1>3, <2>2 DEF UndoCharge
    <3> QED
      BY <3>1 DEF At
  <2>3. CASE UndoRefund(o)
    <3>1. op'[o] = At(op[o].next)
      BY <1>3, <2>3 DEF UndoRefund
    <3> QED
      BY <1>2, <3>1 DEF At
  <2>4. CASE Crash(o)
    BY <1>3, <2>4 DEF Crash, At
  <2> QED
    BY <1>12, <2>1, <2>2, <2>3, <2>4
<1>13. CASE Commit(o)
  BY <1>3, <1>13 DEF Commit, WriteCharge, ChargeAnswerLost, WriteRefund,
     RefundAnswerLost, DeferRefund, At
<1> QED
  BY <1>4, <1>5, <1>6, <1>7, <1>8, <1>9, <1>10, <1>11, <1>12, <1>13 DEF Internal

LEMMA NextPending ==
  ASSUME TypeOK, Pending, [Next]_vars
  PROVE  Pending'
<1>1. ASSUME NEW o \in Op, Start(o) \/ Internal(o) \/ Commit(o) PROVE Pending'
  <2>1. /\ \E s : Goto(o, s)
        /\ charged' \subseteq charged \cup {o} /\ refunded' \subseteq refunded \cup {o}
    BY <1>1, InternalEffect, CommitEffect DEF Start, StartCharge, StartRefund, dbVars
  <2>2. \A k \in Op : k # o => op'[k] = op[k]
    BY <2>1 DEF Goto, TypeOK
  <2>3. \A s : Goto(o, s) => op'[o] = s
    BY DEF Goto, TypeOK
  <2>4. /\ op'[o].pc = "debit" => o \notin charged'
        /\ op'[o].pc \in {"mirror", "job"} => o \notin refunded'
    <3>1. CASE ChargeLookup(o)
      BY <2>3, <3>1 DEF ChargeLookup, ChargeRowExists, At, dbVars
    <3>2. CASE RefundLookup(o)
      BY <2>3, <3>2 DEF RefundLookup, RefundRowExists, At, dbVars
    <3>3. CASE ~ChargeLookup(o) /\ ~RefundLookup(o)
      BY <1>1, <3>3, NoCommitAhead
    <3> QED
      BY <3>1, <3>2, <3>3
  <2>5. ASSUME NEW k \in Op
        PROVE  /\ op'[k].pc = "debit" => k \notin charged'
               /\ op'[k].pc \in {"mirror", "job"} => k \notin refunded'
    <3>1. CASE k = o
      BY <2>4, <3>1
    <3>2. CASE k # o
      BY <2>1, <2>2, <3>2 DEF Pending
    <3> QED
      BY <3>1, <3>2
  <2> QED
    BY <2>5 DEF Pending
<1>2. CASE UNCHANGED <<op, charged, refunded>>
  BY <1>2 DEF Pending
<1>3. CASE Tick
  BY <1>3, TickKeepsPC DEF Pending
<1> QED
  BY <1>1, <1>2, <1>3, NextSplit, StoreSteps

IInv == AInv /\ Pending

LEMMA InitIInv == Init => IInv
<1> SUFFICES ASSUME Init PROVE IInv
  OBVIOUS
<1>1. Pending
  BY DEF Init, Pending
<1> QED
  BY <1>1, InitAInv DEF IInv

LEMMA NextIInv == IInv /\ [Next]_vars => IInv'
BY NextAInv, NextPending DEF IInv, AInv

LEMMA Invariance == Spec => []IInv
BY InitIInv, NextIInv, PTL DEF Spec

-----------------------------------------------------------------------------
(* Calls with the same dedupe key one after the other.                     *)

\* Of the calls with one dedupe key, at most one is under way.
Exclusive ==
  \A a, b \in Op : a # b /\ Alike(a, b) => Resting(a) \/ Resting(b)

\* Who is about to commit has looked, and what the lookup found still holds.
Unwritten ==
  \A o \in Op : /\ o \in ChargeOp /\ op[o].pc = "debit" => ~ChargeRowExists(o)
                /\ o \in RefundOp /\ op[o].pc \in {"mirror", "job"} => ~RefundRowExists(o)

SInv == IInv /\ Exclusive /\ Unwritten /\ OncePerOrder

LEMMA InitSInv == Init => SInv
  BY InitIInv DEF Init, SInv, Exclusive, Unwritten, OncePerOrder, Resting, At

\* Only a call that is under way takes a step.
LEMMA StepsAreUnderWay ==
  ASSUME NEW o \in Op, Internal(o) \/ Commit(o)
  PROVE  ~Resting(o)
<1>1. CASE \/ Look(o) \/ SyncRead(o) \/ SyncFill(o) \/ GapCovered(o) \/ Reserve(o)
           \/ ReserveRefused(o) \/ Incr(o) \/ IncrFails(o) \/ Release(o)
  BY <1>1 DEF Resting, Ended, Look, SyncRead, SyncFill, GapCovered, Reserve,
     ReserveRefused, Incr, IncrFails, Release
<1>2. CASE \/ LuaCharge(o) \/ LuaMissing(o) \/ LuaShort(o) \/ ChargeLookup(o)
           \/ ChargeRollsBack(o) \/ EnsureLease(o) \/ RefundLookup(o) \/ RefundFails(o)
  BY <1>2 DEF Resting, Ended, LuaCharge, LuaMissing, LuaShort, ChargeLookup,
     ChargeRollsBack, EnsureLease, RefundLookup, RefundFails
<1>3. CASE UndoRebuild(o) \/ UndoCharge(o) \/ UndoRefund(o) \/ Crash(o)
  BY <1>3 DEF Resting, Ended, UndoRebuild, UndoCharge, UndoRefund, Crash
<1>4. CASE Commit(o)
  BY <1>4 DEF Resting, Ended, Commit, WriteCharge, ChargeAnswerLost, WriteRefund,
     RefundAnswerLost, CommitCharge, CommitRefund
<1> QED
  BY <1>1, <1>2, <1>3, <1>4 DEF Internal

\* A charge commits only a charge row, a refund only a refund row, and each only
\* from the state its lookup leads to.
LEMMA CommitKind ==
  ASSUME NEW o \in Op, Commit(o)
  PROVE  \/ /\ o \in ChargeOp /\ op[o].pc = "debit"
            /\ charged' = charged \cup {o} /\ refunded' = refunded
         \/ /\ o \in RefundOp /\ op[o].pc \in {"mirror", "job"}
            /\ refunded' = refunded \cup {o} /\ charged' = charged
BY DEF Commit, WriteCharge, ChargeAnswerLost, WriteRefund, RefundAnswerLost,
   CommitCharge, CommitRefund

\* A step of one call keeps the order's rows apart: no other call with its dedupe
\* key is under way.
LEMMA CallKeepsSerial ==
  ASSUME TypeOK, Exclusive, Unwritten, OncePerOrder, NEW o \in Op,
         Start(o) \/ Internal(o) \/ Commit(o),
         Start(o) => \A k \in Op \ {o} : Alike(k, o) => Resting(k)
  PROVE  Exclusive' /\ Unwritten' /\ OncePerOrder'
<1>1. PICK s : Goto(o, s)
  BY InternalEffect, CommitEffect DEF Start, StartCharge, StartRefund
<1>2. \A k \in Op : k # o => op'[k] = op[k]
  BY <1>1 DEF Goto, TypeOK
<1>3. \A k \in Op \ {o} : Alike(k, o) => Resting(k)
  <2>1. CASE Start(o)
    BY <2>1
  <2>2. CASE ~Resting(o)
    BY <2>2 DEF Exclusive
  <2> QED
    BY <2>1, <2>2, StepsAreUnderWay
<1>4. \A a, b \in Op : Alike(a, b) <=> Alike(b, a)
  BY DEF Alike
<1>5. \A k \in Op : k # o => (Resting(k)' <=> Resting(k))
  BY <1>2 DEF Resting
<1>6. Exclusive'
  <2> SUFFICES ASSUME NEW a \in Op, NEW b \in Op, a # b, Alike(a, b)
               PROVE  Resting(a)' \/ Resting(b)'
    BY DEF Exclusive, Alike
  <2>1. CASE a = o
    BY <1>3, <1>4, <1>5, <2>1
  <2>2. CASE b = o
    BY <1>3, <1>5, <2>2
  <2>3. CASE a # o /\ b # o
    BY <1>5, <2>3 DEF Exclusive
  <2> QED
    BY <2>1, <2>2, <2>3
<1>7. \/ charged' = charged /\ refunded' = refunded
      \/ /\ o \in ChargeOp /\ ~ChargeRowExists(o)
         /\ charged' = charged \cup {o} /\ refunded' = refunded
      \/ /\ o \in RefundOp /\ ~RefundRowExists(o)
         /\ refunded' = refunded \cup {o} /\ charged' = charged
  <2>1. CASE Start(o) \/ Internal(o)
    BY <2>1, InternalEffect DEF Start, StartCharge, StartRefund, dbVars
  <2>2. CASE Commit(o)
    BY <2>2, CommitKind DEF Unwritten
  <2> QED
    BY <2>1, <2>2
<1>8. charged \subseteq ChargeOp /\ refunded \subseteq RefundOp
      /\ ChargeOp \cap RefundOp = {} /\ ChargeOp \cup RefundOp = Op
  BY ConstantsAssumption DEF TypeOK
<1>9. OncePerOrder'
  <2>1. CASE charged' = charged /\ refunded' = refunded
    BY <2>1 DEF OncePerOrder
  <2>2. CASE /\ o \in ChargeOp /\ ~ChargeRowExists(o)
             /\ charged' = charged \cup {o} /\ refunded' = refunded
    BY <1>8, <2>2 DEF OncePerOrder, ChargeRowExists
  <2>3. CASE /\ o \in RefundOp /\ ~RefundRowExists(o)
             /\ refunded' = refunded \cup {o} /\ charged' = charged
    BY <1>8, <2>3 DEF OncePerOrder, RefundRowExists
  <2> QED
    BY <1>7, <2>1, <2>2, <2>3
<1>10. Unwritten'
  <2> SUFFICES ASSUME NEW k \in Op
               PROVE  /\ k \in ChargeOp /\ op'[k].pc = "debit" => ~ChargeRowExists(k)'
                      /\ k \in RefundOp /\ op'[k].pc \in {"mirror", "job"}
                           => ~RefundRowExists(k)'
    BY DEF Unwritten
  <2>1. CASE k # o
    <3>1. op'[k] = op[k]
      BY <1>2, <2>1
    <3>2. op[k].pc \in {"debit", "mirror", "job"} => ~Alike(k, o)
      BY <1>3, <2>1 DEF Resting, Ended
    <3>3. k \in ChargeOp /\ op[k].pc = "debit" => ~ChargeRowExists(k)'
      BY <1>7, <1>8, <3>2 DEF Unwritten, ChargeRowExists, Alike
    <3>4. k \in RefundOp /\ op[k].pc \in {"mirror", "job"} => ~RefundRowExists(k)'
      BY <1>7, <1>8, <3>2 DEF Unwritten, RefundRowExists, Alike
    <3> QED
      BY <3>1, <3>3, <3>4
  <2>2. CASE k = o
    <3>1. \A t : Goto(o, t) => op'[o] = t
      BY DEF Goto, TypeOK
    <3>2. CASE ChargeLookup(o)
      BY <2>2, <3>1, <3>2 DEF ChargeLookup, ChargeRowExists, At, dbVars
    <3>3. CASE RefundLookup(o)
      BY <2>2, <3>1, <3>3 DEF RefundLookup, RefundRowExists, At, dbVars
    <3>4. CASE ~ChargeLookup(o) /\ ~RefundLookup(o)
      BY <2>2, <3>4, NoCommitAhead
    <3> QED
      BY <3>2, <3>3, <3>4
  <2> QED
    BY <2>1, <2>2
<1> QED
  BY <1>6, <1>9, <1>10

LEMMA NextSInv == SInv /\ [SerialNext]_vars => SInv'
<1> SUFFICES ASSUME SInv, [SerialNext]_vars PROVE SInv'
  OBVIOUS
<1>1. IInv' /\ TypeOK /\ TypeOK'
  BY NextIInv DEF SInv, SerialNext, IInv, AInv
<1>2. CASE UNCHANGED <<op, charged, refunded>>
  BY <1>1, <1>2 DEF SInv, Exclusive, Unwritten, OncePerOrder, Resting, Alike,
     ChargeRowExists, RefundRowExists
<1>3. CASE Tick
  <2>1. /\ \A o \in Op : op'[o].pc = op[o].pc
        /\ charged' = charged /\ refunded' = refunded
    BY <1>1, <1>3, TickKeepsPC
  <2>2. \A o \in Op : Resting(o)' <=> Resting(o)
    BY <2>1 DEF Resting
  <2>3. Exclusive'
    BY <2>2 DEF SInv, Exclusive, Alike
  <2>4. Unwritten'
    BY <2>1 DEF SInv, Unwritten, ChargeRowExists, RefundRowExists
  <2>5. OncePerOrder'
    BY <2>1 DEF SInv, OncePerOrder
  <2> QED
    BY <1>1, <2>3, <2>4, <2>5 DEF SInv
<1>4. ASSUME NEW o \in Op, Start(o) \/ Internal(o) \/ Commit(o), SerialNext PROVE SInv'
  <2>1. Start(o) => op[o].pc = "idle" /\ op'[o].pc # "idle"
    BY <1>1 DEF Start, StartCharge, StartRefund, Goto, At, TypeOK
  <2>2. Start(o) => \A k \in Op \ {o} : Alike(k, o) => Resting(k)
    BY <1>4, <2>1 DEF SerialNext
  <2>3. Exclusive' /\ Unwritten' /\ OncePerOrder'
    BY <1>1, <1>4, <2>2, CallKeepsSerial DEF SInv
  <2> QED
    BY <1>1, <2>3 DEF SInv
<1>5. CASE SerialNext
  BY <1>2, <1>3, <1>4, <1>5, NextSplit, StoreSteps DEF SerialNext
<1>6. CASE UNCHANGED vars
  BY <1>2, <1>6 DEF vars
<1> QED
  BY <1>5, <1>6

-----------------------------------------------------------------------------
(* Theorems                                                                *)

\* Whatever calls, failures and clock ticks interleave, the balance, every lease
\* row, the bucket and its TTL stay in range: in particular no reserve, adjust or
\* debit takes users.balance or a lease row below zero.
THEOREM TypeCorrect == Spec => []TypeOK
<1>1. IInv => TypeOK
  BY DEF IInv, AInv
<1> QED
  BY <1>1, Invariance, PTL

\* Credit that reclaimQuotaLease returned to users.balance is no longer in the
\* row, whatever is released, debited or refunded afterwards.
THEOREM RetiredRowsStayEmpty == Spec => []RetiredRowsEmpty
<1>1. IInv => RetiredRowsEmpty
  BY DEF IInv, AInv
<1> QED
  BY <1>1, Invariance, PTL

\* users.balance and billing_quota_leases together always hold exactly what
\* billing_transactions accounts for, for any number of rows, orders and calls.
THEOREM LedgerReconciled == Spec => []Reconciled
<1>1. IInv => Reconciled
  BY DEF IInv, AInv
<1> QED
  BY <1>1, Invariance, PTL

-----------------------------------------------------------------------------
(* QuotaLease implements AccountLedger.  Only commits and adjustments touch *)
(* what the ledger accounts for; every other step leaves the sum of balance *)
(* and leases where Reconciled puts it, and is a stutter.                   *)

\* A refund is under way only for an order that was charged.
Requested == \A o \in RefundOp : op[o].pc # "idle" => ChargeRowExists(o)

LEMMA NextRequested ==
  ASSUME TypeOK, Requested, [Next]_vars
  PROVE  Requested'
<1>1. ASSUME NEW o \in Op, Start(o) \/ Internal(o) \/ Commit(o) PROVE Requested'
  <2>1. (\E s : Goto(o, s)) /\ charged \subseteq charged'
    BY <1>1, InternalEffect, CommitEffect DEF Start, StartCharge, StartRefund, dbVars
  <2>2. \A k \in Op : k # o => op'[k] = op[k]
    BY <2>1 DEF Goto, TypeOK
  <2>3. op[o].pc # "idle" \/ o \notin RefundOp \/ ChargeRowExists(o)
    <3>1. o \in ChargeOp => o \notin RefundOp
      BY ConstantsAssumption
    <3> QED
      BY <1>1, <3>1, InternalEffect, CommitEffect DEF Start, StartCharge, StartRefund
  <2>4. \A k \in Op : ChargeRowExists(k) => ChargeRowExists(k)'
    BY <2>1 DEF ChargeRowExists
  <2> QED
    BY <2>2, <2>3, <2>4, ConstantsAssumption DEF Requested
<1>2. CASE UNCHANGED <<op, charged, refunded>>
  BY <1>2 DEF Requested, ChargeRowExists
<1>3. CASE Tick
  <2>1. \A o \in RefundOp : op'[o].pc = op[o].pc
    BY <1>3, TickKeepsPC, ConstantsAssumption
  <2>2. charged' = charged
    BY <1>3, TickKeepsPC
  <2> QED
    BY <2>1, <2>2 DEF Requested, ChargeRowExists
<1> QED
  BY <1>1, <1>2, <1>3, NextSplit, StoreSteps

LInv == IInv /\ Requested

LEMMA InitLInv == Init => LInv /\ Ledger!Init
<1> SUFFICES ASSUME Init PROVE LInv /\ Ledger!Init
  OBVIOUS
<1>1. IInv
  BY InitIInv
<1>2. Requested
  <2>1. \A o \in RefundOp : o \in Op
    BY ConstantsAssumption
  <2> QED
    BY <2>1 DEF Init, Requested, At
<1>3. balance + LeaseTotal = OpeningFunds
  <2>1. \A o \in Op : NetSpent(o) = 0
    BY DEF Init, NetSpent
  <2>2. \A i \in 1..NumOps : Spent[i] = 0
    BY <2>1 DEF Spent, Op
  <2>3. SumTo(NumOps, Spent) = 0
    BY <2>2, SpentType, SumToZero, ConstantsAssumption
  <2>4. LedgerBalance = OpeningFunds
    BY <2>3, SpentType, ConstantsAssumption DEF Init
  <2> QED
    BY <1>1, <2>4 DEF IInv, AInv, Reconciled
<1> QED
  BY <1>1, <1>2, <1>3 DEF LInv, Ledger!Init, Init

\* A step that leaves billing_transactions alone leaves the account alone.
LEMMA LedgerStutter ==
  ASSUME AInv, AInv', UNCHANGED <<deposits, charged, refunded>>
  PROVE  UNCHANGED Ledger!vars
<1>1. LedgerBalance' = LedgerBalance
  BY DEF LedgerBalance, NetSpent
<1> QED
  BY <1>1 DEF AInv, Reconciled, Ledger!vars

LEMMA LedgerChargeStep ==
  ASSUME AInv, AInv', NEW o \in Op, o \notin charged, CommitCharge(o)
  PROVE  Ledger!Charge(o)
<1>1. TypeOK /\ TypeOK'
  BY DEF AInv
<1>2. PriceOf(o) \in Nat /\ PriceOf(o) = Price[OrderOf[o]]
  BY ConstantsAssumption DEF PriceOf
<1>3. /\ o \in ChargeOp \ charged /\ charged' = charged \cup {o}
      /\ UNCHANGED <<deposits, refunded>>
  BY DEF CommitCharge
<1>4. LedgerBalance' = LedgerBalance - PriceOf(o)
  BY <1>1, <1>3, LedgerCharged
<1>5. LeaseTotal \in Nat /\ balance \in Nat
  BY <1>1, RemainingType DEF TypeOK
<1>6. LeaseTotal' \in Nat /\ balance' \in Nat
  <2> DEFINE f == [l \in Row |-> lease'[l].remaining]
  <2>1. f \in [1..MaxLease -> Nat]
    BY <1>1 DEF TypeOK, LeaseRow, Row
  <2>2. LeaseTotal' = SumTo(MaxLease, f)
    BY DEF LeaseTotal, Remaining
  <2>3. MaxLease \in Nat
    BY ConstantsAssumption
  <2> HIDE DEF f
  <2> QED
    BY <1>1, <2>1, <2>2, <2>3, SumToNat DEF TypeOK
<1>7. balance' + LeaseTotal' = (balance + LeaseTotal) - PriceOf(o)
  <2>1. balance + LeaseTotal = LedgerBalance /\ balance' + LeaseTotal' = LedgerBalance'
    BY DEF AInv, Reconciled
  <2> QED
    BY <1>2, <1>4, <1>5, <1>6, <2>1
<1>8. balance + LeaseTotal >= PriceOf(o)
  BY <1>2, <1>5, <1>6, <1>7
<1>9. (balance + LeaseTotal)' = (balance + LeaseTotal) - PriceOf(o)
  BY <1>7, Zenon
<1> QED
  BY <1>2, <1>3, <1>8, <1>9, Zenon DEF Ledger!Charge

LEMMA LedgerRefundStep ==
  ASSUME AInv, AInv', Requested, NEW o \in Op, o \notin refunded, CommitRefund(o)
  PROVE  Ledger!Refund(o)
<1>1. TypeOK /\ PriceOf(o) = Price[OrderOf[o]]
  BY DEF AInv, PriceOf
<1>2. /\ o \in RefundOp \ refunded /\ refunded' = refunded \cup {o}
      /\ UNCHANGED <<deposits, charged>>
  BY DEF CommitRefund
<1>3. LedgerBalance' = LedgerBalance + PriceOf(o)
  BY <1>1, <1>2, LedgerRefunded
<1>4. \E c \in charged : OrderOf[c] = OrderOf[o]
  BY DEF Requested, CommitRefund, ChargeRowExists
<1>5. (balance + LeaseTotal)' = (balance + LeaseTotal) + PriceOf(o)
  BY <1>3 DEF AInv, Reconciled
<1> QED
  BY <1>1, <1>2, <1>4, <1>5, Zenon DEF Ledger!Refund

LEMMA NextLedger == LInv /\ LInv' /\ [Next]_vars => [Ledger!Next]_(Ledger!vars)
<1> SUFFICES ASSUME LInv, LInv', [Next]_vars
             PROVE  Ledger!Next \/ UNCHANGED Ledger!vars
  OBVIOUS
<1>1. AInv /\ AInv' /\ Pending /\ Requested
  BY DEF LInv, IInv
<1>2. ASSUME UNCHANGED <<deposits, charged, refunded>> PROVE UNCHANGED Ledger!vars
  BY <1>1, <1>2, LedgerStutter
<1>3. ASSUME NEW o \in Op, Start(o) \/ Internal(o) PROVE UNCHANGED Ledger!vars
  BY <1>2, <1>3, InternalEffect DEF Start, StartCharge, StartRefund, dbVars
<1>4. ASSUME NEW o \in Op, CommitCharge(o) PROVE Ledger!Next
  <2>1. o \notin charged /\ o \in ChargeOp
    BY <1>1, <1>4 DEF Pending, CommitCharge
  <2>2. Ledger!Charge(o)
    BY <1>1, <1>4, <2>1, LedgerChargeStep
  <2> QED
    BY <2>1, <2>2 DEF Ledger!Next
<1>5. ASSUME NEW o \in Op, CommitRefund(o) PROVE Ledger!Next
  <2>1. o \notin refunded /\ o \in RefundOp
    BY <1>1, <1>5 DEF Pending, CommitRefund
  <2>2. Ledger!Refund(o)
    BY <1>1, <1>5, <2>1, LedgerRefundStep
  <2> QED
    BY <2>1, <2>2 DEF Ledger!Next
<1>6. ASSUME NEW o \in Op, Commit(o) PROVE Ledger!Next
  BY <1>4, <1>5, <1>6 DEF Commit, WriteCharge, ChargeAnswerLost, WriteRefund,
     RefundAnswerLost
<1>7. ASSUME NEW d \in Adjustments, Adjust(d) PROVE Ledger!Next
  <2>1. d \in Int /\ balance \in Nat /\ LeaseTotal \in Nat
    BY <1>1, RemainingType, ConstantsAssumption DEF AInv, TypeOK
  <2>2. LeaseTotal' = LeaseTotal
    BY <1>7 DEF Adjust, LeaseTotal, Remaining
  <2>3. Ledger!Adjust(d)
    BY <1>7, <2>1, <2>2 DEF Adjust, Ledger!Adjust
  <2> QED
    BY <2>3 DEF Ledger!Next
<1>8. CASE (\E l \in Row : Reclaim(l)) \/ ReclaimClear \/ ReclaimCrash \/ LoseKey \/ Tick
           \/ UNCHANGED vars
  BY <1>2, <1>8 DEF Reclaim, ReclaimClear, ReclaimCrash, LoseKey, Tick, vars, dbVars
<1> QED
  BY <1>3, <1>6, <1>7, <1>8, NextSplit

\* Charge, Refund, WriteTx, reserve, release and reclaim, in any interleaving and
\* with any of them cut short, are together an account that every call changes at
\* most once, that no charge overdraws and that pays back only what was charged.
THEOREM ImplementsLedger == Spec => LedgerSpec
<1>1. LInv /\ [Next]_vars => LInv'
  BY NextIInv, NextRequested DEF LInv, IInv, AInv
<1> QED
  BY <1>1, InitLInv, NextLedger, PTL DEF Spec, LedgerSpec, Ledger!Spec

\* When calls with the same dedupe key come one after the other, an order is charged by
\* one row and given back by one row, whatever is repeated after a lost answer, a crash
\* or a deferral (the lookups of WriteTx).
THEOREM OrdersMoveOnce == SerialSpec => []OncePerOrder
<1>1. SInv => OncePerOrder
  BY DEF SInv
<1> QED
  BY <1>1, InitSInv, NextSInv, PTL DEF SerialSpec
=============================================================================
