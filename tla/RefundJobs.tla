----------------------------- MODULE RefundJobs -----------------------------
(***************************************************************************)
(* The queue of deferred refunds (internal/service/billing.go): a refund   *)
(* whose WriteTx failed becomes a row of billing_refund_jobs, and every    *)
(* server retries the pending rows, on a ticker and once more in the call  *)
(* that deferred the refund.  Rows are claimed by compare-and-set and put  *)
(* back by a timeout, but finished, retried and released by id only: a     *)
(* processor that lost its claim still writes the row.                     *)
(*                                                                         *)
(* One step is one statement or one transaction.  WriteTx is two: the      *)
(* lookup of an earlier refund row, which takes no lock, and the commit.   *)
(***************************************************************************)
EXTENDS Integers, FiniteSets, FiniteSetsExt

CONSTANTS
  NumKeys,     \* refund dedupe keys; a key's number is the id of its job row
  Proc,        \* processors: the ticker of a server, or a call of WriteTx
  Limit,       \* jobs selected in one round
  StaleAfter,  \* billingRefundJobRunningTimeout, in ticks
  MaxCalls,    \* bound: calls of WriteTx("refund") for one key
  MaxRows      \* bound: refund rows of one key

Key == 1..NumKeys

ASSUME ConstantsAssumption ==
  /\ NumKeys \in Nat \ {0} /\ Limit \in Nat \ {0} /\ StaleAfter \in Nat \ {0}
  /\ MaxCalls \in Nat /\ MaxRows \in Nat \ {0}

VARIABLES
  job,      \* the row of each key in billing_refund_jobs
  rows,     \* number of refund rows of the key in billing_transactions
  proc,     \* local state of each processor
  calls,    \* calls of WriteTx("refund") made for the key
  answered  \* keys whose caller was told that the refund is on record

vars == <<job, rows, proc, calls, answered>>

JobRow == [status : {"none", "pending", "running", "done"},
           age : 0..StaleAfter,   \* since updated_at
           due : BOOLEAN]         \* next_run_at <= now

PC == {"idle", "lookup", "commit", "enqueue", "requeue", "insert", "round",
       "select", "next", "check", "mark", "retry", "release"}

\* first: this is the caller's own attempt, not a job's
ProcState == [pc : PC, key : Key, first : BOOLEAN, todo : SUBSET Key]

Idle == [pc |-> "idle", key |-> 1, first |-> FALSE, todo |-> {}]

Init ==
  /\ job = [k \in Key |-> [status |-> "none", age |-> 0, due |-> FALSE]]
  /\ rows = [k \in Key |-> 0]
  /\ proc = [p \in Proc |-> Idle]
  /\ calls = [k \in Key |-> 0]
  /\ answered = {}

Goto(p, pc) == proc' = [proc EXCEPT ![p].pc = pc]
Stop(p)     == proc' = [proc EXCEPT ![p] = Idle]

\* UPDATE billing_refund_jobs ... WHERE id = k; updated_at follows every update
SetJob(k, status, due) ==
  job' = [job EXCEPT ![k] = [status |-> status, age |-> 0, due |-> due]]

-----------------------------------------------------------------------------
(* A call of WriteTx("refund") and its enqueueRefundJob                    *)

Call(p, k) ==
  /\ proc[p].pc = "idle"
  /\ calls[k] < MaxCalls
  /\ calls' = [calls EXCEPT ![k] = calls[k] + 1]
  /\ proc' = [proc EXCEPT ![p] = [Idle EXCEPT !.pc = "lookup", !.key = k, !.first = TRUE]]
  /\ UNCHANGED <<job, rows, answered>>

\* refundTxExists, before the lock: an earlier row ends the attempt with nil.
Lookup(p) ==
  /\ proc[p].pc = "lookup"
  /\ LET k == proc[p].key
     IN \/ rows[k] = 0 /\ Goto(p, "commit") /\ UNCHANGED answered
        \/ rows[k] > 0 /\ proc[p].first /\ Stop(p) /\ answered' = answered \cup {k}
        \/ rows[k] > 0 /\ ~proc[p].first /\ Goto(p, "mark") /\ UNCHANGED answered
  /\ UNCHANGED <<job, rows, calls>>

AddRow(k) ==
  /\ rows[k] < MaxRows
  /\ rows' = [rows EXCEPT ![k] = rows[k] + 1]

\* From the lock to the commit.
Commit(p) ==
  /\ proc[p].pc = "commit"
  /\ AddRow(proc[p].key)
  /\ \/ proc[p].first /\ Stop(p) /\ answered' = answered \cup {proc[p].key}
     \/ ~proc[p].first /\ Goto(p, "mark") /\ UNCHANGED answered
  /\ UNCHANGED <<job, calls>>

AfterFailure(p) == Goto(p, IF proc[p].first THEN "enqueue" ELSE "retry")

\* The commit takes effect and its answer is lost.
AnswerLost(p) ==
  /\ proc[p].pc = "commit"
  /\ AddRow(proc[p].key)
  /\ AfterFailure(p)
  /\ UNCHANGED <<job, calls, answered>>

WriteFails(p) ==
  /\ proc[p].pc \in {"lookup", "commit"}
  /\ AfterFailure(p)
  /\ UNCHANGED <<job, rows, calls, answered>>

\* The caller gets nil and processes a round itself.
Deferred(p) ==
  /\ Goto(p, "round")
  /\ answered' = answered \cup {proc[p].key}

EnqueueLookup(p) ==
  /\ proc[p].pc = "enqueue"
  /\ LET status == job[proc[p].key].status
     IN \/ status \in {"done", "pending"} /\ Deferred(p)
        \/ status = "running" /\ Goto(p, "requeue") /\ UNCHANGED answered
        \/ status = "none" /\ Goto(p, "insert") /\ UNCHANGED answered
  /\ UNCHANGED <<job, rows, calls>>

\* The row was running at the lookup; the update does not ask what it is now.
Requeue(p) ==
  /\ proc[p].pc = "requeue"
  /\ SetJob(proc[p].key, "pending", TRUE)
  /\ Deferred(p)
  /\ UNCHANGED <<rows, calls>>

\* Variant: a conflict on the unique dedupe key inserts nothing, and a row that
\* is not there is reported as found.
InsertNothing(p) ==
  /\ proc[p].pc = "insert"
  /\ UNCHANGED job
  /\ Deferred(p)
  /\ UNCHANGED <<rows, calls>>

\* A conflict on the unique dedupe key: the row is there, good enough.
Insert(p) ==
  /\ proc[p].pc = "insert"
  /\ \/ job[proc[p].key].status = "none" /\ SetJob(proc[p].key, "pending", TRUE)
     \/ job[proc[p].key].status # "none" /\ UNCHANGED job
  /\ Deferred(p)
  /\ UNCHANGED <<rows, calls>>

\* The database refuses: the caller takes its credit back out of the bucket and
\* returns the error.
EnqueueFails(p) ==
  /\ proc[p].pc \in {"enqueue", "requeue", "insert"}
  /\ Stop(p)
  /\ UNCHANGED <<job, rows, calls, answered>>

-----------------------------------------------------------------------------
(* ProcessBillingRefundJobs                                                *)

Ticker(p) ==
  /\ proc[p].pc = "idle"
  /\ Goto(p, "round")
  /\ UNCHANGED <<job, rows, calls, answered>>

Stale(k) == job[k].status = "running" /\ job[k].age = StaleAfter

\* Variant: running jobs are never put back.
ReclaimStaleNever(p) ==
  /\ proc[p].pc = "round"
  /\ Goto(p, "select")
  /\ UNCHANGED <<job, rows, calls, answered>>

\* reclaimStaleBillingRefundJobs
ReclaimStale(p) ==
  /\ proc[p].pc = "round"
  /\ job' = [k \in Key |-> IF Stale(k) THEN [status |-> "pending", age |-> 0, due |-> TRUE]
                                       ELSE job[k]]
  /\ Goto(p, "select")
  /\ UNCHANGED <<rows, calls, answered>>

Ready == {k \in Key : job[k].status = "pending" /\ job[k].due}

Select(p) ==
  /\ proc[p].pc = "select"
  /\ proc' = [proc EXCEPT ![p].pc = "next",
                ![p].todo = {k \in Ready : Cardinality({j \in Ready : j < k}) < Limit}]
  /\ UNCHANGED <<job, rows, calls, answered>>

RoundEnds(p) ==
  /\ proc[p].pc = "next" /\ proc[p].todo = {}
  /\ Stop(p)
  /\ UNCHANGED <<job, rows, calls, answered>>

\* Variant: the claim does not compare the status.
ClaimBlind(p) ==
  /\ proc[p].pc = "next" /\ proc[p].todo # {}
  /\ LET k == Min(proc[p].todo)
     IN /\ SetJob(k, "running", job[k].due)
        /\ proc' = [proc EXCEPT ![p] = [pc |-> "check", key |-> k, first |-> FALSE,
                                          todo |-> proc[p].todo \ {k}]]
  /\ UNCHANGED <<rows, calls, answered>>

\* claimBillingRefundJob: whoever turns pending into running owns the job.
Claim(p) ==
  /\ proc[p].pc = "next" /\ proc[p].todo # {}
  /\ LET k == Min(proc[p].todo)
     IN \/ /\ job[k].status = "pending"
           /\ SetJob(k, "running", job[k].due)
           /\ proc' = [proc EXCEPT ![p] = [pc |-> "check", key |-> k, first |-> FALSE,
                                             todo |-> proc[p].todo \ {k}]]
        \/ /\ job[k].status # "pending"
           /\ proc' = [proc EXCEPT ![p].todo = proc[p].todo \ {k}]
           /\ UNCHANGED job
  /\ UNCHANGED <<rows, calls, answered>>

\* processBillingRefundJob: a row that is there needs no WriteTx.
Check(p) ==
  /\ proc[p].pc = "check"
  /\ Goto(p, IF rows[proc[p].key] > 0 THEN "mark" ELSE "lookup")
  /\ UNCHANGED <<job, rows, calls, answered>>

\* Variant: the update's Cols leave out the status.
MarkAttempt(p) ==
  /\ proc[p].pc = "mark"
  /\ SetJob(proc[p].key, job[proc[p].key].status, job[proc[p].key].due)
  /\ Goto(p, "next")
  /\ UNCHANGED <<rows, calls, answered>>

MarkDone(p) ==
  /\ proc[p].pc = "mark"
  /\ SetJob(proc[p].key, "done", job[proc[p].key].due)
  /\ Goto(p, "next")
  /\ UNCHANGED <<rows, calls, answered>>

\* WriteTx failed: try again after attempts^2 seconds.
BackOff(p) ==
  /\ proc[p].pc = "retry"
  /\ SetJob(proc[p].key, "pending", FALSE)
  /\ Goto(p, "next")
  /\ UNCHANGED <<rows, calls, answered>>

\* A statement of processBillingRefundJob fails.
ProcessFails(p) ==
  /\ proc[p].pc \in {"check", "mark", "retry"}
  /\ Goto(p, "release")
  /\ UNCHANGED <<job, rows, calls, answered>>

\* releaseBillingRefundJob; the round ends with the error either way.
Release(p) ==
  /\ proc[p].pc = "release"
  /\ SetJob(proc[p].key, "pending", job[proc[p].key].due)
  /\ Stop(p)
  /\ UNCHANGED <<rows, calls, answered>>

\* The server stops, or a statement fails and ends the round.  What was claimed
\* stays running.
Abandon(p) ==
  /\ proc[p].pc # "idle" /\ ~(proc[p].pc = "next" /\ proc[p].todo = {})
  /\ Stop(p)
  /\ UNCHANGED <<job, rows, calls, answered>>

Tick ==
  /\ \E later \in SUBSET {k \in Key : ~job[k].due /\ job[k].status # "none"} :
       job' = [k \in Key |-> [job[k] EXCEPT
                 !.age = IF @ < StaleAfter /\ job[k].status = "running" THEN @ + 1 ELSE @,
                 !.due = job[k].due \/ k \in later]]
  /\ UNCHANGED <<rows, proc, calls, answered>>

-----------------------------------------------------------------------------

\* what a processor does when nothing fails
Proceed(p) ==
  \/ Lookup(p) \/ Commit(p)
  \/ EnqueueLookup(p) \/ Requeue(p) \/ Insert(p)
  \/ ReclaimStale(p) \/ Select(p) \/ RoundEnds(p) \/ Claim(p) \/ Check(p)
  \/ MarkDone(p) \/ BackOff(p) \/ Release(p)

Next ==
  \/ \E p \in Proc :
       \/ \E k \in Key : Call(p, k)
       \/ Ticker(p) \/ Proceed(p)
       \/ AnswerLost(p) \/ WriteFails(p) \/ EnqueueFails(p) \/ ProcessFails(p)
       \/ Abandon(p)
  \/ Tick

Spec == Init /\ [][Next]_vars

\* The tickers and the clock never stop, and there is a last failure and a last
\* stop of a server.
Fault == \E p \in Proc : \/ AnswerLost(p) \/ WriteFails(p) \/ EnqueueFails(p)
                        \/ ProcessFails(p) \/ Abandon(p)

Fairness ==
  /\ WF_vars(Tick)
  /\ \A p \in Proc : WF_vars(Ticker(p) \/ Proceed(p))
  /\ <>[][~Fault]_vars

FairSpec == Spec /\ Fairness

\* A job whose processor is at work is younger than the timeout: no statement of
\* it takes ten minutes.
Working(k) == \E p \in Proc : /\ proc[p].key = k /\ ~proc[p].first
                              /\ proc[p].pc \in {"check", "lookup", "commit", "mark",
                                                 "retry", "release"}
PromptNext == Next /\ \A k \in Key : Working(k) => job'[k].age < StaleAfter

PromptSpec == Init /\ [][PromptNext]_vars

-----------------------------------------------------------------------------
(* Properties                                                              *)

TypeOK ==
  /\ job \in [Key -> JobRow]
  /\ rows \in [Key -> 0..MaxRows]
  /\ proc \in [Proc -> ProcState]
  /\ calls \in [Key -> 0..MaxCalls]
  /\ answered \subseteq Key

\* WriteTx answers nil for a deferred refund (handlePreAppliedFailure), so the
\* caller will not come back: from then on the refund has its row, or a job that
\* is still to be processed.
AnswerKept ==
  \A k \in answered : rows[k] > 0 \/ job[k].status \in {"pending", "running"}

\* However often the job of one failed refund is retried, reclaimed after a stop or
\* found already written, the order is refunded by one row.
RefundedOnce == \A k \in Key : rows[k] <= 1

\* A deferred refund is written in the end.
RefundsArrive == \A k \in Key : (k \in answered) ~> (rows[k] > 0)

\* And its job comes to rest: late writers cannot keep it going round for ever.
JobsSettle == <>[](\A k \in Key : job[k].status \in {"none", "done"})
=============================================================================
