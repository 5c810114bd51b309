---------------------------- MODULE TaskLifecycle ----------------------------
(***************************************************************************)
(* One image, video or audio task from createTask (handler/proxy.go) to    *)
(* its end: charged, queued as a job on the TASKS stream, executed by a    *)
(* worker (script/worker.go), its result handled by the API server         *)
(* (taskresult/handler.go, writer.go), polled upstream when asynchronous   *)
(* and given up when stale (taskresult/poller.go).  On failure the price   *)
(* goes back and, when another channel is left, the task is charged again  *)
(* and queued on that channel.                                             *)
(*                                                                         *)
(* Channel 1 is tried first, then 2, ...: a task on channel c has corr_id  *)
(* "<uuid>_r2.._r<c>" and retry_channel_ids c+1..NumChannels: c stands for *)
(* all three.  credits (TRUE: the price of c; FALSE: 0) is what the row or *)
(* the message says was charged.  WriteTx is one step here, deduplicated   *)
(* by its key; QuotaLease has its inside.                                  *)
(***************************************************************************)
EXTENDS Integers, FiniteSets

CONSTANTS
  NumChannels,  \* the channel of the request and the ones to retry on
  MaxMsgs,      \* bound: messages on the two streams at a time
  MaxDeliver,   \* workerMaxDeliver
  MaxTries      \* bound: further pool keys tried for one channel

Channel == 1..NumChannels
Msg     == 1..MaxMsgs

\* Whoever runs code on the task: the handler of a message, or one of these.
Creator == 0
Cleaner == -1
Poller  == -2
Agent   == {Creator, Cleaner, Poller} \cup Msg

\* why a refund row was written; part of its dedupe key
Reason == {"channel_retry", "error", "stale", "publish"}

ASSUME ConstantsAssumption ==
  /\ NumChannels \in Nat \ {0} /\ MaxMsgs \in Nat \ {0}
  /\ MaxDeliver \in Nat \ {0} /\ MaxTries \in Nat

VARIABLES
  task,     \* the row of tasks
  charged,  \* channels with a charge row in billing_transactions
  refunded, \* <<channel, reason>> of the refund rows
  msg,      \* messages on the TASKS and RESULTS streams
  run,      \* what each agent is doing
  old       \* created_at is more than maxAge ago

vars == <<task, charged, refunded, msg, run, old>>
ledger == <<charged, refunded>>

Status == {"none", "pending", "processing", "done", "failed"}

Task == [status : Status, chan : Channel, credits : BOOLEAN,
         upstream : 0..NumChannels]  \* the channel upstream_task_id came from

Outcome == {"done", "async", "failed", "pool_key"}

Message == [kind : {"none", "job", "result"}, chan : Channel, credits : BOOLEAN,
            outcome : Outcome, left : 0..MaxDeliver, tries : 0..MaxTries]

NoMsg == [kind |-> "none", chan |-> 1, credits |-> FALSE, outcome |-> "failed",
          left |-> 0, tries |-> 0]

PC == {"idle", "start", "inserted", "charged", "mark", "unpublished",
       "giveback", "zero", "charge", "update", "publish", "rotate", "republish",
       "ack", "fail", "refund", "clear", "query", "report", "ended"}

\* chan, credits and reason: the arguments of failTaskDB, or the task row as the
\* agent has read it; up: its upstream_task_id
Run == [pc : PC, chan : Channel, credits : BOOLEAN, reason : Reason,
        up : 0..NumChannels]

At(pc, chan, credits, reason) ==
  [pc |-> pc, chan |-> chan, credits |-> credits, reason |-> reason, up |-> 0]

Idle == At("idle", 1, FALSE, "error")

Init ==
  /\ task = [status |-> "none", chan |-> 1, credits |-> FALSE, upstream |-> 0]
  /\ charged = {} /\ refunded = {}
  /\ msg = [m \in Msg |-> NoMsg]
  /\ run = [a \in Agent |-> IF a = Creator THEN [Idle EXCEPT !.pc = "start"] ELSE Idle]
  /\ old = FALSE

Goto(a, pc)   == run' = [run EXCEPT ![a].pc = pc]
Enter(a, new) == run' = [run EXCEPT ![a] = new]

\* where an agent goes when failTaskDB returns
AfterFail(a) == Enter(a, IF a \in Msg THEN [Idle EXCEPT !.pc = "ack"] ELSE Idle)

FailTask(a, chan, credits, reason) == Enter(a, At("fail", chan, credits, reason))

\* mq.Publish, mq.PublishResult
Free == {m \in Msg : msg[m].kind = "none" /\ run[m].pc = "idle"}
Send(new) ==
  \E m \in Free : /\ \A k \in Free : m <= k
                  /\ msg' = [msg EXCEPT ![m] = [new EXCEPT !.left = MaxDeliver]]

Job(chan, credits, tries) ==
  [NoMsg EXCEPT !.kind = "job", !.chan = chan, !.credits = credits, !.tries = tries]
Result(chan, credits, tries, outcome) ==
  [Job(chan, credits, tries) EXCEPT !.kind = "result", !.outcome = outcome]

-----------------------------------------------------------------------------
(* createTask.  The price has left the Redis bucket.                       *)

CreateInsert ==
  /\ run[Creator].pc = "start"
  /\ task' = [task EXCEPT !.status = "pending", !.credits = TRUE]
  /\ Goto(Creator, "inserted")
  /\ UNCHANGED <<ledger, msg, old>>

CreateCharge ==
  /\ run[Creator].pc = "inserted"
  /\ charged' = charged \cup {1}
  /\ Goto(Creator, "charged")
  /\ UNCHANGED <<task, refunded, msg, old>>

CreateChargeFails ==
  /\ run[Creator].pc = "inserted"
  /\ task' = [task EXCEPT !.status = "failed"]
  /\ Goto(Creator, "ended")
  /\ UNCHANGED <<ledger, msg, old>>

CreatePublish ==
  /\ run[Creator].pc = "charged"
  /\ Send(Job(1, TRUE, 0))
  /\ Goto(Creator, "mark")
  /\ UNCHANGED <<task, ledger, old>>

\* The stream may hold the job although its acknowledgement was lost.
CreatePublishFails ==
  /\ run[Creator].pc = "charged"
  /\ Send(Job(1, TRUE, 0)) \/ UNCHANGED msg
  /\ task' = [task EXCEPT !.status = "failed"]
  /\ Goto(Creator, "unpublished")
  /\ UNCHANGED <<ledger, old>>

CreateRefund ==
  /\ run[Creator].pc = "unpublished"
  /\ refunded' = refunded \cup {<<1, "publish">>}
  /\ Goto(Creator, "ended")
  /\ UNCHANGED <<task, charged, msg, old>>

\* UPDATE tasks SET status = 'processing', whatever the status is by now.
CreateMark ==
  /\ run[Creator].pc = "mark"
  /\ task' = [task EXCEPT !.status = "processing"]
  /\ Goto(Creator, "ended")
  /\ UNCHANGED <<ledger, msg, old>>

-----------------------------------------------------------------------------
(* The worker: handleTask touches nothing but the streams, so that a run   *)
(* of any length is one step at its publish.                               *)

\* the message after a delivery: acknowledged, or left to be delivered again
Delivered(m, acked) ==
  IF acked \/ msg[m].left = 1 THEN NoMsg ELSE [msg[m] EXCEPT !.left = msg[m].left - 1]

Deliverable(m, kind) == msg[m].kind = kind /\ run[m].pc = "idle"

WorkerRuns(m) ==
  /\ Deliverable(m, "job")
  /\ \E outcome \in Outcome, acked \in BOOLEAN :
       \E r \in Free \cup {m} :
         /\ outcome = "pool_key" => msg[m].tries < MaxTries
         /\ r = m <=> Delivered(m, acked) = NoMsg
         /\ \A k \in Free : r # m => r <= k
         /\ msg' = [msg EXCEPT ![m] = Delivered(m, acked),
                      ![r] = [Result(msg[m].chan, msg[m].credits, msg[m].tries, outcome)
                                EXCEPT !.left = MaxDeliver]]
  /\ UNCHANGED <<task, ledger, run, old>>

\* The worker stops, or its result cannot be published and the job is terminated.
WorkerDies(m) ==
  /\ Deliverable(m, "job")
  /\ \E terminated \in BOOLEAN : msg' = [msg EXCEPT ![m] = Delivered(m, terminated)]
  /\ UNCHANGED <<task, ledger, run, old>>

-----------------------------------------------------------------------------
(* handleResult                                                            *)

\* the batch writer: one UPDATE without a condition, then the Ack
WriteOutcome(m, status, upstream) ==
  /\ \/ task' = [task EXCEPT !.status = status, !.upstream = upstream]
     \/ UNCHANGED task  \* the UPDATE failed; the error is logged
  /\ \E acked \in BOOLEAN : msg' = [msg EXCEPT ![m] = Delivered(m, acked)]
  /\ UNCHANGED <<ledger, run, old>>

HandleDone(m) ==
  /\ Deliverable(m, "result") /\ msg[m].outcome = "done"
  /\ WriteOutcome(m, "done", task.upstream)

HandleAsync(m) ==
  /\ Deliverable(m, "result") /\ msg[m].outcome = "async"
  /\ WriteOutcome(m, "processing", msg[m].chan)

\* The rest of failed: another channel, if one is left and can be loaded.
HandleFailed(m) ==
  /\ Deliverable(m, "result") /\ msg[m].outcome \in {"failed", "pool_key"}
  /\ LET chan == msg[m].chan
         credits == msg[m].credits
     IN \/ /\ chan < NumChannels
           /\ Enter(m, At(IF credits THEN "giveback" ELSE "charge", chan, credits,
                          "channel_retry"))
        \/ FailTask(m, chan, credits, "error")
  /\ UNCHANGED <<task, ledger, msg, old>>

\* rate_limited and pool_key_retry: another key of the channel's pool.
HandlePoolKey(m) ==
  /\ Deliverable(m, "result") /\ msg[m].outcome = "pool_key"
  /\ Enter(m, At("rotate", msg[m].chan, msg[m].credits, "error"))
  /\ UNCHANGED <<task, ledger, msg, old>>

\* updateProcessingTask; rate_limited does not do it
Rotate(m) ==
  /\ run[m].pc = "rotate"
  /\ task' = [task EXCEPT !.status = "processing"] \/ UNCHANGED task
  /\ Goto(m, "republish")
  /\ UNCHANGED <<ledger, msg, old>>

Republish(m) ==
  /\ run[m].pc = "republish"
  /\ Send(Job(run[m].chan, run[m].credits, msg[m].tries + 1))
  /\ Goto(m, "ack")
  /\ UNCHANGED <<task, ledger, old>>

\* An error of Publish leaves open whether the stream has stored the message.
RepublishFails(m) ==
  /\ run[m].pc = "republish"
  /\ Send(Job(run[m].chan, run[m].credits, msg[m].tries + 1)) \/ UNCHANGED msg
  /\ Goto(m, "fail")
  /\ UNCHANGED <<task, ledger, old>>

\* Variant: a refund that fails does not stop the retry.
GiveBackIgnored(m) ==
  /\ run[m].pc = "giveback"
  /\ Goto(m, "charge")
  /\ UNCHANGED <<task, ledger, msg, old>>

\* Refund of the channel that failed; an earlier row with this key is fine.
GiveBack(m) ==
  /\ run[m].pc = "giveback"
  /\ refunded' = refunded \cup {<<run[m].chan, "channel_retry">>}
  /\ Goto(m, "zero")
  /\ UNCHANGED <<task, charged, msg, old>>

GiveBackFails(m) ==
  /\ run[m].pc = "giveback"
  /\ FailTask(m, run[m].chan, FALSE, "error")
  /\ UNCHANGED <<task, ledger, msg, old>>

\* updateTaskCreditsCharged
ZeroCredits(m) ==
  /\ run[m].pc = "zero"
  /\ task' = [task EXCEPT !.credits = FALSE]
  /\ Goto(m, "charge")
  /\ UNCHANGED <<ledger, msg, old>>

\* Variant: the error of WriteTx is ignored.
ChargeNextUnwritten(m) ==
  /\ run[m].pc = "charge"
  /\ Enter(m, At("update", run[m].chan + 1, TRUE, "publish"))
  /\ UNCHANGED <<task, ledger, msg, old>>

\* Charge and WriteTx for the next channel.  An earlier charge row is a duplicate,
\* and the task is failed without another refund.
ChargeNext(m) ==
  /\ run[m].pc = "charge"
  /\ LET next == run[m].chan + 1
     IN \/ /\ next \notin charged
           /\ charged' = charged \cup {next}
           /\ Enter(m, At("update", next, TRUE, "publish"))
        \/ /\ FailTask(m, run[m].chan, FALSE, "error")
           /\ UNCHANGED charged
  /\ UNCHANGED <<task, refunded, msg, old>>

\* Variant: the row keeps pointing at the channel that failed.
UpdateTaskStatus(m) ==
  /\ run[m].pc = "update"
  /\ task' = [task EXCEPT !.status = "processing"]
  /\ Goto(m, "publish")
  /\ UNCHANGED <<ledger, msg, old>>

\* channel_id, credits_charged, corr_id, status, retry_channel_ids; not
\* upstream_task_id
UpdateTask(m) ==
  /\ run[m].pc = "update"
  /\ task' = [task EXCEPT !.status = "processing", !.chan = run[m].chan, !.credits = TRUE]
  /\ Goto(m, "publish")
  /\ UNCHANGED <<ledger, msg, old>>

PublishNext(m) ==
  /\ run[m].pc = "publish"
  /\ Send(Job(run[m].chan, TRUE, 0))
  /\ Goto(m, "ack")
  /\ UNCHANGED <<task, ledger, old>>

PublishNextFails(m) ==
  /\ run[m].pc = "publish"
  /\ Send(Job(run[m].chan, TRUE, 0)) \/ UNCHANGED msg
  /\ Goto(m, "fail")
  /\ UNCHANGED <<task, ledger, old>>

Ack(m) ==
  /\ run[m].pc = "ack"
  /\ msg' = [msg EXCEPT ![m] = NoMsg]
  /\ Enter(m, Idle)
  /\ UNCHANGED <<task, ledger, old>>

-----------------------------------------------------------------------------
(* failTaskDB                                                              *)

\* UPDATE ... WHERE status != 'failed': only who changes the status refunds.
FailCAS(a) ==
  /\ run[a].pc = "fail"
  /\ task' = [task EXCEPT !.status = "failed"]
  /\ IF task.status # "failed" /\ run[a].credits THEN Goto(a, "refund") ELSE AfterFail(a)
  /\ UNCHANGED <<ledger, msg, old>>

\* Variant: the refund names the channel the task started on.
FailRefundFirst(a) ==
  /\ run[a].pc = "refund"
  /\ refunded' = refunded \cup {<<1, run[a].reason>>}
  /\ Goto(a, "clear")
  /\ UNCHANGED <<task, charged, msg, old>>

FailRefund(a) ==
  /\ run[a].pc = "refund"
  /\ refunded' = refunded \cup {<<run[a].chan, run[a].reason>>}
  /\ Goto(a, "clear")
  /\ UNCHANGED <<task, charged, msg, old>>

\* updateTaskCreditsCharged
ClearCredits(a) ==
  /\ run[a].pc = "clear"
  /\ task' = [task EXCEPT !.credits = FALSE]
  /\ AfterFail(a)
  /\ UNCHANGED <<ledger, msg, old>>

\* Redis or the ledger refuses the refund: logged.
FailRefundFails(a) ==
  /\ run[a].pc = "refund"
  /\ AfterFail(a)
  /\ UNCHANGED <<task, ledger, msg, old>>

-----------------------------------------------------------------------------
(* The poller's ticker                                                     *)

\* Variant: the query does not ask for the status.
PollAnyStatus ==
  /\ run[Poller].pc = "idle"
  /\ task.upstream # 0
  /\ Enter(Poller, [At(IF old THEN "report" ELSE "query", task.chan, task.credits, "error")
                      EXCEPT !.up = task.upstream])
  /\ UNCHANGED <<task, ledger, msg, old>>

\* A snapshot of the row; a task older than maxAge is reported as failed.
Poll ==
  /\ run[Poller].pc = "idle"
  /\ task.status = "processing" /\ task.upstream # 0
  /\ Enter(Poller, [At(IF old THEN "report" ELSE "query", task.chan, task.credits, "error")
                      EXCEPT !.up = task.upstream])
  /\ UNCHANGED <<task, ledger, msg, old>>

\* pollOneTask: what the upstream says, or nothing at all.
PollDone ==
  /\ run[Poller].pc = "query"
  /\ task' = [task EXCEPT !.status = "done"]
  /\ Enter(Poller, Idle)
  /\ UNCHANGED <<ledger, msg, old>>

PollFailed ==
  /\ run[Poller].pc = "query"
  /\ Goto(Poller, "report")
  /\ UNCHANGED <<task, ledger, msg, old>>

PollNothing ==
  /\ run[Poller].pc = "query"
  /\ Enter(Poller, Idle)
  /\ UNCHANGED <<task, ledger, msg, old>>

\* publishFailedResult
Report ==
  /\ run[Poller].pc = "report"
  /\ Send(Result(run[Poller].chan, run[Poller].credits, 0, "failed"))
  /\ Enter(Poller, Idle)
  /\ UNCHANGED <<task, ledger, old>>

ReportFails ==
  /\ run[Poller].pc = "report"
  /\ Send(Result(run[Poller].chan, run[Poller].credits, 0, "failed")) \/ UNCHANGED msg
  /\ Goto(Poller, "fail")
  /\ UNCHANGED <<task, ledger, old>>

\* Variant: a task that is still pending is not cleaned.
CleanProcessing ==
  /\ run[Cleaner].pc = "idle"
  /\ task.status = "processing" /\ task.upstream = 0
  /\ FailTask(Cleaner, task.chan, task.credits, "stale")
  /\ UNCHANGED <<task, ledger, msg, old>>

\* cleanStaleTasks: no update of the row for longer than the channel's timeout.
Clean ==
  /\ run[Cleaner].pc = "idle"
  /\ task.status = "pending" \/ (task.status = "processing" /\ task.upstream = 0)
  /\ FailTask(Cleaner, task.chan, task.credits, "stale")
  /\ UNCHANGED <<task, ledger, msg, old>>

-----------------------------------------------------------------------------
(* Time and stops                                                          *)

Age ==
  /\ ~old /\ task.status # "none"
  /\ old' = TRUE
  /\ UNCHANGED <<task, ledger, msg, run>>

\* The server stops, or the handler outlives its AckWait and its Ack is void.
AgentStops(a) ==
  /\ run[a].pc \notin {"idle", "start", "ended"}
  /\ Enter(a, IF a = Creator THEN [Idle EXCEPT !.pc = "ended"] ELSE Idle)
  /\ msg' = IF a \in Msg THEN [msg EXCEPT ![a] = Delivered(a, FALSE)] ELSE msg
  /\ UNCHANGED <<task, ledger, old>>

-----------------------------------------------------------------------------

Create == \/ CreateInsert \/ CreateCharge \/ CreatePublish \/ CreateMark
          \/ CreateChargeFails \/ CreatePublishFails \/ CreateRefund

Handle(m) == \/ HandleDone(m) \/ HandleAsync(m) \/ HandleFailed(m) \/ HandlePoolKey(m)
             \/ Rotate(m) \/ Republish(m) \/ RepublishFails(m)
             \/ GiveBack(m) \/ GiveBackFails(m) \/ ZeroCredits(m) \/ ChargeNext(m)
             \/ UpdateTask(m) \/ PublishNext(m) \/ PublishNextFails(m) \/ Ack(m)

Fail(a) == FailCAS(a) \/ FailRefund(a) \/ FailRefundFails(a) \/ ClearCredits(a)

Query == PollDone \/ PollFailed \/ PollNothing

PollStep == Query \/ Report \/ ReportFails

Next ==
  \/ Create
  \/ \E m \in Msg : WorkerRuns(m) \/ WorkerDies(m) \/ Handle(m)
  \/ \E a \in Agent : Fail(a) \/ AgentStops(a)
  \/ Poll \/ PollStep \/ Clean
  \/ Age

Spec == Init /\ [][Next]_vars

\* Servers, workers and tickers run on; whatever stops an agent ends sooner or later.
Fairness ==
  /\ WF_vars(Create) /\ WF_vars(Age) /\ WF_vars(Poll) /\ WF_vars(PollStep) /\ WF_vars(Clean)
  /\ \A m \in Msg : WF_vars(WorkerRuns(m) \/ WorkerDies(m)) /\ WF_vars(Handle(m))
  /\ \A a \in Agent : WF_vars(Fail(a))
  /\ <>[][\A a \in Agent : ~AgentStops(a)]_vars

\* A message, the creator or the poller's report is under way.
InFlight == \/ \E m \in Msg : msg[m].kind # "none"
            \/ run[Creator].pc # "ended"
            \/ run[Poller].pc \notin {"idle", "query"}

\* Nothing is stopped, redelivered or late: messages are acknowledged, servers stay
\* up, no update or refund is refused, a publish succeeds or fails for certain, and
\* the cleaner and the poller find only tasks that nobody is at work on, and poll with
\* an id of the task's channel.
CalmNext ==
  \/ CreateInsert \/ CreateCharge \/ CreatePublish \/ CreateMark
  \/ CreateChargeFails \/ (CreatePublishFails /\ UNCHANGED msg) \/ CreateRefund
  \/ \E m \in Msg :
       \/ (WorkerRuns(m) \/ WorkerDies(m)) /\ msg'[m].kind # "job"
       \/ HandleDone(m) /\ msg'[m] = NoMsg /\ task'.status = "done"
       \/ HandleAsync(m) /\ msg'[m] = NoMsg /\ task'.upstream = msg[m].chan
       \/ HandleFailed(m) \/ HandlePoolKey(m) \/ Rotate(m) \/ Republish(m)
       \/ GiveBack(m) \/ ZeroCredits(m) \/ ChargeNext(m) \/ UpdateTask(m)
       \/ PublishNext(m) \/ Ack(m)
       \/ (RepublishFails(m) \/ PublishNextFails(m)) /\ UNCHANGED msg
  \/ \E a \in Agent : FailCAS(a) \/ FailRefund(a) \/ ClearCredits(a)
  \/ Poll /\ ~InFlight /\ task.upstream = task.chan
  \/ Query \/ Report \/ (ReportFails /\ UNCHANGED msg)
  \/ Clean /\ ~InFlight
  \/ Age

CalmSpec == Init /\ [][CalmNext]_vars

-----------------------------------------------------------------------------
(* Properties                                                              *)

TypeOK ==
  /\ task \in Task
  /\ charged \subseteq Channel
  /\ refunded \subseteq Channel \X Reason
  /\ msg \in [Msg -> Message]
  /\ run \in [Agent -> Run]
  /\ old \in BOOLEAN

Refunds(c) == {r \in refunded : r[1] = c}

\* Work is paid for before it is given out: every job, every result and every handler
\* at work names a channel whose charge row exists, so does every refund that precedes
\* a retry, and channels are charged in order.  A message may be stale, doubled or made
\* up by the poller from the row of the task.
ChargedFirst ==
  /\ \A m \in Msg : msg[m].kind # "none" => msg[m].chan \in charged
  /\ \A m \in Msg : run[m].pc # "idle" => run[m].chan \in charged
  /\ \A c \in Channel : <<c, "channel_retry">> \in refunded => c \in charged
  /\ \A c \in charged : 1..c \subseteq charged

\* handler.go:205: "退回当前渠道的费用" before the next channel is charged: the user
\* never pays two channels for one task.
OneChannelPaid ==
  \A c, d \in charged : c < d => Refunds(c) # {}

\* Nothing of the task is under way: all messages handled or given up.
Settled == /\ \A m \in Msg : msg[m].kind = "none"
           /\ \A a \in Agent : run[a].pc \in {"idle", "ended"}

\* README.md:186: "任务失败（任意原因）... 自动退还全部已扣 credits", a task that
\* failed, for whatever reason, has all its credits back.
FailedIsRefunded ==
  Settled /\ task.status = "failed" => \A c \in charged : Refunds(c) # {}

\* A task that succeeded has been paid for, on exactly one channel.
DoneIsPaid ==
  Settled /\ task.status = "done" =>
    Cardinality({c \in charged : Refunds(c) = {}}) = 1

\* handler.go:389-390: failTaskDB returns the credits and is idempotent
\* ("幂等操作：通过条件更新 (status != 'failed') 保持幂等").  A price is given back
\* once, and only if it was charged.
RefundedOnce ==
  \A c \in Channel : Cardinality(Refunds(c)) <= IF c \in charged THEN 1 ELSE 0

\* Whatever is lost or stops, a task that was created ends, and for good.
TaskEnds == (task.status # "none") ~> [](task.status \in {"done", "failed"})
=============================================================================
