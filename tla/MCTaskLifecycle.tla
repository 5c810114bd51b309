-------------------------- MODULE MCTaskLifecycle --------------------------
(* Instances of TaskLifecycle for TLC.                                     *)
EXTENDS TaskLifecycle

CONSTANT MaxBusy  \* bound: agents at work at a time

\* As calm, but messages may be delivered again, and the tickers may find the task
\* while its messages wait: no server stops and nothing is refused, only lateness is
\* left.
LateNext ==
  \/ CreateInsert \/ CreateCharge \/ CreatePublish \/ CreateMark
  \/ \E m \in Msg :
       \/ WorkerRuns(m) \/ HandleDone(m) \/ HandleAsync(m)
       \/ HandleFailed(m) \/ GiveBack(m) \/ ZeroCredits(m) \/ ChargeNext(m) \/ UpdateTask(m)
       \/ PublishNext(m) \/ Ack(m)
       \/ run[m].pc = "ack" /\ AgentStops(m)
  \/ \E a \in Agent : FailCAS(a) \/ FailRefund(a) \/ ClearCredits(a)
  \/ /\ Poll \/ Clean
     /\ run[Creator].pc = "ended" /\ \A m \in Msg : run[m].pc = "idle"
  \/ Query \/ Report
  \/ Age

LateSpec == Init /\ [][LateNext]_vars

\* All of Next, with at most MaxBusy of handlers, cleaner and poller at work at a time
\* besides the creator; a message that waits is not work.
Busy == {a \in Agent \ {Creator} : run[a].pc # "idle"}
BusyNext == Next /\ Cardinality(Busy') <= MaxBusy

BusySpec == Init /\ [][BusyNext]_vars

FairBusySpec == BusySpec /\ Fairness
=============================================================================
