------------------------ MODULE TaskLifecycle_proofs ------------------------
(* Type correctness and ChargedFirst of TaskLifecycle, then what holds in  *)
(* calm operation (CalmSpec): one channel is paid, a failed task is given  *)
(* back, a finished one is paid for, no channel is given back twice. For   *)
(* any number of channels, messages, deliveries and pool keys.             *)
EXTENDS TaskLifecycle, FiniteSetTheorems, TLAPS

\* What a handler at work relies on: its message stays where it is, and what it may
\* still do fits its channel and the pool keys it has tried.
HandlerInv ==
  \A m \in Msg :
    /\ run[m].pc # "idle" => msg[m].kind = "result"
    /\ run[m].pc \in {"giveback", "zero", "charge"} => run[m].chan < NumChannels
    /\ run[m].pc \in {"rotate", "republish"} => msg[m].tries < MaxTries

MessageInv ==
  \A m \in Msg :
    /\ msg[m].kind # "none" => msg[m].left # 0
    /\ msg[m].kind = "result" /\ msg[m].outcome = "pool_key" => msg[m].tries < MaxTries

\* The row of the task names a channel that was charged, once something was.
RowOK == /\ task.upstream # 0 => task.chan \in charged
         /\ task.chan \in charged \cup {1}

\* What the other agents and the row know of the charges.
ChargedInv ==
  /\ run[Creator].pc \in {"charged", "mark", "unpublished"} => 1 \in charged
  /\ run[Poller].pc # "idle" => run[Poller].chan \in charged
  /\ RowOK
  /\ \A a \in Agent \ Msg : run[a].reason # "channel_retry"

IInv == TypeOK /\ ChargedFirst /\ HandlerInv /\ MessageInv /\ ChargedInv

LEMMA AtRun ==
  ASSUME NEW pc \in PC, NEW chan \in Channel, NEW credits \in BOOLEAN, NEW reason \in Reason
  PROVE  At(pc, chan, credits, reason) \in Run
  BY ConstantsAssumption DEF At, Run, Channel

LEMMA IdleRun == Idle \in Run
  <1>1. 1 \in Channel
    BY ConstantsAssumption DEF Channel
  <1> QED
    BY <1>1, AtRun DEF Idle, PC, Reason

\* Goto leaves all but the pc of a run.
LEMMA GotoRun ==
  ASSUME NEW r \in Run, NEW pc \in PC
  PROVE  /\ [r EXCEPT !.pc = pc] \in Run
         /\ [r EXCEPT !.pc = pc].pc = pc
         /\ [r EXCEPT !.pc = pc].chan = r.chan
         /\ [r EXCEPT !.pc = pc].credits = r.credits
         /\ [r EXCEPT !.pc = pc].reason = r.reason
  BY DEF Run

LEMMA InitIInv == Init => IInv
  <1> SUFFICES ASSUME Init PROVE IInv
    OBVIOUS
  <1> USE ConstantsAssumption DEF Channel, Agent, Msg, Creator, Cleaner, Poller
  <1>1. Idle \in Run /\ [Idle EXCEPT !.pc = "start"] \in Run
    BY IdleRun, GotoRun DEF PC
  <1>2. NoMsg \in Message
    BY DEF NoMsg, Message, Outcome
  <1>3. task \in Task
    BY DEF Init, Task, Status
  <1>4. TypeOK
    BY <1>1, <1>2, <1>3 DEF TypeOK, Init
  <1>5. \A m \in Msg : run[m] = Idle /\ msg[m] = NoMsg
    BY DEF Init
  <1>6. ChargedFirst /\ HandlerInv /\ MessageInv
    BY <1>5 DEF ChargedFirst, HandlerInv, MessageInv, NoMsg, Idle, At, Init
  <1>7. ChargedInv
    BY DEF ChargedInv, RowOK, Idle, At, Init
  <1> QED
    BY <1>4, <1>6, <1>7 DEF IInv

-----------------------------------------------------------------------------
(* What an action does to one agent, or to one message, leaves the others  *)
(* as they are.                                                            *)

\* A handler's run, the message it is at work on, and the charges agree.
RunOK(a, r) ==
  /\ r \in Run
  /\ a \in Msg => /\ r.pc # "idle" => r.chan \in charged' /\ msg'[a].kind = "result"
                  /\ r.pc \in {"giveback", "zero", "charge"} => r.chan < NumChannels
                  /\ r.pc \in {"rotate", "republish"} => msg'[a].tries < MaxTries
  /\ a = Creator => (r.pc \in {"charged", "mark", "unpublished"} => 1 \in charged')
  /\ a = Poller => (r.pc # "idle" => r.chan \in charged')
  /\ a \notin Msg => r.reason # "channel_retry"

MsgOK(x) ==
  /\ x \in Message
  /\ x.kind # "none" => x.chan \in charged' /\ x.left # 0
  /\ x.kind = "result" /\ x.outcome = "pool_key" => x.tries < MaxTries

\* The invariant, agent by agent and message by message.
LEMMA Parts ==
  ASSUME task' \in Task, RowOK',
         charged' \subseteq Channel, \A c \in charged' : 1..c \subseteq charged',
         refunded' \subseteq Channel \X Reason,
         \A c \in Channel : <<c, "channel_retry">> \in refunded' => c \in charged',
         old' \in BOOLEAN,
         run' = [a \in Agent |-> run'[a]], \A a \in Agent : RunOK(a, run'[a]),
         msg' = [m \in Msg |-> msg'[m]], \A m \in Msg : MsgOK(msg'[m])
  PROVE  IInv'
  <1>1. run' \in [Agent -> Run] /\ msg' \in [Msg -> Message]
    BY DEF RunOK, MsgOK
  <1>2. TypeOK'
    BY <1>1 DEF TypeOK
  <1>3. Msg \subseteq Agent /\ Creator \in Agent /\ Poller \in Agent
    BY DEF Agent
  <1>4. (ChargedFirst /\ HandlerInv /\ MessageInv)'
    BY <1>3 DEF ChargedFirst, HandlerInv, MessageInv, RunOK, MsgOK
  <1>5. ChargedInv'
    BY <1>3 DEF ChargedInv, RowOK, RunOK
  <1> QED
    BY <1>2, <1>4, <1>5 DEF IInv

\* A step of one agent that changes no message another agent is at work on.
LEMMA AgentStep ==
  ASSUME IInv, NEW a \in Agent,
         task' \in Task, RowOK',
         charged \subseteq charged', charged' \subseteq Channel,
         \A c \in charged' : 1..c \subseteq charged',
         refunded' \subseteq Channel \X Reason,
         \A c \in Channel : <<c, "channel_retry">> \in refunded' => c \in charged',
         old' \in BOOLEAN,
         run' = [run EXCEPT ![a] = run'[a]], RunOK(a, run'[a]),
         msg' = [m \in Msg |-> msg'[m]],
         \A m \in Msg : \/ msg'[m] = msg[m]
                        \/ MsgOK(msg'[m]) /\ (m = a \/ run[m].pc = "idle")
  PROVE  IInv'
  <1>1. ASSUME NEW b \in Agent, b # a PROVE RunOK(b, run'[b])
    <2>1. run'[b] = run[b] /\ run[b] \in Run
      BY <1>1 DEF IInv, TypeOK
    <2>2. b \in Msg /\ run[b].pc # "idle" => msg'[b] = msg[b] /\ run[b].chan \in charged'
      BY <1>1 DEF IInv, ChargedFirst
    <2>3. b \in Msg =>
            /\ run[b].pc # "idle" => run[b].chan \in charged' /\ msg'[b].kind = "result"
            /\ run[b].pc \in {"giveback", "zero", "charge"} => run[b].chan < NumChannels
            /\ run[b].pc \in {"rotate", "republish"} => msg'[b].tries < MaxTries
      BY <2>2 DEF IInv, HandlerInv
    <2> QED
      BY <2>1, <2>3 DEF RunOK, IInv, ChargedInv, RowOK
  <1>2. \A b \in Agent : RunOK(b, run'[b])
    BY <1>1
  <1>3. ASSUME NEW m \in Msg, msg'[m] = msg[m] PROVE MsgOK(msg'[m])
    BY <1>3 DEF MsgOK, IInv, TypeOK, ChargedFirst, MessageInv
  <1>4. \A m \in Msg : MsgOK(msg'[m])
    BY <1>3
  <1>5. run' = [b \in Agent |-> run'[b]]
    BY DEF IInv, TypeOK
  <1> QED
    BY <1>2, <1>4, <1>5, Parts

\* The same for a step that leaves row and ledger alone.
LEMMA QuietStep ==
  ASSUME IInv, NEW a \in Agent, UNCHANGED <<task, ledger, old>>,
         run' = [run EXCEPT ![a] = run'[a]], RunOK(a, run'[a]),
         msg' = [m \in Msg |-> msg'[m]],
         \A m \in Msg : \/ msg'[m] = msg[m]
                        \/ MsgOK(msg'[m]) /\ (m = a \/ run[m].pc = "idle")
  PROVE  IInv'
  <1>1. /\ task' \in Task /\ old' \in BOOLEAN
        /\ RowOK'
        /\ charged \subseteq charged' /\ charged' \subseteq Channel
        /\ \A c \in charged' : 1..c \subseteq charged'
        /\ refunded' \subseteq Channel \X Reason
        /\ \A c \in Channel : <<c, "channel_retry">> \in refunded' => c \in charged'
    BY DEF IInv, TypeOK, ChargedFirst, ChargedInv, RowOK, ledger
  <1> QED
    BY <1>1, AgentStep

\* mq.Publish puts a message where none was and nobody is at work.
LEMMA SendStep ==
  ASSUME IInv, NEW new \in Message, Send(new), charged \subseteq charged',
         new.kind # "none" => new.chan \in charged',
         new.kind = "result" /\ new.outcome = "pool_key" => new.tries < MaxTries
  PROVE  /\ msg' = [m \in Msg |-> msg'[m]]
         /\ \A m \in Msg : \/ msg'[m] = msg[m]
                           \/ MsgOK(msg'[m]) /\ run[m].pc = "idle"
  <1>1. PICK m \in Free : msg' = [msg EXCEPT ![m] = [new EXCEPT !.left = MaxDeliver]]
    BY DEF Send
  <1>2. m \in Msg /\ run[m].pc = "idle" /\ msg \in [Msg -> Message]
    BY DEF Free, IInv, TypeOK
  <1>3. MsgOK([new EXCEPT !.left = MaxDeliver])
    BY ConstantsAssumption DEF MsgOK, Message
  <1> QED
    BY <1>1, <1>2, <1>3

\* A message that is delivered is gone or has a delivery left.
LEMMA DeliveredOK ==
  ASSUME IInv, NEW m \in Msg, NEW acked \in BOOLEAN, msg[m].kind # "none",
         charged \subseteq charged'
  PROVE  MsgOK(Delivered(m, acked))
  <1>1. msg[m] \in Message /\ msg[m].left # 0
    BY DEF IInv, TypeOK, MessageInv
  <1>2. MsgOK(NoMsg)
    BY ConstantsAssumption DEF MsgOK, NoMsg, Message, Channel, Outcome
  <1>3. msg[m].left # 1 => MsgOK([msg[m] EXCEPT !.left = msg[m].left - 1])
    BY <1>1, ConstantsAssumption DEF MsgOK, Message, IInv, ChargedFirst, MessageInv
  <1> QED
    BY <1>2, <1>3 DEF Delivered

LEMMA JobType ==
  ASSUME NEW chan \in Channel, NEW credits \in BOOLEAN, NEW tries \in 0..MaxTries,
         NEW outcome \in Outcome
  PROVE  /\ Job(chan, credits, tries) \in Message
         /\ Job(chan, credits, tries).kind = "job"
         /\ Job(chan, credits, tries).chan = chan
         /\ Result(chan, credits, tries, outcome) \in Message
         /\ Result(chan, credits, tries, outcome).kind = "result"
         /\ Result(chan, credits, tries, outcome).chan = chan
         /\ Result(chan, credits, tries, outcome).tries = tries
         /\ Result(chan, credits, tries, outcome).outcome = outcome
  <1> DEFINE j == Job(chan, credits, tries)
             r == Result(chan, credits, tries, outcome)
  <1>1. NoMsg \in Message
    BY ConstantsAssumption DEF NoMsg, Message, Channel, Outcome
  <1>2. j \in Message /\ j.kind = "job" /\ j.chan = chan /\ j.tries = tries
    BY <1>1 DEF Job, Message
  <1>3. r \in Message /\ r.kind = "result" /\ r.chan = chan /\ r.tries = tries
        /\ r.outcome = outcome
    <2> HIDE DEF j
    <2>1. r = [j EXCEPT !.kind = "result", !.outcome = outcome]
      BY DEF Result, j
    <2> HIDE DEF r
    <2> QED
      BY <1>2, <2>1 DEF Message
  <1> QED
    BY <1>2, <1>3

LEMMA SendJob ==
  ASSUME IInv, NEW chan \in Channel, NEW credits \in BOOLEAN, NEW tries \in 0..MaxTries,
         Send(Job(chan, credits, tries)), charged \subseteq charged', chan \in charged'
  PROVE  /\ msg' = [m \in Msg |-> msg'[m]]
         /\ \A m \in Msg : \/ msg'[m] = msg[m]
                           \/ MsgOK(msg'[m]) /\ run[m].pc = "idle"
  <1> DEFINE new == Job(chan, credits, tries)
  <1>1. new \in Message /\ new.kind = "job" /\ new.chan = chan
    BY JobType DEF Outcome
  <1> HIDE DEF new
  <1>2. Send(new)
    BY DEF new
  <1> QED
    BY <1>1, <1>2, SendStep

LEMMA SendFailed ==
  ASSUME IInv, NEW chan \in Channel, NEW credits \in BOOLEAN,
         Send(Result(chan, credits, 0, "failed")), charged \subseteq charged',
         chan \in charged'
  PROVE  /\ msg' = [m \in Msg |-> msg'[m]]
         /\ \A m \in Msg : \/ msg'[m] = msg[m]
                           \/ MsgOK(msg'[m]) /\ run[m].pc = "idle"
  <1> DEFINE new == Result(chan, credits, 0, "failed")
  <1>1. new \in Message /\ new.chan = chan /\ new.outcome = "failed"
    BY JobType, ConstantsAssumption DEF Outcome
  <1> HIDE DEF new
  <1>2. Send(new)
    BY DEF new
  <1> QED
    BY <1>1, <1>2, SendStep

\* A step that may change the row's status and credits, not the channel it names.
LEMMA RowStep ==
  ASSUME IInv, NEW a \in Agent, UNCHANGED <<ledger, old>>,
         NEW status \in Status, NEW credits \in BOOLEAN,
         task' = [task EXCEPT !.status = status, !.credits = credits],
         run' = [run EXCEPT ![a] = run'[a]], RunOK(a, run'[a]),
         msg' = [m \in Msg |-> msg'[m]],
         \A m \in Msg : \/ msg'[m] = msg[m]
                        \/ MsgOK(msg'[m]) /\ (m = a \/ run[m].pc = "idle")
  PROVE  IInv'
  <1>1. task' \in Task /\ task'.chan = task.chan /\ task'.upstream = task.upstream
    BY DEF IInv, TypeOK, Task
  <1>2. /\ old' \in BOOLEAN
        /\ RowOK'
        /\ charged \subseteq charged' /\ charged' \subseteq Channel
        /\ \A c \in charged' : 1..c \subseteq charged'
        /\ refunded' \subseteq Channel \X Reason
        /\ \A c \in Channel : <<c, "channel_retry">> \in refunded' => c \in charged'
    BY <1>1 DEF IInv, TypeOK, ChargedFirst, ChargedInv, RowOK, ledger
  <1> QED
    BY <1>1, <1>2, AgentStep

\* The messages of a step that leaves them alone.
LEMMA MsgKept ==
  ASSUME IInv, UNCHANGED msg
  PROVE  msg' = [m \in Msg |-> msg'[m]] /\ \A m \in Msg : msg'[m] = msg[m]
  BY DEF IInv, TypeOK

LEMMA MsgExcept ==
  ASSUME IInv, NEW m \in Msg, NEW x, msg' = [msg EXCEPT ![m] = x]
  PROVE  /\ msg' = [k \in Msg |-> msg'[k]] /\ msg'[m] = x
         /\ \A k \in Msg : k # m => msg'[k] = msg[k]
  BY DEF IInv, TypeOK

LEMMA EnterOK ==
  ASSUME IInv, NEW a \in Agent, NEW new, Enter(a, new), RunOK(a, new)
  PROVE  run' = [run EXCEPT ![a] = run'[a]] /\ RunOK(a, run'[a])
  <1>1. run'[a] = new
    BY DEF Enter, IInv, TypeOK
  <1> QED
    BY <1>1 DEF Enter

\* An agent at work goes on.
LEMMA GotoOK ==
  ASSUME IInv, NEW a \in Agent, NEW pc \in PC, Goto(a, pc), charged \subseteq charged',
         run[a].pc # "idle", a \in Msg => msg'[a] = msg[a],
         a \in Msg /\ pc \in {"giveback", "zero", "charge"} => run[a].chan < NumChannels,
         a \in Msg /\ pc \in {"rotate", "republish"} => msg[a].tries < MaxTries,
         a = Creator /\ pc \in {"charged", "mark", "unpublished"} => 1 \in charged'
  PROVE  run' = [run EXCEPT ![a] = run'[a]] /\ RunOK(a, run'[a])
  <1> DEFINE new == [run[a] EXCEPT !.pc = pc]
  <1>1. run[a] \in Run
    BY DEF IInv, TypeOK
  <1>2. new \in Run /\ new.pc = pc /\ new.chan = run[a].chan /\ new.reason = run[a].reason
    BY <1>1, GotoRun
  <1>3. Enter(a, new)
    BY DEF Goto, Enter
  <1> HIDE DEF new
  <1>4. a \in Msg => run[a].chan \in charged' /\ msg'[a].kind = "result"
    BY DEF IInv, ChargedFirst, HandlerInv
  <1>5. a = Poller => run[a].chan \in charged'
    BY DEF IInv, ChargedInv, RowOK
  <1>6. a \notin Msg => run[a].reason # "channel_retry"
    BY DEF IInv, ChargedInv, RowOK
  <1>7. RunOK(a, new)
    BY <1>2, <1>4, <1>5, <1>6 DEF RunOK
  <1> QED
    BY <1>3, <1>7, EnterOK

LEMMA IdleOK ==
  ASSUME NEW a \in Agent
  PROVE  RunOK(a, Idle)
  BY IdleRun DEF RunOK, Idle, At

\* failTaskDB is called with the price of a channel that was charged, or by the cleaner.
LEMMA FailTaskOK ==
  ASSUME IInv, NEW a \in Agent, NEW chan \in Channel, NEW credits \in BOOLEAN,
         NEW reason \in Reason \ {"channel_retry"}, FailTask(a, chan, credits, reason),
         a \in Msg \cup {Poller} => chan \in charged',
         a \in Msg => msg'[a].kind = "result"
  PROVE  run' = [run EXCEPT ![a] = run'[a]] /\ RunOK(a, run'[a])
  <1>1. At("fail", chan, credits, reason) \in Run
    BY AtRun DEF PC
  <1>2. RunOK(a, At("fail", chan, credits, reason))
    BY <1>1 DEF RunOK, At
  <1> QED
    BY <1>2, EnterOK DEF FailTask

LEMMA AfterFailOK ==
  ASSUME IInv, NEW a \in Agent, AfterFail(a), run[a].pc # "idle", charged \subseteq charged',
         a \in Msg => msg'[a] = msg[a]
  PROVE  run' = [run EXCEPT ![a] = run'[a]] /\ RunOK(a, run'[a])
  <1>1. CASE a \in Msg
    <2> DEFINE c == run[a].chan
    <2>1. 1 \in charged'
      <3>1. c \in charged /\ c \in 1..NumChannels
        BY <1>1 DEF IInv, TypeOK, ChargedFirst, Channel
      <3>2. 1 \in 1..c
        BY <3>1, ConstantsAssumption
      <3> QED
        BY <3>1, <3>2 DEF IInv, ChargedFirst
    <2>2. [Idle EXCEPT !.pc = "ack"] \in Run /\ [Idle EXCEPT !.pc = "ack"].pc = "ack"
          /\ [Idle EXCEPT !.pc = "ack"].chan = 1
      BY IdleRun, GotoRun DEF Idle, At, PC
    <2>3. msg'[a].kind = "result"
      BY <1>1 DEF IInv, HandlerInv
    <2>4. RunOK(a, [Idle EXCEPT !.pc = "ack"])
      BY <1>1, <2>1, <2>2, <2>3 DEF RunOK, Msg, Creator, Poller
    <2> QED
      BY <1>1, <2>4, EnterOK DEF AfterFail
  <1>2. CASE a \notin Msg
    BY <1>2, IdleOK, EnterOK DEF AfterFail
  <1> QED
    BY <1>1, <1>2

-----------------------------------------------------------------------------
(* The actions.                                                            *)

LEMMA Agents == /\ Creator \in Agent /\ Cleaner \in Agent /\ Poller \in Agent
                /\ Msg \subseteq Agent /\ Creator \notin Msg /\ Cleaner \notin Msg
                /\ Poller \notin Msg /\ Creator # Poller /\ Cleaner # Poller
                /\ Creator # Cleaner
  BY DEF Agent, Msg, Creator, Cleaner, Poller

LEMMA CreateKeeps == IInv /\ Create => IInv'
  <1> SUFFICES ASSUME IInv, Create PROVE IInv'
    OBVIOUS
  <1> USE Agents
  <1>t. task \in Task /\ task.status \in Status /\ task.credits \in BOOLEAN
    BY DEF IInv, TypeOK, Task
  <1>1. CASE CreateInsert
    <2>1. run' = [run EXCEPT ![Creator] = run'[Creator]] /\ RunOK(Creator, run'[Creator])
      BY <1>1, GotoOK DEF CreateInsert, PC, ledger
    <2>2. "pending" \in Status /\ TRUE \in BOOLEAN
      BY DEF Status
    <2> QED
      BY <1>1, <2>1, <2>2, MsgKept, RowStep DEF CreateInsert
  <1>2. CASE CreateCharge
    <2>1. run' = [run EXCEPT ![Creator] = run'[Creator]] /\ RunOK(Creator, run'[Creator])
      BY <1>2, GotoOK DEF CreateCharge, PC
    <2>2. /\ charged \subseteq charged' /\ charged' \subseteq Channel
          /\ \A c \in charged' : 1..c \subseteq charged'
      BY <1>2, ConstantsAssumption DEF CreateCharge, IInv, TypeOK, ChargedFirst, Channel
    <2>3. /\ task' \in Task /\ RowOK'
          /\ refunded' \subseteq Channel \X Reason /\ old' \in BOOLEAN
          /\ \A c \in Channel : <<c, "channel_retry">> \in refunded' => c \in charged'
      BY <1>2, <2>2 DEF CreateCharge, IInv, TypeOK, ChargedFirst, ChargedInv, RowOK
    <2> QED
      BY <1>2, <2>1, <2>2, <2>3, MsgKept, AgentStep DEF CreateCharge
  <1>3. CASE CreateChargeFails
    <2>1. run' = [run EXCEPT ![Creator] = run'[Creator]] /\ RunOK(Creator, run'[Creator])
      BY <1>3, GotoOK DEF CreateChargeFails, PC, ledger
    <2>2. "failed" \in Status /\ task' = [task EXCEPT !.status = "failed", !.credits = task.credits]
      BY <1>3, <1>t DEF CreateChargeFails, Status, Task
    <2> QED
      BY <1>3, <1>t, <2>1, <2>2, MsgKept, RowStep DEF CreateChargeFails
  <1>j. run[Creator].pc = "charged" => 1 \in charged /\ 1 \in Channel /\ 0 \in 0..MaxTries
    BY ConstantsAssumption DEF IInv, TypeOK, ChargedInv, RowOK
  <1>4. CASE CreatePublish
    <2>1. run' = [run EXCEPT ![Creator] = run'[Creator]] /\ RunOK(Creator, run'[Creator])
      BY <1>4, <1>j, GotoOK DEF CreatePublish, PC, ledger
    <2>2. /\ msg' = [m \in Msg |-> msg'[m]]
          /\ \A m \in Msg : msg'[m] = msg[m] \/ (MsgOK(msg'[m]) /\ run[m].pc = "idle")
      BY <1>4, <1>j, SendJob DEF CreatePublish, ledger
    <2> QED
      BY <1>4, <2>1, <2>2, QuietStep DEF CreatePublish
  <1>5. CASE CreatePublishFails
    <2>1. run' = [run EXCEPT ![Creator] = run'[Creator]] /\ RunOK(Creator, run'[Creator])
      BY <1>5, <1>j, GotoOK DEF CreatePublishFails, PC, ledger
    <2>2. /\ msg' = [m \in Msg |-> msg'[m]]
          /\ \A m \in Msg : msg'[m] = msg[m] \/ (MsgOK(msg'[m]) /\ run[m].pc = "idle")
      BY <1>5, <1>j, SendJob, MsgKept DEF CreatePublishFails, ledger
    <2>3. "failed" \in Status /\ task' = [task EXCEPT !.status = "failed", !.credits = task.credits]
      BY <1>5, <1>t DEF CreatePublishFails, Status, Task
    <2> QED
      BY <1>5, <1>t, <2>1, <2>2, <2>3, RowStep DEF CreatePublishFails
  <1>6. CASE CreateRefund
    <2>1. run' = [run EXCEPT ![Creator] = run'[Creator]] /\ RunOK(Creator, run'[Creator])
      BY <1>6, GotoOK DEF CreateRefund, PC
    <2>2. /\ refunded' \subseteq Channel \X Reason
          /\ \A c \in Channel : <<c, "channel_retry">> \in refunded' => c \in charged'
      BY <1>6, ConstantsAssumption DEF CreateRefund, IInv, TypeOK, ChargedFirst, Channel, Reason
    <2>3. /\ task' \in Task /\ RowOK'
          /\ charged \subseteq charged' /\ charged' \subseteq Channel /\ old' \in BOOLEAN
          /\ \A c \in charged' : 1..c \subseteq charged'
      BY <1>6 DEF CreateRefund, IInv, TypeOK, ChargedFirst, ChargedInv, RowOK
    <2> QED
      BY <1>6, <2>1, <2>2, <2>3, MsgKept, AgentStep DEF CreateRefund
  <1>7. CASE CreateMark
    <2>1. run' = [run EXCEPT ![Creator] = run'[Creator]] /\ RunOK(Creator, run'[Creator])
      BY <1>7, GotoOK DEF CreateMark, PC, ledger
    <2>2. "processing" \in Status
          /\ task' = [task EXCEPT !.status = "processing", !.credits = task.credits]
      BY <1>7, <1>t DEF CreateMark, Status, Task
    <2> QED
      BY <1>7, <1>t, <2>1, <2>2, MsgKept, RowStep DEF CreateMark
  <1> QED
    BY <1>1, <1>2, <1>3, <1>4, <1>5, <1>6, <1>7 DEF Create

\* Nothing but messages that nobody is at work on, and m's own, change.
LEMMA StreamStep ==
  ASSUME IInv, NEW m \in Msg, UNCHANGED <<task, ledger, run, old>>, run[m].pc = "idle",
         msg' = [k \in Msg |-> msg'[k]],
         \A k \in Msg : \/ msg'[k] = msg[k]
                        \/ MsgOK(msg'[k]) /\ run[k].pc = "idle"
  PROVE  IInv'
  <1>1. run' = [run EXCEPT ![m] = run'[m]] /\ run'[m] \in Run /\ run'[m].pc = "idle"
    BY Agents DEF IInv, TypeOK
  <1>2. RunOK(m, run'[m])
    BY <1>1, Agents DEF RunOK
  <1> QED
    BY <1>1, <1>2, Agents, QuietStep

LEMMA WorkerKeeps == ASSUME IInv, NEW m \in Msg, WorkerRuns(m) \/ WorkerDies(m) PROVE IInv'
  <1>1. CASE WorkerRuns(m)
    <2>1. msg[m].kind = "job" /\ run[m].pc = "idle" /\ UNCHANGED <<task, ledger, run, old>>
      BY <1>1 DEF WorkerRuns, Deliverable
    <2>2. PICK outcome \in Outcome, acked \in BOOLEAN, r \in Free \cup {m} :
            /\ outcome = "pool_key" => msg[m].tries < MaxTries
            /\ msg' = [msg EXCEPT ![m] = Delivered(m, acked),
                         ![r] = [Result(msg[m].chan, msg[m].credits, msg[m].tries, outcome)
                                   EXCEPT !.left = MaxDeliver]]
      BY <1>1 DEF WorkerRuns
    <2> DEFINE res == Result(msg[m].chan, msg[m].credits, msg[m].tries, outcome)
               sent == [res EXCEPT !.left = MaxDeliver]
    <2>3. msg[m].chan \in Channel /\ msg[m].credits \in BOOLEAN /\ msg[m].tries \in 0..MaxTries
          /\ msg[m].chan \in charged'
      BY <2>1 DEF IInv, TypeOK, Message, ChargedFirst, ledger
    <2>4. res \in Message /\ res.kind = "result" /\ res.chan = msg[m].chan
          /\ res.tries = msg[m].tries /\ res.outcome = outcome
      BY <2>3, JobType
    <2>5. MsgOK(sent)
      <3> HIDE DEF res
      <3> QED
        BY <2>2, <2>3, <2>4, ConstantsAssumption DEF MsgOK, Message
    <2>6. MsgOK(Delivered(m, acked))
      BY <2>1, DeliveredOK DEF ledger
    <2>7. r \in Msg /\ run[r].pc = "idle"
      BY <2>1 DEF Free
    <2> HIDE DEF sent
    <2>8. msg' = [k \in Msg |-> IF k = r THEN sent
                                ELSE IF k = m THEN Delivered(m, acked) ELSE msg[k]]
      BY <2>2, <2>7 DEF IInv, TypeOK, sent
    <2>9. /\ msg' = [k \in Msg |-> msg'[k]]
          /\ \A k \in Msg : msg'[k] = msg[k] \/ (MsgOK(msg'[k]) /\ run[k].pc = "idle")
      BY <2>1, <2>5, <2>6, <2>7, <2>8
    <2> QED
      BY <2>1, <2>9, StreamStep
  <1>2. CASE WorkerDies(m)
    <2>1. msg[m].kind = "job" /\ run[m].pc = "idle" /\ UNCHANGED <<task, ledger, run, old>>
      BY <1>2 DEF WorkerDies, Deliverable
    <2>2. PICK terminated \in BOOLEAN : msg' = [msg EXCEPT ![m] = Delivered(m, terminated)]
      BY <1>2 DEF WorkerDies
    <2>3. MsgOK(Delivered(m, terminated))
      BY <2>1, DeliveredOK DEF ledger
    <2> QED
      BY <2>1, <2>2, <2>3, MsgExcept, StreamStep
  <1> QED
    BY <1>1, <1>2

\* The batch writer.
LEMMA WriteKeeps ==
  ASSUME IInv, NEW m \in Msg, Deliverable(m, "result"), msg[m].kind = "result",
         NEW status \in Status, NEW upstream \in 0..NumChannels,
         upstream # 0 => task.chan \in charged,
         WriteOutcome(m, status, upstream)
  PROVE  IInv'
  <1>1. PICK acked \in BOOLEAN : msg' = [msg EXCEPT ![m] = Delivered(m, acked)]
    BY DEF WriteOutcome
  <1>2. UNCHANGED <<ledger, run, old>> /\ run[m].pc = "idle"
    BY DEF WriteOutcome, Deliverable
  <1>3. MsgOK(Delivered(m, acked))
    BY <1>2, DeliveredOK DEF ledger
  <1>4. task' \in Task /\ RowOK'
    BY <1>2 DEF WriteOutcome, IInv, TypeOK, Task, ChargedInv, RowOK, ledger
  <1>5. /\ charged \subseteq charged' /\ charged' \subseteq Channel /\ old' \in BOOLEAN
        /\ \A c \in charged' : 1..c \subseteq charged'
        /\ refunded' \subseteq Channel \X Reason
        /\ \A c \in Channel : <<c, "channel_retry">> \in refunded' => c \in charged'
    BY <1>2 DEF IInv, TypeOK, ChargedFirst, ledger
  <1>6. run' = [run EXCEPT ![m] = run'[m]] /\ run'[m] \in Run /\ run'[m].pc = "idle"
    BY <1>2, Agents DEF IInv, TypeOK
  <1>7. RunOK(m, run'[m])
    BY <1>6, Agents DEF RunOK
  <1>8. /\ msg' = [k \in Msg |-> msg'[k]]
        /\ \A k \in Msg : \/ msg'[k] = msg[k]
                          \/ MsgOK(msg'[k]) /\ (k = m \/ run[k].pc = "idle")
    <2>1. /\ msg' = [k \in Msg |-> msg'[k]] /\ msg'[m] = Delivered(m, acked)
          /\ \A k \in Msg : k # m => msg'[k] = msg[k]
      BY <1>1 DEF IInv, TypeOK
    <2> QED
      BY <1>3, <2>1
  <1> QED
    BY <1>4, <1>5, <1>6, <1>7, <1>8, Agents, AgentStep

\* What is known of a message that is delivered and of a handler at work.
LEMMA HandlerFacts ==
  ASSUME IInv, NEW m \in Msg
  PROVE  /\ task \in Task /\ task.status \in Status /\ task.credits \in BOOLEAN
         /\ run[m] \in Run /\ run[m].chan \in Channel /\ run[m].credits \in BOOLEAN
         /\ msg[m] \in Message /\ msg[m].chan \in Channel /\ msg[m].credits \in BOOLEAN
         /\ msg[m].tries \in 0..MaxTries
         /\ msg[m].kind = "result" => msg[m].chan \in charged /\ task.chan \in charged
         /\ run[m].pc # "idle" => run[m].chan \in charged /\ msg[m].kind = "result"
  <1>1. /\ task \in Task /\ run[m] \in Run /\ msg[m] \in Message
        /\ msg[m].kind = "result" => msg[m].chan \in charged
        /\ run[m].pc # "idle" => run[m].chan \in charged /\ msg[m].kind = "result"
    BY Agents DEF IInv, TypeOK, ChargedFirst, HandlerInv
  <1>2. ASSUME NEW c \in charged PROVE 1 \in charged
    <2>1. c \in 1..NumChannels
      BY DEF IInv, TypeOK, Channel
    <2>2. 1 \in 1..c
      BY <2>1, ConstantsAssumption
    <2> QED
      BY <2>2 DEF IInv, ChargedFirst
  <1>3. msg[m].kind = "result" => task.chan \in charged
    BY <1>1, <1>2 DEF IInv, ChargedInv, RowOK
  <1> QED
    BY <1>1, <1>3 DEF Task, Run, Message

LEMMA HandleKeeps == ASSUME IInv, NEW m \in Msg, Handle(m) PROVE IInv'
  <1> USE Agents, HandlerFacts
  <1>1. CASE HandleDone(m)
    <2>1. task.upstream \in 0..NumChannels /\ "done" \in Status
      BY DEF Task, Status
    <2>2. Deliverable(m, "result") /\ msg[m].kind = "result"
          /\ WriteOutcome(m, "done", task.upstream)
      BY <1>1 DEF HandleDone, Deliverable
    <2> QED
      BY <2>1, <2>2, WriteKeeps
  <1>2. CASE HandleAsync(m)
    <2>1. Deliverable(m, "result") /\ msg[m].kind = "result"
          /\ WriteOutcome(m, "processing", msg[m].chan) /\ "processing" \in Status
      BY <1>2 DEF HandleAsync, Deliverable, Status
    <2>2. msg[m].chan \in 0..NumChannels
      BY ConstantsAssumption DEF Channel
    <2> QED
      BY <2>1, <2>2, WriteKeeps
  <1>3. CASE HandleFailed(m)
    <2>1. msg[m].kind = "result" /\ UNCHANGED <<task, ledger, msg, old>>
          /\ charged' = charged
      BY <1>3 DEF HandleFailed, Deliverable, ledger
    <2>2. CASE FailTask(m, msg[m].chan, msg[m].credits, "error")
      <3>1. run' = [run EXCEPT ![m] = run'[m]] /\ RunOK(m, run'[m])
        BY <2>1, <2>2, FailTaskOK DEF Reason
      <3> QED
        BY <2>1, <3>1, MsgKept, QuietStep
    <2>3. CASE /\ msg[m].chan < NumChannels
               /\ Enter(m, At(IF msg[m].credits THEN "giveback" ELSE "charge", msg[m].chan,
                              msg[m].credits, "channel_retry"))
      <3> DEFINE pc == IF msg[m].credits THEN "giveback" ELSE "charge"
                 new == At(pc, msg[m].chan, msg[m].credits, "channel_retry")
      <3>1. new \in Run
        BY AtRun DEF PC, Reason
      <3>2. RunOK(m, new)
        BY <2>1, <2>3, <3>1 DEF RunOK, At
      <3>3. Enter(m, new)
        BY <2>3
      <3> HIDE DEF new
      <3>4. run' = [run EXCEPT ![m] = run'[m]] /\ RunOK(m, run'[m])
        BY <3>2, <3>3, EnterOK
      <3> QED
        BY <2>1, <3>4, MsgKept, QuietStep
    <2> QED
      BY <1>3, <2>2, <2>3 DEF HandleFailed
  <1>4. CASE HandlePoolKey(m)
    <2> DEFINE new == At("rotate", msg[m].chan, msg[m].credits, "error")
    <2>1. msg[m].kind = "result" /\ UNCHANGED <<task, ledger, msg, old>>
          /\ charged' = charged /\ msg[m].tries < MaxTries
      BY <1>4 DEF HandlePoolKey, Deliverable, ledger, IInv, MessageInv
    <2>2. new \in Run
      BY AtRun DEF PC, Reason
    <2>3. RunOK(m, new)
      BY <2>1, <2>2 DEF RunOK, At
    <2>4. Enter(m, new)
      BY <1>4 DEF HandlePoolKey
    <2> HIDE DEF new
    <2>5. run' = [run EXCEPT ![m] = run'[m]] /\ RunOK(m, run'[m])
      BY <2>3, <2>4, EnterOK
    <2> QED
      BY <2>1, <2>5, MsgKept, QuietStep
  <1>5. CASE Rotate(m)
    <2>1. run' = [run EXCEPT ![m] = run'[m]] /\ RunOK(m, run'[m])
      BY <1>5, GotoOK DEF Rotate, PC, ledger, IInv, HandlerInv
    <2>2. PICK status \in Status :
            task' = [task EXCEPT !.status = status, !.credits = task.credits]
      <3>1. task' = [task EXCEPT !.status = "processing", !.credits = task.credits]
            \/ task' = [task EXCEPT !.status = task.status, !.credits = task.credits]
        BY <1>5 DEF Rotate, Task
      <3> QED
        BY <3>1 DEF Status
    <2> QED
      BY <1>5, <2>1, <2>2, MsgKept, RowStep DEF Rotate
  <1>6. CASE Republish(m) \/ RepublishFails(m)
    <2>1. run[m].pc = "republish" /\ UNCHANGED <<task, ledger, old>> /\ charged' = charged
          /\ msg[m].tries + 1 \in 0..MaxTries
      BY <1>6, ConstantsAssumption DEF Republish, RepublishFails, ledger, IInv, HandlerInv
    <2>2. Send(Job(run[m].chan, run[m].credits, msg[m].tries + 1)) \/ UNCHANGED msg
      BY <1>6 DEF Republish, RepublishFails
    <2>3. /\ msg' = [k \in Msg |-> msg'[k]]
          /\ \A k \in Msg : msg'[k] = msg[k] \/ (MsgOK(msg'[k]) /\ run[k].pc = "idle")
      BY <2>1, <2>2, SendJob, MsgKept
    <2>4. msg'[m] = msg[m]
      BY <2>1, <2>2, MsgKept, ConstantsAssumption DEF Send, Free, IInv, TypeOK
    <2>5. run' = [run EXCEPT ![m] = run'[m]] /\ RunOK(m, run'[m])
      BY <1>6, <2>1, <2>4, GotoOK DEF Republish, RepublishFails, PC
    <2> QED
      BY <2>1, <2>3, <2>5, QuietStep
  <1>7. CASE GiveBack(m)
    <2>1. run[m].pc = "giveback" /\ UNCHANGED <<task, charged, msg, old>>
          /\ refunded' = refunded \cup {<<run[m].chan, "channel_retry">>}
          /\ Goto(m, "zero") /\ run[m].chan < NumChannels
      BY <1>7 DEF GiveBack, IInv, HandlerInv
    <2>2. run' = [run EXCEPT ![m] = run'[m]] /\ RunOK(m, run'[m])
      BY <2>1, GotoOK DEF PC
    <2>3. /\ refunded' \subseteq Channel \X Reason
          /\ \A c \in Channel : <<c, "channel_retry">> \in refunded' => c \in charged'
      BY <2>1 DEF IInv, TypeOK, ChargedFirst, Reason
    <2>4. /\ task' \in Task /\ RowOK' /\ charged' \subseteq Channel /\ old' \in BOOLEAN
          /\ charged \subseteq charged' /\ \A c \in charged' : 1..c \subseteq charged'
      BY <2>1 DEF IInv, TypeOK, ChargedFirst, ChargedInv, RowOK
    <2> QED
      BY <2>1, <2>2, <2>3, <2>4, MsgKept, AgentStep
  <1>8. CASE GiveBackFails(m)
    <2>1. run' = [run EXCEPT ![m] = run'[m]] /\ RunOK(m, run'[m])
      BY <1>8, FailTaskOK DEF GiveBackFails, Reason, ledger
    <2> QED
      BY <1>8, <2>1, MsgKept, QuietStep DEF GiveBackFails
  <1>9. CASE ZeroCredits(m)
    <2>1. run' = [run EXCEPT ![m] = run'[m]] /\ RunOK(m, run'[m])
      BY <1>9, GotoOK DEF ZeroCredits, PC, ledger, IInv, HandlerInv
    <2>2. task' = [task EXCEPT !.status = task.status, !.credits = FALSE]
      BY <1>9 DEF ZeroCredits, Task
    <2> QED
      BY <1>9, <2>1, <2>2, MsgKept, RowStep DEF ZeroCredits
  <1>10. CASE ChargeNext(m)
    <2> DEFINE next == run[m].chan + 1
    <2>1. run[m].pc = "charge" /\ UNCHANGED <<task, refunded, msg, old>>
          /\ run[m].chan < NumChannels /\ run[m].chan \in charged /\ msg[m].kind = "result"
      BY <1>10 DEF ChargeNext, IInv, HandlerInv
    <2>2. CASE charged' = charged \cup {next} /\ Enter(m, At("update", next, TRUE, "publish"))
      <3> DEFINE new == At("update", next, TRUE, "publish")
      <3>1. next \in Channel /\ 1..next = 1..run[m].chan \cup {next}
        BY <2>1, ConstantsAssumption DEF Channel
      <3>2. new \in Run
        BY <3>1, AtRun DEF PC, Reason
      <3>3. RunOK(m, new)
        BY <2>1, <2>2, <3>2 DEF RunOK, At
      <3>4. Enter(m, new)
        BY <2>2
      <3> HIDE DEF new
      <3>5. run' = [run EXCEPT ![m] = run'[m]] /\ RunOK(m, run'[m])
        BY <3>3, <3>4, EnterOK
      <3>6. /\ charged \subseteq charged' /\ charged' \subseteq Channel
            /\ \A c \in charged' : 1..c \subseteq charged'
        <4> HIDE DEF next
        <4> QED
          BY <2>1, <2>2, <3>1 DEF IInv, TypeOK, ChargedFirst
      <3>7. /\ task' \in Task /\ RowOK' /\ old' \in BOOLEAN
            /\ refunded' \subseteq Channel \X Reason
            /\ \A c \in Channel : <<c, "channel_retry">> \in refunded' => c \in charged'
        BY <2>1, <3>6 DEF IInv, TypeOK, ChargedFirst, ChargedInv, RowOK
      <3> QED
        BY <2>1, <3>5, <3>6, <3>7, MsgKept, AgentStep
    <2>3. CASE UNCHANGED charged /\ FailTask(m, run[m].chan, FALSE, "error")
      <3>1. run' = [run EXCEPT ![m] = run'[m]] /\ RunOK(m, run'[m])
        BY <2>1, <2>3, FailTaskOK DEF Reason
      <3> QED
        BY <2>1, <2>3, <3>1, MsgKept, QuietStep DEF ledger
    <2> QED
      BY <1>10, <2>2, <2>3 DEF ChargeNext
  <1>11. CASE UpdateTask(m)
    <2>1. run[m].pc = "update" /\ UNCHANGED <<ledger, msg, old>> /\ run[m].chan \in charged
          /\ task' = [task EXCEPT !.status = "processing", !.chan = run[m].chan, !.credits = TRUE]
      BY <1>11 DEF UpdateTask
    <2>2. run' = [run EXCEPT ![m] = run'[m]] /\ RunOK(m, run'[m])
      BY <1>11, GotoOK DEF UpdateTask, PC, ledger
    <2>3. task' \in Task /\ task'.chan = run[m].chan
      BY <2>1 DEF Task, Status
    <2>4. /\ RowOK' /\ charged' \subseteq Channel /\ old' \in BOOLEAN
          /\ charged \subseteq charged' /\ \A c \in charged' : 1..c \subseteq charged'
          /\ refunded' \subseteq Channel \X Reason
          /\ \A c \in Channel : <<c, "channel_retry">> \in refunded' => c \in charged'
      BY <2>1, <2>3 DEF IInv, TypeOK, ChargedFirst, RowOK, ledger
    <2> QED
      BY <2>1, <2>2, <2>3, <2>4, MsgKept, AgentStep
  <1>12. CASE PublishNext(m) \/ PublishNextFails(m)
    <2>1. run[m].pc = "publish" /\ UNCHANGED <<task, ledger, old>> /\ charged' = charged
      BY <1>12 DEF PublishNext, PublishNextFails, ledger
    <2>2. Send(Job(run[m].chan, TRUE, 0)) \/ UNCHANGED msg
      BY <1>12 DEF PublishNext, PublishNextFails
    <2>3. /\ msg' = [k \in Msg |-> msg'[k]]
          /\ \A k \in Msg : msg'[k] = msg[k] \/ (MsgOK(msg'[k]) /\ run[k].pc = "idle")
      <3>1. run[m].chan \in Channel /\ run[m].chan \in charged /\ 0 \in 0..MaxTries
        BY <2>1, ConstantsAssumption
      <3>2. CASE Send(Job(run[m].chan, TRUE, 0))
        BY <2>1, <3>1, <3>2, SendJob
      <3> QED
        BY <2>2, <3>2, MsgKept
    <2>4. msg'[m] = msg[m]
      BY <2>1, <2>2, MsgKept DEF Send, Free, IInv, TypeOK
    <2>5. run' = [run EXCEPT ![m] = run'[m]] /\ RunOK(m, run'[m])
      BY <1>12, <2>1, <2>4, GotoOK DEF PublishNext, PublishNextFails, PC
    <2> QED
      BY <2>1, <2>3, <2>5, QuietStep
  <1>13. CASE Ack(m)
    <2>1. run' = [run EXCEPT ![m] = run'[m]] /\ RunOK(m, run'[m])
      BY <1>13, IdleOK, EnterOK DEF Ack
    <2>2. MsgOK(NoMsg)
      BY ConstantsAssumption DEF MsgOK, NoMsg, Message, Channel, Outcome
    <2>3. UNCHANGED <<task, ledger, old>> /\ msg' = [msg EXCEPT ![m] = NoMsg]
      BY <1>13 DEF Ack
    <2>4. /\ msg' = [k \in Msg |-> msg'[k]] /\ msg'[m] = NoMsg
          /\ \A k \in Msg : k # m => msg'[k] = msg[k]
      BY <2>3, MsgExcept
    <2>5. \A k \in Msg : \/ msg'[k] = msg[k]
                         \/ MsgOK(msg'[k]) /\ (k = m \/ run[k].pc = "idle")
      BY <2>2, <2>4
    <2> QED
      BY <2>1, <2>3, <2>4, <2>5, QuietStep
  <1> QED
    BY <1>1, <1>2, <1>3, <1>4, <1>5, <1>6, <1>7, <1>8, <1>9, <1>10, <1>11, <1>12, <1>13
       DEF Handle

LEMMA FailKeeps == ASSUME IInv, NEW a \in Agent, Fail(a) PROVE IInv'
  <1>t. /\ task \in Task /\ task.status \in Status /\ task.credits \in BOOLEAN
        /\ run[a].chan \in Channel /\ run[a].reason \in Reason
    BY DEF IInv, TypeOK, Task, Run
  <1>1. CASE FailCAS(a)
    <2>1. run' = [run EXCEPT ![a] = run'[a]] /\ RunOK(a, run'[a])
      <3>1. run[a].pc # "idle" /\ UNCHANGED <<ledger, msg>> /\ charged \subseteq charged'
            /\ (Goto(a, "refund") \/ AfterFail(a))
        BY <1>1 DEF FailCAS, ledger
      <3> QED
        BY <3>1, GotoOK, AfterFailOK DEF PC
    <2>2. "failed" \in Status /\ task' = [task EXCEPT !.status = "failed", !.credits = task.credits]
      BY <1>1, <1>t DEF FailCAS, Status, Task
    <2> QED
      BY <1>1, <1>t, <2>1, <2>2, MsgKept, RowStep DEF FailCAS
  <1>2. CASE FailRefund(a)
    <2>1. run' = [run EXCEPT ![a] = run'[a]] /\ RunOK(a, run'[a])
      BY <1>2, GotoOK DEF FailRefund, PC
    <2>2. a \in Msg => run[a].chan \in charged
      BY <1>2 DEF FailRefund, IInv, ChargedFirst
    <2>3. a \notin Msg => run[a].reason # "channel_retry"
      BY DEF IInv, ChargedInv
    <2>4. refunded' = refunded \cup {<<run[a].chan, run[a].reason>>}
          /\ UNCHANGED <<task, charged, msg, old>>
      BY <1>2 DEF FailRefund
    <2>5. /\ refunded' \subseteq Channel \X Reason
          /\ \A c \in Channel : <<c, "channel_retry">> \in refunded' => c \in charged'
      BY <1>t, <2>2, <2>3, <2>4 DEF IInv, TypeOK, ChargedFirst
    <2>6. /\ task' \in Task /\ RowOK' /\ charged' \subseteq Channel /\ old' \in BOOLEAN
          /\ charged \subseteq charged' /\ \A c \in charged' : 1..c \subseteq charged'
      BY <2>4 DEF IInv, TypeOK, ChargedFirst, ChargedInv, RowOK
    <2> QED
      BY <2>1, <2>4, <2>5, <2>6, MsgKept, AgentStep
  <1>3. CASE FailRefundFails(a)
    <2>1. run' = [run EXCEPT ![a] = run'[a]] /\ RunOK(a, run'[a])
      BY <1>3, AfterFailOK DEF FailRefundFails, ledger
    <2> QED
      BY <1>3, <2>1, MsgKept, QuietStep DEF FailRefundFails
  <1>4. CASE ClearCredits(a)
    <2>1. run' = [run EXCEPT ![a] = run'[a]] /\ RunOK(a, run'[a])
      BY <1>4, AfterFailOK DEF ClearCredits, ledger
    <2>2. task' = [task EXCEPT !.status = task.status, !.credits = FALSE]
      BY <1>4, <1>t DEF ClearCredits, Task
    <2> QED
      BY <1>4, <1>t, <2>1, <2>2, MsgKept, RowStep DEF ClearCredits
  <1> QED
    BY <1>1, <1>2, <1>3, <1>4 DEF Fail

LEMMA StopKeeps == ASSUME IInv, NEW a \in Agent, AgentStops(a) PROVE IInv'
  <1>1. run[a].pc # "idle" /\ UNCHANGED <<task, ledger, old>>
    BY DEF AgentStops
  <1>2. run' = [run EXCEPT ![a] = run'[a]] /\ RunOK(a, run'[a])
    <2>1. CASE a = Creator
      <3>1. [Idle EXCEPT !.pc = "ended"] \in Run /\ [Idle EXCEPT !.pc = "ended"].pc = "ended"
            /\ [Idle EXCEPT !.pc = "ended"].reason = "error"
        BY IdleRun, GotoRun DEF Idle, At, PC
      <3>2. RunOK(a, [Idle EXCEPT !.pc = "ended"])
        BY <2>1, <3>1, Agents DEF RunOK
      <3> QED
        BY <2>1, <3>2, EnterOK DEF AgentStops
    <2>2. CASE a # Creator
      BY <2>2, IdleOK, EnterOK DEF AgentStops
    <2> QED
      BY <2>1, <2>2
  <1>3. CASE a \in Msg
    <2>1. MsgOK(Delivered(a, FALSE))
      BY <1>1, <1>3, HandlerFacts, DeliveredOK DEF ledger
    <2>2. msg' = [msg EXCEPT ![a] = Delivered(a, FALSE)]
      BY <1>3 DEF AgentStops
    <2>3. /\ msg' = [k \in Msg |-> msg'[k]] /\ msg'[a] = Delivered(a, FALSE)
          /\ \A k \in Msg : k # a => msg'[k] = msg[k]
      BY <1>3, <2>2, MsgExcept
    <2>4. \A k \in Msg : \/ msg'[k] = msg[k]
                         \/ MsgOK(msg'[k]) /\ (k = a \/ run[k].pc = "idle")
      BY <2>1, <2>3
    <2> QED
      BY <1>1, <1>2, <2>3, <2>4, QuietStep
  <1>4. CASE a \notin Msg
    BY <1>1, <1>2, <1>4, MsgKept, QuietStep DEF AgentStops
  <1> QED
    BY <1>3, <1>4

LEMMA TickersKeep == ASSUME IInv, Poll \/ PollStep \/ Clean \/ Age PROVE IInv'
  <1> USE Agents
  <1>t. /\ task \in Task /\ task.status \in Status /\ task.credits \in BOOLEAN
        /\ task.chan \in Channel /\ task.upstream \in 0..NumChannels
        /\ run[Poller].chan \in Channel /\ run[Poller].credits \in BOOLEAN
    BY DEF IInv, TypeOK, Task, Run
  <1>1. CASE Poll
    <2> DEFINE pc == IF old THEN "report" ELSE "query"
               base == At(pc, task.chan, task.credits, "error")
               new == [base EXCEPT !.up = task.upstream]
    <2>1. base \in Run /\ base.chan = task.chan /\ base.reason = "error"
      <3>1. base \in Run
        BY <1>t, AtRun DEF PC, Reason
      <3> QED
        BY <3>1 DEF At
    <2>2. new \in Run /\ new.chan = task.chan /\ new.reason = "error"
      <3> HIDE DEF base
      <3> QED
        BY <1>t, <2>1 DEF Run
    <2>3. Enter(Poller, new) /\ UNCHANGED <<task, ledger, msg, old>> /\ task.upstream # 0
          /\ charged' = charged
      BY <1>1 DEF Poll, ledger
    <2> HIDE DEF new
    <2>4. RunOK(Poller, new)
      BY <2>2, <2>3 DEF RunOK, IInv, ChargedInv, RowOK
    <2>5. run' = [run EXCEPT ![Poller] = run'[Poller]] /\ RunOK(Poller, run'[Poller])
      BY <2>3, <2>4, EnterOK
    <2> QED
      BY <2>3, <2>5, MsgKept, QuietStep
  <1>2. CASE PollDone
    <2>1. run' = [run EXCEPT ![Poller] = run'[Poller]] /\ RunOK(Poller, run'[Poller])
      BY <1>2, IdleOK, EnterOK DEF PollDone
    <2>2. "done" \in Status /\ task' = [task EXCEPT !.status = "done", !.credits = task.credits]
      BY <1>2, <1>t DEF PollDone, Status, Task
    <2> QED
      BY <1>2, <1>t, <2>1, <2>2, MsgKept, RowStep DEF PollDone
  <1>3. CASE PollFailed \/ PollNothing
    <2>1. run' = [run EXCEPT ![Poller] = run'[Poller]] /\ RunOK(Poller, run'[Poller])
      BY <1>3, GotoOK, IdleOK, EnterOK DEF PollFailed, PollNothing, PC, ledger
    <2> QED
      BY <1>3, <2>1, MsgKept, QuietStep DEF PollFailed, PollNothing
  <1>4. CASE Report \/ ReportFails
    <2>1. run[Poller].pc = "report" /\ UNCHANGED <<task, ledger, old>> /\ charged' = charged
          /\ run[Poller].chan \in charged
      BY <1>4 DEF Report, ReportFails, ledger, IInv, ChargedInv
    <2>2. /\ msg' = [m \in Msg |-> msg'[m]]
          /\ \A m \in Msg : msg'[m] = msg[m] \/ (MsgOK(msg'[m]) /\ run[m].pc = "idle")
      BY <1>4, <1>t, <2>1, SendFailed, MsgKept DEF Report, ReportFails
    <2>3. run' = [run EXCEPT ![Poller] = run'[Poller]] /\ RunOK(Poller, run'[Poller])
      BY <1>4, <2>1, GotoOK, IdleOK, EnterOK DEF Report, ReportFails, PC
    <2> QED
      BY <2>1, <2>2, <2>3, QuietStep
  <1>5. CASE Clean
    <2>1. run' = [run EXCEPT ![Cleaner] = run'[Cleaner]] /\ RunOK(Cleaner, run'[Cleaner])
      BY <1>5, <1>t, FailTaskOK DEF Clean, Reason
    <2> QED
      BY <1>5, <2>1, MsgKept, QuietStep DEF Clean
  <1>6. CASE Age
    BY <1>6 DEF Age, ledger, IInv, TypeOK, ChargedFirst, HandlerInv, MessageInv, ChargedInv, RowOK
  <1> QED
    BY <1>1, <1>2, <1>3, <1>4, <1>5, <1>6 DEF PollStep, Query

LEMMA NextKeeps == IInv /\ [Next]_vars => IInv'
  <1> SUFFICES ASSUME IInv, [Next]_vars PROVE IInv'
    OBVIOUS
  <1>1. CASE UNCHANGED vars
    BY <1>1 DEF vars, ledger, IInv, TypeOK, ChargedFirst, HandlerInv, MessageInv, ChargedInv, RowOK
  <1>2. CASE Next
    BY <1>2, CreateKeeps, WorkerKeeps, HandleKeeps, FailKeeps, StopKeeps, TickersKeep DEF Next
  <1> QED
    BY <1>1, <1>2

\* TypeOK: the row, the ledger, the messages and whoever is at work keep to their types;
\* no handler runs off the list of retry_channel_ids or redelivers a message that is used
\* up (handler.go, nats.go).
THEOREM TaskTypes == Spec => []TypeOK
  <1>1. IInv => TypeOK
    BY DEF IInv
  <1> QED
    BY <1>1, InitIInv, NextKeeps, PTL DEF Spec

\* ChargedFirst: whatever is stale, doubled, lost or made up by the poller, every job,
\* result and handler names a channel with a charge row (proxy.go:315, handler.go:295).
THEOREM WorkIsChargedFirst == Spec => []ChargedFirst
  <1>1. IInv => ChargedFirst
    BY DEF IInv
  <1> QED
    BY <1>1, InitIInv, NextKeeps, PTL DEF Spec

-----------------------------------------------------------------------------
(* Calm operation: the task is in one pair of hands at a time              *)

FailPC == {"fail", "refund", "clear"}

\* Which agent does what.
RolePC(a) ==
  IF a = Creator THEN {"start", "inserted", "charged", "unpublished", "mark", "ended"}
  ELSE FailPC \cup
    (IF a = Cleaner THEN {"idle"}
     ELSE IF a = Poller THEN {"idle", "query", "report"}
     ELSE {"idle", "ack", "rotate", "republish", "giveback", "zero", "charge", "update",
           "publish"})

Roles == \A a \in Agent : run[a].pc \in RolePC(a)

\* Whoever may still charge, refund or finish the task: an agent at work, or a message
\* that waits.  A handler that only has to acknowledge, and the creator's last update of
\* the status, are behind.
Holds(a) ==
  \/ run[a].pc \notin {"idle", "ended", "mark", "ack"}
  \/ a \in Msg /\ run[a].pc = "idle" /\ msg[a].kind # "none"

OneHolder == \A a, b \in Agent : Holds(a) /\ Holds(b) => a = b

\* Channels 1..c were charged, and those before c, or all of them, given back.
Before(c) == {<<d, "channel_retry">> : d \in 1..(c - 1)}
Paid(c) == charged = 1..c /\ refunded = Before(c)
Back(c, r) == charged = 1..c /\ refunded = Before(c) \cup {<<c, r>>}
Returned == \E c \in Channel, r \in Reason : Back(c, r)

Open == task.status \in {"pending", "processing"}

\* The creator's update of the status comes before any answer that is to be polled.
Unpolled == run[Creator].pc = "mark" => task.upstream = 0

\* A task that was failed and given back, unless the creator's update revived it.
Failed == /\ task.status \in {"failed", "processing"}
          /\ task.status = "processing" => task.upstream = 0
          /\ Unpolled

\* What holds of the task while it is paid on channel c, and the row says so.
OnChannel(c, credits) ==
  Open /\ Unpolled /\ Paid(c) /\ credits /\ task.chan = c /\ task.credits

\* What whoever holds the task knows of it, by how far it has come.
HolderOK(a) ==
  LET r == run[a]
  IN /\ r.pc \in {"start", "inserted"} => charged = {} /\ refunded = {}
     /\ r.pc \in {"charged", "unpublished"} => Paid(1)
     /\ r.pc \in {"start", "inserted", "charged"} => task.chan = 1 /\ task.upstream = 0
     /\ r.pc \in {"inserted", "charged"} => task.credits /\ task.status = "pending"
     /\ r.pc = "unpublished" => task.status = "failed"
     /\ a \in Msg /\ r.pc = "idle" => OnChannel(msg[a].chan, msg[a].credits)
     /\ r.pc \in {"query", "report", "rotate", "republish", "giveback", "publish"} =>
          OnChannel(r.chan, r.credits)
     /\ r.pc \in {"zero", "charge"} => Open /\ Unpolled /\ Back(r.chan, "channel_retry")
     /\ r.pc = "charge" => ~task.credits
     /\ r.pc = "update" => Open /\ Unpolled /\ Paid(r.chan) /\ r.credits
     /\ r.pc = "fail" =>
          /\ Open /\ Unpolled
          /\ IF r.credits THEN Paid(r.chan) ELSE ~task.credits /\ Returned
     /\ r.pc = "refund" => Failed /\ Paid(r.chan)
     /\ r.pc = "clear" => Failed /\ Returned

\* And when nobody holds it: the task is paid, or given back, or never got under way.
Released ==
  \/ task.status # "failed" /\ task.credits /\ Paid(task.chan)
  \/ Failed /\ ~task.credits /\ Returned
  \/ /\ task.status = "failed" /\ run[Creator].pc = "ended"
     /\ (charged = {} /\ refunded = {}) \/ Returned

\* The tickers do not meet: the cleaner takes tasks without an upstream id, the poller
\* the others, and both only what the creator has marked.
TickersApart ==
  /\ task.status = "pending" => run[Creator].pc \in {"inserted", "charged", "mark"}
  /\ run[Poller].pc = "query" => task.upstream # 0 /\ run[Creator].pc = "ended"
  /\ run[Cleaner].pc # "idle" => task.upstream = 0 /\ run[Creator].pc = "ended"

CalmInv ==
  /\ IInv /\ Roles /\ OneHolder /\ TickersApart
  /\ \A a \in Agent : Holds(a) => HolderOK(a)
  /\ (\A a \in Agent : ~Holds(a)) => Released

-----------------------------------------------------------------------------
(* Who holds the task after a step                                         *)

LEMMA HolderFacts ==
  ASSUME CalmInv, NEW a \in Agent, Holds(a)
  PROVE  HolderOK(a) /\ \A b \in Agent \ {a} : ~Holds(b)
  BY DEF CalmInv, OneHolder

\* What a step of a leaves as TickersApart needs it.
Steady(a, r) ==
  /\ a = Cleaner => task'.upstream = task.upstream
  /\ task'.status = "pending" =>
       IF a = Creator THEN r.pc \in {"inserted", "charged", "mark"}
                      ELSE task.status = "pending"

\* Whoever holds the task goes on with it (h = a), lets go of it, or sends it to h.
LEMMA HandOver ==
  ASSUME CalmInv, IInv', NEW a \in Agent, Holds(a), NEW h \in Agent, NEW r, Enter(a, r),
         \A m \in Msg : m \notin {a, h} => msg'[m] = msg[m],
         h # a => h \in Msg /\ r.pc \in (IF a \in Msg THEN {"ack"} ELSE {"idle", "mark"}),
         r.pc \in RolePC(a), r.pc # "query", Steady(a, r),
         Holds(h)' => HolderOK(h)', ~Holds(h)' => Released'
  PROVE  CalmInv'
  <1> USE Agents
  <1>1. run'[a] = r /\ \A b \in Agent \ {a} : run'[b] = run[b]
    BY DEF Enter, CalmInv, IInv, TypeOK
  <1>2. \A b \in Agent \ {a} : ~Holds(b)
    BY HolderFacts
  <1>3. ASSUME NEW b \in Agent, b # h PROVE ~Holds(b)'
    <2>1. CASE b = a
      BY <1>1, <1>3, <2>1 DEF Holds
    <2>2. CASE b # a
      BY <1>1, <1>2, <1>3, <2>2 DEF Holds
    <2> QED
      BY <2>1, <2>2
  <1>4. Roles'
    BY <1>1 DEF Roles, CalmInv
  <1>5. OneHolder'
    BY <1>3 DEF OneHolder
  <1>6. TickersApart'
    <2>1. task'.status = "pending" => run'[Creator].pc \in {"inserted", "charged", "mark"}
      BY <1>1 DEF Steady, CalmInv, TickersApart
    <2>2. run'[Poller].pc # "query"
      BY <1>1, <1>2 DEF Holds
    <2>3. run'[Cleaner].pc # "idle" => task'.upstream = 0 /\ run'[Creator].pc = "ended"
      <3>1. a # Cleaner => run[Cleaner].pc = "idle"
        <4>1. run[Cleaner].pc \in FailPC \cup {"idle"}
          BY DEF CalmInv, Roles, RolePC
        <4> QED
          BY <1>2, <4>1 DEF Holds, FailPC
      <3>2. a = Cleaner => run[Cleaner].pc # "idle"
        BY DEF Holds
      <3> QED
        BY <1>1, <3>1, <3>2 DEF Steady, CalmInv, TickersApart
    <2> QED
      BY <2>1, <2>2, <2>3 DEF TickersApart
  <1>7. \A b \in Agent : Holds(b)' => HolderOK(b)'
    BY <1>3
  <1>8. (\A b \in Agent : ~Holds(b)') => Released'
    OBVIOUS
  <1> QED
    BY <1>4, <1>5, <1>6, <1>7, <1>8 DEF CalmInv

LEMMA GoesOn ==
  ASSUME CalmInv, IInv', NEW a \in Agent, Holds(a), NEW r, Enter(a, r), UNCHANGED msg,
         r.pc \in RolePC(a), r.pc \notin {"query", "idle", "ack", "mark", "ended"},
         Steady(a, r), HolderOK(a)'
  PROVE  CalmInv'
  <1>1. Holds(a)'
    BY DEF Holds, Enter, CalmInv, IInv, TypeOK
  <1> QED
    BY <1>1, HandOver

LEMMA LetsGo ==
  ASSUME CalmInv, IInv', NEW a \in Agent, Holds(a), NEW r, Enter(a, r), UNCHANGED msg,
         r.pc \in RolePC(a), r.pc \in (IF a \in Msg THEN {"ack"} ELSE {"idle", "ended"}),
         Steady(a, r), Released'
  PROVE  CalmInv'
  <1>1. ~Holds(a)'
    BY DEF Holds, Enter, CalmInv, IInv, TypeOK
  <1> QED
    BY <1>1, HandOver

\* What mq.Publish puts on the stream.
LEMMA SentTo ==
  ASSUME IInv, NEW new \in Message, Send(new)
  PROVE  \E h \in Msg : /\ run[h].pc = "idle" /\ msg[h].kind = "none"
                        /\ msg'[h].kind = new.kind /\ msg'[h].chan = new.chan
                        /\ msg'[h].credits = new.credits
                        /\ \A m \in Msg \ {h} : msg'[m] = msg[m]
  <1>1. PICK h \in Free : msg' = [msg EXCEPT ![h] = [new EXCEPT !.left = MaxDeliver]]
    BY DEF Send
  <1>2. h \in Msg /\ run[h].pc = "idle" /\ msg[h].kind = "none" /\ msg \in [Msg -> Message]
    BY <1>1 DEF Free, IInv, TypeOK
  <1> DEFINE sent == [new EXCEPT !.left = MaxDeliver]
  <1>3. sent.kind = new.kind /\ sent.chan = new.chan /\ sent.credits = new.credits
    BY DEF Message
  <1> HIDE DEF sent
  <1>4. msg'[h] = sent /\ \A m \in Msg \ {h} : msg'[m] = msg[m]
    BY <1>1, <1>2 DEF sent
  <1> QED
    BY <1>2, <1>3, <1>4

LEMMA JobFields ==
  ASSUME NEW chan \in Channel, NEW credits \in BOOLEAN, NEW tries \in 0..MaxTries
  PROVE  LET j == Job(chan, credits, tries)
             r == Result(chan, credits, tries, "failed")
         IN /\ j \in Message /\ j.kind = "job" /\ j.chan = chan /\ (j.credits <=> credits)
            /\ r \in Message /\ r.kind = "result" /\ r.chan = chan /\ (r.credits <=> credits)
  <1> DEFINE j == Job(chan, credits, tries)
             r == Result(chan, credits, tries, "failed")
  <1>1. j \in Message /\ j.kind = "job" /\ j.chan = chan /\ j.credits = credits
    <2>1. NoMsg \in Message
      BY ConstantsAssumption DEF NoMsg, Message, Channel, Outcome
    <2> QED
      BY <2>1 DEF Job, Message
  <1>2. r \in Message /\ r.kind = "result" /\ r.chan = chan /\ r.credits = credits
    <2>1. r = [j EXCEPT !.kind = "result", !.outcome = "failed"]
      BY DEF Result
    <2> HIDE DEF j, r
    <2> QED
      BY <1>1, <2>1 DEF Message, Outcome
  <1> HIDE DEF j, r
  <1>3. (j.credits <=> credits) /\ (r.credits <=> credits)
    BY <1>1, <1>2
  <1> QED
    BY <1>1, <1>2, <1>3 DEF j, r

LEMMA PaidJob ==
  ASSUME NEW chan \in Channel, NEW tries \in 0..MaxTries
  PROVE  LET j == Job(chan, TRUE, tries)
         IN j \in Message /\ j.kind = "job" /\ j.chan = chan /\ j.credits
  <1>1. NoMsg \in Message
    BY ConstantsAssumption DEF NoMsg, Message, Channel, Outcome
  <1> QED
    BY <1>1 DEF Job, Message

\* The task goes to the stream, and the row of it stays as it is.
LEMMA PassesOn ==
  ASSUME CalmInv, IInv', NEW a \in Agent, Holds(a), NEW r, Enter(a, r),
         r.pc \in RolePC(a), r.pc \in (IF a \in Msg THEN {"ack"} ELSE {"idle", "mark"}),
         a \in Msg => run[a].pc # "idle",
         NEW new \in Message, new.kind # "none", Send(new), UNCHANGED <<task, ledger>>,
         OnChannel(new.chan, new.credits), r.pc = "mark" => task.upstream = 0,
         task.status = "pending" /\ a = Creator => r.pc = "mark"
  PROVE  CalmInv'
  <1> USE Agents
  <1>1. PICK h \in Msg : /\ run[h].pc = "idle" /\ msg[h].kind = "none"
                         /\ msg'[h].kind = new.kind /\ msg'[h].chan = new.chan
                         /\ msg'[h].credits = new.credits
                         /\ \A m \in Msg \ {h} : msg'[m] = msg[m]
    BY SentTo DEF CalmInv
  <1>2. h # a
    BY <1>1
  <1>3. /\ run'[a] = r /\ run'[h] = run[h]
        /\ run'[Creator] = IF a = Creator THEN r ELSE run[Creator]
    BY <1>2 DEF Enter, CalmInv, IInv, TypeOK
  <1>4. Holds(h)'
    BY <1>1, <1>3 DEF Holds
  <1>5. HolderOK(h)'
    BY <1>1, <1>2, <1>3 DEF HolderOK, OnChannel, Open, Unpolled, Paid, ledger
  <1>6. Steady(a, r)
    BY DEF Steady
  <1> QED
    BY <1>1, <1>2, <1>4, <1>5, <1>6, HandOver

\* A ticker takes the task up when nobody holds it.
LEMMA TakesUp ==
  ASSUME CalmInv, IInv', \A b \in Agent : ~Holds(b), NEW a \in {Poller, Cleaner}, NEW r,
         Enter(a, r), UNCHANGED <<task, msg>>, run[Creator].pc = "ended",
         r.pc \in RolePC(a) \ {"idle"}, r.pc = "query" => task.upstream # 0,
         a = Cleaner => task.upstream = 0, HolderOK(a)'
  PROVE  CalmInv'
  <1> USE Agents
  <1>1. a \in Agent /\ a # Creator /\ a \notin Msg
    OBVIOUS
  <1>2. run'[a] = r /\ \A b \in Agent \ {a} : run'[b] = run[b]
    BY <1>1 DEF Enter, CalmInv, IInv, TypeOK
  <1>3. \A b \in Agent \ {a} : ~Holds(b)'
    BY <1>2 DEF Holds
  <1>4. Roles'
    BY <1>1, <1>2 DEF Roles, CalmInv
  <1>5. OneHolder'
    BY <1>3 DEF OneHolder
  <1>6. TickersApart'
    BY <1>1, <1>2 DEF TickersApart, CalmInv
  <1>7. Holds(a)'
    <2>1. r.pc \in {"query", "report", "fail", "refund", "clear"}
      BY <1>1 DEF RolePC, FailPC
    <2> QED
      BY <1>2, <2>1 DEF Holds
  <1> QED
    BY <1>1, <1>3, <1>4, <1>5, <1>6, <1>7 DEF CalmInv

-----------------------------------------------------------------------------
(* The actions of calm operation                                           *)

LEMMA Ledgers ==
  /\ Before(1) = {} /\ 1..1 = {1} /\ 1 \in Channel
  /\ \A c \in Channel : /\ Before(c + 1) = Before(c) \cup {<<c, "channel_retry">>}
                        /\ 1..(c + 1) = 1..c \cup {c + 1}
<1>1. NumChannels \in Nat \ {0}
  BY ConstantsAssumption
<1>2. Before(1) = {} /\ 1..1 = {1} /\ 1 \in Channel
  BY <1>1 DEF Before, Channel
<1>3. ASSUME NEW c \in Channel
      PROVE  /\ Before(c + 1) = Before(c) \cup {<<c, "channel_retry">>}
             /\ 1..(c + 1) = 1..c \cup {c + 1}
  <2>1. c \in Nat \ {0}
    BY <1>1 DEF Channel
  <2>2. 1..(c + 1) = 1..c \cup {c + 1}
    BY <2>1
  <2>3. 1..((c + 1) - 1) = 1..(c - 1) \cup {c}
    BY <2>1
  <2> QED
    BY <2>2, <2>3 DEF Before
<1> QED
  BY <1>2, <1>3

\* Goto is an Enter.
LEMMA GotoEnter ==
  ASSUME IInv, NEW a \in Agent, NEW pc \in PC, Goto(a, pc)
  PROVE  \E r \in Run : /\ Enter(a, r) /\ r.pc = pc /\ r.chan = run[a].chan
                        /\ r.credits = run[a].credits /\ r.reason = run[a].reason
  <1>1. run[a] \in Run
    BY DEF IInv, TypeOK
  <1>2. Enter(a, [run[a] EXCEPT !.pc = pc])
    BY DEF Goto, Enter
  <1> QED
    BY <1>1, <1>2, GotoRun

\* The row after an update of some of its columns.
LEMMA RowFields ==
  ASSUME IInv
  PROVE  /\ \A status : LET t == [task EXCEPT !.status = status]
                        IN /\ t.status = status /\ t.chan = task.chan
                           /\ t.credits = task.credits /\ t.upstream = task.upstream
         /\ LET t == [task EXCEPT !.credits = FALSE]
            IN /\ t.status = task.status /\ t.chan = task.chan
               /\ ~t.credits /\ t.upstream = task.upstream
  BY DEF IInv, TypeOK, Task

LEMMA CreateCalm ==
  ASSUME CalmInv, IInv',
         \/ CreateInsert \/ CreateCharge \/ CreatePublish \/ CreateChargeFails
         \/ (CreatePublishFails /\ UNCHANGED msg) \/ CreateRefund
  PROVE  CalmInv'
  <1> USE Agents DEF ledger
  <1>0. run[Creator].pc \in {"start", "inserted", "charged", "unpublished"}
    BY DEF CreateInsert, CreateCharge, CreatePublish, CreateChargeFails, CreatePublishFails,
           CreateRefund
  <1>1. Holds(Creator) /\ HolderOK(Creator) /\ IInv /\ task \in Task
    BY <1>0, HolderFacts DEF Holds, CalmInv, IInv, TypeOK
  <1>2. ASSUME NEW pc \in {"inserted", "charged", "unpublished"}, Goto(Creator, pc),
               UNCHANGED msg, pc = "unpublished" => task'.status # "pending",
               (LET r == [pc |-> pc] IN
                 /\ r.pc \in {"inserted"} => charged' = {} /\ refunded' = {}
                 /\ r.pc \in {"charged", "unpublished"} => Paid(1)'
                 /\ r.pc \in {"inserted", "charged"} =>
                      /\ task'.chan = 1 /\ task'.upstream = 0 /\ task'.credits
                      /\ task'.status = "pending"
                 /\ r.pc = "unpublished" => task'.status = "failed")
        PROVE  CalmInv'
    <2>1. PICK r \in Run : Enter(Creator, r) /\ r.pc = pc
      BY <1>1, <1>2, GotoEnter DEF PC
    <2>2. run'[Creator] = r
      BY <1>1, <2>1 DEF Enter, IInv, TypeOK
    <2>3. HolderOK(Creator)'
      BY <1>2, <2>1, <2>2 DEF HolderOK
    <2>4. r.pc \in RolePC(Creator) /\ Steady(Creator, r)
      BY <1>2, <2>1 DEF RolePC, Steady
    <2> QED
      BY <1>1, <1>2, <2>1, <2>3, <2>4, GoesOn
  <1>3. ASSUME Goto(Creator, "ended"), UNCHANGED msg, task'.status = "failed",
               (charged' = {} /\ refunded' = {}) \/ Returned'
        PROVE  CalmInv'
    <2>1. PICK r \in Run : Enter(Creator, r) /\ r.pc = "ended"
      BY <1>1, <1>3, GotoEnter DEF PC
    <2>2. run'[Creator] = r
      BY <1>1, <2>1 DEF Enter, IInv, TypeOK
    <2>3. Released'
      BY <1>3, <2>1, <2>2 DEF Released
    <2>4. r.pc \in RolePC(Creator) /\ Steady(Creator, r)
      BY <1>3, <2>1 DEF RolePC, Steady
    <2> QED
      BY <1>1, <1>3, <2>1, <2>3, <2>4, LetsGo
  <1>4. CASE CreateInsert
    <2>1. /\ task' = [task EXCEPT !.status = "pending", !.credits = TRUE]
          /\ charged = {} /\ refunded = {} /\ task.chan = 1 /\ task.upstream = 0
          /\ UNCHANGED <<charged, refunded, msg>> /\ Goto(Creator, "inserted")
      BY <1>1, <1>4 DEF CreateInsert, HolderOK
    <2>2. task'.chan = 1 /\ task'.upstream = 0 /\ task'.credits /\ task'.status = "pending"
      BY <1>1, <2>1 DEF Task
    <2> QED
      BY <1>2, <2>1, <2>2
  <1>5. CASE CreateCharge
    <2>1. /\ charged = {} /\ refunded = {} /\ charged' = charged \cup {1}
          /\ task.chan = 1 /\ task.upstream = 0 /\ task.credits
          /\ UNCHANGED <<task, refunded, msg>> /\ Goto(Creator, "charged")
      BY <1>1, <1>5 DEF CreateCharge, HolderOK
    <2>2. Paid(1)'
      BY <2>1, Ledgers DEF Paid
    <2>3. task.status = "pending"
      BY <1>1, <1>5 DEF CreateCharge, HolderOK
    <2> QED
      BY <1>2, <2>1, <2>2, <2>3
  <1>6. CASE CreateChargeFails
    <2>1. charged = {} /\ refunded = {}
      BY <1>1, <1>6 DEF CreateChargeFails, HolderOK
    <2> QED
      BY <1>1, <1>3, <1>6, <2>1, RowFields DEF CreateChargeFails
  <1>7. CASE CreatePublish
    <2>1. /\ Paid(1) /\ task.chan = 1 /\ task.upstream = 0 /\ task.credits
          /\ task.status = "pending"
      BY <1>1, <1>7 DEF CreatePublish, HolderOK
    <2>2. PICK r \in Run : Enter(Creator, r) /\ r.pc = "mark"
      BY <1>1, <1>7, GotoEnter DEF CreatePublish, PC
    <2> DEFINE new == Job(1, TRUE, 0)
    <2>3. new \in Message /\ new.kind = "job" /\ new.chan = 1 /\ new.credits
      <3>1. 0 \in 0..MaxTries /\ 1 \in Channel
        BY Ledgers, ConstantsAssumption
      <3> QED
        BY <3>1, PaidJob
    <2>4. Send(new) /\ UNCHANGED <<task, ledger>>
      BY <1>7 DEF CreatePublish
    <2> HIDE DEF new
    <2>5. OnChannel(new.chan, new.credits)
      BY <1>7, <2>1, <2>3 DEF CreatePublish, OnChannel, Open, Unpolled
    <2>6. r.pc \in RolePC(Creator)
      BY <2>2 DEF RolePC
    <2> QED
      BY <1>1, <2>1, <2>2, <2>3, <2>4, <2>5, <2>6, PassesOn
  <1>8. CASE CreatePublishFails /\ UNCHANGED msg
    <2>1. Paid(1)
      BY <1>1, <1>8 DEF CreatePublishFails, HolderOK
    <2>2. Paid(1)'
      BY <1>8, <2>1 DEF CreatePublishFails, Paid
    <2> QED
      BY <1>1, <1>2, <1>8, <2>2, RowFields DEF CreatePublishFails
  <1>9. CASE CreateRefund
    <2>1. Paid(1) /\ task.status = "failed"
      BY <1>1, <1>9 DEF CreateRefund, HolderOK
    <2>2. Back(1, "publish")'
      BY <1>9, <2>1 DEF CreateRefund, Paid, Back
    <2>3. Returned'
      BY <2>2, Ledgers DEF Returned, Reason
    <2> QED
      BY <1>3, <1>9, <2>1, <2>3 DEF CreateRefund
  <1> QED
    BY <1>4, <1>5, <1>6, <1>7, <1>8, <1>9

\* The creator's last update: at worst it revives a task that was given back, and that
\* one has no upstream id.
LEMMA MarkCalm ==
  ASSUME CalmInv, IInv', CreateMark
  PROVE  CalmInv'
  <1> USE Agents DEF ledger
  <1>1. /\ run'[Creator].pc = "ended" /\ \A b \in Agent \ {Creator} : run'[b] = run[b]
        /\ task'.status = "processing" /\ task'.chan = task.chan
        /\ task'.credits = task.credits /\ task'.upstream = task.upstream
        /\ UNCHANGED <<charged, refunded, msg>> /\ run[Creator].pc = "mark"
    <2>1. IInv
      BY DEF CalmInv
    <2>2. /\ run'[Creator].pc = "ended" /\ \A b \in Agent \ {Creator} : run'[b] = run[b]
      BY <2>1 DEF CreateMark, Goto, IInv, TypeOK, Run
    <2> QED
      BY <2>1, <2>2, RowFields DEF CreateMark
  <1>2. ~Holds(Creator) /\ ~Holds(Creator)'
    BY <1>1 DEF Holds
  <1>3. \A b \in Agent \ {Creator} : Holds(b)' <=> Holds(b)
    BY <1>1 DEF Holds
  <1>4. Roles'
    BY <1>1 DEF CalmInv, Roles, RolePC
  <1>5. OneHolder'
    BY <1>2, <1>3 DEF CalmInv, OneHolder
  <1>6. TickersApart'
    BY <1>1 DEF CalmInv, TickersApart
  <1>7. ASSUME NEW b \in Agent, Holds(b)' PROVE HolderOK(b)'
    <2>1. b # Creator /\ Holds(b) /\ HolderOK(b)
      BY <1>2, <1>3, <1>7 DEF CalmInv
    <2>2. run[b].pc \notin {"start", "inserted", "charged", "unpublished"}
      BY <2>1 DEF CalmInv, Roles, RolePC, FailPC
    <2>3. \A c, credits : OnChannel(c, credits) => OnChannel(c, credits)'
      BY <1>1 DEF OnChannel, Open, Unpolled, Paid
    <2>4. Open' /\ Unpolled'
      BY <1>1 DEF Open, Unpolled
    <2>5. Failed => Failed'
      BY <1>1 DEF Failed, Unpolled
    <2>6. run'[b] = run[b] /\ UNCHANGED <<charged, refunded, msg>>
      BY <1>1, <2>1
    <2>7. CASE run[b].pc \in {"zero", "charge", "update"}
      BY <1>1, <2>1, <2>2, <2>4, <2>6, <2>7 DEF HolderOK, Paid, Back
    <2>8. CASE run[b].pc \in {"fail", "refund", "clear"}
      BY <1>1, <2>1, <2>2, <2>4, <2>5, <2>6, <2>8 DEF HolderOK, Paid, Back, Returned
    <2>9. CASE run[b].pc \notin {"zero", "charge", "update", "fail", "refund", "clear"}
      BY <1>1, <2>1, <2>2, <2>3, <2>6, <2>9 DEF HolderOK, OnChannel, Open, Unpolled, Paid
    <2> QED
      BY <2>7, <2>8, <2>9
  <1>8. ASSUME \A b \in Agent : ~Holds(b)' PROVE Released'
    <2>1. Released
      BY <1>2, <1>3, <1>8 DEF CalmInv
    <2> QED
      BY <1>1, <2>1 DEF Released, Failed, Unpolled, Paid, Returned, Back
  <1> QED
    BY <1>4, <1>5, <1>6, <1>7, <1>8 DEF CalmInv

\* What a holder knows outlives the steps that leave the row, the ledger and itself alone.
LEMMA HolderSame ==
  ASSUME UNCHANGED <<task, charged, refunded>>, run'[Creator] = run[Creator],
         NEW b \in Agent, run'[b] = run[b], b \in Msg => msg'[b] = msg[b], HolderOK(b)
  PROVE  HolderOK(b)'
  <1>1. \A c, x : OnChannel(c, x) => OnChannel(c, x)'
    BY DEF OnChannel, Open, Unpolled, Paid
  <1>2. (Open => Open') /\ (Unpolled => Unpolled') /\ (Failed => Failed')
    BY DEF Open, Unpolled, Failed
  <1>3. \A c : Paid(c) => Paid(c)'
    BY DEF Paid
  <1>4. \A c, x : Back(c, x) => Back(c, x)'
    BY DEF Back
  <1>5. Returned => Returned'
    BY <1>4 DEF Returned
  <1>6. CASE run[b].pc \in {"start", "inserted", "charged", "unpublished"}
    BY <1>3, <1>6 DEF HolderOK
  <1>7. CASE run[b].pc \in {"zero", "charge", "update"}
    BY <1>2, <1>7 DEF HolderOK, Paid, Back
  <1>8. CASE run[b].pc \in {"fail", "refund", "clear"}
    BY <1>2, <1>5, <1>8 DEF HolderOK, Paid
  <1>9. CASE run[b].pc \notin {"start", "inserted", "charged", "unpublished", "zero",
                               "charge", "update", "fail", "refund", "clear"}
    BY <1>1, <1>9 DEF HolderOK, OnChannel, Open, Unpolled, Paid
  <1> QED
    BY <1>6, <1>7, <1>8, <1>9

\* Ageing, and the acknowledgement that a handler still owes, change hands of nothing.
LEMMA AsideCalm ==
  ASSUME CalmInv, IInv', UNCHANGED vars \/ Age \/ \E m \in Msg : Ack(m)
  PROVE  CalmInv'
  <1> USE Agents DEF ledger
  <1>1. /\ UNCHANGED <<task, charged, refunded>>
        /\ run'[Creator] = run[Creator] /\ run'[Poller] = run[Poller]
        /\ run'[Cleaner] = run[Cleaner]
        /\ \A b \in Agent : \/ run'[b] = run[b] /\ (b \in Msg => msg'[b] = msg[b])
                            \/ /\ b \in Msg /\ run[b].pc = "ack"
                               /\ run'[b].pc = "idle" /\ msg'[b].kind = "none"
    <2>1. CASE UNCHANGED vars \/ Age
      BY <2>1 DEF Age, vars
    <2>2. ASSUME NEW m \in Msg, Ack(m)
          PROVE  /\ m \in Agent /\ run[m].pc = "ack" /\ run'[m].pc = "idle"
                 /\ msg'[m].kind = "none"
                 /\ \A b \in Agent \ {m} : run'[b] = run[b]
                 /\ \A k \in Msg \ {m} : msg'[k] = msg[k]
                 /\ UNCHANGED <<task, charged, refunded>>
      BY <2>2 DEF Ack, Enter, Idle, At, NoMsg, CalmInv, IInv, TypeOK
    <2> QED
      BY <2>1, <2>2
  <1>2. ASSUME NEW b \in Agent
        PROVE  /\ Holds(b)' => Holds(b) /\ run'[b] = run[b] /\ (b \in Msg => msg'[b] = msg[b])
               /\ Holds(b) => Holds(b)'
    BY <1>1 DEF Holds
  <1>3. Roles'
    <2>1. ASSUME NEW b \in Agent PROVE run'[b].pc \in RolePC(b)
      <3>1. CASE run'[b] = run[b]
        BY <3>1 DEF CalmInv, Roles
      <3>2. CASE b \in Msg /\ run'[b].pc = "idle"
        BY <3>2 DEF RolePC
      <3> QED
        BY <1>1, <3>1, <3>2
    <2> QED
      BY <2>1 DEF Roles
  <1>4. OneHolder'
    BY <1>2 DEF CalmInv, OneHolder
  <1>5. TickersApart'
    BY <1>1 DEF CalmInv, TickersApart
  <1>6. ASSUME NEW b \in Agent, Holds(b)' PROVE HolderOK(b)'
    <2>1. run'[b] = run[b] /\ (b \in Msg => msg'[b] = msg[b]) /\ HolderOK(b)
      BY <1>2, <1>6 DEF CalmInv
    <2> QED
      BY <1>1, <2>1, HolderSame
  <1>7. ASSUME \A b \in Agent : ~Holds(b)' PROVE Released'
    <2>1. Released
      BY <1>2, <1>7 DEF CalmInv
    <2> QED
      BY <1>1, <2>1 DEF Released, Failed, Unpolled, Paid, Returned, Back
  <1> QED
    BY <1>3, <1>4, <1>5, <1>6, <1>7 DEF CalmInv

\* A job becomes its result, or a failed run leaves the task to the tickers.
LEMMA WorkerCalm ==
  ASSUME CalmInv, IInv', NEW m \in Msg, WorkerRuns(m) \/ WorkerDies(m), msg'[m].kind # "job"
  PROVE  CalmInv'
  <1> USE Agents DEF ledger
  <1>1. /\ run[m].pc = "idle" /\ msg[m].kind = "job" /\ IInv /\ Enter(m, run[m])
        /\ UNCHANGED <<task, charged, refunded, run>> /\ m # Creator
    BY DEF WorkerRuns, WorkerDies, Deliverable, Enter, CalmInv, IInv, TypeOK
  <1>2. Holds(m) /\ OnChannel(msg[m].chan, msg[m].credits)
    <2>1. Holds(m)
      BY <1>1 DEF Holds
    <2> QED
      BY <1>1, <2>1, HolderFacts DEF HolderOK
  <1>3. run[m].pc \in RolePC(m) /\ Steady(m, run[m])
    BY <1>1 DEF RolePC, Steady
  <1>4. ASSUME NEW acked \in BOOLEAN, msg'[m] = Delivered(m, acked)
        PROVE  Delivered(m, acked) = NoMsg /\ msg'[m].kind = "none"
    <2>1. [msg[m] EXCEPT !.left = msg[m].left - 1].kind = "job"
      BY <1>1 DEF IInv, TypeOK, Message
    <2> QED
      BY <1>4, <2>1 DEF Delivered, NoMsg
  <1>5. CASE WorkerRuns(m)
    <2>1. PICK outcome \in Outcome, acked \in BOOLEAN, r \in Free \cup {m} :
            /\ r = m <=> Delivered(m, acked) = NoMsg
            /\ msg' = [msg EXCEPT ![m] = Delivered(m, acked),
                         ![r] = [Result(msg[m].chan, msg[m].credits, msg[m].tries, outcome)
                                   EXCEPT !.left = MaxDeliver]]
      BY <1>5 DEF WorkerRuns
    <2> DEFINE res == Result(msg[m].chan, msg[m].credits, msg[m].tries, outcome)
               sent == [res EXCEPT !.left = MaxDeliver]
    <2>2. msg[m].chan \in Channel /\ msg[m].credits \in BOOLEAN /\ msg[m].tries \in 0..MaxTries
      BY <1>1 DEF IInv, TypeOK, Message
    <2>3. sent.kind = "result" /\ sent.chan = msg[m].chan /\ sent.credits = msg[m].credits
      <3>1. NoMsg \in Message
        BY ConstantsAssumption DEF NoMsg, Message, Channel, Outcome
      <3> QED
        BY <2>2, <3>1 DEF Result, Job, Message
    <2> HIDE DEF res, sent
    <2>4. r = m
      <3>1. r # m => msg'[m] = Delivered(m, acked)
        BY <1>1, <2>1 DEF Free, IInv, TypeOK
      <3> QED
        BY <1>4, <2>1, <3>1
    <2>5. msg'[m] = sent /\ \A k \in Msg \ {m} : msg'[k] = msg[k]
      BY <1>1, <2>1, <2>4 DEF IInv, TypeOK, sent, res
    <2>6. HolderOK(m)'
      BY <1>1, <1>2, <2>3, <2>5 DEF HolderOK, OnChannel, Open, Unpolled, Paid
    <2>7. Holds(m)'
      BY <1>1, <2>3, <2>5 DEF Holds
    <2> QED
      BY <1>1, <1>2, <1>3, <2>5, <2>6, <2>7, HandOver
  <1>6. CASE WorkerDies(m)
    <2>1. PICK terminated \in BOOLEAN : msg' = [msg EXCEPT ![m] = Delivered(m, terminated)]
      BY <1>6 DEF WorkerDies
    <2>2. msg'[m] = Delivered(m, terminated) /\ \A k \in Msg \ {m} : msg'[k] = msg[k]
      BY <1>1, <2>1 DEF IInv, TypeOK
    <2>3. ~Holds(m)'
      BY <1>1, <1>4, <2>2 DEF Holds
    <2>4. Released'
      BY <1>1, <1>2 DEF Released, OnChannel, Open, Paid
    <2> QED
      BY <1>1, <1>2, <1>3, <2>2, <2>3, <2>4, HandOver
  <1> QED
    BY <1>5, <1>6

\* The batch writer ends the task, or leaves it to the poller.
LEMMA WriteCalm ==
  ASSUME CalmInv, IInv', NEW m \in Msg, msg'[m] = NoMsg,
         \/ HandleDone(m) /\ task'.status = "done"
         \/ HandleAsync(m) /\ task'.upstream = msg[m].chan
  PROVE  CalmInv'
  <1> USE Agents DEF ledger
  <1>1. /\ run[m].pc = "idle" /\ msg[m].kind = "result" /\ IInv /\ Enter(m, run[m])
        /\ UNCHANGED <<charged, refunded, run>> /\ m # Creator
        /\ \A k \in Msg \ {m} : msg'[k] = msg[k]
    BY DEF HandleDone, HandleAsync, WriteOutcome, Deliverable, Enter, CalmInv, IInv, TypeOK
  <1>2. Holds(m) /\ OnChannel(msg[m].chan, msg[m].credits)
    <2>1. Holds(m)
      BY <1>1 DEF Holds
    <2> QED
      BY <1>1, <2>1, HolderFacts DEF HolderOK
  <1>3. /\ task'.chan = task.chan /\ task'.credits = task.credits
        /\ task'.status \in {task.status, "done", "processing"}
    <2>1. \/ UNCHANGED task
          \/ task' = [task EXCEPT !.status = "done", !.upstream = task.upstream]
          \/ task' = [task EXCEPT !.status = "processing", !.upstream = msg[m].chan]
      BY DEF HandleDone, HandleAsync, WriteOutcome
    <2> QED
      BY <1>1, <2>1 DEF IInv, TypeOK, Task
  <1>4. run[m].pc \in RolePC(m) /\ Steady(m, run[m])
    BY <1>1, <1>3 DEF RolePC, Steady
  <1>5. ~Holds(m)'
    BY <1>1 DEF Holds, NoMsg
  <1>6. Released'
    BY <1>1, <1>2, <1>3 DEF Released, OnChannel, Open, Paid
  <1> QED
    BY <1>1, <1>2, <1>4, <1>5, <1>6, HandOver

-----------------------------------------------------------------------------
(* The handlers of calm operation                                          *)

\* A handler goes on, and the row and the ledger may follow.
LEMMA HandlerGoesOn ==
  ASSUME CalmInv, IInv', NEW m \in Msg, Holds(m), NEW r, Enter(m, r), UNCHANGED msg,
         r.pc \in {"rotate", "republish", "giveback", "zero", "charge", "update", "publish",
                   "fail", "refund", "clear"},
         task'.status = "pending" => task.status = "pending", HolderOK(m)'
  PROVE  CalmInv'
  <1> USE Agents
  <1>1. r.pc \in RolePC(m) /\ r.pc \notin {"query", "idle", "ack", "mark", "ended"}
    BY DEF RolePC, FailPC
  <1>2. Steady(m, r)
    BY DEF Steady
  <1> QED
    BY <1>1, <1>2, GoesOn

\* It goes on with the task as it is.
LEMMA SameTask ==
  ASSUME CalmInv, IInv', NEW m \in Msg, Holds(m), NEW r, Enter(m, r), UNCHANGED msg,
         UNCHANGED <<task, ledger>>, OnChannel(r.chan, r.credits),
         r.pc \in {"rotate", "republish", "giveback", "publish", "fail"}
  PROVE  CalmInv'
  <1> USE Agents DEF ledger
  <1>1. run'[m] = r /\ run'[Creator] = run[Creator]
    BY DEF Enter, CalmInv, IInv, TypeOK
  <1>2. HolderOK(m)'
    BY <1>1 DEF HolderOK, OnChannel, Open, Unpolled, Paid
  <1> QED
    BY <1>2, HandlerGoesOn

LEMMA HandleFailedCalm ==
  ASSUME CalmInv, IInv', NEW m \in Msg, HandleFailed(m) \/ HandlePoolKey(m)
  PROVE  CalmInv'
  <1> USE Agents
  <1>1. /\ run[m].pc = "idle" /\ msg[m].kind = "result" /\ UNCHANGED <<task, ledger, msg>>
    BY DEF HandleFailed, HandlePoolKey, Deliverable
  <1>2. Holds(m) /\ OnChannel(msg[m].chan, msg[m].credits)
    <2>1. Holds(m)
      BY <1>1 DEF Holds
    <2> QED
      BY <1>1, <2>1, HolderFacts DEF HolderOK
  <1>3. msg[m].credits
    BY <1>2 DEF OnChannel
  <1>4. ASSUME NEW pc \in {"giveback", "fail", "rotate"}, NEW reason,
               Enter(m, At(pc, msg[m].chan, msg[m].credits, reason))
        PROVE  CalmInv'
    <2> DEFINE r == At(pc, msg[m].chan, msg[m].credits, reason)
    <2>1. r.pc = pc /\ r.chan = msg[m].chan /\ r.credits = msg[m].credits
      BY DEF At
    <2>2. Enter(m, r)
      BY <1>4
    <2> HIDE DEF r
    <2>3. OnChannel(r.chan, r.credits)
      BY <1>2, <2>1
    <2> QED
      BY <1>1, <1>2, <1>4, <2>1, <2>2, <2>3, SameTask
  <1>5. CASE HandleFailed(m)
    <2>1. \/ Enter(m, At("giveback", msg[m].chan, msg[m].credits, "channel_retry"))
          \/ Enter(m, At("fail", msg[m].chan, msg[m].credits, "error"))
      BY <1>3, <1>5 DEF HandleFailed, FailTask
    <2> QED
      BY <1>4, <2>1
  <1>6. CASE HandlePoolKey(m)
    BY <1>4, <1>6 DEF HandlePoolKey
  <1> QED
    BY <1>5, <1>6

LEMMA RotateCalm ==
  ASSUME CalmInv, IInv', NEW m \in Msg,
         Rotate(m) \/ Republish(m) \/ (RepublishFails(m) /\ UNCHANGED msg)
  PROVE  CalmInv'
  <1> USE Agents DEF ledger
  <1>1. /\ run[m].pc \in {"rotate", "republish"} /\ UNCHANGED <<charged, refunded>> /\ IInv
    BY DEF Rotate, Republish, RepublishFails, CalmInv
  <1>2. Holds(m) /\ OnChannel(run[m].chan, run[m].credits)
    <2>1. Holds(m)
      BY <1>1 DEF Holds
    <2> QED
      BY <1>1, <2>1, HolderFacts DEF HolderOK
  <1>3. run[m].chan \in Channel /\ run[m].credits \in BOOLEAN /\ msg[m].tries < MaxTries
        /\ msg[m].tries \in 0..MaxTries
    <2>1. msg[m].tries < MaxTries
      BY <1>1 DEF IInv, HandlerInv
    <2>2. run[m] \in Run /\ msg[m] \in Message
      BY <1>1 DEF IInv, TypeOK
    <2> QED
      BY <2>1, <2>2 DEF Run, Message
  <1>4. CASE Rotate(m)
    <2>1. PICK r \in Run : /\ Enter(m, r) /\ r.pc = "republish" /\ r.chan = run[m].chan
                           /\ r.credits = run[m].credits
      BY <1>1, <1>4, GotoEnter DEF Rotate, PC
    <2>2. /\ task'.status \in {task.status, "processing"} /\ task'.chan = task.chan
          /\ task'.credits = task.credits /\ task'.upstream = task.upstream /\ UNCHANGED msg
      <3>1. task' = [task EXCEPT !.status = "processing"] \/ UNCHANGED task
        BY <1>4 DEF Rotate
      <3>2. UNCHANGED msg
        BY <1>4 DEF Rotate
      <3>3. CASE task' = [task EXCEPT !.status = "processing"]
        BY <1>1, <3>2, <3>3, RowFields
      <3>4. CASE UNCHANGED task
        BY <3>2, <3>4
      <3> QED
        BY <3>1, <3>3, <3>4
    <2>3. run'[m] = r /\ run'[Creator] = run[Creator]
      BY <1>1, <2>1 DEF Enter, IInv, TypeOK
    <2>4. /\ task'.status \in {"pending", "processing"} /\ Unpolled'
          /\ charged' = 1..r.chan /\ refunded' = Before(r.chan) /\ r.credits
          /\ task'.chan = r.chan /\ task'.credits
      BY <1>1, <1>2, <2>1, <2>2, <2>3 DEF OnChannel, Open, Unpolled, Paid
    <2>5. HolderOK(m)'
      BY <2>1, <2>3, <2>4 DEF HolderOK, OnChannel, Open, Paid
    <2>6. UNCHANGED msg /\ (task'.status = "pending" => task.status = "pending")
      BY <2>2
    <2> QED
      BY <1>2, <2>1, <2>5, <2>6, HandlerGoesOn
  <1>5. CASE Republish(m)
    <2>1. PICK r \in Run : /\ Enter(m, r) /\ r.pc = "ack"
      BY <1>1, <1>5, GotoEnter DEF Republish, PC
    <2> DEFINE new == Job(run[m].chan, run[m].credits, msg[m].tries + 1)
    <2>2. msg[m].tries + 1 \in 0..MaxTries
      BY <1>3, ConstantsAssumption
    <2>3. new \in Message /\ new.kind = "job" /\ new.chan = run[m].chan
          /\ (new.credits <=> run[m].credits)
      BY <1>3, <2>2, JobFields
    <2>4. Send(new) /\ UNCHANGED <<task, ledger>>
      BY <1>5 DEF Republish
    <2> HIDE DEF new
    <2>5. OnChannel(new.chan, new.credits)
      BY <1>2, <2>3 DEF OnChannel
    <2>6. r.pc \in RolePC(m) /\ r.pc \in (IF m \in Msg THEN {"ack"} ELSE {"idle", "mark"})
          /\ run[m].pc # "idle"
      BY <1>1, <2>1 DEF RolePC
    <2> QED
      BY <1>2, <2>1, <2>3, <2>4, <2>5, <2>6, PassesOn
  <1>6. CASE RepublishFails(m) /\ UNCHANGED msg
    <2>1. PICK r \in Run : /\ Enter(m, r) /\ r.pc = "fail" /\ r.chan = run[m].chan
                           /\ r.credits = run[m].credits
      BY <1>1, <1>6, GotoEnter DEF RepublishFails, PC
    <2>2. UNCHANGED <<task, ledger>>
      BY <1>6 DEF RepublishFails
    <2>3. OnChannel(r.chan, r.credits)
      BY <1>2, <2>1
    <2> QED
      BY <1>2, <1>6, <2>1, <2>2, <2>3, SameTask
  <1> QED
    BY <1>4, <1>5, <1>6

\* The channel is given back, the row says so, the next one is charged, the row follows.
LEMMA RetryCalm ==
  ASSUME CalmInv, IInv', NEW m \in Msg,
         \/ GiveBack(m) \/ ZeroCredits(m) \/ ChargeNext(m) \/ UpdateTask(m)
         \/ PublishNext(m) \/ (PublishNextFails(m) /\ UNCHANGED msg)
  PROVE  CalmInv'
  <1> USE Agents DEF ledger
  <1>1. /\ run[m].pc \in {"giveback", "zero", "charge", "update", "publish"} /\ IInv
        /\ run[m] \in Run /\ run[m].chan \in Channel
    BY DEF GiveBack, ZeroCredits, ChargeNext, UpdateTask, PublishNext, PublishNextFails,
           CalmInv, IInv, TypeOK, Run
  <1>2. Holds(m) /\ HolderOK(m)
    <2>1. Holds(m)
      BY <1>1 DEF Holds
    <2> QED
      BY <2>1, HolderFacts
  <1>3. ASSUME NEW r, Enter(m, r) PROVE run'[m] = r /\ run'[Creator] = run[Creator]
    BY <1>1, <1>3 DEF Enter, IInv, TypeOK
  <1>4. CASE GiveBack(m)
    <2>1. PICK r \in Run : Enter(m, r) /\ r.pc = "zero" /\ r.chan = run[m].chan
      BY <1>1, <1>4, GotoEnter DEF GiveBack, PC
    <2>2. run'[m] = r /\ run'[Creator] = run[Creator]
      BY <1>3, <2>1
    <2>3. OnChannel(run[m].chan, run[m].credits)
      BY <1>2, <1>4 DEF GiveBack, HolderOK
    <2>4. /\ UNCHANGED <<task, charged, msg>>
          /\ refunded' = refunded \cup {<<run[m].chan, "channel_retry">>}
      BY <1>4 DEF GiveBack
    <2>5. HolderOK(m)'
      BY <2>1, <2>2, <2>3, <2>4 DEF HolderOK, OnChannel, Open, Unpolled, Paid, Back
    <2> QED
      BY <1>2, <2>1, <2>4, <2>5, HandlerGoesOn
  <1>5. CASE ZeroCredits(m)
    <2>1. PICK r \in Run : Enter(m, r) /\ r.pc = "charge" /\ r.chan = run[m].chan
      BY <1>1, <1>5, GotoEnter DEF ZeroCredits, PC
    <2>2. run'[m] = r /\ run'[Creator] = run[Creator]
      BY <1>3, <2>1
    <2>3. Open /\ Unpolled /\ Back(run[m].chan, "channel_retry")
      BY <1>2, <1>5 DEF ZeroCredits, HolderOK
    <2>4. UNCHANGED <<charged, refunded, msg>> /\ task' = [task EXCEPT !.credits = FALSE]
      BY <1>5 DEF ZeroCredits
    <2>5. /\ task'.status = task.status /\ task'.chan = task.chan
          /\ ~task'.credits /\ task'.upstream = task.upstream
      BY <1>1, <2>4, RowFields
    <2>6. HolderOK(m)'
      BY <2>1, <2>2, <2>3, <2>4, <2>5 DEF HolderOK, Open, Unpolled, Back
    <2> QED
      BY <1>2, <2>1, <2>4, <2>5, <2>6, HandlerGoesOn
  <1>6. CASE ChargeNext(m)
    <2> DEFINE next == run[m].chan + 1
    <2>1. Open /\ Unpolled /\ Back(run[m].chan, "channel_retry") /\ ~task.credits
      BY <1>2, <1>6 DEF ChargeNext, HolderOK
    <2>2. UNCHANGED <<task, refunded, msg>>
      BY <1>6 DEF ChargeNext
    <2>3. ASSUME charged' = charged \cup {next}, Enter(m, At("update", next, TRUE, "publish"))
          PROVE  CalmInv'
      <3> DEFINE r == At("update", next, TRUE, "publish")
      <3>1. r.pc = "update" /\ r.chan = next /\ r.credits
        BY DEF At
      <3>2. Enter(m, r)
        BY <2>3
      <3> HIDE DEF r
      <3>3. run'[m] = r /\ run'[Creator] = run[Creator]
        BY <1>3, <3>2
      <3>4. charged' = 1..next /\ refunded' = Before(next)
        BY <1>1, <2>1, <2>2, <2>3, Ledgers DEF Back
      <3>5. HolderOK(m)'
        BY <2>1, <2>2, <3>1, <3>3, <3>4 DEF HolderOK, Open, Unpolled, Paid
      <3> QED
        BY <1>2, <2>2, <3>1, <3>2, <3>5, HandlerGoesOn
    <2>4. ASSUME FailTask(m, run[m].chan, FALSE, "error"), UNCHANGED charged
          PROVE  CalmInv'
      <3> DEFINE r == At("fail", run[m].chan, FALSE, "error")
      <3>1. r.pc = "fail" /\ ~r.credits
        BY DEF At
      <3>2. Enter(m, r)
        BY <2>4 DEF FailTask
      <3> HIDE DEF r
      <3>3. run'[m] = r /\ run'[Creator] = run[Creator]
        BY <1>3, <3>2
      <3>4. Returned
        BY <1>1, <2>1 DEF Returned, Reason
      <3>5. HolderOK(m)'
        BY <2>1, <2>2, <2>4, <3>1, <3>3, <3>4 DEF HolderOK, Open, Unpolled, Returned, Back
      <3> QED
        BY <1>2, <2>2, <3>1, <3>2, <3>5, HandlerGoesOn
    <2>5. \/ charged' = charged \cup {next} /\ Enter(m, At("update", next, TRUE, "publish"))
          \/ FailTask(m, run[m].chan, FALSE, "error") /\ UNCHANGED charged
      BY <1>6 DEF ChargeNext
    <2> HIDE DEF next
    <2> QED
      BY <2>3, <2>4, <2>5
  <1>7. CASE UpdateTask(m)
    <2>1. PICK r \in Run : /\ Enter(m, r) /\ r.pc = "publish" /\ r.chan = run[m].chan
                           /\ r.credits = run[m].credits
      BY <1>1, <1>7, GotoEnter DEF UpdateTask, PC
    <2>2. run'[m] = r /\ run'[Creator] = run[Creator]
      BY <1>3, <2>1
    <2>3. Unpolled /\ Paid(run[m].chan) /\ run[m].credits
      BY <1>2, <1>7 DEF UpdateTask, HolderOK
    <2>4. /\ UNCHANGED <<charged, refunded, msg>>
          /\ task' = [task EXCEPT !.status = "processing", !.chan = run[m].chan,
                                  !.credits = TRUE]
      BY <1>7 DEF UpdateTask
    <2>5. /\ task'.status = "processing" /\ task'.chan = run[m].chan
          /\ task'.credits /\ task'.upstream = task.upstream
      BY <1>1, <2>4 DEF IInv, TypeOK, Task
    <2>6. HolderOK(m)'
      BY <2>1, <2>2, <2>3, <2>4, <2>5 DEF HolderOK, OnChannel, Open, Unpolled, Paid
    <2>7. UNCHANGED msg /\ task'.status # "pending"
      BY <2>4, <2>5
    <2> QED
      BY <1>2, <2>1, <2>6, <2>7, HandlerGoesOn
  <1>8. ASSUME run[m].pc = "publish" PROVE OnChannel(run[m].chan, run[m].credits)
    BY <1>2, <1>8 DEF HolderOK
  <1>9. CASE PublishNext(m)
    <2>1. PICK r \in Run : Enter(m, r) /\ r.pc = "ack"
      BY <1>1, <1>9, GotoEnter DEF PublishNext, PC
    <2> DEFINE new == Job(run[m].chan, TRUE, 0)
    <2>2. new \in Message /\ new.kind = "job" /\ new.chan = run[m].chan /\ new.credits
      <3>1. 0 \in 0..MaxTries
        BY ConstantsAssumption
      <3> QED
        BY <1>1, <3>1, PaidJob
    <2>3. Send(new) /\ UNCHANGED <<task, ledger>> /\ run[m].pc = "publish"
      BY <1>9 DEF PublishNext
    <2> HIDE DEF new
    <2>4. OnChannel(new.chan, new.credits)
      BY <1>8, <2>2, <2>3 DEF OnChannel
    <2>5. r.pc \in RolePC(m) /\ r.pc \in (IF m \in Msg THEN {"ack"} ELSE {"idle", "mark"})
      BY <2>1 DEF RolePC
    <2> QED
      BY <1>1, <1>2, <2>1, <2>2, <2>3, <2>4, <2>5, PassesOn
  <1>10. CASE PublishNextFails(m) /\ UNCHANGED msg
    <2>1. PICK r \in Run : /\ Enter(m, r) /\ r.pc = "fail" /\ r.chan = run[m].chan
                           /\ r.credits = run[m].credits
      BY <1>1, <1>10, GotoEnter DEF PublishNextFails, PC
    <2>2. UNCHANGED <<task, ledger>> /\ run[m].pc = "publish"
      BY <1>10 DEF PublishNextFails
    <2>3. OnChannel(r.chan, r.credits)
      BY <1>8, <2>1, <2>2
    <2> QED
      BY <1>2, <1>10, <2>1, <2>2, <2>3, SameTask
  <1> QED
    BY <1>4, <1>5, <1>6, <1>7, <1>9, <1>10

\* failTaskDB: whoever holds the task finds it open, and gives its channel back.
LEMMA FailCalm ==
  ASSUME CalmInv, IInv', NEW a \in Agent, FailCAS(a) \/ FailRefund(a) \/ ClearCredits(a)
  PROVE  CalmInv'
  <1> USE Agents DEF ledger
  <1>1. run[a].pc \in FailPC /\ IInv /\ run[a] \in Run /\ run[a].chan \in Channel
        /\ run[a].reason \in Reason /\ UNCHANGED msg
    BY DEF FailCAS, FailRefund, ClearCredits, FailPC, CalmInv, IInv, TypeOK, Run
  <1>2. a # Creator /\ FailPC \subseteq RolePC(a)
    BY <1>1 DEF CalmInv, Roles, RolePC, FailPC
  <1>3. Holds(a) /\ HolderOK(a)
    <2>1. Holds(a)
      BY <1>1 DEF Holds, FailPC
    <2> QED
      BY <2>1, HolderFacts
  <1>4. ASSUME NEW r, Enter(a, r) PROVE run'[a] = r /\ run'[Creator] = run[Creator]
    BY <1>1, <1>2, <1>4 DEF Enter, IInv, TypeOK
  \* It stays at work.
  <1>5. ASSUME NEW r, Enter(a, r), r.pc \in {"refund", "clear"}, HolderOK(a)',
               task'.status # "pending" \/ UNCHANGED task, task'.upstream = task.upstream
        PROVE  CalmInv'
    <2>1. Steady(a, r) /\ r.pc \in RolePC(a)
          /\ r.pc \notin {"query", "idle", "ack", "mark", "ended"}
      BY <1>2, <1>5 DEF Steady, FailPC
    <2> QED
      BY <1>1, <1>3, <1>5, <2>1, GoesOn
  \* It is done with it.
  <1>6. ASSUME AfterFail(a), Failed', ~task'.credits, Returned',
               task'.status = "pending" => task.status = "pending",
               task'.upstream = task.upstream
        PROVE  CalmInv'
    <2>1. PICK r : /\ Enter(a, r) /\ r.pc = IF a \in Msg THEN "ack" ELSE "idle"
      BY <1>6 DEF AfterFail, Idle, At
    <2>2. Steady(a, r) /\ r.pc \in RolePC(a)
      BY <1>2, <1>6, <2>1 DEF Steady, RolePC, Agent
    <2>3. Released'
      BY <1>6 DEF Released
    <2> QED
      BY <1>1, <1>3, <2>1, <2>2, <2>3, LetsGo
  <1>7. CASE FailCAS(a)
    <2>1. /\ Open /\ Unpolled
          /\ IF run[a].credits THEN Paid(run[a].chan) ELSE ~task.credits /\ Returned
      BY <1>3, <1>7 DEF FailCAS, HolderOK
    <2>2. /\ task'.status = "failed" /\ task'.chan = task.chan
          /\ task'.credits = task.credits /\ task'.upstream = task.upstream
          /\ UNCHANGED <<charged, refunded>>
      BY <1>1, <1>7, RowFields DEF FailCAS
    <2>3. task.status # "failed"
      BY <2>1 DEF Open
    <2>4. CASE run[a].credits
      <3>0. Goto(a, "refund") /\ "refund" \in PC
        BY <1>7, <2>3, <2>4 DEF FailCAS, PC
      <3>1. PICK r \in Run : Enter(a, r) /\ r.pc = "refund" /\ r.chan = run[a].chan
        BY <1>1, <3>0, GotoEnter
      <3>2. run'[a] = r /\ run'[Creator] = run[Creator]
        BY <1>4, <3>1
      <3>3. HolderOK(a)'
        BY <2>1, <2>2, <2>4, <3>1, <3>2 DEF HolderOK, Failed, Unpolled, Paid
      <3> QED
        BY <1>5, <2>2, <3>1, <3>3
    <2>5. CASE ~run[a].credits
      <3>1. AfterFail(a)
        BY <1>7, <2>5 DEF FailCAS
      <3>2. run'[Creator] = run[Creator]
        BY <1>4, <3>1 DEF AfterFail
      <3>3. Failed' /\ Returned' /\ ~task'.credits
        BY <2>1, <2>2, <2>5, <3>2 DEF Failed, Unpolled, Returned, Back
      <3> QED
        BY <1>6, <2>2, <3>1, <3>3
    <2> QED
      BY <2>4, <2>5
  <1>8. CASE FailRefund(a)
    <2>1. Failed /\ Paid(run[a].chan)
      BY <1>3, <1>8 DEF FailRefund, HolderOK
    <2>2. PICK r \in Run : Enter(a, r) /\ r.pc = "clear"
      BY <1>1, <1>8, GotoEnter DEF FailRefund, PC
    <2>3. run'[a] = r /\ run'[Creator] = run[Creator]
      BY <1>4, <2>2
    <2>4. UNCHANGED task
      BY <1>8 DEF FailRefund
    <2>5. /\ charged' = 1..run[a].chan
          /\ refunded' = Before(run[a].chan) \cup {<<run[a].chan, run[a].reason>>}
      BY <1>8, <2>1 DEF FailRefund, Paid
    <2>6. Returned'
      BY <1>1, <2>5 DEF Returned, Back
    <2>7. Failed'
      BY <2>1, <2>3, <2>4 DEF Failed, Unpolled
    <2>8. HolderOK(a)'
      BY <2>2, <2>3, <2>6, <2>7 DEF HolderOK
    <2> QED
      BY <1>5, <2>2, <2>4, <2>8
  <1>9. CASE ClearCredits(a)
    <2>1. Failed /\ Returned
      BY <1>3, <1>9 DEF ClearCredits, HolderOK
    <2>2. /\ task'.status = task.status /\ task'.chan = task.chan
          /\ ~task'.credits /\ task'.upstream = task.upstream
          /\ UNCHANGED <<charged, refunded>> /\ AfterFail(a)
      BY <1>1, <1>9, RowFields DEF ClearCredits
    <2>3. run'[Creator] = run[Creator]
      BY <1>4, <2>2 DEF AfterFail
    <2>4. Failed' /\ Returned'
      BY <2>1, <2>2, <2>3 DEF Failed, Unpolled, Returned, Back
    <2> QED
      BY <1>6, <2>2, <2>4
  <1> QED
    BY <1>7, <1>8, <1>9

\* The tickers: they take the task up when nobody holds it, and it is open then.
LEMMA TickerCalm ==
  ASSUME CalmInv, IInv', ~InFlight,
         (Poll /\ task.upstream = task.chan) \/ Clean
  PROVE  CalmInv'
  <1> USE Agents DEF ledger
  <1>1. /\ IInv /\ run[Creator].pc = "ended" /\ \A m \in Msg : msg[m].kind = "none"
        /\ UNCHANGED <<task, charged, refunded, msg>>
        /\ task.upstream \in Nat /\ task.chan \in Channel
    BY ConstantsAssumption DEF InFlight, CalmInv, IInv, TypeOK, Task, Poll, Clean
  <1>2. task.status # "pending"
    BY <1>1 DEF CalmInv, TickersApart
  <1>3. run[Poller].pc = "idle" /\ run[Cleaner].pc = "idle"
    <2>1. run[Poller].pc \in {"idle", "query"}
      BY DEF InFlight
    <2>2. CASE Poll
      BY <1>1, <2>2 DEF Poll, CalmInv, TickersApart
    <2>3. CASE Clean
      BY <1>2, <2>1, <2>3 DEF Clean, CalmInv, TickersApart
    <2> QED
      BY <2>2, <2>3
  <1>4. \A b \in Agent : ~Holds(b)
    <2>1. \A m \in Msg : run[m].pc = "idle"
      BY <1>1 DEF IInv, HandlerInv
    <2> QED
      BY <1>1, <1>3, <2>1 DEF Holds, Agent
  <1>5. Released
    BY <1>4 DEF CalmInv
  <1>6. CASE Poll /\ task.upstream = task.chan
    <2> DEFINE base == At(IF old THEN "report" ELSE "query", task.chan, task.credits, "error")
               r == [base EXCEPT !.up = task.upstream]
    <2>1. r.pc \in {"query", "report"} /\ r.chan = task.chan /\ r.credits = task.credits
      BY DEF At
    <2>2. Enter(Poller, r) /\ task.status = "processing" /\ task.upstream # 0
      BY <1>6 DEF Poll
    <2> HIDE DEF r
    <2>3. task.credits /\ Paid(task.chan)
      BY <1>5, <2>2 DEF Released, Failed
    <2>4. run'[Poller] = r /\ run'[Creator] = run[Creator]
      BY <1>1, <2>2 DEF Enter, IInv, TypeOK
    <2>5. HolderOK(Poller)'
      BY <1>1, <2>1, <2>2, <2>3, <2>4 DEF HolderOK, OnChannel, Open, Unpolled, Paid
    <2>6. r.pc \in RolePC(Poller) \ {"idle"} /\ Poller # Cleaner
      BY <2>1 DEF RolePC
    <2> QED
      BY <1>1, <1>4, <2>2, <2>5, <2>6, TakesUp
  <1>7. CASE Clean
    <2> DEFINE r == At("fail", task.chan, task.credits, "stale")
    <2>1. r.pc = "fail" /\ r.chan = task.chan /\ r.credits = task.credits
      BY DEF At
    <2>2. Enter(Cleaner, r) /\ task.status = "processing" /\ task.upstream = 0
      BY <1>2, <1>7 DEF Clean, FailTask
    <2> HIDE DEF r
    <2>3. IF task.credits THEN Paid(task.chan) ELSE Returned
      BY <1>5, <2>2 DEF Released
    <2>4. run'[Cleaner] = r /\ run'[Creator] = run[Creator]
      BY <1>1, <2>2 DEF Enter, IInv, TypeOK
    <2>5. HolderOK(Cleaner)'
      BY <1>1, <2>1, <2>2, <2>3, <2>4 DEF HolderOK, Open, Unpolled, Paid, Returned, Back
    <2>6. r.pc \in RolePC(Cleaner) \ {"idle"}
      BY <2>1 DEF RolePC, FailPC
    <2> QED
      BY <1>1, <1>4, <2>1, <2>2, <2>5, <2>6, TakesUp
  <1> QED
    BY <1>6, <1>7

LEMMA PollCalm ==
  ASSUME CalmInv, IInv', Query \/ Report \/ (ReportFails /\ UNCHANGED msg)
  PROVE  CalmInv'
  <1> USE Agents DEF ledger
  <1>1. /\ IInv /\ run[Poller].pc \in {"query", "report"} /\ UNCHANGED <<charged, refunded>>
        /\ run[Poller].chan \in Channel /\ run[Poller].credits \in BOOLEAN
    BY DEF Query, PollDone, PollFailed, PollNothing, Report, ReportFails, CalmInv, IInv,
           TypeOK, Run
  <1>2. Holds(Poller) /\ OnChannel(run[Poller].chan, run[Poller].credits)
    <2>1. Holds(Poller)
      BY <1>1 DEF Holds
    <2> QED
      BY <1>1, <2>1, HolderFacts DEF HolderOK
  <1>3. ASSUME Enter(Poller, Idle), UNCHANGED msg,
               task'.status \in {task.status, "done"}, task'.chan = task.chan,
               task'.credits = task.credits, task'.upstream = task.upstream
        PROVE  CalmInv'
    <2>1. Idle.pc = "idle"
      BY DEF Idle, At
    <2>2. Steady(Poller, Idle) /\ Idle.pc \in RolePC(Poller)
      BY <1>3, <2>1 DEF Steady, RolePC
    <2>3. Released'
      BY <1>1, <1>2, <1>3 DEF Released, OnChannel, Open, Paid
    <2> QED
      BY <1>2, <1>3, <2>1, <2>2, <2>3, LetsGo
  <1>4. CASE PollDone
    BY <1>1, <1>3, <1>4, RowFields DEF PollDone
  <1>5. CASE PollNothing
    BY <1>1, <1>3, <1>5 DEF PollNothing
  <1>6. ASSUME NEW pc \in {"report", "fail"}, Goto(Poller, pc), UNCHANGED <<task, msg>>
        PROVE  CalmInv'
    <2>1. PICK r \in Run : /\ Enter(Poller, r) /\ r.pc = pc /\ r.chan = run[Poller].chan
                           /\ r.credits = run[Poller].credits
      BY <1>1, <1>6, GotoEnter DEF PC
    <2>2. run'[Poller] = r /\ run'[Creator] = run[Creator]
      BY <1>1, <2>1 DEF Enter, IInv, TypeOK
    <2>3. Steady(Poller, r) /\ r.pc \in RolePC(Poller)
      BY <1>6, <2>1 DEF Steady, RolePC, FailPC
    <2>4. HolderOK(Poller)'
      BY <1>1, <1>2, <1>6, <2>1, <2>2 DEF HolderOK, OnChannel, Open, Unpolled, Paid
    <2> QED
      BY <1>2, <1>6, <2>1, <2>3, <2>4, GoesOn
  <1>7. CASE PollFailed
    BY <1>6, <1>7 DEF PollFailed
  <1>8. CASE ReportFails /\ UNCHANGED msg
    BY <1>6, <1>8 DEF ReportFails
  <1>9. CASE Report
    <2> DEFINE new == Result(run[Poller].chan, run[Poller].credits, 0, "failed")
    <2>1. new \in Message /\ new.kind = "result" /\ new.chan = run[Poller].chan
          /\ (new.credits <=> run[Poller].credits)
      <3>1. 0 \in 0..MaxTries
        BY ConstantsAssumption
      <3> QED
        BY <1>1, <3>1, JobFields
    <2>2. Send(new) /\ UNCHANGED <<task, ledger>> /\ Enter(Poller, Idle)
      BY <1>9 DEF Report
    <2> HIDE DEF new
    <2>3. OnChannel(new.chan, new.credits)
      BY <1>2, <2>1 DEF OnChannel
    <2>4. Idle.pc = "idle" /\ Idle.pc \in RolePC(Poller)
      BY DEF RolePC, Idle, At
    <2> QED
      BY <1>2, <2>1, <2>2, <2>3, <2>4, PassesOn
  <1> QED
    BY <1>4, <1>5, <1>7, <1>8, <1>9 DEF Query

-----------------------------------------------------------------------------

LEMMA InitCalm == Init => CalmInv
  <1> SUFFICES ASSUME Init PROVE CalmInv
    OBVIOUS
  <1> USE Agents
  <1>1. IInv
    BY InitIInv
  <1>2. /\ run[Creator].pc = "start" /\ \A a \in Agent \ {Creator} : run[a].pc = "idle"
        /\ \A m \in Msg : msg[m].kind = "none"
        /\ task.chan = 1 /\ task.upstream = 0 /\ task.status = "none"
        /\ charged = {} /\ refunded = {}
    BY DEF Init, Idle, At, NoMsg
  <1>3. Roles
    BY <1>2 DEF Roles, RolePC, Agent
  <1>4. \A a \in Agent : Holds(a) <=> a = Creator
    BY <1>2 DEF Holds
  <1>5. OneHolder /\ HolderOK(Creator) /\ TickersApart
    BY <1>2, <1>4 DEF OneHolder, HolderOK, TickersApart
  <1> QED
    BY <1>1, <1>3, <1>4, <1>5 DEF CalmInv

LEMMA NextCalm == CalmInv /\ [CalmNext]_vars => CalmInv'
  <1> SUFFICES ASSUME CalmInv, [CalmNext]_vars PROVE CalmInv'
    OBVIOUS
  <1> USE Agents
  <1>1. CASE UNCHANGED vars
    <2>1. IInv'
      BY <1>1, NextKeeps DEF CalmInv
    <2> QED
      BY <1>1, <2>1, AsideCalm
  <1>2. CASE CalmNext
    <2>1. [Next]_vars
      BY <1>2 DEF CalmNext, Next, Create, Handle, Fail, PollStep
    <2>2. IInv'
      BY <2>1, NextKeeps DEF CalmInv
    <2> QED
      BY <1>2, <2>2, CreateCalm, MarkCalm, AsideCalm, WorkerCalm, WriteCalm, HandleFailedCalm,
         RotateCalm, RetryCalm, FailCalm, TickerCalm, PollCalm DEF CalmNext
  <1> QED
    BY <1>1, <1>2

\* The ledger of a task in calm operation, at every moment.
LEMMA CalmLedger ==
  ASSUME CalmInv
  PROVE  \/ charged = {} /\ refunded = {}
         \/ \E c \in Channel : Paid(c)
         \/ Returned
  <1> USE Agents
  <1>1. CASE \A a \in Agent : ~Holds(a)
    <2>1. Released /\ task.chan \in Channel
      BY <1>1 DEF CalmInv, IInv, TypeOK, Task
    <2> QED
      BY <2>1 DEF Released
  <1>2. ASSUME NEW a \in Agent, Holds(a)
        PROVE  \/ charged = {} /\ refunded = {}
               \/ \E c \in Channel : Paid(c)
               \/ Returned
    <2>1. HolderOK(a) /\ run[a].chan \in Channel /\ 1 \in Channel
          /\ (a \in Msg => msg[a].chan \in Channel)
      BY <1>2, Ledgers DEF CalmInv, IInv, TypeOK, Run, Message
    <2>2. run[a].pc \in RolePC(a)
      BY DEF CalmInv, Roles
    <2>3. CASE run[a].pc \in {"zero", "charge"}
      BY <2>1, <2>3 DEF HolderOK, Returned, Reason
    <2>4. CASE run[a].pc \in {"update", "fail", "refund", "clear"}
      BY <2>1, <2>4 DEF HolderOK
    <2>5. CASE run[a].pc \in {"query", "report", "rotate", "republish", "giveback", "publish"}
      BY <2>1, <2>5 DEF HolderOK, OnChannel
    <2>6. CASE run[a].pc \in {"start", "inserted", "charged", "unpublished"}
      BY <2>1, <2>6 DEF HolderOK
    <2>7. CASE run[a].pc = "idle"
      BY <1>2, <2>1, <2>7 DEF HolderOK, OnChannel, Holds
    <2> QED
      BY <1>2, <2>2, <2>3, <2>4, <2>5, <2>6, <2>7 DEF RolePC, FailPC, Holds
  <1> QED
    BY <1>1, <1>2

\* The refunds of a channel, by the shape of the ledger.
LEMMA BeforeOf ==
  ASSUME NEW c \in Channel, NEW d \in Channel
  PROVE  \A x : x \in Before(c) /\ x[1] = d <=> d < c /\ x = <<d, "channel_retry">>
  <1>1. c \in Nat /\ d \in Nat \ {0}
    BY ConstantsAssumption DEF Channel
  <1> QED
    BY <1>1 DEF Before

LEMMA PaidRefunds ==
  ASSUME NEW c \in Channel, NEW d \in Channel, Paid(c)
  PROVE  /\ d \in charged <=> d <= c
         /\ d < c => Refunds(d) = {<<d, "channel_retry">>}
         /\ ~(d < c) => Refunds(d) = {}
  <1>1. c \in Nat /\ d \in Nat \ {0}
    BY ConstantsAssumption DEF Channel
  <1>2. \A x : x \in refunded /\ x[1] = d <=> d < c /\ x = <<d, "channel_retry">>
    BY BeforeOf DEF Paid
  <1>3. \A x : x \in Refunds(d) <=> x \in refunded /\ x[1] = d
    BY DEF Refunds
  <1>4. d \in charged <=> d <= c
    BY <1>1 DEF Paid
  <1> QED
    BY <1>2, <1>3, <1>4

LEMMA BackRefunds ==
  ASSUME NEW c \in Channel, NEW d \in Channel, NEW r \in Reason, Back(c, r)
  PROVE  /\ d \in charged <=> d <= c
         /\ d < c => Refunds(d) = {<<d, "channel_retry">>}
         /\ d = c => Refunds(d) = {<<c, r>>}
         /\ c < d => Refunds(d) = {}
  <1>1. c \in Nat /\ d \in Nat \ {0}
    BY ConstantsAssumption DEF Channel
  <1>2. \A x : x \in Before(c) /\ x[1] = d <=> d < c /\ x = <<d, "channel_retry">>
    BY BeforeOf
  <1>3. \A x : x \in Refunds(d) <=> (x \in Before(c) /\ x[1] = d) \/ (x = <<c, r>> /\ c = d)
    BY DEF Refunds, Back
  <1>4. d \in charged <=> d <= c
    BY <1>1 DEF Back
  <1>5. CASE d < c
    BY <1>1, <1>2, <1>3, <1>4, <1>5
  <1>6. CASE d = c
    BY <1>1, <1>2, <1>3, <1>4, <1>6
  <1>7. CASE c < d
    BY <1>1, <1>2, <1>3, <1>4, <1>7
  <1> QED
    BY <1>1, <1>5, <1>6, <1>7

LEMMA CalmKeepsFaith ==
  ASSUME CalmInv
  PROVE  OneChannelPaid /\ FailedIsRefunded /\ DoneIsPaid /\ RefundedOnce
  <1> USE Agents
  <1>1. Channel \subseteq Nat \ {0}
    BY ConstantsAssumption DEF Channel
  <1>2. charged \subseteq Channel
    BY DEF CalmInv, IInv, TypeOK
  <1>3. \A x : Cardinality({x}) = 1
    BY FS_Singleton
  <1>4. Cardinality({}) = 0
    BY FS_EmptySet
  <1>5. Settled => Released
    BY DEF Settled, Holds, CalmInv
  <1>6. ASSUME charged = {}, refunded = {} PROVE \A d : Refunds(d) = {}
    BY <1>6 DEF Refunds
  <1>7. OneChannelPaid
    <2> SUFFICES ASSUME NEW d \in charged, NEW e \in charged, d < e PROVE Refunds(d) # {}
      BY DEF OneChannelPaid
    <2>1. d \in Channel /\ e \in Channel /\ d \in Nat /\ e \in Nat
      BY <1>1, <1>2
    <2>2. ASSUME NEW c \in Channel, Paid(c) PROVE Refunds(d) # {}
      <3>1. e <= c /\ c \in Nat
        BY <1>1, <2>1, <2>2, PaidRefunds
      <3>2. d < c
        BY <2>1, <3>1
      <3>3. Refunds(d) = {<<d, "channel_retry">>}
        BY <2>1, <2>2, <3>2, PaidRefunds
      <3> QED
        BY <3>3
    <2>3. ASSUME NEW c \in Channel, NEW r \in Reason, Back(c, r) PROVE Refunds(d) # {}
      <3>1. e <= c /\ c \in Nat
        BY <1>1, <2>1, <2>3, BackRefunds
      <3>2. d < c
        BY <2>1, <3>1
      <3>3. Refunds(d) = {<<d, "channel_retry">>}
        BY <2>1, <2>3, <3>2, BackRefunds
      <3> QED
        BY <3>3
    <2> QED
      BY <2>2, <2>3, CalmLedger DEF Returned
  <1>8. FailedIsRefunded
    <2> SUFFICES ASSUME Settled, task.status = "failed", NEW d \in charged
                 PROVE  Refunds(d) # {}
      BY DEF FailedIsRefunded
    <2>1. Returned
      BY <1>5 DEF Released
    <2>2. PICK c \in Channel, r \in Reason : Back(c, r)
      BY <2>1 DEF Returned
    <2>3. d \in Channel /\ d <= c
      BY <1>2, <2>2, BackRefunds
    <2>4. d < c \/ d = c
      BY <1>1, <2>3
    <2>5. \/ Refunds(d) = {<<d, "channel_retry">>}
          \/ Refunds(d) = {<<c, r>>}
      BY <2>2, <2>3, <2>4, BackRefunds
    <2> QED
      BY <2>5
  <1>9. DoneIsPaid
    <2> SUFFICES ASSUME Settled, task.status = "done"
                 PROVE  Cardinality({c \in charged : Refunds(c) = {}}) = 1
      BY DEF DoneIsPaid
    <2> DEFINE c == task.chan
    <2>1. Paid(c) /\ c \in Channel
      BY <1>5 DEF Released, Failed, CalmInv, IInv, TypeOK, Task
    <2> HIDE DEF c
    <2>2. c \in Nat /\ ~(c < c) /\ c <= c
      BY <1>1, <2>1
    <2>3. c \in charged /\ Refunds(c) = {}
      BY <2>1, <2>2, PaidRefunds
    <2>4. ASSUME NEW d \in charged, d # c PROVE Refunds(d) # {}
      <3>1. d \in Channel /\ d <= c
        BY <1>2, <2>1, PaidRefunds
      <3>2. d < c
        BY <1>1, <2>2, <2>4, <3>1
      <3>3. Refunds(d) = {<<d, "channel_retry">>}
        BY <2>1, <3>1, <3>2, PaidRefunds
      <3> QED
        BY <3>3
    <2>5. {d \in charged : Refunds(d) = {}} = {c}
      BY <2>3, <2>4
    <2> QED
      BY <1>3, <2>5
  <1>10. RefundedOnce
    <2> SUFFICES ASSUME NEW d \in Channel
                 PROVE  Cardinality(Refunds(d)) <= IF d \in charged THEN 1 ELSE 0
      BY DEF RefundedOnce
    <2>1. (Refunds(d) = {}) \/ (d \in charged /\ \E x : Refunds(d) = {x})
      <3>1. ASSUME NEW c \in Channel, Paid(c)
            PROVE  (Refunds(d) = {}) \/ (d \in charged /\ \E x : Refunds(d) = {x})
        <4>1. d < c => d <= c
          BY <1>1
        <4> QED
          BY <3>1, <4>1, PaidRefunds
      <3>2. ASSUME NEW c \in Channel, NEW r \in Reason, Back(c, r)
            PROVE  (Refunds(d) = {}) \/ (d \in charged /\ \E x : Refunds(d) = {x})
        <4>1. /\ d < c \/ d = c \/ c < d
              /\ d < c \/ d = c => d <= c
          BY <1>1
        <4> QED
          BY <3>2, <4>1, BackRefunds
      <3> QED
        BY <1>6, <3>1, <3>2, CalmLedger DEF Returned
    <2>2. Cardinality(Refunds(d)) \in {0, IF d \in charged THEN 1 ELSE 0}
      BY <1>3, <1>4, <2>1
    <2> QED
      BY <2>2
  <1> QED
    BY <1>7, <1>8, <1>9, <1>10

\* While nothing is stopped, redelivered or refused (CalmSpec), the user never pays two
\* channels for one task: handleFailed gives the channel back before it charges the next
\* (handler.go:205), for any number of channels and retries, whatever the creator's late
\* status update, the poller and the cleaner do in between.
THEOREM OneChannelIsPaid == CalmSpec => []OneChannelPaid
  <1> QED
    BY InitCalm, NextCalm, CalmKeepsFaith, PTL DEF CalmSpec

\* A task that failed has all its credits back once nothing of it is under way
\* (README.md:186).
THEOREM FailuresAreRefunded == CalmSpec => []FailedIsRefunded
  <1> QED
    BY InitCalm, NextCalm, CalmKeepsFaith, PTL DEF CalmSpec

\* A task that is done has been paid for on exactly one channel: the status that the
\* creator, the batch writer and the poller overwrite without a condition never ends at
\* "done" over a channel that was given back.
THEOREM DoneTasksArePaid == CalmSpec => []DoneIsPaid
  <1> QED
    BY InitCalm, NextCalm, CalmKeepsFaith, PTL DEF CalmSpec

\* No channel is given back twice, or without a charge, although failTaskDB may be run
\* again on a task that the creator's status update has revived (handler.go:389).
THEOREM ChannelsAreRefundedOnce == CalmSpec => []RefundedOnce
  <1> QED
    BY InitCalm, NextCalm, CalmKeepsFaith, PTL DEF CalmSpec
=============================================================================
