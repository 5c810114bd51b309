-------------------------- MODULE RefundJobs_proofs --------------------------
(***************************************************************************)
(* Two facts about deferred refunds, for every number of keys, processors  *)
(* and rounds.                                                             *)
(*                                                                         *)
(* A refund that was answered as deferred is not forgotten.  AnswerKept is *)
(* not inductive: a job may be finished by a processor that has long lost  *)
(* its claim.  What carries it is that nobody comes to the finishing       *)
(* update without having seen the refund's row, and that rows are never    *)
(* removed: every done job has a row.  A job is inserted once and never    *)
(* removed, so the other updates only move it among pending, running and   *)
(* done.                                                                   *)
(*                                                                         *)
(* It is written by one row, when no processor outlives its claim and the  *)
(* refund is asked for once.  RefundedOnce is not inductive: the lookup    *)
(* and the commit of WriteTx are two steps.  What carries it is that at    *)
(* most one processor is at work on a key (Alone): the call while there is *)
(* no job, then whoever holds the claim of the running one.                *)
(***************************************************************************)
EXTENDS RefundJobs, SumTheorems

DoneIsWritten == \A k \in Key : job[k].status = "done" => rows[k] > 0

FinishersSawRow == \A p \in Proc : proc[p].pc = "mark" => rows[proc[p].key] > 0

IInv == TypeOK /\ DoneIsWritten /\ FinishersSawRow /\ AnswerKept

-----------------------------------------------------------------------------
(* Lemmas on the updates                                                   *)

\* The first job of a round is one of its jobs.
LEMMA FirstJob ==
  ASSUME NEW T \in SUBSET Key, T # {}
  PROVE  Min(T) \in T
<1>1. T \in SUBSET Nat
  BY ConstantsAssumption DEF Key
<1>2. PICK m \in T : \A k \in T : m <= k
  BY <1>1, LeastElement
<1> QED
  BY <1>2 DEF Min

\* An update of a job by id keeps the table's type.
LEMMA SetJobType ==
  ASSUME job \in [Key -> JobRow], NEW k \in Key,
         NEW s \in {"pending", "running", "done"}, NEW due \in BOOLEAN,
         SetJob(k, s, due)
  PROVE  /\ job' \in [Key -> JobRow]
         /\ job'[k].status = s
         /\ \A j \in Key \ {k} : job'[j] = job[j]
<1>1. 0 \in 0..StaleAfter
  BY ConstantsAssumption
<1>2. [status |-> s, age |-> 0, due |-> due] \in JobRow
  BY <1>1 DEF JobRow
<1> QED
  BY <1>2 DEF SetJob

\* A step of one processor's program keeps the other processors' state.
LEMMA GotoType ==
  ASSUME proc \in [Proc -> ProcState], NEW p \in Proc, NEW pc \in PC, Goto(p, pc)
  PROVE  /\ proc' \in [Proc -> ProcState]
         /\ proc'[p].pc = pc /\ proc'[p].key = proc[p].key
         /\ \A q \in Proc \ {p} : proc'[q] = proc[q]
BY DEF Goto, ProcState

LEMMA StopType ==
  ASSUME TypeOK, NEW p \in Proc, Stop(p)
  PROVE  /\ proc' \in [Proc -> ProcState]
         /\ proc'[p].pc = "idle"
         /\ \A q \in Proc \ {p} : proc'[q] = proc[q]
<1>1. 1 \in Key
  BY ConstantsAssumption DEF Key
<1>2. Idle \in ProcState
  BY <1>1 DEF Idle, ProcState, PC
<1> QED
  BY <1>2 DEF Stop, TypeOK, Idle

LEMMA AddRowType ==
  ASSUME rows \in [Key -> 0..MaxRows], NEW k \in Key, AddRow(k)
  PROVE  /\ rows' \in [Key -> 0..MaxRows]
         /\ rows'[k] > 0
         /\ \A j \in Key : rows'[j] >= rows[j]
BY ConstantsAssumption DEF AddRow

-----------------------------------------------------------------------------
(* The three ways in which a step can touch the invariant                  *)

\* A step that leaves jobs, rows and answers alone, and brings nobody to "mark"
\* unseen.
LEMMA OnlyProc ==
  ASSUME IInv, NEW p \in Proc, UNCHANGED <<job, rows, answered>>,
         calls' \in [Key -> 0..MaxCalls],
         proc' \in [Proc -> ProcState],
         proc'[p].pc # "mark" \/ rows[proc'[p].key] > 0,
         \A q \in Proc \ {p} : proc'[q] = proc[q]
  PROVE  IInv'
<1>1. TypeOK'
  BY DEF IInv, TypeOK
<1>2. DoneIsWritten' /\ AnswerKept'
  BY DEF IInv, DoneIsWritten, AnswerKept
<1>3. FinishersSawRow'
  BY DEF IInv, FinishersSawRow
<1> QED
  BY <1>1, <1>2, <1>3 DEF IInv

\* A step that writes one job by id and leaves the rows alone: whoever sets it to
\* done has seen a row, and whoever is answered has a job.
LEMMA JobUpdate ==
  ASSUME IInv, NEW p \in Proc, NEW k \in Key,
         NEW s \in {"pending", "running", "done"}, NEW due \in BOOLEAN,
         SetJob(k, s, due), s = "done" => rows[k] > 0,
         UNCHANGED <<rows, calls>>, answered' \in {answered, answered \cup {k}},
         proc' \in [Proc -> ProcState], proc'[p].pc # "mark",
         \A q \in Proc \ {p} : proc'[q] = proc[q]
  PROVE  IInv'
<1>1. /\ job' \in [Key -> JobRow] /\ job'[k].status = s
      /\ \A j \in Key \ {k} : job'[j] = job[j]
  BY SetJobType DEF IInv, TypeOK
<1>2. TypeOK'
  BY <1>1 DEF IInv, TypeOK
<1>3. DoneIsWritten'
  BY <1>1 DEF IInv, DoneIsWritten
<1>4. FinishersSawRow'
  BY DEF IInv, FinishersSawRow
<1>5. AnswerKept'
  <2>1. ASSUME NEW j \in answered', j # k
        PROVE  rows'[j] > 0 \/ job'[j].status \in {"pending", "running"}
    <3>1. j \in answered /\ j \in Key
      BY <2>1 DEF IInv, TypeOK
    <3> QED
      BY <1>1, <2>1, <3>1 DEF IInv, AnswerKept
  <2>2. rows'[k] > 0 \/ job'[k].status \in {"pending", "running"}
    BY <1>1
  <2> QED
    BY <2>1, <2>2 DEF AnswerKept
<1> QED
  BY <1>2, <1>3, <1>4, <1>5 DEF IInv

\* A commit adds a row and removes none.
LEMMA RowAdded ==
  ASSUME IInv, NEW p \in Proc, AddRow(proc[p].key), UNCHANGED <<job, calls>>,
         answered' \in {answered, answered \cup {proc[p].key}},
         proc' \in [Proc -> ProcState],
         proc'[p].pc # "mark" \/ proc'[p].key = proc[p].key,
         \A q \in Proc \ {p} : proc'[q] = proc[q]
  PROVE  IInv'
<1> DEFINE k == proc[p].key
<1>1. k \in Key /\ \A q \in Proc : proc[q].key \in Key
  BY DEF IInv, TypeOK, ProcState
<1>2. /\ rows' \in [Key -> 0..MaxRows] /\ rows'[k] > 0
      /\ \A j \in Key : rows'[j] >= rows[j] /\ rows[j] \in Nat /\ rows'[j] \in Nat
  <2>1. /\ rows' \in [Key -> 0..MaxRows] /\ rows'[k] > 0
        /\ \A j \in Key : rows'[j] >= rows[j]
    BY <1>1, AddRowType DEF IInv, TypeOK
  <2> QED
    BY <2>1, ConstantsAssumption DEF IInv, TypeOK
<1>3. TypeOK'
  BY <1>1, <1>2 DEF IInv, TypeOK
<1>4. DoneIsWritten'
  BY <1>2 DEF IInv, DoneIsWritten
<1>5. FinishersSawRow'
  BY <1>1, <1>2 DEF IInv, FinishersSawRow
<1>6. AnswerKept'
  <2>1. \A j \in answered' : j = k \/ (j \in answered /\ j \in Key)
    BY DEF IInv, TypeOK
  <2> QED
    BY <1>2, <2>1 DEF IInv, AnswerKept
<1> QED
  BY <1>3, <1>4, <1>5, <1>6 DEF IInv

-----------------------------------------------------------------------------

LEMMA InitInv == ASSUME Init PROVE IInv
<1>1. NumKeys \in Nat \ {0} /\ 0 \in 0..StaleAfter /\ 0 \in 0..MaxRows /\ 0 \in 0..MaxCalls
  BY ConstantsAssumption
<1>2. TypeOK
  BY <1>1 DEF Init, TypeOK, JobRow, ProcState, PC, Idle, Key
<1>3. DoneIsWritten /\ FinishersSawRow /\ AnswerKept
  BY DEF Init, DoneIsWritten, FinishersSawRow, AnswerKept, Idle
<1> QED
  BY <1>2, <1>3 DEF IInv

\* What a processor's state tells about its own step.
LEMMA OwnState ==
  ASSUME IInv, NEW p \in Proc
  PROVE  /\ proc \in [Proc -> ProcState] /\ job \in [Key -> JobRow]
         /\ calls \in [Key -> 0..MaxCalls] /\ answered \subseteq Key
         /\ proc[p].key \in Key /\ proc[p].pc \in PC
         /\ proc[p].first \in BOOLEAN /\ proc[p].todo \in SUBSET Key
         /\ \A k \in Key : job[k].due \in BOOLEAN
BY DEF IInv, TypeOK, ProcState, JobRow

\* The caller's attempt, up to the commit.
LEMMA AttemptInv ==
  ASSUME IInv, NEW p \in Proc,
         \/ \E k \in Key : Call(p, k)
         \/ Lookup(p) \/ Commit(p) \/ AnswerLost(p) \/ WriteFails(p)
  PROVE  IInv'
<1>0. /\ proc \in [Proc -> ProcState] /\ job \in [Key -> JobRow]
      /\ calls \in [Key -> 0..MaxCalls] /\ answered \subseteq Key
      /\ proc[p].key \in Key /\ proc[p].pc \in PC
      /\ proc[p].first \in BOOLEAN /\ proc[p].todo \in SUBSET Key
      /\ \A k \in Key : job[k].due \in BOOLEAN
  BY OwnState
<1> USE <1>0
<1>1. ASSUME NEW k \in Key, Call(p, k) PROVE IInv'
  <2>1. proc' \in [Proc -> ProcState] /\ proc'[p].pc = "lookup"
        /\ \A q \in Proc \ {p} : proc'[q] = proc[q]
    BY <1>1 DEF Call, Idle, ProcState, PC
  <2>2. calls' \in [Key -> 0..MaxCalls]
    <3>1. calls[k] \in 0..MaxCalls /\ calls[k] < MaxCalls /\ MaxCalls \in Nat
      BY <1>1, ConstantsAssumption DEF Call
    <3>2. calls[k] + 1 \in 0..MaxCalls
      BY <3>1
    <3> QED
      BY <1>1, <3>2 DEF Call
  <2> QED
    BY <1>1, <2>1, <2>2, OnlyProc DEF Call
<1>2. CASE Lookup(p)
  <2> DEFINE k == proc[p].key
  <2>1. CASE rows[k] = 0 /\ Goto(p, "commit") /\ UNCHANGED answered
    <3>1. proc' \in [Proc -> ProcState] /\ proc'[p].pc = "commit"
          /\ \A q \in Proc \ {p} : proc'[q] = proc[q]
      BY <2>1, GotoType DEF PC
    <3> QED
      BY <1>2, <2>1, <3>1, OnlyProc DEF Lookup
  <2>2. CASE rows[k] > 0 /\ proc[p].first /\ Stop(p) /\ answered' = answered \cup {k}
    <3>1. proc' \in [Proc -> ProcState] /\ proc'[p].pc = "idle"
          /\ \A q \in Proc \ {p} : proc'[q] = proc[q]
      BY <2>2, StopType DEF IInv
    <3>2. TypeOK' /\ DoneIsWritten'
      BY <1>2, <2>2, <3>1 DEF Lookup, IInv, TypeOK, DoneIsWritten
    <3>3. FinishersSawRow'
      BY <1>2, <3>1 DEF Lookup, IInv, FinishersSawRow
    <3>4. AnswerKept'
      BY <1>2, <2>2 DEF Lookup, IInv, AnswerKept
    <3> QED
      BY <3>2, <3>3, <3>4 DEF IInv
  <2>3. CASE rows[k] > 0 /\ ~proc[p].first /\ Goto(p, "mark") /\ UNCHANGED answered
    <3>1. proc' \in [Proc -> ProcState] /\ proc'[p].key = k
          /\ \A q \in Proc \ {p} : proc'[q] = proc[q]
      BY <2>3, GotoType DEF PC
    <3> QED
      BY <1>2, <2>3, <3>1, OnlyProc DEF Lookup
  <2> QED
    BY <1>2, <2>1, <2>2, <2>3 DEF Lookup
<1>3. CASE Commit(p)
  <2>1. /\ proc' \in [Proc -> ProcState]
        /\ proc'[p].pc # "mark" \/ proc'[p].key = proc[p].key
        /\ \A q \in Proc \ {p} : proc'[q] = proc[q]
    <3>1. CASE Stop(p)
      BY <3>1, StopType DEF IInv
    <3>2. CASE Goto(p, "mark")
      BY <3>2, GotoType DEF PC
    <3> QED
      BY <1>3, <3>1, <3>2 DEF Commit
  <2> QED
    BY <1>3, <2>1, RowAdded DEF Commit
<1>4. ASSUME AfterFailure(p)
      PROVE  /\ proc' \in [Proc -> ProcState] /\ proc'[p].pc \in {"enqueue", "retry"}
             /\ \A q \in Proc \ {p} : proc'[q] = proc[q]
  <2>1. (IF proc[p].first THEN "enqueue" ELSE "retry") \in PC \cap {"enqueue", "retry"}
    BY DEF PC
  <2> QED
    BY <1>4, <2>1, GotoType DEF AfterFailure
<1>5. CASE AnswerLost(p)
  BY <1>4, <1>5, RowAdded DEF AnswerLost
<1>6. CASE WriteFails(p)
  BY <1>4, <1>6, OnlyProc DEF WriteFails
<1> QED
  BY <1>1, <1>2, <1>3, <1>5, <1>6

\* Deferring: a job is found pending or done, put back, or inserted.
LEMMA EnqueueInv ==
  ASSUME IInv, NEW p \in Proc,
         EnqueueLookup(p) \/ Requeue(p) \/ Insert(p) \/ EnqueueFails(p)
  PROVE  IInv'
<1>0. /\ proc \in [Proc -> ProcState] /\ job \in [Key -> JobRow]
      /\ calls \in [Key -> 0..MaxCalls] /\ answered \subseteq Key
      /\ proc[p].key \in Key /\ proc[p].pc \in PC
      /\ proc[p].first \in BOOLEAN /\ proc[p].todo \in SUBSET Key
      /\ \A k \in Key : job[k].due \in BOOLEAN
  BY OwnState
<1> USE <1>0
<1> DEFINE k == proc[p].key
<1>1. ASSUME Deferred(p)
      PROVE  /\ proc' \in [Proc -> ProcState] /\ proc'[p].pc = "round"
             /\ \A q \in Proc \ {p} : proc'[q] = proc[q]
             /\ answered' = answered \cup {k}
  BY <1>1, GotoType DEF Deferred, PC
<1>2. ASSUME Deferred(p), job[k].status # "none", UNCHANGED <<job, rows, calls>> PROVE IInv'
  <2>1. TypeOK' /\ DoneIsWritten'
    BY <1>1, <1>2 DEF IInv, TypeOK, DoneIsWritten
  <2>2. FinishersSawRow'
    BY <1>1, <1>2 DEF IInv, FinishersSawRow
  <2>3. job[k].status \in {"pending", "running"} \/ rows[k] > 0
    BY <1>2 DEF IInv, DoneIsWritten, JobRow
  <2>4. AnswerKept'
    BY <1>1, <1>2, <2>3 DEF IInv, AnswerKept
  <2> QED
    BY <2>1, <2>2, <2>4 DEF IInv
<1>3. ASSUME Deferred(p), SetJob(k, "pending", TRUE), UNCHANGED <<rows, calls>> PROVE IInv'
  BY <1>1, <1>3, JobUpdate
<1>4. CASE EnqueueLookup(p)
  <2>1. CASE job[k].status \in {"done", "pending"} /\ Deferred(p)
    BY <1>2, <1>4, <2>1 DEF EnqueueLookup
  <2>2. ASSUME NEW pc \in {"requeue", "insert"}, Goto(p, pc), UNCHANGED answered PROVE IInv'
    <3>1. proc' \in [Proc -> ProcState] /\ proc'[p].pc = pc
          /\ \A q \in Proc \ {p} : proc'[q] = proc[q]
      BY <2>2, GotoType DEF PC
    <3> QED
      BY <1>4, <2>2, <3>1, OnlyProc DEF EnqueueLookup
  <2> QED
    BY <1>4, <2>1, <2>2 DEF EnqueueLookup
<1>5. CASE Requeue(p)
  BY <1>3, <1>5 DEF Requeue
<1>6. CASE Insert(p)
  BY <1>2, <1>3, <1>6 DEF Insert
<1>7. CASE EnqueueFails(p)
  <2>1. proc' \in [Proc -> ProcState] /\ proc'[p].pc = "idle"
        /\ \A q \in Proc \ {p} : proc'[q] = proc[q]
    BY <1>7, StopType DEF EnqueueFails, IInv
  <2> QED
    BY <1>7, <2>1, OnlyProc DEF EnqueueFails
<1> QED
  BY <1>4, <1>5, <1>6, <1>7

\* Steps of a round that write no job.
LEMMA RoundInv ==
  ASSUME IInv, NEW p \in Proc,
         \/ Ticker(p) \/ Select(p) \/ RoundEnds(p) \/ Check(p) \/ ProcessFails(p)
         \/ Abandon(p)
  PROVE  IInv'
<1>0. /\ proc \in [Proc -> ProcState] /\ job \in [Key -> JobRow]
      /\ calls \in [Key -> 0..MaxCalls] /\ answered \subseteq Key
      /\ proc[p].key \in Key /\ proc[p].pc \in PC
      /\ proc[p].first \in BOOLEAN /\ proc[p].todo \in SUBSET Key
      /\ \A k \in Key : job[k].due \in BOOLEAN
  BY OwnState
<1> USE <1>0
<1>1. ASSUME NEW pc \in PC, pc # "mark" \/ rows[proc[p].key] > 0, Goto(p, pc),
             UNCHANGED <<job, rows, calls, answered>>
      PROVE  IInv'
  <2>1. proc' \in [Proc -> ProcState] /\ proc'[p].pc = pc /\ proc'[p].key = proc[p].key
        /\ \A q \in Proc \ {p} : proc'[q] = proc[q]
    BY <1>1, GotoType
  <2> QED
    BY <1>1, <2>1, OnlyProc
<1>2. ASSUME Stop(p), UNCHANGED <<job, rows, calls, answered>> PROVE IInv'
  <2>1. proc' \in [Proc -> ProcState] /\ proc'[p].pc = "idle"
        /\ \A q \in Proc \ {p} : proc'[q] = proc[q]
    BY <1>2, StopType DEF IInv
  <2> QED
    BY <1>2, <2>1, OnlyProc
<1>3. CASE Ticker(p)
  BY <1>1, <1>3 DEF Ticker, PC
<1>4. CASE Select(p)
  <2> DEFINE S == {k \in Ready : Cardinality({j \in Ready : j < k}) < Limit}
  <2>1. S \in SUBSET Key
    BY DEF Ready
  <2>2. proc' = [proc EXCEPT ![p].pc = "next", ![p].todo = S]
    BY <1>4 DEF Select
  <2> HIDE DEF S
  <2>3. proc' \in [Proc -> ProcState] /\ proc'[p].pc = "next"
        /\ \A q \in Proc \ {p} : proc'[q] = proc[q]
    <3> DEFINE new == [proc[p] EXCEPT !.pc = "next", !.todo = S]
    <3>1. new \in ProcState /\ new.pc = "next"
      BY <1>0, <2>1 DEF ProcState, PC
    <3>2. proc' = [proc EXCEPT ![p] = new]
      BY <1>0, <2>2
    <3> HIDE DEF new
    <3> QED
      BY <1>0, <3>1, <3>2
  <2>4. UNCHANGED <<job, rows, calls, answered>>
    BY <1>4 DEF Select
  <2> QED
    BY <2>3, <2>4, OnlyProc
<1>5. CASE RoundEnds(p)
  BY <1>2, <1>5 DEF RoundEnds
<1>6. CASE Check(p)
  <2>1. CASE rows[proc[p].key] > 0
    BY <1>1, <1>6, <2>1 DEF Check, PC
  <2>2. CASE ~(rows[proc[p].key] > 0)
    BY <1>1, <1>6, <2>2 DEF Check, PC
  <2> QED
    BY <2>1, <2>2
<1>7. CASE ProcessFails(p)
  BY <1>1, <1>7 DEF ProcessFails, PC
<1>8. CASE Abandon(p)
  BY <1>2, <1>8 DEF Abandon
<1> QED
  BY <1>3, <1>4, <1>5, <1>6, <1>7, <1>8

\* Stale jobs are put back together: running becomes pending.
LEMMA ReclaimStaleInv ==
  ASSUME IInv, NEW p \in Proc, ReclaimStale(p)
  PROVE  IInv'
<1>0. /\ proc \in [Proc -> ProcState] /\ job \in [Key -> JobRow]
      /\ calls \in [Key -> 0..MaxCalls] /\ answered \subseteq Key
      /\ proc[p].key \in Key /\ proc[p].pc \in PC
      /\ proc[p].first \in BOOLEAN /\ proc[p].todo \in SUBSET Key
      /\ \A k \in Key : job[k].due \in BOOLEAN
  BY OwnState
<1> USE <1>0
<1>1. proc' \in [Proc -> ProcState] /\ proc'[p].pc = "select"
      /\ \A q \in Proc \ {p} : proc'[q] = proc[q]
  BY GotoType DEF ReclaimStale, PC
<1>2. [status |-> "pending", age |-> 0, due |-> TRUE] \in JobRow
  BY ConstantsAssumption DEF JobRow
<1>3. /\ job' \in [Key -> JobRow]
      /\ \A k \in Key : job'[k] = job[k] \/ job'[k].status = "pending"
  BY <1>2 DEF ReclaimStale
<1>4. TypeOK'
  BY <1>1, <1>3 DEF ReclaimStale, IInv, TypeOK
<1>5. DoneIsWritten'
  BY <1>3 DEF ReclaimStale, IInv, DoneIsWritten
<1>6. FinishersSawRow'
  BY <1>1 DEF ReclaimStale, IInv, FinishersSawRow
<1>7. AnswerKept'
  BY <1>3 DEF ReclaimStale, IInv, AnswerKept
<1> QED
  BY <1>4, <1>5, <1>6, <1>7 DEF IInv

\* The updates of a job by whoever processes it, claim or no claim.
LEMMA ProcessInv ==
  ASSUME IInv, NEW p \in Proc,
         Claim(p) \/ MarkDone(p) \/ BackOff(p) \/ Release(p)
  PROVE  IInv'
<1>0. /\ proc \in [Proc -> ProcState] /\ job \in [Key -> JobRow]
      /\ calls \in [Key -> 0..MaxCalls] /\ answered \subseteq Key
      /\ proc[p].key \in Key /\ proc[p].pc \in PC
      /\ proc[p].first \in BOOLEAN /\ proc[p].todo \in SUBSET Key
      /\ \A k \in Key : job[k].due \in BOOLEAN
  BY OwnState
<1> USE <1>0
<1>1. ASSUME Goto(p, "next")
      PROVE  proc' \in [Proc -> ProcState] /\ proc'[p].pc # "mark"
             /\ \A q \in Proc \ {p} : proc'[q] = proc[q]
  BY <1>1, GotoType DEF PC
<1>2. CASE Claim(p)
  <2> DEFINE k == Min(proc[p].todo)
             rest == proc[p].todo \ {k}
  <2>1. k \in Key /\ rest \in SUBSET Key
    BY <1>2, FirstJob DEF Claim
  <2>2. \/ /\ job[k].status = "pending"
           /\ SetJob(k, "running", job[k].due)
           /\ proc' = [proc EXCEPT ![p] = [pc |-> "check", key |-> k, first |-> FALSE,
                                             todo |-> rest]]
        \/ /\ job[k].status # "pending"
           /\ proc' = [proc EXCEPT ![p].todo = rest]
           /\ UNCHANGED job
    BY <1>2 DEF Claim
  <2>3. UNCHANGED <<rows, calls, answered>> /\ proc[p].pc = "next"
    BY <1>2 DEF Claim
  <2> HIDE DEF k, rest
  <2>4. CASE /\ SetJob(k, "running", job[k].due)
             /\ proc' = [proc EXCEPT ![p] = [pc |-> "check", key |-> k, first |-> FALSE,
                                               todo |-> rest]]
    <3>1. proc' \in [Proc -> ProcState] /\ proc'[p].pc # "mark"
          /\ \A q \in Proc \ {p} : proc'[q] = proc[q]
      <4>1. [pc |-> "check", key |-> k, first |-> FALSE, todo |-> rest] \in ProcState
        BY <2>1 DEF ProcState, PC
      <4> QED
        BY <2>4, <4>1
    <3>2. job[k].due \in BOOLEAN /\ SetJob(k, "running", job[k].due)
      BY <2>1, <2>4
    <3>3. UNCHANGED <<rows, calls>> /\ answered' \in {answered, answered \cup {k}}
      BY <2>3
    <3> DEFINE due == job[k].due
    <3> HIDE DEF due
    <3>4. due \in BOOLEAN /\ SetJob(k, "running", due)
      BY <3>2 DEF due
    <3> QED
      BY <2>1, <3>1, <3>3, <3>4, JobUpdate
  <2>5. CASE proc' = [proc EXCEPT ![p].todo = rest] /\ UNCHANGED job
    <3>1. proc' \in [Proc -> ProcState] /\ proc'[p].pc # "mark"
          /\ \A q \in Proc \ {p} : proc'[q] = proc[q]
      BY <2>1, <2>3, <2>5 DEF ProcState
    <3> QED
      BY <2>3, <2>5, <3>1, OnlyProc
  <2> QED
    BY <2>2, <2>4, <2>5
<1>3. CASE MarkDone(p)
  <2>1. rows[proc[p].key] > 0
    BY <1>3 DEF MarkDone, IInv, FinishersSawRow
  <2> QED
    BY <1>1, <1>3, <2>1, JobUpdate DEF MarkDone
<1>4. CASE BackOff(p)
  BY <1>1, <1>4, JobUpdate DEF BackOff
<1>5. CASE Release(p)
  <2>1. proc' \in [Proc -> ProcState] /\ proc'[p].pc = "idle"
        /\ \A q \in Proc \ {p} : proc'[q] = proc[q]
    BY <1>5, StopType DEF Release, IInv
  <2> QED
    BY <1>5, <2>1, JobUpdate DEF Release
<1> QED
  BY <1>2, <1>3, <1>4, <1>5

\* Time changes no status.
LEMMA TickJobs ==
  ASSUME job \in [Key -> JobRow], Tick
  PROVE  /\ job' \in [Key -> JobRow]
         /\ \A k \in Key : job'[k].status = job[k].status
<1>1. PICK later \in SUBSET {k \in Key : ~job[k].due /\ job[k].status # "none"} :
        job' = [k \in Key |-> [job[k] EXCEPT
                 !.age = IF @ < StaleAfter /\ job[k].status = "running" THEN @ + 1 ELSE @,
                 !.due = job[k].due \/ k \in later]]
  BY DEF Tick
<1>2. ASSUME NEW k \in Key
      PROVE  job'[k] \in JobRow /\ job'[k].status = job[k].status
  <2>1. job[k] \in JobRow
    OBVIOUS
  <2> DEFINE age == IF job[k].age < StaleAfter /\ job[k].status = "running"
                    THEN job[k].age + 1 ELSE job[k].age
  <2>2. age \in 0..StaleAfter
    <3>1. job[k].age \in 0..StaleAfter /\ StaleAfter \in Nat
      BY <2>1, ConstantsAssumption DEF JobRow
    <3> QED
      BY <3>1
  <2>3. job'[k] = [job[k] EXCEPT !.age = age, !.due = job[k].due \/ k \in later]
    BY <1>1, <1>2
  <2> HIDE DEF age
  <2> QED
    BY <2>1, <2>2, <2>3 DEF JobRow
<1>3. job' = [k \in Key |-> job'[k]]
  BY <1>1
<1> QED
  BY <1>2, <1>3

LEMMA TickInv ==
  ASSUME IInv, Tick
  PROVE  IInv'
<1>1. job' \in [Key -> JobRow] /\ \A k \in Key : job'[k].status = job[k].status
  BY TickJobs DEF IInv, TypeOK
<1>2. TypeOK'
  BY <1>1 DEF Tick, IInv, TypeOK
<1>3. DoneIsWritten'
  BY <1>1 DEF Tick, IInv, DoneIsWritten
<1>4. FinishersSawRow'
  BY DEF Tick, IInv, FinishersSawRow
<1>5. AnswerKept'
  <2>1. answered \subseteq Key
    BY DEF IInv, TypeOK
  <2> QED
    BY <1>1, <2>1 DEF Tick, IInv, AnswerKept
<1> QED
  BY <1>2, <1>3, <1>4, <1>5 DEF IInv

LEMMA NextInv ==
  ASSUME IInv, [Next]_vars
  PROVE  IInv'
<1>1. CASE UNCHANGED vars
  BY <1>1 DEF vars, IInv, TypeOK, DoneIsWritten, FinishersSawRow, AnswerKept
<1>2. CASE Tick
  BY <1>2, TickInv
<1>3. ASSUME NEW p \in Proc,
             \/ \E k \in Key : Call(p, k)
             \/ Ticker(p) \/ Proceed(p)
             \/ AnswerLost(p) \/ WriteFails(p) \/ EnqueueFails(p) \/ ProcessFails(p)
             \/ Abandon(p)
      PROVE  IInv'
  BY <1>3, AttemptInv, EnqueueInv, RoundInv, ReclaimStaleInv, ProcessInv DEF Proceed
<1> QED
  BY <1>1, <1>2, <1>3 DEF Next

\* However failures, stops, lost claims and concurrent rounds interleave, a refund that
\* WriteTx answered as deferred has its row, or a job that will still be processed
\* (enqueueRefundJob, processBillingRefundJob).
THEOREM AnswersAreKept == Spec => []AnswerKept
<1>1. Init => IInv
  BY InitInv
<1>2. IInv /\ [Next]_vars => IInv'
  BY NextInv
<1>3. IInv => AnswerKept
  BY DEF IInv
<1> QED
  BY <1>1, <1>2, <1>3, PTL DEF Spec

-----------------------------------------------------------------------------
(* One row for one refund                                                  *)

\* At work on the refund of its key: the call that failed, or whoever claimed the job.
AtWork(p) == proc[p].pc \in {"lookup", "commit", "enqueue", "requeue", "insert",
                             "check", "mark", "retry", "release"}

\* The call is at work before there is a job, a processor only on a job that it claimed
\* and that is not yet stale; nobody is at the commit of a refund that has its row.
WorkOK(p) ==
  LET k == proc[p].key
  IN /\ proc[p].pc \in {"check", "mark", "retry", "release"} => ~proc[p].first
     /\ proc[p].pc \in {"enqueue", "requeue", "insert"} => proc[p].first
     /\ AtWork(p) /\ proc[p].first => job[k].status = "none" /\ calls[k] > 0
     /\ AtWork(p) /\ ~proc[p].first => job[k].status = "running" /\ job[k].age < StaleAfter
     /\ proc[p].pc = "commit" => rows[k] = 0

Alone == \A p, q \in Proc : p # q /\ AtWork(p) /\ AtWork(q) => proc[p].key # proc[q].key

\* There is a job only after a call.
Begun == \A k \in Key : job[k].status # "none" => calls[k] > 0

OnceInv == IInv /\ (\A p \in Proc : WorkOK(p)) /\ Alone /\ Begun /\ RefundedOnce

\* A step of one processor leaves the refunds that the others are at work on alone, and
\* does not take one of them up.
LEMMA OnceStep ==
  ASSUME OnceInv, IInv', NEW p \in Proc,
         \A q \in Proc \ {p} : proc'[q] = proc[q],
         \A q \in Proc \ {p} : AtWork(q) =>
            /\ job'[proc[q].key] = job[proc[q].key]
            /\ rows'[proc[q].key] = rows[proc[q].key]
            /\ calls[proc[q].key] > 0 => calls'[proc[q].key] > 0
            /\ AtWork(p)' => proc'[p].key # proc[q].key,
         WorkOK(p)', Begun', RefundedOnce'
  PROVE  OnceInv'
<1>1. ASSUME NEW q \in Proc \ {p} PROVE WorkOK(q)'
  <2>1. proc'[q] = proc[q] /\ WorkOK(q)
    BY DEF OnceInv
  <2>2. AtWork(q)' <=> AtWork(q)
    BY <2>1 DEF AtWork
  <2>3. CASE AtWork(q)
    BY <2>1, <2>2, <2>3 DEF WorkOK
  <2>4. CASE ~AtWork(q)
    BY <2>1, <2>2, <2>4 DEF WorkOK, AtWork
  <2> QED
    BY <2>3, <2>4
<1>2. Alone'
  <2>1. ASSUME NEW q \in Proc \ {p}, AtWork(q)', AtWork(p)' PROVE proc'[p].key # proc'[q].key
    BY <2>1 DEF AtWork
  <2>2. ASSUME NEW q \in Proc \ {p}, NEW r \in Proc \ {p}, q # r, AtWork(q)', AtWork(r)'
        PROVE  proc'[q].key # proc'[r].key
    BY <2>2 DEF OnceInv, Alone, AtWork
  <2> QED
    BY <2>1, <2>2 DEF Alone
<1> QED
  BY <1>1, <1>2 DEF OnceInv

\* Whoever is at work on a refund may write its job and its first row.
LEMMA OwnStep ==
  ASSUME OnceInv, IInv', NEW p \in Proc, AtWork(p),
         \A q \in Proc \ {p} : proc'[q] = proc[q],
         AtWork(p)' => proc'[p].key = proc[p].key,
         \A j \in Key \ {proc[p].key} : job'[j] = job[j] /\ rows'[j] = rows[j],
         rows'[proc[p].key] <= 1, calls' = calls, WorkOK(p)'
  PROVE  OnceInv'
<1> DEFINE k == proc[p].key
<1>1. k \in Key /\ \A q \in Proc : proc[q].key \in Key
  BY DEF OnceInv, IInv, TypeOK, ProcState
<1>2. \A q \in Proc \ {p} : AtWork(q) => proc[q].key # k
  BY DEF OnceInv, Alone
<1>3. calls[k] > 0
  BY <1>1 DEF OnceInv, WorkOK, Begun
<1>4. Begun'
  BY <1>1, <1>3 DEF OnceInv, Begun
<1>5. RefundedOnce'
  BY <1>1 DEF OnceInv, RefundedOnce
<1> QED
  BY <1>1, <1>2, <1>4, <1>5, OnceStep

\* A processor that is at work on no refund, before and after, leaves those of the
\* others alone.
LEMMA AsideStep ==
  ASSUME OnceInv, IInv', NEW p \in Proc, ~AtWork(p)',
         \A q \in Proc \ {p} : proc'[q] = proc[q], UNCHANGED <<job, rows, calls>>
  PROVE  OnceInv'
<1>1. WorkOK(p)'
  BY DEF WorkOK, AtWork
<1>2. Begun' /\ RefundedOnce'
  BY DEF OnceInv, Begun, RefundedOnce
<1> QED
  BY <1>1, <1>2, OnceStep

LEMMA InitOnce == ASSUME Init PROVE OnceInv
<1>1. IInv
  BY InitInv
<1>2. \A p \in Proc : WorkOK(p) /\ ~AtWork(p)
  BY DEF Init, Idle, WorkOK, AtWork
<1>3. Alone /\ Begun /\ RefundedOnce
  BY <1>2 DEF Init, Alone, Begun, RefundedOnce
<1> QED
  BY <1>1, <1>2, <1>3 DEF OnceInv

\* The one call for a key finds no job and nobody at work.
LEMMA CallOnce ==
  ASSUME OnceInv, IInv', MaxCalls <= 1, NEW p \in Proc, NEW k \in Key, Call(p, k)
  PROVE  OnceInv'
<1>1. /\ calls \in [Key -> 0..MaxCalls] /\ proc \in [Proc -> ProcState]
      /\ \A q \in Proc : proc[q].key \in Key
  BY DEF OnceInv, IInv, TypeOK, ProcState
<1>2. calls[k] = 0
  <2>1. calls[k] \in 0..MaxCalls /\ calls[k] < MaxCalls /\ MaxCalls \in Nat
    BY <1>1, ConstantsAssumption DEF Call
  <2> QED
    BY <2>1
<1>3. job[k].status = "none"
  BY <1>2 DEF OnceInv, Begun
<1>4. \A q \in Proc : AtWork(q) => proc[q].key # k
  BY <1>2, <1>3 DEF OnceInv, WorkOK
<1>5. /\ proc'[p].key = k /\ proc'[p].first /\ proc'[p].pc = "lookup"
      /\ \A q \in Proc \ {p} : proc'[q] = proc[q]
      /\ UNCHANGED <<job, rows>>
      /\ calls'[k] = 1 /\ \A j \in Key \ {k} : calls'[j] = calls[j]
  BY <1>1, <1>2 DEF Call, Idle
<1>6. WorkOK(p)'
  BY <1>3, <1>5 DEF WorkOK
<1>7. Begun'
  BY <1>3, <1>5 DEF OnceInv, Begun
<1>8. RefundedOnce'
  BY <1>5 DEF OnceInv, RefundedOnce
<1> QED
  BY <1>1, <1>4, <1>5, <1>6, <1>7, <1>8, OnceStep

\* The steps of whoever is at work on a refund.
LEMMA WorkOnce ==
  ASSUME OnceInv, IInv', NEW p \in Proc,
         \/ Lookup(p) \/ Commit(p) \/ AnswerLost(p) \/ WriteFails(p)
         \/ EnqueueLookup(p) \/ Requeue(p) \/ Insert(p) \/ EnqueueFails(p)
         \/ Check(p) \/ MarkDone(p) \/ BackOff(p) \/ ProcessFails(p) \/ Release(p)
  PROVE  OnceInv'
<1> DEFINE k == proc[p].key
<1>0. /\ k \in Key /\ proc \in [Proc -> ProcState] /\ proc[p].first \in BOOLEAN
      /\ job \in [Key -> JobRow] /\ rows \in [Key -> 0..MaxRows] /\ WorkOK(p)
      /\ rows[k] <= 1
  BY DEF OnceInv, IInv, TypeOK, ProcState, RefundedOnce
<1>1. AtWork(p)
  BY DEF AtWork, Lookup, Commit, AnswerLost, WriteFails, EnqueueLookup, Requeue, Insert,
         EnqueueFails, Check, MarkDone, BackOff, ProcessFails, Release
<1>2. /\ proc[p].first => job[k].status = "none" /\ calls[k] > 0
      /\ ~proc[p].first => job[k].status = "running" /\ job[k].age < StaleAfter
  BY <1>0, <1>1 DEF WorkOK
<1>3. ASSUME Stop(p)
      PROVE  /\ \A q \in Proc \ {p} : proc'[q] = proc[q]
             /\ ~AtWork(p)' /\ WorkOK(p)'
  <2>1. proc'[p].pc = "idle" /\ \A q \in Proc \ {p} : proc'[q] = proc[q]
    BY <1>3, StopType DEF OnceInv, IInv
  <2> QED
    BY <2>1 DEF AtWork, WorkOK
<1>4. ASSUME NEW pc \in PC, Goto(p, pc)
      PROVE  /\ \A q \in Proc \ {p} : proc'[q] = proc[q]
             /\ proc'[p].pc = pc /\ proc'[p].key = k /\ proc'[p].first = proc[p].first
  BY <1>0, <1>4 DEF Goto, ProcState
<1>5. ASSUME NEW pc \in {"round", "next"}, Goto(p, pc)
      PROVE  /\ \A q \in Proc \ {p} : proc'[q] = proc[q]
             /\ ~AtWork(p)' /\ WorkOK(p)'
  <2>1. proc'[p].pc = pc /\ \A q \in Proc \ {p} : proc'[q] = proc[q]
    BY <1>4, <1>5 DEF PC
  <2> QED
    BY <2>1 DEF AtWork, WorkOK
<1>6. ASSUME NEW s, NEW due, SetJob(k, s, due)
      PROVE  \A j \in Key \ {k} : job'[j] = job[j]
  BY <1>0, <1>6 DEF SetJob
<1>7. ASSUME AddRow(k), rows[k] = 0
      PROVE  rows'[k] <= 1 /\ \A j \in Key \ {k} : rows'[j] = rows[j]
  BY <1>0, <1>7 DEF AddRow
<1>8. ASSUME Stop(p), calls' = calls, rows'[k] <= 1,
             \A j \in Key \ {k} : job'[j] = job[j] /\ rows'[j] = rows[j]
      PROVE  OnceInv'
  BY <1>1, <1>3, <1>8, OwnStep
<1>9. ASSUME NEW pc \in {"round", "next"}, Goto(p, pc), calls' = calls, rows'[k] <= 1,
             \A j \in Key \ {k} : job'[j] = job[j] /\ rows'[j] = rows[j]
      PROVE  OnceInv'
  BY <1>1, <1>5, <1>9, OwnStep
\* It goes on with the refund: the job is left alone.
<1>10. ASSUME NEW pc \in PC, Goto(p, pc), UNCHANGED <<job, calls>>, rows'[k] <= 1,
              \A j \in Key \ {k} : rows'[j] = rows[j],
              pc \in {"check", "mark", "retry", "release"} => ~proc[p].first,
              pc \in {"enqueue", "requeue", "insert"} => proc[p].first,
              pc = "commit" => rows'[k] = 0
       PROVE  OnceInv'
  <2>1. /\ \A q \in Proc \ {p} : proc'[q] = proc[q]
        /\ proc'[p].pc = pc /\ proc'[p].key = k /\ proc'[p].first = proc[p].first
    BY <1>4, <1>10
  <2>2. WorkOK(p)'
    BY <1>2, <1>10, <2>1 DEF WorkOK
  <2> QED
    BY <1>1, <1>10, <2>1, <2>2, OwnStep
<1>11. CASE Lookup(p)
  <2>1. CASE rows[k] = 0 /\ Goto(p, "commit")
    BY <1>0, <1>10, <1>11, <2>1 DEF Lookup, PC
  <2>2. CASE Stop(p)
    BY <1>0, <1>8, <1>11, <2>2 DEF Lookup
  <2>3. CASE ~proc[p].first /\ Goto(p, "mark")
    BY <1>0, <1>10, <1>11, <2>3 DEF Lookup, PC
  <2> QED
    BY <1>11, <2>1, <2>2, <2>3 DEF Lookup
<1>12. ASSUME proc[p].pc = "commit", AddRow(k)
       PROVE  rows'[k] <= 1 /\ \A j \in Key \ {k} : rows'[j] = rows[j]
  BY <1>0, <1>7, <1>12 DEF WorkOK
<1>13. CASE Commit(p)
  <2>1. CASE Stop(p)
    BY <1>8, <1>12, <1>13, <2>1 DEF Commit
  <2>2. CASE ~proc[p].first /\ Goto(p, "mark")
    BY <1>10, <1>12, <1>13, <2>2 DEF Commit, PC
  <2> QED
    BY <1>13, <2>1, <2>2 DEF Commit
<1>14. ASSUME AfterFailure(p), UNCHANGED <<job, calls>>, rows'[k] <= 1,
              \A j \in Key \ {k} : rows'[j] = rows[j]
       PROVE  OnceInv'
  <2>1. CASE proc[p].first
    BY <1>10, <1>14, <2>1 DEF AfterFailure, PC
  <2>2. CASE ~proc[p].first
    BY <1>10, <1>14, <2>2 DEF AfterFailure, PC
  <2> QED
    BY <2>1, <2>2
<1>15. CASE AnswerLost(p)
  BY <1>12, <1>14, <1>15 DEF AnswerLost
<1>16. CASE WriteFails(p)
  BY <1>0, <1>14, <1>16 DEF WriteFails
<1>17. ASSUME Deferred(p), UNCHANGED <<rows, calls>>,
              \A j \in Key \ {k} : job'[j] = job[j]
       PROVE  OnceInv'
  BY <1>0, <1>9, <1>17 DEF Deferred
<1>18. CASE EnqueueLookup(p)
  <2>1. CASE Deferred(p)
    BY <1>17, <1>18, <2>1 DEF EnqueueLookup
  <2>2. ASSUME NEW pc \in {"requeue", "insert"}, Goto(p, pc) PROVE OnceInv'
    <3>1. proc[p].first
      BY <1>0, <1>18 DEF EnqueueLookup, WorkOK
    <3> QED
      BY <1>0, <1>10, <1>18, <2>2, <3>1 DEF EnqueueLookup, PC
  <2> QED
    BY <1>18, <2>1, <2>2 DEF EnqueueLookup
<1>19. CASE Requeue(p)
  BY <1>6, <1>17, <1>19 DEF Requeue
<1>20. CASE Insert(p)
  <2>1. \A j \in Key \ {k} : job'[j] = job[j]
    BY <1>6, <1>20 DEF Insert
  <2> QED
    BY <1>17, <1>20, <2>1 DEF Insert
<1>21. CASE EnqueueFails(p)
  BY <1>0, <1>8, <1>21 DEF EnqueueFails
<1>22. CASE Check(p)
  <2>1. ~proc[p].first
    BY <1>0, <1>22 DEF Check, WorkOK
  <2>2. CASE rows[k] > 0
    BY <1>0, <1>10, <1>22, <2>1, <2>2 DEF Check, PC
  <2>3. CASE ~(rows[k] > 0)
    BY <1>0, <1>10, <1>22, <2>1, <2>3 DEF Check, PC
  <2> QED
    BY <2>2, <2>3
<1>23. CASE MarkDone(p)
  BY <1>0, <1>6, <1>9, <1>23 DEF MarkDone
<1>24. CASE BackOff(p)
  BY <1>0, <1>6, <1>9, <1>24 DEF BackOff
<1>25. CASE ProcessFails(p)
  <2>1. ~proc[p].first
    BY <1>0, <1>25 DEF ProcessFails, WorkOK
  <2> QED
    BY <1>0, <1>10, <1>25, <2>1 DEF ProcessFails, PC
<1>26. CASE Release(p)
  BY <1>0, <1>6, <1>8, <1>26 DEF Release
<1> QED
  BY <1>11, <1>13, <1>15, <1>16, <1>18, <1>19, <1>20, <1>21, <1>22, <1>23, <1>24, <1>25, <1>26

\* The steps of a round between two jobs, and a server that stops.
LEMMA RoundOnce ==
  ASSUME OnceInv, IInv', NEW p \in Proc,
         Ticker(p) \/ Select(p) \/ RoundEnds(p) \/ Abandon(p)
  PROVE  OnceInv'
<1>0. proc \in [Proc -> ProcState]
  BY DEF OnceInv, IInv, TypeOK
<1>1. ASSUME Stop(p) PROVE ~AtWork(p)' /\ \A q \in Proc \ {p} : proc'[q] = proc[q]
  <2>1. proc'[p].pc = "idle" /\ \A q \in Proc \ {p} : proc'[q] = proc[q]
    BY <1>1, StopType DEF OnceInv, IInv
  <2> QED
    BY <2>1 DEF AtWork
<1>2. CASE Ticker(p)
  <2>1. proc'[p].pc = "round" /\ \A q \in Proc \ {p} : proc'[q] = proc[q]
    BY <1>0, <1>2, GotoType DEF Ticker, PC
  <2>2. ~AtWork(p)'
    BY <2>1 DEF AtWork
  <2> QED
    BY <1>2, <2>1, <2>2, AsideStep DEF Ticker
<1>3. CASE Select(p)
  <2> DEFINE S == {k \in Ready : Cardinality({j \in Ready : j < k}) < Limit}
  <2>1. proc' = [proc EXCEPT ![p].pc = "next", ![p].todo = S]
    BY <1>3 DEF Select
  <2> HIDE DEF S
  <2>2. proc'[p].pc = "next" /\ \A q \in Proc \ {p} : proc'[q] = proc[q]
    BY <1>0, <2>1 DEF ProcState
  <2>3. ~AtWork(p)'
    BY <2>2 DEF AtWork
  <2> QED
    BY <1>3, <2>2, <2>3, AsideStep DEF Select
<1>4. CASE RoundEnds(p)
  BY <1>1, <1>4, AsideStep DEF RoundEnds
<1>5. CASE Abandon(p)
  BY <1>1, <1>5, AsideStep DEF Abandon
<1> QED
  BY <1>2, <1>3, <1>4, <1>5

\* Nobody is at work on a job that has gone stale.
LEMMA ReclaimOnce ==
  ASSUME OnceInv, IInv', NEW p \in Proc, ReclaimStale(p)
  PROVE  OnceInv'
<1>1. /\ proc \in [Proc -> ProcState] /\ \A q \in Proc : proc[q].key \in Key
      /\ \A k \in Key : job[k].status = "none" => ~Stale(k)
      /\ StaleAfter \in Nat
  BY ConstantsAssumption DEF OnceInv, IInv, TypeOK, ProcState, Stale
<1>2. \A k \in Key : Stale(k) \/ job'[k] = job[k]
  BY DEF ReclaimStale
<1>3. \A q \in Proc : AtWork(q) => ~Stale(proc[q].key)
  <2>1. ASSUME NEW q \in Proc, AtWork(q) PROVE ~Stale(proc[q].key)
    <3>1. proc[q].first \in BOOLEAN /\ WorkOK(q)
      BY DEF OnceInv, IInv, TypeOK, ProcState
    <3>2. \/ job[proc[q].key].status = "none"
          \/ job[proc[q].key].status = "running" /\ job[proc[q].key].age < StaleAfter
      BY <2>1, <3>1 DEF WorkOK
    <3> QED
      BY <1>1, <3>2 DEF Stale
  <2> QED
    BY <2>1
<1>4. proc'[p].pc = "select" /\ \A q \in Proc \ {p} : proc'[q] = proc[q]
  BY <1>1, GotoType DEF ReclaimStale, PC
<1>5. ~AtWork(p)' /\ WorkOK(p)'
  BY <1>4 DEF AtWork, WorkOK
<1>6. Begun'
  BY <1>1, <1>2 DEF ReclaimStale, OnceInv, Begun, Stale
<1>7. RefundedOnce'
  BY DEF ReclaimStale, OnceInv, RefundedOnce
<1>8. UNCHANGED <<rows, calls>>
  BY DEF ReclaimStale
<1> QED
  BY <1>1, <1>2, <1>3, <1>4, <1>5, <1>6, <1>7, <1>8, OnceStep

\* A pending job has nobody at work on it: whoever claims it is the only one.
LEMMA ClaimOnce ==
  ASSUME OnceInv, IInv', NEW p \in Proc, Claim(p)
  PROVE  OnceInv'
<1> DEFINE k == Min(proc[p].todo)
           rest == proc[p].todo \ {k}
<1>1. /\ proc \in [Proc -> ProcState] /\ job \in [Key -> JobRow]
      /\ \A q \in Proc : proc[q].key \in Key
      /\ StaleAfter \in Nat \ {0}
  BY ConstantsAssumption DEF OnceInv, IInv, TypeOK, ProcState
<1>2. k \in Key
  <2>1. proc[p].todo \in SUBSET Key /\ proc[p].todo # {}
    BY <1>1 DEF Claim, ProcState
  <2> QED
    BY <2>1, FirstJob
<1>3. UNCHANGED <<rows, calls>> /\ proc[p].pc = "next"
  BY DEF Claim
<1>4. \/ /\ job[k].status = "pending"
         /\ SetJob(k, "running", job[k].due)
         /\ proc' = [proc EXCEPT ![p] = [pc |-> "check", key |-> k, first |-> FALSE,
                                           todo |-> rest]]
      \/ /\ proc' = [proc EXCEPT ![p].todo = rest]
         /\ UNCHANGED job
  BY DEF Claim
<1> HIDE DEF k, rest
<1>5. CASE /\ job[k].status = "pending"
           /\ SetJob(k, "running", job[k].due)
           /\ proc' = [proc EXCEPT ![p] = [pc |-> "check", key |-> k, first |-> FALSE,
                                             todo |-> rest]]
  <2>1. /\ proc'[p].key = k /\ ~proc'[p].first /\ proc'[p].pc = "check"
        /\ \A q \in Proc \ {p} : proc'[q] = proc[q]
    BY <1>1, <1>5
  <2>2. /\ job'[k].status = "running" /\ job'[k].age = 0
        /\ \A j \in Key \ {k} : job'[j] = job[j]
    BY <1>1, <1>2, <1>5 DEF SetJob
  <2>3. \A q \in Proc : AtWork(q) => proc[q].key # k
    <3>1. ASSUME NEW q \in Proc, AtWork(q), proc[q].key = k PROVE FALSE
      <4>1. WorkOK(q) /\ proc[q].first \in BOOLEAN
        BY DEF OnceInv, IInv, TypeOK, ProcState
      <4> QED
        BY <1>5, <3>1, <4>1 DEF WorkOK
    <3> QED
      BY <3>1
  <2>4. WorkOK(p)'
    BY <1>1, <2>1, <2>2 DEF WorkOK
  <2>5. Begun'
    BY <1>2, <1>3, <1>5, <2>2 DEF OnceInv, Begun
  <2>6. RefundedOnce'
    BY <1>3 DEF OnceInv, RefundedOnce
  <2> QED
    BY <1>1, <1>3, <2>1, <2>2, <2>3, <2>4, <2>5, <2>6, OnceStep
<1>6. CASE proc' = [proc EXCEPT ![p].todo = rest] /\ UNCHANGED job
  <2>1. proc'[p].pc = "next" /\ \A q \in Proc \ {p} : proc'[q] = proc[q]
    BY <1>1, <1>3, <1>6 DEF ProcState
  <2>2. ~AtWork(p)'
    BY <2>1 DEF AtWork
  <2> QED
    BY <1>3, <1>6, <2>1, <2>2, AsideStep
<1> QED
  BY <1>4, <1>5, <1>6

\* Time passes, but not so much that a job goes stale under whoever is at work on it.
LEMMA TickOnce ==
  ASSUME OnceInv, IInv', Tick, \A k \in Key : Working(k) => job'[k].age < StaleAfter
  PROVE  OnceInv'
<1>1. \A k \in Key : job'[k].status = job[k].status
  BY TickJobs DEF OnceInv, IInv, TypeOK
<1>2. UNCHANGED <<rows, proc, calls>>
  BY DEF Tick
<1>3. ASSUME NEW p \in Proc PROVE WorkOK(p)'
  <2> DEFINE k == proc[p].key
  <2>1. k \in Key /\ proc[p].first \in BOOLEAN /\ WorkOK(p)
    BY DEF OnceInv, IInv, TypeOK, ProcState
  <2>2. AtWork(p) /\ ~proc[p].first => Working(k)
    BY <2>1 DEF AtWork, Working, WorkOK
  <2>3. AtWork(p) /\ ~proc[p].first => job'[k].age < StaleAfter
    BY <2>1, <2>2
  <2>4. AtWork(p)' <=> AtWork(p)
    BY <1>2 DEF AtWork
  <2> QED
    BY <1>1, <1>2, <2>1, <2>3, <2>4 DEF WorkOK
<1>4. Alone'
  BY <1>2 DEF OnceInv, Alone, AtWork
<1>5. Begun' /\ RefundedOnce'
  BY <1>1, <1>2 DEF OnceInv, Begun, RefundedOnce
<1> QED
  BY <1>3, <1>4, <1>5 DEF OnceInv

LEMMA NextOnce ==
  ASSUME OnceInv, MaxCalls <= 1, [PromptNext]_vars
  PROVE  OnceInv'
<1>1. IInv'
  BY NextInv DEF OnceInv, PromptNext
<1>2. CASE UNCHANGED vars
  BY <1>1, <1>2 DEF vars, OnceInv, WorkOK, AtWork, Alone, Begun, RefundedOnce
<1>3. CASE Tick /\ \A k \in Key : Working(k) => job'[k].age < StaleAfter
  BY <1>1, <1>3, TickOnce
<1>4. ASSUME NEW p \in Proc,
             \/ \E k \in Key : Call(p, k)
             \/ Ticker(p) \/ Proceed(p)
             \/ AnswerLost(p) \/ WriteFails(p) \/ EnqueueFails(p) \/ ProcessFails(p)
             \/ Abandon(p)
      PROVE  OnceInv'
  BY <1>1, <1>4, CallOnce, WorkOnce, RoundOnce, ReclaimOnce, ClaimOnce DEF Proceed
<1> QED
  BY <1>2, <1>3, <1>4 DEF PromptNext, Next

\* When nobody is at work on a job for longer than the timeout, and WriteTx is called once
\* for a refund, the job's retries, claims and reclaims write its row at most once: the
\* compare-and-set of claimBillingRefundJob leaves one processor at work, and that one
\* looked for the row before it came to the commit.
THEOREM RefundedByOneRow ==
  ASSUME MaxCalls <= 1
  PROVE  PromptSpec => []RefundedOnce
<1>1. Init => OnceInv
  BY InitOnce
<1>2. OnceInv /\ [PromptNext]_vars => OnceInv'
  BY NextOnce
<1>3. OnceInv => RefundedOnce
  BY DEF OnceInv
<1> QED
  BY <1>1, <1>2, <1>3, PTL DEF PromptSpec
=============================================================================
