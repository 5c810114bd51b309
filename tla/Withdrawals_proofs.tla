------------------------- MODULE Withdrawals_proofs -------------------------
(* The frozen balance pays out no more than was earned, a payment follows    *)
(* the first review, and, where the writers of a request do not overlap, a   *)
(* request's amount is taken as it was decided: proofs for every number of   *)
(* requests, review pages and submissions, and every amount.                 *)
EXTENDS Withdrawals, TLAPS

-----------------------------------------------------------------------------
(* Type correctness.                                                         *)

LEMMA InitTyped == Init => TypeOK
<1> SUFFICES ASSUME Init PROVE TypeOK
  OBVIOUS
<1> USE DEF Init
<1>1. NoRow \in Row
  BY DEF NoRow, Row
<1>2. request \in [Requests -> Row] /\ rows \in [Reviewers -> [Requests -> Row]]
  BY <1>1
<1>3. submit \in [Slots -> [pc : {"idle", "sent", "checked"}, amount : Nat]]
  BY DEF NoSubmit
<1>4. convert \in [pc : {"idle", "read"}, amount : Nat]
  BY DEF NoConvert
<1>5. QED
  BY <1>2, <1>3, <1>4 DEF TypeOK

LEMMA RowsStayRows ==
  ASSUME NEW row \in Row
  PROVE  /\ [row EXCEPT !.stage = "finance_review"] \in Row
         /\ [row EXCEPT !.status = "rejected"] \in Row
         /\ [row EXCEPT !.status = "approved", !.stage = "completed"] \in Row
  BY DEF Row

LEMMA UserStepTyped ==
  ASSUME TypeOK,
         \/ EarnRebate \/ ClawBack \/ EditQr \/ SaveQr
         \/ \E m \in Amounts \cup {0} : ConvertRead(m)
         \/ ConvertWritten \/ ConvertConflict
  PROVE  TypeOK'
<1> USE WithdrawalsAssumption DEF TypeOK, moneyVars, userVars, pageVars
<1>1. CASE EarnRebate BY <1>1 DEF EarnRebate
<1>2. CASE ClawBack BY <1>2 DEF ClawBack
<1>3. CASE EditQr BY <1>3 DEF EditQr
<1>4. CASE SaveQr BY <1>4 DEF SaveQr
<1>5. CASE \E m \in Amounts \cup {0} : ConvertRead(m)
  BY <1>5 DEF ConvertRead
<1>6. CASE ConvertWritten BY <1>6 DEF ConvertWritten, Converts, NoConvert
<1>7. CASE ConvertConflict BY <1>7 DEF ConvertConflict, NoConvert
<1>8. QED BY <1>1, <1>2, <1>3, <1>4, <1>5, <1>6, <1>7

LEMMA SubmitStepTyped ==
  ASSUME TypeOK, NEW s \in Slots,
         \/ \E m \in Amounts : SubmitWithdraw(s, m)
         \/ SubmitChecked(s) \/ SubmitInserted(s) \/ SubmitFails(s)
  PROVE  TypeOK'
<1> USE WithdrawalsAssumption DEF TypeOK, moneyVars, userVars, pageVars
<1>1. CASE \E m \in Amounts : SubmitWithdraw(s, m)
  BY <1>1 DEF SubmitWithdraw
<1>2. CASE SubmitChecked(s) BY <1>2 DEF SubmitChecked
<1>3. CASE SubmitInserted(s) BY <1>3 DEF SubmitInserted, NoSubmit, Row
<1>4. CASE SubmitFails(s) BY <1>4 DEF SubmitFails, NoSubmit
<1>5. QED BY <1>1, <1>2, <1>3, <1>4

LEMMA ReviewStepTyped ==
  ASSUME TypeOK, NEW a \in Reviewers,
         \/ LoadRows(a) \/ SubmitProof(a) \/ SkipProof(a)
         \/ \E r \in Requests, op \in Ops : Decide(a, r, op)
         \/ ReviewRead(a) \/ CsApprove(a) \/ Approve(a) \/ ApproveRefused(a) \/ Reject(a)
  PROVE  TypeOK'
<1> USE WithdrawalsAssumption DEF TypeOK, moneyVars, userVars, pageVars
<1>1. CASE LoadRows(a) BY <1>1 DEF LoadRows
<1>2. CASE SubmitProof(a) BY <1>2 DEF SubmitProof
<1>3. CASE SkipProof(a) BY <1>3 DEF SkipProof
<1>4. CASE \E r \in Requests, op \in Ops : Decide(a, r, op)
  BY <1>4 DEF Decide
<1>5. CASE ReviewRead(a)
  BY <1>5 DEF ReviewRead, NoReview
<1>6. CASE CsApprove(a)
  <2>1. review[a].id \in Requests BY <1>6 DEF CsApprove, Reviewing, NoReview
  <2>2. [request[review[a].id] EXCEPT !.stage = "finance_review"] \in Row
    BY <2>1, RowsStayRows
  <2>3. request' \in [Requests -> Row] BY <1>6, <2>1, <2>2 DEF CsApprove
  <2>4. QED BY <1>6, <2>3 DEF CsApprove, Reviewing, NoReview
<1>7. CASE Approve(a)
  <2>1. review[a].id \in Requests BY <1>7 DEF Approve, Reviewing, NoReview
  <2>2. [request[review[a].id] EXCEPT !.status = "approved", !.stage = "completed"] \in Row
    BY <2>1, RowsStayRows
  <2>3. request' \in [Requests -> Row] BY <1>7, <2>1, <2>2 DEF Approve
  <2>4. request[review[a].id].amount \in Nat BY <2>1 DEF Row
  <2>5. frozen' \in Nat /\ deducted' \in Nat BY <1>7, <2>4 DEF Approve
  <2>6. /\ taken' \in [Requests -> Nat]
        /\ proofFor' = [proofFor EXCEPT ![a] = review[a].id]
    BY <1>7, <2>1 DEF Approve
  <2>7. UNCHANGED <<converted, earned, clawed, savedQr, proved, userVars, rows>>
        /\ review' = [review EXCEPT ![a] = NoReview]
    BY <1>7 DEF Approve, Reviewing
  <2>8. QED BY <2>1, <2>3, <2>5, <2>6, <2>7 DEF NoReview
<1>8. CASE ApproveRefused(a) BY <1>8 DEF ApproveRefused, Reviewing, NoReview
<1>9. CASE Reject(a)
  <2>1. review[a].id \in Requests BY <1>9 DEF Reject, Reviewing, NoReview
  <2>2. [request[review[a].id] EXCEPT !.status = "rejected"] \in Row
    BY <2>1, RowsStayRows
  <2>3. request' \in [Requests -> Row] BY <1>9, <2>1, <2>2 DEF Reject
  <2>4. QED BY <1>9, <2>3 DEF Reject, Reviewing, NoReview
<1>10. QED BY <1>1, <1>2, <1>3, <1>4, <1>5, <1>6, <1>7, <1>8, <1>9

LEMMA StepTyped == TypeOK /\ [Next]_vars => TypeOK'
<1> SUFFICES ASSUME TypeOK, [Next]_vars PROVE TypeOK'
  OBVIOUS
<1>1. CASE UNCHANGED vars
  BY <1>1 DEF TypeOK, vars, moneyVars, userVars, pageVars
<1>2. CASE Next
  BY <1>2, UserStepTyped, SubmitStepTyped, ReviewStepTyped DEF Next
<1>3. QED BY <1>1, <1>2

\* The balances, requests, submissions and review pages keep their types: none
\* of the money counters goes below 0, at whatever point a handler is cut off.
THEOREM WithdrawalTypes == Spec => []TypeOK
<1>1. QED BY InitTyped, StepTyped, PTL DEF Spec

-----------------------------------------------------------------------------
(* The frozen balance: whatever leaves it is counted, and every withdrawal   *)
(* from it is a statement with the condition frozen_balance >= amount.       *)

Conserved == frozen + converted + deducted + clawed = earned

LEMMA InitConserved == Init => Conserved
  BY DEF Init, Conserved

LEMMA StepConserved == TypeOK /\ Conserved /\ [Next]_vars => Conserved'
<1> SUFFICES ASSUME TypeOK, Conserved, [Next]_vars PROVE Conserved'
  OBVIOUS
<1> USE DEF Conserved, moneyVars
<1>1. CASE UNCHANGED moneyVars
  BY <1>1
<1>2. CASE EarnRebate
  BY <1>2 DEF EarnRebate, TypeOK
<1>3. CASE ClawBack
  BY <1>3 DEF ClawBack, TypeOK
<1>4. CASE ConvertWritten
  <2>1. convert.amount \in Nat
    BY DEF TypeOK
  <2>2. /\ frozen' = frozen - convert.amount /\ converted' = converted + convert.amount
        /\ deducted' = deducted /\ clawed' = clawed /\ earned' = earned
    BY <1>4 DEF ConvertWritten, Converts
  <2>3. {frozen, converted, deducted, clawed, earned} \subseteq Nat
    BY DEF TypeOK
  <2>4. QED
    BY <2>1, <2>2, <2>3
<1>5. ASSUME NEW a \in Reviewers, Approve(a) PROVE Conserved'
  <2>1. review[a].id \in Requests
    BY <1>5 DEF Approve, Reviewing, TypeOK, NoReview
  <2>2. request[review[a].id].amount \in Nat
    BY <2>1 DEF TypeOK, Row
  <2>3. QED
    BY <1>5, <2>2 DEF Approve, Reviewing, TypeOK
<1>6. ASSUME NEW a \in Reviewers, ReviewRead(a) \/ CsApprove(a) \/ ApproveRefused(a) \/ Reject(a)
      PROVE  UNCHANGED moneyVars
  BY <1>6 DEF ReviewRead, CsApprove, ApproveRefused, Reject, Reviewing
<1>7. ASSUME EditQr \/ SaveQr \/ ConvertConflict \/ \E m \in Amounts \cup {0} : ConvertRead(m)
      PROVE  UNCHANGED moneyVars
  BY <1>7 DEF EditQr, SaveQr, ConvertConflict, ConvertRead
<1>8. ASSUME NEW s \in Slots,
             \/ \E m \in Amounts : SubmitWithdraw(s, m)
             \/ SubmitChecked(s) \/ SubmitInserted(s) \/ SubmitFails(s)
      PROVE  UNCHANGED moneyVars
  BY <1>8 DEF SubmitWithdraw, SubmitChecked, SubmitInserted, SubmitFails
<1>9. ASSUME NEW a \in Reviewers,
             \/ LoadRows(a) \/ SubmitProof(a) \/ SkipProof(a)
             \/ \E r \in Requests, op \in Ops : Decide(a, r, op)
      PROVE  UNCHANGED moneyVars
  BY <1>9 DEF LoadRows, SubmitProof, SkipProof, Decide
<1>10. CASE UNCHANGED vars
  BY <1>1, <1>10 DEF vars
<1>11. CASE Next
  BY <1>11, <1>1, <1>2, <1>3, <1>4, <1>5, <1>6, <1>7, <1>8, <1>9 DEF Next
<1>12. QED
  BY <1>10, <1>11

\* Conversions, approvals and claw-backs together take no more from the frozen
\* balance than rebates put into it (invite.go:95, withdraw.go:229).
THEOREM FrozenNeverOverdrawn == Spec => []NeverOverdrawn
<1>1. TypeOK /\ Conserved => NeverOverdrawn
  BY DEF TypeOK, Conserved, NeverOverdrawn
<1>2. QED
  BY InitConserved, StepConserved, WithdrawalTypes, <1>1, PTL DEF Spec

-----------------------------------------------------------------------------
(* The final approval comes after the first review.                          *)

Advanced == {"finance_review", "completed"}

\* A request whose status or stage a page has seen, or a decision has read, keeps them.
Known ==
  /\ \A r \in Requests : request[r].status = "none" => request[r].stage = "none"
  /\ \A a \in Reviewers : review[a] # NoReview => request[review[a].id].status # "none"
  /\ \A a \in Reviewers, r \in Requests :
       /\ rows[a][r].status # "none" => request[r].status # "none"
       /\ rows[a][r].stage \in Advanced => request[r].stage \in Advanced

Reviewed == Known /\ FinalAfterFirst

LEMMA InitReviewed == Init => Reviewed
  BY DEF Init, Reviewed, Known, FinalAfterFirst, NoRow, NoReview, Advanced

\* No row goes back, so that what was known of it stays true.
Onward(r) ==
  /\ request[r].status # "none" => request'[r].status # "none"
  /\ request[r].stage \in Advanced => request'[r].stage \in Advanced
  /\ request'[r].status = "none" => request'[r].stage = "none"

LEMMA OnwardKeepsKnown ==
  ASSUME TypeOK, Reviewed, \A r \in Requests : Onward(r),
         \A a \in Reviewers : review'[a] = review[a] \/ review'[a] = NoReview,
         rows' = rows
  PROVE  Reviewed'
<1> USE DEF Reviewed, Known, Onward
<1>1. \A r \in Requests : request'[r].status = "none" => request'[r].stage = "none"
  OBVIOUS
<1>2. ASSUME NEW a \in Reviewers, review'[a] # NoReview
      PROVE  review'[a] = review[a] /\ review[a].id \in Requests
  BY <1>2 DEF TypeOK
<1>3. \A a \in Reviewers : review'[a] # NoReview => request'[review'[a].id].status # "none"
  BY <1>2
<1>4. \A a \in Reviewers, r \in Requests :
        /\ rows'[a][r].status # "none" => request'[r].status # "none"
        /\ rows'[a][r].stage \in Advanced => request'[r].stage \in Advanced
  OBVIOUS
<1>5. FinalAfterFirst'
  <2> SUFFICES ASSUME NEW a \in Reviewers, review'[a].op = "approve"
               PROVE  request'[review'[a].id].stage \in Advanced
    BY DEF FinalAfterFirst, Advanced
  <2>1. review'[a] # NoReview
    BY DEF NoReview
  <2>2. request[review[a].id].stage \in Advanced
    BY <1>2, <2>1 DEF FinalAfterFirst, Advanced
  <2>3. QED
    BY <1>2, <2>1, <2>2
<1>6. QED
  BY <1>1, <1>3, <1>4, <1>5

LEMMA StepReviewed == TypeOK /\ Reviewed /\ [Next]_vars => Reviewed'
<1> SUFFICES ASSUME TypeOK, Reviewed, [Next]_vars PROVE Reviewed'
  OBVIOUS
<1>1. request' = request => \A r \in Requests : Onward(r)
  BY DEF Reviewed, Known, Onward
<1>2. CASE request' = request /\ review' = review /\ rows' = rows
  BY <1>1, <1>2, OnwardKeepsKnown
<1>3. ASSUME NEW s \in Slots, SubmitInserted(s) PROVE Reviewed'
  <2>1. PICK r \in Requests : /\ Fresh(r)
                              /\ request' = [request EXCEPT ![r] =
                                   [status |-> "pending", stage |-> "cs_review",
                                    amount |-> submit[s].amount]]
    BY <1>3 DEF SubmitInserted
  <2>2. \A q \in Requests : Onward(q)
    BY <2>1 DEF Fresh, Onward, Reviewed, Known, TypeOK, Advanced
  <2>3. QED
    BY <1>3, <2>2, OnwardKeepsKnown DEF SubmitInserted, pageVars
<1>4. ASSUME NEW a \in Reviewers, LoadRows(a) PROVE Reviewed'
  BY <1>4 DEF LoadRows, Reviewed, Known, FinalAfterFirst, TypeOK, userVars
<1>5. ASSUME NEW a \in Reviewers, NEW r \in Requests, NEW op \in Ops, Decide(a, r, op)
      PROVE  Reviewed'
  <2>1. request[r].status # "none"
    BY <1>5 DEF Decide, Offered, Reviewed, Known
  <2>2. op = "approve" => request[r].stage \in Advanced
    BY <1>5 DEF Decide, Offered, Reviewed, Known, Advanced
  <2>3. QED
    BY <1>5, <2>1, <2>2
    DEF Decide, Reviewed, Known, FinalAfterFirst, TypeOK, pageVars, Advanced
<1>6. ASSUME NEW a \in Reviewers, ReviewRead(a) PROVE Reviewed'
  <2>1. \/ review' = [review EXCEPT ![a] = NoReview]
        \/ review' = [review EXCEPT ![a].pc = "read"] /\ review[a].pc = "sent"
    BY <1>6 DEF ReviewRead
  <2>2. \A r \in Requests : Onward(r)
    BY <1>6, <1>1 DEF ReviewRead
  <2>3. CASE review' = [review EXCEPT ![a] = NoReview]
    BY <1>6, <2>2, <2>3, OnwardKeepsKnown DEF ReviewRead, pageVars, TypeOK
  <2>4. CASE review' = [review EXCEPT ![a].pc = "read"] /\ review[a].pc = "sent"
    <3>1. review[a] # NoReview
      BY <2>4 DEF NoReview
    <3>2. \A b \in Reviewers : review'[b].id = review[b].id /\ review'[b].op = review[b].op
      BY <2>4, <3>1 DEF TypeOK
    <3>3. request' = request /\ rows' = rows
      BY <1>6 DEF ReviewRead, pageVars
    <3>4. \A b \in Reviewers : review'[b] # NoReview => review[b] # NoReview
      BY <2>4, <3>1 DEF TypeOK
    <3>5. QED
      BY <3>2, <3>3, <3>4 DEF Reviewed, Known, FinalAfterFirst
  <2>5. QED
    BY <2>1, <2>3, <2>4
<1>7. ASSUME NEW a \in Reviewers,
             CsApprove(a) \/ Approve(a) \/ ApproveRefused(a) \/ Reject(a)
      PROVE  Reviewed'
  <2>1. /\ rows' = rows /\ review' = [review EXCEPT ![a] = NoReview]
        /\ review[a] # NoReview /\ review[a].id \in Requests
    <3>1. PICK op \in Ops : Reviewing(a, op)
      BY <1>7 DEF CsApprove, Approve, ApproveRefused, Reject, Ops
    <3>2. /\ review[a].pc = "read" /\ rows' = rows
          /\ review' = [review EXCEPT ![a] = NoReview]
      BY <3>1 DEF Reviewing
    <3>3. review[a] # NoReview
      BY <3>2 DEF NoReview
    <3> QED
      BY <3>2, <3>3 DEF TypeOK
  <2>2. request[review[a].id].status # "none"
    BY <2>1 DEF Reviewed, Known
  <2>3. \A r \in Requests : Onward(r)
    <3>1. CASE CsApprove(a)
      BY <3>1, <2>1, <2>2 DEF CsApprove, Onward, Reviewed, Known, TypeOK, Row, Advanced
    <3>2. CASE Approve(a)
      <4>1. \A r \in Requests :
              request'[r] = IF r = review[a].id
                            THEN [request[r] EXCEPT !.status = "approved", !.stage = "completed"]
                            ELSE request[r]
        BY <3>2, <2>1 DEF Approve, TypeOK
      <4>2. \A r \in Requests : request[r] \in Row
        BY DEF TypeOK
      <4>3. \A r \in Requests : request[r].status = "none" => request[r].stage = "none"
        BY DEF Reviewed, Known
      <4>4. ASSUME NEW r \in Requests
            PROVE  \/ request'[r] = request[r]
                   \/ request'[r].status = "approved" /\ request'[r].stage = "completed"
        <5>1. CASE r = review[a].id
          BY <4>1, <4>2, <5>1 DEF Row
        <5>2. CASE r # review[a].id
          BY <4>1, <5>2
        <5> QED
          BY <5>1, <5>2
      <4> QED
        BY <4>3, <4>4 DEF Onward, Advanced
    <3>3. CASE ApproveRefused(a)
      BY <3>3, <1>1 DEF ApproveRefused
    <3>4. CASE Reject(a)
      BY <3>4, <2>1, <2>2 DEF Reject, Onward, Reviewed, Known, TypeOK, Row, Advanced
    <3>5. QED
      BY <1>7, <3>1, <3>2, <3>3, <3>4
  <2>4. \A b \in Reviewers : review'[b] = review[b] \/ review'[b] = NoReview
    BY <2>1 DEF TypeOK
  <2>5. QED
    BY <2>1, <2>3, <2>4, OnwardKeepsKnown
<1>8. QED
  BY <1>2, <1>3, <1>4, <1>5, <1>6, <1>7
  DEF Next, vars, pageVars, userVars, EarnRebate, ClawBack, EditQr, SaveQr, SubmitWithdraw,
      SubmitChecked, SubmitFails, ConvertRead, ConvertWritten, Converts, ConvertConflict,
      SubmitProof, SkipProof

\* No request is approved for payment before its first review, whatever copy of
\* the requests a review page decides on (AdminWithdrawPage.tsx, withdraw.go:184).
THEOREM PaidAfterReview == Spec => []FinalAfterFirst
<1>1. Reviewed => FinalAfterFirst
  BY DEF Reviewed
<1>2. QED
  BY InitReviewed, StepReviewed, WithdrawalTypes, <1>1, PTL DEF Spec

-----------------------------------------------------------------------------
(* A request's amount is taken as it was decided, where one writer of a      *)
(* request is under way at a time: what a decision has read then holds until *)
(* it writes.                                                                *)

Exclusive ==
  \A a, b \in Reviewers :
    review[a].pc = "read" /\ review[b].pc = "read" /\ review[a].id = review[b].id => a = b

ReadIsPending ==
  \A a \in Reviewers : review[a].pc = "read" => request[review[a].id].status = "pending"

ProofForApproved ==
  \A a \in Reviewers : proofFor[a] # None => request[proofFor[a]].status = "approved"

Decided == Exclusive /\ ReadIsPending /\ ProofForApproved /\ TakenAsDecided

decisionVars == <<request, proved, taken, proofFor, review>>

LEMMA InitDecided == Init => Decided
  BY DEF Init, Decided, Exclusive, ReadIsPending, ProofForApproved, TakenAsDecided,
         NoRow, NoReview

LEMMA InsertedKeepsDecided ==
  ASSUME TypeOK, Decided, NEW s \in Slots, SubmitInserted(s)
  PROVE  Decided'
<1>1. PICK r \in Requests : /\ request[r].status = "none"
                            /\ request' = [request EXCEPT ![r] =
                                 [status |-> "pending", stage |-> "cs_review",
                                  amount |-> submit[s].amount]]
  BY DEF SubmitInserted, Fresh
<1>2. UNCHANGED <<proved, taken, proofFor, review>>
  BY DEF SubmitInserted, pageVars
<1>3. \A q \in Requests : request'[q].status =
                           IF q = r THEN "pending" ELSE request[q].status
  BY <1>1 DEF TypeOK
<1>4. \A a \in Reviewers : review[a].pc = "read" => review[a].id \in Requests
  BY DEF TypeOK, NoReview
<1>5. Exclusive' /\ ReadIsPending'
  BY <1>1, <1>2, <1>3, <1>4 DEF Decided, Exclusive, ReadIsPending
<1>6. ProofForApproved'
  BY <1>1, <1>2, <1>3 DEF Decided, ProofForApproved, TypeOK
<1>7. TakenAsDecided'
  BY <1>1, <1>2, <1>3 DEF Decided, TakenAsDecided
<1>8. QED
  BY <1>5, <1>6, <1>7 DEF Decided

LEMMA PageKeepsDecided ==
  ASSUME TypeOK, Decided, NEW a \in Reviewers,
         \/ LoadRows(a) \/ SubmitProof(a) \/ SkipProof(a)
         \/ \E r \in Requests, op \in Ops : Decide(a, r, op)
  PROVE  Decided'
<1> USE DEF Decided, Exclusive, ReadIsPending, ProofForApproved, TakenAsDecided
<1>1. CASE LoadRows(a)
  BY <1>1 DEF LoadRows, userVars
<1>2. CASE SubmitProof(a)
  BY <1>2 DEF SubmitProof, userVars, TypeOK
<1>3. CASE SkipProof(a)
  BY <1>3 DEF SkipProof, userVars, TypeOK
<1>4. ASSUME NEW r \in Requests, NEW op \in Ops, Decide(a, r, op) PROVE Decided'
  <2>1. UNCHANGED <<request, proved, taken, proofFor>>
    BY <1>4 DEF Decide, pageVars
  <2>2. \A b \in Reviewers : review'[b].pc = "read" => b # a /\ review'[b] = review[b]
    BY <1>4 DEF Decide, TypeOK
  <2>3. QED
    BY <2>1, <2>2
<1>5. QED
  BY <1>1, <1>2, <1>3, <1>4

LEMMA ReadKeepsDecided ==
  ASSUME Overlap = FALSE, TypeOK, Decided, NEW a \in Reviewers, ReviewRead(a)
  PROVE  Decided'
<1>1. UNCHANGED <<request, proved, taken, proofFor>>
  BY DEF ReviewRead, pageVars
<1>2. CASE review' = [review EXCEPT ![a] = NoReview]
  <2>1. \A b \in Reviewers : review'[b].pc = "read" => b # a /\ review'[b] = review[b]
    BY <1>2 DEF TypeOK, NoReview
  <2>2. QED
    BY <1>1, <2>1 DEF Decided, Exclusive, ReadIsPending, ProofForApproved, TakenAsDecided
<1>3. CASE /\ MayReview(request[review[a].id], review[a].op)
           /\ ~Writing(review[a].id)
           /\ review' = [review EXCEPT ![a].pc = "read"]
  <2>1. review'[a].id = review[a].id
    BY <1>3 DEF ReviewRead, TypeOK, NoReview
  <2>2. \A b \in Reviewers : b # a => review'[b] = review[b]
    BY <1>3 DEF TypeOK
  <2>3. \A b \in Reviewers : review[b].pc = "read" => review[b].id # review[a].id
    BY <1>3 DEF Writing
  <2>4. Exclusive'
    BY <2>1, <2>2, <2>3 DEF Decided, Exclusive
  <2>5. ReadIsPending'
    BY <1>1, <1>3, <2>1, <2>2 DEF Decided, ReadIsPending, MayReview
  <2>6. ProofForApproved' /\ TakenAsDecided'
    BY <1>1 DEF Decided, ProofForApproved, TakenAsDecided
  <2>7. QED
    BY <2>4, <2>5, <2>6 DEF Decided
<1>4. QED
  BY <1>2, <1>3 DEF ReviewRead

LEMMA WriteKeepsDecided ==
  ASSUME TypeOK, Decided, NEW a \in Reviewers,
         CsApprove(a) \/ Approve(a) \/ ApproveRefused(a) \/ Reject(a)
  PROVE  Decided'
<1> DEFINE r == review[a].id
<1>1. /\ r \in Requests /\ review[a].pc = "read" /\ proved' = proved
      /\ review' = [review EXCEPT ![a] = NoReview]
  <2>1. PICK op \in Ops : Reviewing(a, op)
    BY DEF CsApprove, Approve, ApproveRefused, Reject, Ops
  <2>2. review[a].pc = "read" /\ proved' = proved /\ review' = [review EXCEPT ![a] = NoReview]
    BY <2>1 DEF Reviewing
  <2>3. review[a] # NoReview
    BY <2>2 DEF NoReview
  <2>4. QED
    BY <2>2, <2>3 DEF TypeOK
<1>2. request[r].status = "pending" /\ taken[r] = 0 /\ r \notin proved
  BY <1>1 DEF Decided, ReadIsPending, TakenAsDecided
<1>3. \A b \in Reviewers : review'[b].pc = "read" =>
        b # a /\ review'[b] = review[b] /\ review[b].id # r
  BY <1>1 DEF TypeOK, NoReview, Decided, Exclusive
<1>4. \A b \in Reviewers : proofFor[b] # r
  BY <1>1, <1>2, WithdrawalsAssumption DEF Decided, ProofForApproved
<1>5. Exclusive'
  BY <1>3 DEF Decided, Exclusive
<1>6. CASE Approve(a)
  <2>1. \A q \in Requests : request'[q].status =
                             IF q = r THEN "approved" ELSE request[q].status
    <3>1. request' = [request EXCEPT ![r].status = "approved", ![r].stage = "completed"]
      BY <1>6 DEF Approve
    <3>2. \A q \in Requests : request[q] \in Row
      BY DEF TypeOK
    <3>3. request \in [Requests -> Row]
      BY DEF TypeOK
    <3> HIDE DEF r
    <3>4. QED
      BY <3>1, <3>2, <3>3, <1>1 DEF Row
  <2>2. \A q \in Requests : taken'[q] = IF q = r THEN 1 ELSE taken[q]
    BY <1>6, <1>1, <1>2 DEF Approve, TypeOK
  <2>3. proofFor' = [proofFor EXCEPT ![a] = r]
    BY <1>6 DEF Approve
  <2>4. ReadIsPending'
    BY <1>3, <2>1 DEF Decided, ReadIsPending, TypeOK, NoReview
  <2>5. ProofForApproved'
    BY <1>1, <2>1, <2>3 DEF Decided, ProofForApproved, TypeOK
  <2>6. TakenAsDecided'
    BY <1>1, <1>2, <2>1, <2>2 DEF Decided, TakenAsDecided
  <2>7. QED
    BY <1>5, <2>4, <2>5, <2>6 DEF Decided
<1>7. CASE CsApprove(a) \/ ApproveRefused(a) \/ Reject(a)
  <2>1. taken' = taken /\ proofFor' = proofFor
    BY <1>7 DEF CsApprove, ApproveRefused, Reject
  <2>2. \A q \in Requests : \/ request'[q].status = request[q].status
                            \/ q = r /\ request'[q].status = "rejected"
    BY <1>7, <1>1 DEF CsApprove, ApproveRefused, Reject, TypeOK, Row
  <2>3. ReadIsPending'
    BY <1>3, <2>2 DEF Decided, ReadIsPending, TypeOK, NoReview
  <2>4. ProofForApproved'
    BY <1>4, <2>1, <2>2 DEF Decided, ProofForApproved, TypeOK
  <2>5. TakenAsDecided'
    BY <1>1, <1>2, <2>1, <2>2 DEF Decided, TakenAsDecided
  <2>6. QED
    BY <1>5, <2>3, <2>4, <2>5 DEF Decided
<1>8. QED
  BY <1>6, <1>7

LEMMA StepDecided ==
  ASSUME Overlap = FALSE
  PROVE  TypeOK /\ Decided /\ [Next]_vars => Decided'
<1> SUFFICES ASSUME TypeOK, Decided, [Next]_vars PROVE Decided'
  OBVIOUS
<1>1. CASE UNCHANGED decisionVars
  BY <1>1
  DEF decisionVars, Decided, Exclusive, ReadIsPending, ProofForApproved, TakenAsDecided
<1>2. ASSUME EarnRebate \/ ClawBack \/ EditQr \/ SaveQr PROVE UNCHANGED decisionVars
  BY <1>2 DEF EarnRebate, ClawBack, EditQr, SaveQr, decisionVars, pageVars
<1>3. ASSUME \/ \E m \in Amounts \cup {0} : ConvertRead(m)
             \/ ConvertWritten \/ ConvertConflict
      PROVE  UNCHANGED decisionVars
  BY <1>3 DEF ConvertRead, ConvertWritten, Converts, ConvertConflict, decisionVars, pageVars
<1>4. ASSUME NEW s \in Slots,
             \/ \E m \in Amounts : SubmitWithdraw(s, m)
             \/ SubmitChecked(s) \/ SubmitFails(s)
      PROVE  UNCHANGED decisionVars
  BY <1>4 DEF SubmitWithdraw, SubmitChecked, SubmitFails, decisionVars, pageVars
<1>5. CASE UNCHANGED vars
  BY <1>1, <1>5 DEF vars, pageVars, decisionVars
<1>6. CASE Next
  BY <1>6, <1>1, <1>2, <1>3, <1>4, InsertedKeepsDecided, PageKeepsDecided,
     ReadKeepsDecided, WriteKeepsDecided DEF Next
<1>7. QED
  BY <1>5, <1>6

\* While no two writers of a request overlap, its amount is taken exactly once
\* when it is approved, and never when it is rejected (withdraw.go:184, 256).
THEOREM TakenOnce ==
  ASSUME Overlap = FALSE
  PROVE  Spec => []TakenAsDecided
<1>1. Decided => TakenAsDecided
  BY DEF Decided
<1>2. TypeOK /\ Decided /\ [Next]_vars => Decided'
  BY StepDecided
<1>3. QED
  BY InitDecided, <1>2, WithdrawalTypes, <1>1, PTL DEF Spec
=============================================================================
