----------------------------- MODULE Withdrawals -----------------------------
(* Rebates that an inviter earned: the frozen balance, its conversion into   *)
(* credits, and its payout through a request that customer service and then  *)
(* finance review.  Modelled are the invite page, the review page of each    *)
(* reviewer with the copy of the requests it last loaded, and the server's   *)
(* handlers, whose read of a row and whose write are steps of their own.     *)
EXTENDS Integers, FiniteSets

CONSTANTS
  Requests,   \* ids of withdrawal requests, a range 1..n (bounds the requests)
  Reviewers,  \* open review pages
  Slots,      \* submissions the page may have under way
  Amounts,    \* amounts a user may ask for, in credits
  MaxEarned,  \* bounds the rebates
  Overlap,    \* whether two writers of one row may be under way at a time
  None

ASSUME WithdrawalsAssumption ==
  /\ Requests \subseteq Nat /\ Amounts \subseteq Nat \ {0}
  /\ MaxEarned \in Nat /\ Overlap \in BOOLEAN
  /\ None \notin Requests

VARIABLES
  frozen,     \* users.frozen_balance
  converted,  \* credits moved to users.balance
  deducted,   \* credits taken from frozen by approvals
  earned,     \* rebates added
  clawed,     \* rebates taken back after refunds
  savedQr,    \* a payment code is saved in the user's row
  request,    \* the withdraw_requests rows
  proved,     \* requests with a proof of payment
  taken,      \* per request, how often its amount was taken from frozen
  qrEdit,     \* the invite page's code field is not empty
  submit,     \* per slot, a submission under way, or NoSubmit
  convert,    \* a conversion under way, or NoConvert
  rows,       \* per review page, the requests as it last loaded them
  review,     \* per review page, its request to the server, or NoReview
  proofFor    \* per review page, the request whose payment proof it asks for

moneyVars == <<frozen, converted, deducted, earned, clawed>>
userVars  == <<qrEdit, submit, convert>>
pageVars  == <<rows, proofFor>>
vars      == <<moneyVars, savedQr, request, proved, taken, userVars, pageVars, review>>

NoRow     == [status |-> "none", stage |-> "none", amount |-> 0]
NoSubmit  == [pc |-> "idle", amount |-> 0]
NoConvert == [pc |-> "idle", amount |-> 0]
NoReview  == [pc |-> "idle", op |-> "none", id |-> None]

Row   == [status : {"none", "pending", "approved", "rejected"},
          stage : {"none", "cs_review", "finance_review", "completed"},
          amount : Nat]
Ops   == {"cs", "approve", "reject"}

TypeOK ==
  /\ frozen \in Nat /\ converted \in Nat /\ deducted \in Nat
  /\ earned \in Nat /\ clawed \in Nat /\ savedQr \in BOOLEAN
  /\ request \in [Requests -> Row] /\ taken \in [Requests -> Nat]
  /\ proved \subseteq Requests
  /\ qrEdit \in BOOLEAN
  /\ submit \in [Slots -> [pc : {"idle", "sent", "checked"}, amount : Nat]]
  /\ convert \in [pc : {"idle", "read"}, amount : Nat]
  /\ rows \in [Reviewers -> [Requests -> Row]]
  /\ review \in [Reviewers -> {NoReview} \cup [pc : {"sent", "read"}, op : Ops, id : Requests]]
  /\ proofFor \in [Reviewers -> Requests \cup {None}]

Init ==
  /\ frozen = 0 /\ converted = 0 /\ deducted = 0 /\ earned = 0 /\ clawed = 0
  /\ savedQr = FALSE
  /\ request = [r \in Requests |-> NoRow] /\ taken = [r \in Requests |-> 0]
  /\ proved = {}
  /\ qrEdit = FALSE
  /\ submit = [s \in Slots |-> NoSubmit] /\ convert = NoConvert
  /\ rows = [a \in Reviewers |-> [r \in Requests |-> NoRow]]
  /\ review = [a \in Reviewers |-> NoReview]
  /\ proofFor = [a \in Reviewers |-> None]

-----------------------------------------------------------------------------
(* Rebates: after a charge of an invited user is committed, and back again   *)
(* after its refund.                                                         *)

EarnRebate ==
  /\ earned < MaxEarned
  /\ earned' = earned + 1 /\ frozen' = frozen + 1
  /\ UNCHANGED <<converted, deducted, clawed, savedQr, request, proved, taken, userVars,
                 pageVars, review>>

\* GREATEST(0, frozen_balance - 1): what is gone already is not taken back.
ClawBack ==
  /\ clawed < earned /\ frozen > 0
  /\ frozen' = frozen - 1 /\ clawed' = clawed + 1
  /\ UNCHANGED <<converted, deducted, earned, savedQr, request, proved, taken, userVars,
                 pageVars, review>>

-----------------------------------------------------------------------------
(* The invite page.                                                          *)

\* An upload, a typed address, or the button that empties the field.
EditQr ==
  /\ qrEdit' = ~qrEdit
  /\ UNCHANGED <<moneyVars, savedQr, request, proved, taken, submit, convert, pageVars, review>>

SaveQr ==
  /\ savedQr' = qrEdit
  /\ UNCHANGED <<moneyVars, request, proved, taken, userVars, pageVars, review>>

\* The dialog's button stays enabled while a submission is under way.
FreeSlot(s) == submit[s] = NoSubmit

\* The page looks at its field, not at what was saved.
SubmitWithdraw(s, amount) ==
  /\ FreeSlot(s) /\ qrEdit
  /\ submit' = [submit EXCEPT ![s] = [pc |-> "sent", amount |-> amount]]
  /\ UNCHANGED <<moneyVars, savedQr, request, proved, taken, qrEdit, convert, pageVars, review>>

-----------------------------------------------------------------------------
(* The server: a submission reads the user's row and counts the pending      *)
(* requests, and inserts the row later.                                      *)

NonePending == \A r \in Requests : request[r].status # "pending"
Checking    == \E s \in Slots : submit[s].pc = "checked"

SubmitChecked(s) ==
  /\ submit[s].pc = "sent"
  /\ submit[s].amount <= frozen /\ savedQr /\ NonePending
  /\ Overlap \/ ~Checking
  /\ submit' = [submit EXCEPT ![s].pc = "checked"]
  /\ UNCHANGED <<moneyVars, savedQr, request, proved, taken, qrEdit, convert, pageVars, review>>

\* The next id.
Fresh(r) == /\ request[r].status = "none"
            /\ \A q \in Requests : q < r => request[q].status # "none"

SubmitInserted(s) ==
  /\ submit[s].pc = "checked"
  /\ \E r \in Requests :
       /\ Fresh(r)
       /\ request' = [request EXCEPT ![r] = [status |-> "pending", stage |-> "cs_review",
                                             amount |-> submit[s].amount]]
  /\ submit' = [submit EXCEPT ![s] = NoSubmit]
  /\ UNCHANGED <<moneyVars, savedQr, proved, taken, qrEdit, convert, pageVars, review>>

\* Refused by a check, or a statement failed.
SubmitFails(s) ==
  /\ submit[s] # NoSubmit /\ submit' = [submit EXCEPT ![s] = NoSubmit]
  /\ UNCHANGED <<moneyVars, savedQr, request, proved, taken, qrEdit, convert, pageVars, review>>

\* The page asks, one conversion at a time, and the handler reads the balance:
\* more than there is, or 0, becomes what there is.
ConvertRead(amount) ==
  /\ convert = NoConvert /\ frozen > 0
  /\ convert' = [pc |-> "read",
                 amount |-> IF amount \in 1..frozen THEN amount ELSE frozen]
  /\ UNCHANGED <<moneyVars, savedQr, request, proved, taken, qrEdit, submit, pageVars, review>>

Converts ==
  /\ convert.pc = "read" /\ convert' = NoConvert
  /\ frozen' = frozen - convert.amount /\ converted' = converted + convert.amount
  /\ UNCHANGED <<deducted, earned, clawed, savedQr, request, proved, taken, qrEdit, submit,
                 pageVars, review>>

\* Variant: the write trusts the balance that was read.
ConvertWrittenStale == Converts

\* UPDATE ... WHERE frozen_balance >= amount.
ConvertWritten == convert.amount <= frozen /\ Converts

\* No row was updated, or the statement failed.
ConvertConflict ==
  /\ convert.pc = "read" /\ convert' = NoConvert
  /\ UNCHANGED <<moneyVars, savedQr, request, proved, taken, qrEdit, submit, pageVars, review>>

-----------------------------------------------------------------------------
(* The review pages.  A page reloads every 30 seconds, but a dialog that is  *)
(* open keeps the row it was opened on: a decision may be as old as any copy *)
(* of the requests that was loaded.                                          *)

LoadRows(a) ==
  /\ rows' = [rows EXCEPT ![a] = request]
  /\ UNCHANGED <<moneyVars, savedQr, request, proved, taken, userVars, proofFor, review>>

\* Variant: every decision is offered on a pending row.
OfferedOnPending(row, op) == op \in Ops /\ row.status = "pending"

Offered(row, op) ==
  /\ row.status = "pending"
  /\ \/ op = "cs" /\ row.stage = "cs_review"
     \/ op = "approve" /\ row.stage = "finance_review"
     \/ op = "reject" /\ row.stage \in {"cs_review", "finance_review"}

NoDialog(a) == review[a] = NoReview /\ proofFor[a] = None

Decide(a, r, op) ==
  /\ NoDialog(a) /\ Offered(rows[a][r], op)
  /\ review' = [review EXCEPT ![a] = [pc |-> "sent", op |-> op, id |-> r]]
  /\ UNCHANGED <<moneyVars, savedQr, request, proved, taken, userVars, pageVars>>

SkipProof(a) ==
  /\ proofFor[a] # None /\ proofFor' = [proofFor EXCEPT ![a] = None]
  /\ UNCHANGED <<moneyVars, savedQr, request, proved, taken, userVars, rows, review>>

\* The server stores it by id, whatever the request's status.
SubmitProof(a) ==
  /\ proofFor[a] # None /\ proofFor' = [proofFor EXCEPT ![a] = None]
  /\ proved' = proved \cup {proofFor[a]}
  /\ UNCHANGED <<moneyVars, savedQr, request, taken, userVars, rows, review>>

-----------------------------------------------------------------------------
(* The server: a decision reads the request and writes it later.             *)

\* Variant: the status is not looked at.
MayReviewAgain(row, op) == row.status # "none" /\ (op = "cs" => row.stage = "cs_review")

MayReview(row, op) == row.status = "pending" /\ (op = "cs" => row.stage = "cs_review")

Writing(r) == \E a \in Reviewers : review[a].pc = "read" /\ review[a].id = r

ReviewRead(a) ==
  /\ review[a].pc = "sent"
  /\ \/ /\ MayReview(request[review[a].id], review[a].op)
        /\ Overlap \/ ~Writing(review[a].id)
        /\ review' = [review EXCEPT ![a].pc = "read"]
     \/ /\ ~MayReview(request[review[a].id], review[a].op)
        /\ review' = [review EXCEPT ![a] = NoReview]
  /\ UNCHANGED <<moneyVars, savedQr, request, proved, taken, userVars, pageVars>>

Reviewing(a, op) ==
  /\ review[a].pc = "read" /\ review[a].op = op
  /\ review' = [review EXCEPT ![a] = NoReview]
  /\ UNCHANGED <<converted, earned, clawed, savedQr, proved, userVars, rows>>

\* Only the stage is written.
CsApprove(a) ==
  /\ Reviewing(a, "cs")
  /\ request' = [request EXCEPT ![review[a].id].stage = "finance_review"]
  /\ UNCHANGED <<frozen, deducted, taken, proofFor>>

\* One transaction; the page then asks for a proof of the payment.
Approve(a) ==
  LET r == review[a].id  amount == request[r].amount
  IN /\ Reviewing(a, "approve") /\ amount <= frozen
     /\ frozen' = frozen - amount /\ deducted' = deducted + amount
     /\ taken' = [taken EXCEPT ![r] = @ + 1]
     /\ request' = [request EXCEPT ![r].status = "approved", ![r].stage = "completed"]
     /\ proofFor' = [proofFor EXCEPT ![a] = r]

\* There is not enough, or a statement failed: any decision may end so.
ApproveRefused(a) ==
  /\ \E op \in Ops : Reviewing(a, op)
  /\ UNCHANGED <<frozen, deducted, request, taken, proofFor>>

Reject(a) ==
  /\ Reviewing(a, "reject")
  /\ request' = [request EXCEPT ![review[a].id].status = "rejected"]
  /\ UNCHANGED <<frozen, deducted, taken, proofFor>>

-----------------------------------------------------------------------------
Next ==
  \/ EarnRebate \/ ClawBack \/ EditQr \/ SaveQr
  \/ \E s \in Slots :
       \/ \E m \in Amounts : SubmitWithdraw(s, m)
       \/ SubmitChecked(s) \/ SubmitInserted(s) \/ SubmitFails(s)
  \/ \E m \in Amounts \cup {0} : ConvertRead(m)
  \/ ConvertWritten \/ ConvertConflict
  \/ \E a \in Reviewers :
       \/ LoadRows(a) \/ SubmitProof(a) \/ SkipProof(a)
       \/ \E r \in Requests, op \in Ops : Decide(a, r, op)
       \/ ReviewRead(a) \/ CsApprove(a) \/ Approve(a) \/ ApproveRefused(a) \/ Reject(a)

Spec == Init /\ [][Next]_vars

-----------------------------------------------------------------------------
(* Properties.                                                               *)

\* What leaves the frozen balance, as credits or as money, was earned and not
\* taken back, whichever conversions and approvals overlap.
NeverOverdrawn == converted + deducted + clawed <= earned

\* A request is approved for payment only after the first review, although the
\* server's final approval does not look at the stage: the review pages offer it
\* on such rows only, and a row never goes back.
FinalAfterFirst ==
  \A a \in Reviewers :
    review[a].op = "approve" => request[review[a].id].stage \in {"finance_review", "completed"}

\* A request's amount is taken once when it is approved, and not at all, and
\* without a proof of payment, when it is rejected, as long as its writers do not overlap.
TakenAsDecided ==
  \A r \in Requests :
    /\ request[r].status = "approved" => taken[r] = 1
    /\ request[r].status # "approved" => taken[r] = 0 /\ r \notin proved
=============================================================================
