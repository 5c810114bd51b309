------------------------------ MODULE Recharge ------------------------------
(***************************************************************************)
(* Recharging through a payment gateway: the billing page, which creates an *)
(* order and polls its status, and the server, which creates payment_orders *)
(* rows and credits them on the gateway's notices.  The gateway and the     *)
(* payer are external.                                                      *)
(***************************************************************************)
EXTENDS Naturals, FiniteSets

CONSTANTS
  Gateways,    \* the payment methods that may be enabled
  Orders,      \* out_trade_no: bounds the orders that are created
  MaxNotices,  \* bounds the notices the server handles at a time
  Amounts,     \* what a user selects to pay
  Discount,    \* what the coupon takes off
  None         \* no coupon

ASSUME RechargeAssumption ==
  /\ Gateways \subseteq {"shouqianba", "payApply", "epay"}
  /\ Orders \subseteq Nat \ {0} /\ MaxNotices \in Nat
  /\ Amounts \subseteq Nat \ {0} /\ Discount \in Nat /\ None \notin Nat

VARIABLES
  gateway,     \* the enabled payment method
  order,       \* payment_orders, with the amount the user selected for each
  credited,    \* per order, how often its credits were given
  lost,        \* orders marked paid whose recharge failed or was cut off
  received,    \* external: what the gateway received for each order
  accepted,    \* external: orders whose notice was answered with success
  checked,     \* per order, the handlers that found it not paid yet
  marked,      \* per order, the handlers that marked it and have yet to recharge
  post,        \* the page's order request
  frame,       \* showPayFrame
  timers,      \* orders an interval polls
  pollTimer,   \* pollTimerRef, 0: null
  timeout,     \* pollTimeoutRef is set
  ticks,       \* orders with a status request in flight
  mounted      \* the page is shown

serverVars == <<order, credited, lost, received, accepted, checked, marked>>
pollVars   == <<frame, timers, pollTimer, timeout>>
pageVars   == <<post, pollVars, ticks, mounted>>
vars       == <<gateway, serverVars, pageVars>>

NoPost == [pc |-> "none"]

Init ==
  /\ gateway \in Gateways
  /\ order = [o \in Orders |-> [status |-> "none", amount |-> 0, selected |-> 0]]
  /\ credited = [o \in Orders |-> 0] /\ received = [o \in Orders |-> 0]
  /\ lost = {} /\ accepted = {}
  /\ checked = [o \in Orders |-> 0] /\ marked = [o \in Orders |-> 0]
  /\ post = NoPost /\ frame = FALSE
  /\ timers = {} /\ pollTimer = 0 /\ timeout = FALSE
  /\ ticks = {} /\ mounted = TRUE

-----------------------------------------------------------------------------
(* The page: what is to be paid.  The form's fields are abstracted to the   *)
(* amounts they can hold: a coupon's result stays when another amount is    *)
(* selected, so any coupon amount goes with any selection.                  *)

\* At least one cent stays to be paid; here, one unit.
FinalAmount(a) == IF a - Discount < 1 THEN 1 ELSE a - Discount

CouponResults == {None} \cup {FinalAmount(a) : a \in Amounts}

AmountToPay(selected, coupon) == IF coupon # None THEN coupon ELSE selected

\* The button is disabled while an order request is in flight, and the
\* dialog covers it.
PayOffered == mounted /\ ~frame /\ post = NoPost

Pay ==
  /\ PayOffered
  /\ \E selected \in Amounts, coupon \in CouponResults :
       post' = [pc |-> "sent", amount |-> AmountToPay(selected, coupon),
                selected |-> selected]
  /\ UNCHANGED <<gateway, serverVars, pollVars, ticks, mounted>>

-----------------------------------------------------------------------------
(* The page: polling the order's status.                                    *)

StopPolling ==
  /\ timers' = timers \ {pollTimer}
  /\ pollTimer' = 0 /\ timeout' = FALSE

\* Variant: no timeout of five minutes is set.
StartPollingForGood(o) ==
  /\ timers' = (timers \ {pollTimer}) \cup {o}
  /\ pollTimer' = o /\ timeout' = FALSE

StartPolling(o) ==
  /\ timers' = (timers \ {pollTimer}) \cup {o}
  /\ pollTimer' = o /\ timeout' = TRUE

\* The page may have been left in the meantime: the polling starts all the
\* same, and nothing but its timeout or a paid answer stops it.
OrderAnswered ==
  /\ post.pc = "answered"
  /\ frame' = mounted /\ StartPolling(post.order)
  /\ post' = NoPost
  /\ UNCHANGED <<gateway, serverVars, ticks, mounted>>

OrderRefused ==
  /\ post.pc = "refused"
  /\ post' = NoPost
  /\ UNCHANGED <<gateway, serverVars, pollVars, ticks, mounted>>

\* Of the requests in flight for an order, one is followed.
PollTick(o) ==
  /\ o \in timers \ ticks
  /\ ticks' = ticks \cup {o}
  /\ UNCHANGED <<gateway, serverVars, pollVars, post, mounted>>

\* Whichever order is polled by now, its polling stops.
HandlePaymentSuccess == StopPolling /\ frame' = FALSE

\* The answer may have been read before the order was marked, or be an error.
TickAnswered(o) ==
  /\ o \in ticks
  /\ ticks' = ticks \ {o}
  /\ \/ order[o].status = "paid" /\ HandlePaymentSuccess
     \/ UNCHANGED pollVars
  /\ UNCHANGED <<gateway, serverVars, post, mounted>>

PollingTimesOut ==
  /\ timeout
  /\ StopPolling
  /\ UNCHANGED <<gateway, serverVars, frame, post, ticks, mounted>>

CloseDialog ==
  /\ frame
  /\ frame' = FALSE /\ StopPolling
  /\ UNCHANGED <<gateway, serverVars, post, ticks, mounted>>

\* The component is unmounted; requests in flight are not withdrawn.
LeavePage ==
  /\ mounted
  /\ mounted' = FALSE /\ frame' = FALSE /\ StopPolling
  /\ UNCHANGED <<gateway, serverVars, post, ticks>>

-----------------------------------------------------------------------------
(* The server: creating orders.                                             *)

Unused == {o \in Orders : order[o].status = "none"}

Insert(o) ==
  /\ o \in Unused
  /\ order' = [order EXCEPT ![o] = [status |-> "pending", amount |-> post.amount,
                                    selected |-> post.selected]]

Created(o) == post' = [pc |-> "answered", order |-> o]

\* The gateway gives no link, or the answer is lost; a row that was inserted
\* stays.
Refused == post' = [pc |-> "refused"]

CreateEpayOrder(o) == gateway = "epay" /\ Insert(o)

CreateShouqianbaOrder(o) == gateway = "shouqianba" /\ Insert(o)

Reusable(o) == order[o].status = "pending" /\ order[o].amount = post.amount

\* A pending order of today with the same amount and pay method is used
\* again; the day and the method are left out, so a new one may be made too.
CreatePayApplyOrder(o) ==
  /\ gateway = "payApply"
  /\ \/ Insert(o)
     \/ Reusable(o) /\ UNCHANGED order

OrderRequested ==
  /\ post.pc = "sent"
  /\ \E o \in Orders :
       /\ CreateEpayOrder(o) \/ CreateShouqianbaOrder(o) \/ CreatePayApplyOrder(o)
       /\ Created(o) \/ Refused
  /\ UNCHANGED <<gateway, credited, lost, received, accepted, checked, marked,
                 pollVars, ticks, mounted>>

\* Nothing was inserted.
OrderFails ==
  /\ post.pc = "sent"
  /\ Refused
  /\ UNCHANGED <<gateway, serverVars, pollVars, ticks, mounted>>

-----------------------------------------------------------------------------
(* The server: the gateway's notices.  Handlers of one order at the same    *)
(* point are alike, so they are counted.  A notice of an order carries what *)
(* the gateway received for it.                                             *)

rest == <<gateway, pageVars>>

IsPaid(o) == order[o].status = "paid"

\* Variant: whatever was received is accepted.
AmountAgreesAlways(o) == TRUE

\* Variant: the amount before the coupon is expected.
AmountAgreesUndiscounted(o) == gateway = "epay" \/ received[o] = order[o].selected

\* epay's notice carries no amount that is compared.
AmountAgrees(o) == gateway = "epay" \/ received[o] = order[o].amount

Noticed(o) == received[o] > 0 /\ o \notin accepted

\* Notices of different orders touch different rows: one order's at a time.
HasRoom(o) ==
  /\ checked[o] + marked[o] < MaxNotices
  /\ \A p \in Orders \ {o} : checked[p] + marked[p] = 0

\* The gateway repeats its notice until it is accepted; the handler looks the
\* order up.
AlreadyPaid(o) ==
  /\ Noticed(o) /\ IsPaid(o)
  /\ accepted' = accepted \cup {o}
  /\ UNCHANGED <<order, credited, lost, received, checked, marked, rest>>

NotPaidYet(o) ==
  /\ Noticed(o) /\ HasRoom(o)
  /\ ~IsPaid(o) /\ AmountAgrees(o)
  /\ checked' = [checked EXCEPT ![o] = @ + 1]
  /\ UNCHANGED <<order, credited, lost, received, accepted, marked, rest>>

SetPaid(o) ==
  /\ order' = [order EXCEPT ![o].status = "paid"]
  /\ marked' = [marked EXCEPT ![o] = @ + 1]
  /\ UNCHANGED accepted

\* Variant: the condition on the status is dropped.
MarkIfPendingBlind(o) == SetPaid(o)

\* UPDATE ... WHERE status = 'pending'; no row means another notice was first.
MarkIfPending(o) ==
  \/ order[o].status = "pending" /\ SetPaid(o)
  \/ order[o].status # "pending" /\ accepted' = accepted \cup {o}
                                 /\ UNCHANGED <<order, marked>>

EpayMark(o)       == gateway = "epay" /\ MarkIfPending(o)
ShouqianbaMark(o) == gateway = "shouqianba" /\ MarkIfPending(o)
PayApplyMark(o)   == gateway = "payApply" /\ SetPaid(o)

Mark(o) ==
  /\ checked[o] > 0
  /\ checked' = [checked EXCEPT ![o] = @ - 1]
  /\ EpayMark(o) \/ ShouqianbaMark(o) \/ PayApplyMark(o)
  /\ UNCHANGED <<credited, lost, received, rest>>

MarkFails(o) ==
  /\ checked[o] > 0
  /\ checked' = [checked EXCEPT ![o] = @ - 1]
  /\ UNCHANGED <<order, credited, lost, received, accepted, marked, rest>>

Recharged(o) ==
  /\ marked[o] > 0
  /\ marked' = [marked EXCEPT ![o] = @ - 1]
  /\ credited' = [credited EXCEPT ![o] = @ + 1]
  /\ accepted' = accepted \cup {o}
  /\ UNCHANGED <<order, lost, received, checked, rest>>

\* The answer is "fail", but the next notice finds the order paid.
RechargeFails(o) ==
  /\ marked[o] > 0
  /\ marked' = [marked EXCEPT ![o] = @ - 1]
  /\ lost' = lost \cup {o}
  /\ UNCHANGED <<order, credited, received, accepted, checked, rest>>

\* Every handler is cut off.
ServerStops ==
  /\ \E o \in Orders : checked[o] + marked[o] > 0
  /\ lost' = lost \cup {o \in Orders : marked[o] > 0}
  /\ checked' = [o \in Orders |-> 0] /\ marked' = [o \in Orders |-> 0]
  /\ UNCHANGED <<order, credited, received, accepted, rest>>

-----------------------------------------------------------------------------
(* The payer (external).  The gateways that report an amount may report     *)
(* less than was asked for.                                                 *)

PayerPays(o) ==
  /\ order[o].status # "none" /\ received[o] = 0
  /\ received' = [received EXCEPT ![o] = order[o].amount]
  /\ UNCHANGED <<order, credited, lost, accepted, checked, marked, rest>>

PayerPaysLess(o) ==
  /\ gateway # "epay" /\ order[o].status # "none" /\ received[o] = 0
  /\ order[o].amount > 1
  /\ received' = [received EXCEPT ![o] = order[o].amount - 1]
  /\ UNCHANGED <<order, credited, lost, accepted, checked, marked, rest>>

-----------------------------------------------------------------------------
Next ==
  \/ Pay \/ OrderRequested \/ OrderFails \/ OrderAnswered \/ OrderRefused
  \/ PollingTimesOut \/ CloseDialog \/ LeavePage
  \/ \E o \in Orders :
       \/ PollTick(o) \/ TickAnswered(o)
       \/ AlreadyPaid(o) \/ NotPaidYet(o) \/ Mark(o) \/ MarkFails(o)
       \/ Recharged(o) \/ RechargeFails(o)
       \/ PayerPays(o) \/ PayerPaysLess(o)
  \/ ServerStops

\* The browser's timeout fires, a handler goes on unless it is cut off, and
\* the gateway repeats a notice until it is accepted.
Fairness ==
  /\ WF_vars(PollingTimesOut)
  /\ \A o \in Orders :
       /\ SF_vars(NotPaidYet(o)) /\ SF_vars(Mark(o))
       /\ WF_vars(Recharged(o))

Spec == Init /\ [][Next]_vars /\ Fairness

-----------------------------------------------------------------------------
(* Properties.                                                               *)

\* Repeated and concurrent notices of an order credit it once, at the two
\* gateways whose handler marks the order under a condition.  At the third
\* the mark has none.
CreditedOnce == gateway # "payApply" => \A o \in Orders : credited[o] <= 1

\* An order is credited only for the amount it was created with, whatever the
\* gateway reported before.
CreditedIsReceived ==
  \A o \in Orders : credited[o] > 0 => received[o] = order[o].amount

\* A repeated notice of an order that was handled is answered with success and
\* changes nothing, at every gateway (the comments at payment_payapply.go:203,
\* payment_epay.go:131).
OrdersAreIdempotent == \A o \in Orders : credited[o] <= 1

\* The polling of an order comes to an end, also when its interval was
\* started on a page that the user had already left.
PollingEnds == (timers # {}) ~> (timers = {})

\* Once the gateway took the amount of an order its credits arrive, unless
\* the recharge failed after the order was marked: then no repeated notice
\* brings them.
PaymentsArrive ==
  \A o \in Orders :
    (received[o] > 0 /\ received[o] = order[o].amount) ~> (credited[o] > 0 \/ o \in lost)
=============================================================================
