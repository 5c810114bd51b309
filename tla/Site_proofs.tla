----------------------------- MODULE Site_proofs -----------------------------
(* Recharging and signing in.  An order is credited for what was received,    *)
(* and, at the gateways whose handler marks it under a condition, once; a     *)
(* session ends only when it is signed out or its token is refused: proofs    *)
(* for every number of orders, amounts, notices, tabs, tokens and calls.      *)
EXTENDS MCSite, TLAPS

OrderRow == [status : {"none", "pending", "paid"}, amount : Nat, selected : Nat]

ServerTypes ==
  /\ order \in [Orders -> OrderRow]
  /\ credited \in [Orders -> Nat] /\ received \in [Orders -> Nat]
  /\ checked \in [Orders -> Nat] /\ marked \in [Orders -> Nat]
  /\ post.pc = "sent" => post.amount \in Nat \ {0} /\ post.selected \in Nat

\* A handler is at work on an order, or has credited it, only after the gateway
\* received its amount; there is nothing of an order that was not created.
OrderInv ==
  \A o \in Orders :
    /\ order[o].status = "none" => received[o] = 0
    /\ order[o].status # "none" => order[o].amount > 0
    /\ gateway = "epay" /\ received[o] > 0 => received[o] = order[o].amount
    /\ checked[o] > 0 \/ marked[o] > 0 \/ credited[o] > 0 =>
         received[o] > 0 /\ received[o] = order[o].amount

\* At two gateways an order that can still be marked has not been credited.
OnceInv ==
  gateway # "payApply" =>
    \A o \in Orders :
      /\ order[o].status # "paid" => credited[o] + marked[o] = 0
      /\ credited[o] + marked[o] <= 1

IInv == ServerTypes /\ OrderInv /\ OnceInv

LEMMA InitInv == Init => IInv
<1> SUFFICES ASSUME Init PROVE IInv
  OBVIOUS
<1> USE DEF Init
<1>1. ServerTypes
  BY DEF ServerTypes, OrderRow, NoPost
<1>2. OrderInv
  BY DEF OrderInv
<1>3. OnceInv
  BY DEF OnceInv
<1>4. QED
  BY <1>1, <1>2, <1>3 DEF IInv

-----------------------------------------------------------------------------
(* The page: of what it does, only the order request reaches the server.      *)

LEMMA AmountsArePositive ==
  ASSUME NEW selected \in Amounts, NEW coupon \in CouponResults
  PROVE  AmountToPay(selected, coupon) \in Nat \ {0}
<1>1. \A a \in Amounts : FinalAmount(a) \in Nat \ {0}
  BY RechargeAssumption DEF FinalAmount
<1>2. QED
  BY <1>1, RechargeAssumption DEF AmountToPay, CouponResults

PageStep ==
  \/ Pay \/ OrderFails \/ OrderAnswered \/ OrderRefused
  \/ PollingTimesOut \/ CloseDialog \/ LeavePage
  \/ \E o \in Orders : PollTick(o) \/ TickAnswered(o)

LEMMA PageKeepsInv ==
  ASSUME IInv, PageStep
  PROVE  IInv'
<1>1. UNCHANGED <<gateway, order, credited, received, checked, marked>>
  BY DEF PageStep, Pay, OrderFails, OrderAnswered, OrderRefused, PollingTimesOut,
         CloseDialog, LeavePage, PollTick, TickAnswered, serverVars
<1>2. post'.pc = "sent" => post'.amount \in Nat \ {0} /\ post'.selected \in Nat
  <2>1. CASE Pay
    <3>1. PICK selected \in Amounts, coupon \in CouponResults :
            post' = [pc |-> "sent", amount |-> AmountToPay(selected, coupon),
                     selected |-> selected]
      BY <2>1 DEF Pay
    <3>2. QED
      BY <3>1, AmountsArePositive, RechargeAssumption
  <2>2. CASE post' \in {post, NoPost, [pc |-> "refused"]}
    BY <2>2 DEF IInv, ServerTypes, NoPost
  <2>3. QED
    BY <2>1, <2>2
    DEF PageStep, OrderFails, OrderAnswered, OrderRefused, PollingTimesOut, Refused,
        CloseDialog, LeavePage, PollTick, TickAnswered
<1>3. QED
  BY <1>1, <1>2 DEF IInv, ServerTypes, OrderInv, OnceInv

-----------------------------------------------------------------------------
(* The server: orders are created.                                            *)

LEMMA CreationKeepsInv ==
  ASSUME IInv, OrderRequested
  PROVE  IInv'
<1>1. PICK o \in Orders :
        /\ CreateEpayOrder(o) \/ CreateShouqianbaOrder(o) \/ CreatePayApplyOrder(o)
        /\ Created(o) \/ Refused
  BY DEF OrderRequested
<1>2. /\ post.pc = "sent" /\ post.amount \in Nat \ {0} /\ post.selected \in Nat
      /\ UNCHANGED <<gateway, credited, received, checked, marked>>
  BY DEF OrderRequested, IInv, ServerTypes
<1>3. post'.pc # "sent"
  BY <1>1 DEF Created, Refused
<1>4. CASE order' = order
  BY <1>2, <1>3, <1>4 DEF IInv, ServerTypes, OrderInv, OnceInv
<1>5. CASE Insert(o)
  <2>1. /\ order[o].status = "none"
        /\ order' = [order EXCEPT ![o] = [status |-> "pending", amount |-> post.amount,
                                          selected |-> post.selected]]
    BY <1>5 DEF Insert, Unused
  <2>2. order' \in [Orders -> OrderRow]
    BY <2>1, <1>2 DEF IInv, ServerTypes, OrderRow
  <2>3. received[o] = 0 /\ checked[o] = 0 /\ marked[o] = 0 /\ credited[o] = 0
    BY <2>1 DEF IInv, OrderInv, ServerTypes
  <2>4. ServerTypes'
    BY <1>2, <1>3, <2>2 DEF IInv, ServerTypes
  <2>5. OrderInv'
    BY <1>2, <2>1, <2>3 DEF IInv, OrderInv, ServerTypes
  <2>6. OnceInv'
    BY <1>2, <2>1, <2>3 DEF IInv, OnceInv, ServerTypes
  <2>7. QED
    BY <2>4, <2>5, <2>6 DEF IInv
<1>6. QED
  BY <1>1, <1>4, <1>5 DEF CreateEpayOrder, CreateShouqianbaOrder, CreatePayApplyOrder

-----------------------------------------------------------------------------
(* The server: notices.                                                       *)

LEMMA NoticeKeepsInv ==
  ASSUME IInv, NEW o \in Orders,
         AlreadyPaid(o) \/ NotPaidYet(o) \/ MarkFails(o) \/ Recharged(o) \/ RechargeFails(o)
  PROVE  IInv'
<1> USE DEF rest, pageVars
<1>1. CASE AlreadyPaid(o)
  BY <1>1 DEF AlreadyPaid, IInv, ServerTypes, OrderInv, OnceInv
<1>2. CASE NotPaidYet(o)
  BY <1>2 DEF NotPaidYet, Noticed, AmountAgrees, IInv, ServerTypes, OrderInv, OnceInv
<1>3. CASE MarkFails(o)
  BY <1>3 DEF MarkFails, IInv, ServerTypes, OrderInv, OnceInv
<1>4. CASE Recharged(o)
  BY <1>4 DEF Recharged, IInv, ServerTypes, OrderInv, OnceInv
<1>5. CASE RechargeFails(o)
  BY <1>5 DEF RechargeFails, IInv, ServerTypes, OrderInv, OnceInv
<1>6. QED
  BY <1>1, <1>2, <1>3, <1>4, <1>5

LEMMA MarkKeepsInv ==
  ASSUME IInv, NEW o \in Orders, Mark(o)
  PROVE  IInv'
<1>1. /\ checked[o] > 0 /\ checked' = [checked EXCEPT ![o] = @ - 1]
      /\ UNCHANGED <<credited, received, gateway, post>>
  BY DEF Mark, rest, pageVars
<1>2. CASE UNCHANGED <<order, marked>>
  BY <1>1, <1>2 DEF IInv, ServerTypes, OrderInv, OnceInv
<1>3. CASE SetPaid(o) /\ (gateway # "payApply" => order[o].status = "pending")
  <2>1. [order[o] EXCEPT !.status = "paid"] \in OrderRow
    BY DEF IInv, ServerTypes, OrderRow
  <2>2. order' = [order EXCEPT ![o].status = "paid"] /\ marked' = [marked EXCEPT ![o] = @ + 1]
    BY <1>3 DEF SetPaid
  <2>3. ServerTypes'
    BY <1>1, <2>1, <2>2 DEF IInv, ServerTypes
  <2>4. /\ order'[o].status = "paid" /\ order'[o].amount = order[o].amount
        /\ \A p \in Orders \ {o} : order'[p] = order[p]
    BY <2>2 DEF IInv, ServerTypes, OrderRow
  <2>5. received[o] > 0 /\ received[o] = order[o].amount
    BY <1>1 DEF IInv, OrderInv
  <2>6. OrderInv'
    BY <1>1, <2>2, <2>4, <2>5 DEF IInv, ServerTypes, OrderInv
  <2>7. OnceInv'
    BY <1>1, <1>3, <2>2, <2>4 DEF IInv, ServerTypes, OnceInv
  <2>8. QED
    BY <2>3, <2>6, <2>7 DEF IInv
<1>4. QED
  BY <1>2, <1>3 DEF Mark, EpayMark, ShouqianbaMark, PayApplyMark, MarkIfPending

LEMMA StopKeepsInv ==
  ASSUME IInv, ServerStops
  PROVE  IInv'
<1>1. ServerTypes' /\ OrderInv'
  BY DEF ServerStops, IInv, ServerTypes, OrderInv, rest, pageVars
<1>2. OnceInv'
  BY DEF ServerStops, IInv, ServerTypes, OnceInv, rest, pageVars
<1>3. QED
  BY <1>1, <1>2 DEF IInv

LEMMA PayerKeepsInv ==
  ASSUME IInv, NEW o \in Orders, PayerPays(o) \/ PayerPaysLess(o)
  PROVE  IInv'
<1>1. /\ order[o].status # "none" /\ received[o] = 0
      /\ received' = [received EXCEPT ![o] = received'[o]]
      /\ UNCHANGED <<order, credited, checked, marked, gateway, post>>
      /\ \/ received'[o] = order[o].amount
         \/ gateway # "epay" /\ received'[o] = order[o].amount - 1 /\ order[o].amount > 1
  BY DEF PayerPays, PayerPaysLess, IInv, ServerTypes, rest, pageVars
<1>2. order[o].amount \in Nat
  BY DEF IInv, ServerTypes, OrderRow
<1>3. checked[o] = 0 /\ marked[o] = 0 /\ credited[o] = 0
  BY <1>1 DEF IInv, ServerTypes, OrderInv
<1>4. QED
  BY <1>1, <1>2, <1>3 DEF IInv, ServerTypes, OrderInv, OnceInv

LEMMA StepInv == IInv /\ [Next]_vars => IInv'
<1> SUFFICES ASSUME IInv, [Next]_vars PROVE IInv'
  OBVIOUS
<1>1. CASE UNCHANGED vars
  BY <1>1 DEF vars, serverVars, pageVars, IInv, ServerTypes, OrderInv, OnceInv
<1>2. CASE Next
  BY <1>2, PageKeepsInv, CreationKeepsInv, NoticeKeepsInv, MarkKeepsInv, StopKeepsInv,
     PayerKeepsInv DEF Next, PageStep
<1>3. QED
  BY <1>1, <1>2

LEMMA InvHolds == Spec => []IInv
  BY InitInv, StepInv, PTL DEF Spec

\* Repeated and concurrent notices of an order credit it once, at the gateways
\* whose handler marks it under a condition (payment_epay.go:148,
\* payment_shouqianba.go:268).
THEOREM OrdersCreditedOnce == Spec => []CreditedOnce
<1>1. IInv => CreditedOnce
  BY DEF IInv, ServerTypes, OnceInv, CreditedOnce
<1>2. QED
  BY InvHolds, <1>1, PTL

\* An order is credited only after the gateway reported its own amount, for
\* every coupon and every amount selected (payment_payapply.go:210).
THEOREM CreditsAreReceived == Spec => []CreditedIsReceived
<1>1. IInv => CreditedIsReceived
  BY DEF IInv, OrderInv, CreditedIsReceived
<1>2. QED
  BY InvHolds, <1>1, PTL

-----------------------------------------------------------------------------
(* Sessions.  A call that was refused carries a token the server no longer    *)
(* accepts, and never will again.                                             *)

PlaceTyped(p) == p.role \in Roles /\ p.kind \in {"signin", "open", "console"}
                   /\ p = [role |-> p.role, kind |-> p.kind]

CallTyped(c) ==
  /\ c = [tab |-> c.tab, role |-> c.role, token |-> c.token, verdict |-> c.verdict]
  /\ c.tab \in Tabs /\ c.role \in Roles /\ c.token \in 0..issued
  /\ c.verdict = "refused" => c.token \notin alive

SessionsInv ==
  /\ issued \in Nat /\ stored \in [Roles -> 0..issued] /\ alive \subseteq 1..issued
  /\ DOMAIN place = Tabs /\ \A t \in Tabs : PlaceTyped(place[t])
  /\ \A c \in calls : CallTyped(c)
  /\ \A s \in signins : s.tab \in Tabs /\ s.role \in Roles

LEMMA PlacesTyped == \A p \in S!Places : PlaceTyped(p)
  BY DEF S!Places, S!SignInPage, S!Home, PlaceTyped

\* The guards lead to a page of the same role.
LEMMA LandingTyped ==
  ASSUME NEW p, NEW tokens, PlaceTyped(p)
  PROVE  PlaceTyped(S!Landing(p, tokens)) /\ S!Landing(p, tokens).role = p.role
  BY DEF PlaceTyped, S!Landing, S!RequireRole, S!PublicOnly, S!SignInPage, S!Home

LEMMA PagesOfRoles ==
  ASSUME NEW r \in Roles
  PROVE  /\ PlaceTyped(S!SignInPage(r)) /\ PlaceTyped(S!Home(r))
         /\ S!SignInPage(r).role = r /\ S!Home(r).role = r
  BY DEF S!SignInPage, S!Home, PlaceTyped

\* A page that is entered asks with the token that is stored.
LEMMA EnterTyped ==
  ASSUME SessionsInv, NEW t \in Tabs, NEW p, PlaceTyped(p), NEW tokens, NEW others,
         S!Enter(t, p, tokens, others), tokens \in [Roles -> 0..issued'],
         issued' \in Nat, issued <= issued', others \subseteq calls,
         \A c \in calls : c.verdict = "refused" => c.token \notin alive'
  PROVE  /\ DOMAIN place' = Tabs /\ \A u \in Tabs : PlaceTyped(place'[u])
         /\ \A c \in calls' : CallTyped(c)'
<1>1. DOMAIN place' = Tabs /\ \A u \in Tabs : PlaceTyped(place'[u])
  <2>1. place' = [place EXCEPT ![t] = p]
    BY DEF S!Enter
  <2>2. QED
    BY <2>1 DEF SessionsInv
<1>2. ASSUME NEW c \in calls' PROVE CallTyped(c)'
  <2>1. CASE c \in calls
    BY <2>1 DEF SessionsInv, CallTyped
  <2>2. CASE c = [tab |-> t, role |-> p.role, token |-> tokens[p.role], verdict |-> "none"]
    <3>1. p.role \in Roles /\ tokens[p.role] \in 0..issued'
      BY DEF PlaceTyped
    <3>2. QED
      BY <2>2, <3>1 DEF CallTyped
  <2>3. QED
    BY <2>1, <2>2 DEF S!Enter, S!CallsOf
<1>3. QED
  BY <1>1, <1>2

LEMMA InitSessions == S!Init => SessionsInv
<1> SUFFICES ASSUME S!Init PROVE SessionsInv
  OBVIOUS
<1>1. \A t \in Tabs : PlaceTyped(place[t])
  BY PagesOfRoles DEF S!Init
<1>2. QED
  BY <1>1 DEF S!Init, SessionsInv

\* Users move between pages, ask again, sign in and sign out.
LEMMA MovesTyped ==
  ASSUME SessionsInv, NEW t \in Tabs, S!Open(t) \/ S!Follow(t) \/ S!AskAgain(t) \/ S!SignOut(t)
  PROVE  SessionsInv'
<1>1. /\ UNCHANGED <<issued, alive>> /\ signins' \subseteq signins
      /\ stored' \in [Roles -> 0..issued]
      /\ \E p, tokens, others :
           /\ PlaceTyped(p) /\ tokens \in [Roles -> 0..issued] /\ others \subseteq calls
           /\ S!Enter(t, p, tokens, others)
  <2>1. CASE S!Open(t)
    BY <2>1, PlacesTyped, LandingTyped DEF S!Open, S!Others, SessionsInv
  <2>2. CASE S!Follow(t)
    BY <2>2, PlacesTyped, LandingTyped DEF S!Follow, SessionsInv
  <2>3. CASE S!AskAgain(t)
    BY <2>3 DEF S!AskAgain, SessionsInv
  <2>4. CASE S!SignOut(t)
    <3>1. place[t].role \in Roles
      BY DEF SessionsInv, PlaceTyped
    <3>2. /\ stored' = [stored EXCEPT ![place[t].role] = 0]
          /\ S!Enter(t, S!Landing(S!SignInPage(place[t].role), stored'), stored', calls)
          /\ UNCHANGED <<issued, alive, signins>>
      BY <2>4 DEF S!SignOut
    <3>3. stored' \in [Roles -> 0..issued]
      BY <3>1, <3>2 DEF SessionsInv
    <3>4. PlaceTyped(S!Landing(S!SignInPage(place[t].role), stored'))
      BY <3>1, PagesOfRoles, LandingTyped
    <3>5. QED
      BY <3>2, <3>3, <3>4
  <2>5. QED
    BY <2>1, <2>2, <2>3, <2>4
<1>2. PICK p, tokens, others :
        /\ PlaceTyped(p) /\ tokens \in [Roles -> 0..issued] /\ others \subseteq calls
        /\ S!Enter(t, p, tokens, others)
  BY <1>1
<1>3. /\ DOMAIN place' = Tabs /\ \A u \in Tabs : PlaceTyped(place'[u])
      /\ \A c \in calls' : CallTyped(c)'
  BY <1>1, <1>2, EnterTyped DEF SessionsInv, CallTyped
<1>4. QED
  BY <1>1, <1>3 DEF SessionsInv

LEMMA SignInsTyped ==
  ASSUME SessionsInv, NEW t \in Tabs,
         \/ S!UserSignsIn(t) \/ S!AdminSignsIn(t) \/ S!ResellerSignsIn(t) \/ S!VendorSignsIn(t)
  PROVE  SessionsInv'
<1>1. PICK r, waits : S!SignIn(t, r, waits)
  BY DEF S!UserSignsIn, S!AdminSignsIn, S!ResellerSignsIn, S!VendorSignsIn
<1>2. r \in Roles
  BY <1>1 DEF S!SignIn, S!SignInPage, SessionsInv, PlaceTyped
<1>3. \A s \in signins' : s \in signins \/ (s.tab = t /\ s.role = r)
  BY <1>1 DEF S!SignIn
<1>4. UNCHANGED <<stored, issued, alive, place, calls>>
  BY <1>1 DEF S!SignIn
<1>5. QED
  BY <1>2, <1>3, <1>4 DEF SessionsInv, CallTyped

\* A new token is none that was refused.
LEMMA SignedInTyped ==
  ASSUME SessionsInv, NEW s \in signins, S!SignedIn(s) \/ S!SignInFails(s)
  PROVE  SessionsInv'
<1>1. CASE S!SignInFails(s)
  BY <1>1 DEF S!SignInFails, SessionsInv, CallTyped
<1>2. CASE S!SignedIn(s)
  <2>1. s.tab \in Tabs /\ s.role \in Roles
    BY DEF SessionsInv
  <2>2. /\ issued \in Nat /\ issued' = issued + 1 /\ alive' = alive \cup {issued + 1}
        /\ signins' \subseteq signins
        /\ S!Enter(s.tab, S!Landing(S!Home(s.role), stored'), stored', calls)
    BY <1>2 DEF S!SignedIn, SessionsInv
  <2>3. stored' \in [Roles -> 0..issued']
    BY <1>2, <2>2 DEF S!SignedIn, SessionsInv
  <2>4. \A c \in calls : c.verdict = "refused" => c.token \notin alive'
    BY <2>2 DEF SessionsInv, CallTyped
  <2>5. PlaceTyped(S!Landing(S!Home(s.role), stored'))
    BY <2>1, PagesOfRoles, LandingTyped
  <2>6. /\ DOMAIN place' = Tabs /\ \A u \in Tabs : PlaceTyped(place'[u])
        /\ \A c \in calls' : CallTyped(c)'
    BY <2>1, <2>2, <2>3, <2>4, <2>5, EnterTyped
  <2>7. QED
    BY <2>2, <2>3, <2>6 DEF SessionsInv
<1>3. QED
  BY <1>1, <1>2

\* The server refuses a call for its token only when it no longer accepts it.
LEMMA CallsTyped ==
  ASSUME SessionsInv, NEW c \in calls, S!Deny(c) \/ S!Answered(c) \/ S!Refused(c)
  PROVE  SessionsInv'
<1>1. CASE S!Deny(c)
  <2> DEFINE new == [c EXCEPT !.verdict = IF c.token \in alive THEN "forbidden" ELSE "refused"]
  <2>1. CallTyped(new)
    BY DEF SessionsInv, CallTyped
  <2>2. calls' = (calls \ {c}) \cup {new} /\ UNCHANGED <<stored, issued, alive, place, signins>>
    BY <1>1 DEF S!Deny
  <2> HIDE DEF new
  <2>3. QED
    BY <2>1, <2>2 DEF SessionsInv, CallTyped
<1>2. CASE S!Answered(c)
  BY <1>2 DEF S!Answered, SessionsInv, CallTyped
<1>3. CASE S!Refused(c)
  <2>1. /\ c.tab \in Tabs /\ c.role \in Roles
        /\ stored' = [stored EXCEPT ![c.role] = 0] /\ UNCHANGED <<issued, alive>>
    BY <1>3 DEF S!Refused, SessionsInv, CallTyped
  <2>2. stored' \in [Roles -> 0..issued]
    BY <2>1 DEF SessionsInv
  <2>3. CASE place[c.tab] = S!SignInPage(c.role)
    <3>1. calls' \subseteq calls /\ UNCHANGED <<place, signins>>
      BY <1>3, <2>3 DEF S!Refused, S!Leave
    <3>2. QED
      BY <2>1, <2>2, <3>1 DEF SessionsInv, CallTyped
  <2>4. CASE place[c.tab] # S!SignInPage(c.role)
    <3>1. /\ S!Enter(c.tab, S!Landing(S!SignInPage(c.role), stored'), stored',
                     S!Others(c.tab, calls))
          /\ signins' \subseteq signins
      BY <1>3, <2>4 DEF S!Refused, S!Leave, S!Others
    <3>2. S!Others(c.tab, calls) \subseteq calls
      BY DEF S!Others
    <3>3. PlaceTyped(S!Landing(S!SignInPage(c.role), stored'))
      BY <2>1, PagesOfRoles, LandingTyped
    <3>4. /\ issued' \in Nat /\ issued <= issued' /\ stored' \in [Roles -> 0..issued']
          /\ \A d \in calls : d.verdict = "refused" => d.token \notin alive'
      BY <2>1, <2>2 DEF SessionsInv, CallTyped
    <3>5. /\ DOMAIN place' = Tabs /\ \A u \in Tabs : PlaceTyped(place'[u])
          /\ \A d \in calls' : CallTyped(d)'
      BY <2>1, <3>1, <3>2, <3>3, <3>4, EnterTyped
    <3>6. QED
      BY <2>1, <2>2, <3>1, <3>5 DEF SessionsInv
  <2>5. QED
    BY <2>3, <2>4
<1>4. QED
  BY <1>1, <1>2, <1>3

LEMMA StepSessions == SessionsInv /\ [S!Next]_sessions => SessionsInv'
<1> SUFFICES ASSUME SessionsInv, [S!Next]_sessions PROVE SessionsInv'
  OBVIOUS
<1>1. ASSUME NEW k \in alive, S!Expire(k) PROVE SessionsInv'
  BY <1>1 DEF S!Expire, SessionsInv, CallTyped
<1>2. CASE UNCHANGED sessions
  BY <1>2 DEF sessions, SessionsInv, CallTyped
<1>3. QED
  BY <1>1, <1>2, MovesTyped, SignInsTyped, SignedInTyped, CallsTyped DEF S!Next

LEMMA SessionsHold == SiteSpec => []SessionsInv
<1>1. SiteInit => SessionsInv
  BY InitSessions DEF SiteInit
<1>2. SessionsInv /\ [SiteNext]_<<part, vars, sessions>> => SessionsInv'
  BY StepSessions DEF SiteNext
<1>3. QED
  BY <1>1, <1>2, PTL DEF SiteSpec

\* Whatever tabs, tokens and calls cross, a session ends when its user signs
\* out, or when a call of its own role was refused for a token the server does
\* not accept (http.ts:33).
THEOREM SessionsEndWithCause == SiteSpec => SessionsEndForCause
<1> DEFINE Caused ==
             \A r \in Roles : stored[r] # 0 /\ stored'[r] = 0 =>
               \/ \E t \in Tabs : S!SignOut(t) /\ place[t].role = r
               \/ \E c \in calls : c.role = r /\ c.token \notin alive /\ c.verdict = "refused"
<1>1. SessionsInv /\ [SiteNext]_<<part, vars, sessions>> => [Caused]_S!vars
  <2> SUFFICES ASSUME SessionsInv, S!Next, NEW r \in Roles, stored[r] # 0, stored'[r] = 0
               PROVE  \/ \E t \in Tabs : S!SignOut(t) /\ place[t].role = r
                      \/ \E c \in calls : c.role = r /\ c.token \notin alive /\ c.verdict = "refused"
    BY DEF SiteNext, sessions, S!vars
  <2>1. CASE \E t \in Tabs : S!SignOut(t)
    BY <2>1 DEF S!SignOut, SessionsInv
  <2>2. CASE \E c \in calls : S!Refused(c)
    BY <2>2 DEF S!Refused, SessionsInv, CallTyped
  <2>3. CASE \E s \in signins : S!SignedIn(s)
    BY <2>3 DEF S!SignedIn, SessionsInv
  <2>4. CASE UNCHANGED stored
    BY <2>4
  <2>5. QED
    BY <2>1, <2>2, <2>3, <2>4
    DEF S!Next, S!Open, S!Follow, S!AskAgain, S!UserSignsIn, S!AdminSignsIn, S!ResellerSignsIn,
        S!VendorSignsIn, S!SignIn, S!SignInFails, S!Expire, S!Deny, S!Answered
<1>2. QED
  BY <1>1, SessionsHold, PTL DEF SiteSpec, SessionsEndForCause, S!SessionsEndForCause
=============================================================================
