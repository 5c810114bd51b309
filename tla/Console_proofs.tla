--------------------------- MODULE Console_proofs ---------------------------
(* The pages with a list, for every set of pages and every number of lists,   *)
(* changes and forms: a page at rest lists the answer to its query, only rows *)
(* on the screen are ticked, no key is lost, and no form is entered twice.    *)
EXTENDS Console, TLAPS

-----------------------------------------------------------------------------
(* Thirty pages take a few kinds of steps.                                    *)

Browse    == \E d, f, a : Go(d, f, a)
TypeAhead == page \in AppliedPages \cup {"adminlogs"} /\ \E f : Stay(f, at, due)
Postpone  == \E d, a : Stay(d, a, TRUE)
Mark      == page \in {"users", "channels"} /\ \E R \in SUBSET DOMAIN shown.rows : Select(R)
Open      == \E d : Show(d) /\ d.op # "create" /\ (page = "userkeys" => d.slot # "form")

\* A change of rows that are there.
Change ==
  \E slot, op, R : \E g \in BOOLEAN :
    /\ op # "create" /\ (g => ~busy)
    /\ Post(slot, op, R, g) /\ dialog' \in {dialog, None}

\* A new row, from the form.
Enter ==
  \E R : \E g \in BOOLEAN :
    /\ dialog.slot = "form" /\ dialog.op = "create" /\ (g => ~busy)
    /\ page \in GuardedPages => g
    /\ page \in {"resellerkeys", "resellersites"} => secret = 0
    /\ Post("form", "create", R, g) /\ UNCHANGED dialog

\* The form that was sent is closed where its answer says nothing else.
Answered ==
  \E p \in posts :
    \/ \E d \in {dialog, None} : Fail(p, d)
    \/ \E d \in {dialog, None} :
         /\ page \in {"billing", "resellers", "userkeys"} /\ p.slot = "form" => d.slot # "form"
         /\ Succeed(p, d)

PutAway == \E d \in {dialog, None} : Dismiss(d) /\ (d = dialog => page = "userkeys" \/ d = None)

PageStep == \/ Browse \/ TypeAhead \/ Postpone \/ Mark \/ Open \/ New \/ Change \/ Enter
            \/ Answered \/ PutAway

\* Only the form makes new rows, and a page knows rows in use and off.
OnlyForms == dialog.op = "create" => dialog.slot = "form"
States == {"none", "on", "off"}
Stored(rows) == \A r \in DOMAIN rows : rows[r] \in States

LEMMA BrowseSteps ==
  ASSUME NEW a,
         \/ Search \/ Clear \/ Retry \/ Refresh \/ Tick \/ TypeNow(a) \/ ClearNow
         \/ Turn \/ TurnTo \/ Go(draft, filter, a)
  PROVE  Browse
  BY DEF Browse, Search, Clear, Retry, Refresh, Tick, TypeNow, ClearNow, Turn, TurnTo

LEMMA TypeSteps ==
  ASSUME page \in AppliedPages \cup {"adminlogs"}, Type
  PROVE  TypeAhead
  BY DEF TypeAhead, Type

LEMMA OpenSteps ==
  ASSUME NEW op, NEW R, op # "create",
         \/ OpenBatch(op) \/ OpenConfirm(op, R)
         \/ (page # "userkeys" /\ OpenForm(op, R))
  PROVE  Open
<1>1. CASE OpenBatch(op)
  BY <1>1 DEF OpenBatch, Open
<1>2. CASE OpenConfirm(op, R)
  BY <1>2 DEF OpenConfirm, Open
<1>3. CASE page # "userkeys" /\ OpenForm(op, R)
  BY <1>3 DEF OpenForm, Open
<1>4. QED
  BY <1>1, <1>2, <1>3

LEMMA CancelSteps == ASSUME NEW slot, Cancel(slot) PROVE Open
  BY DEF Cancel, Open, None

LEMMA ChangeSteps ==
  ASSUME NEW op, NEW R, op # "create", NEW g \in BOOLEAN, g => ~busy,
         Direct(op, R) \/ Batch(op, g)
  PROVE  Change
<1>1. CASE Direct(op, R)
  BY <1>1 DEF Direct, Change
<1>2. CASE Batch(op, g)
  BY <1>2 DEF Batch, Change
<1>3. QED
  BY <1>1, <1>2

LEMMA ConfirmSteps == ASSUME OnlyForms, Confirm PROVE Change
  BY DEF OnlyForms, Confirm, Change

LEMMA SaveSteps ==
  ASSUME \/ Save /\ page \notin GuardedPages
         \/ SaveOnce /\ (page \in {"resellerkeys", "resellersites"} => secret = 0)
  PROVE  Change \/ Enter
<1>1. CASE Save /\ page \notin GuardedPages
  <2>1. CASE dialog.op = "create"
    BY <1>1, <2>1 DEF Save, Enter, GuardedPages, KeyPages
  <2>2. CASE dialog.op # "create"
    BY <1>1, <2>2 DEF Save, Change
  <2>3. QED
    BY <2>1, <2>2
<1>2. CASE SaveOnce /\ (page \in {"resellerkeys", "resellersites"} => secret = 0)
  <2>1. CASE dialog.op = "create"
    BY <1>2, <2>1 DEF SaveOnce, Enter
  <2>2. CASE dialog.op # "create"
    BY <1>2, <2>2 DEF SaveOnce, Change
  <2>3. QED
    BY <2>1, <2>2
<1>3. QED
  BY <1>1, <1>2

\* What becomes of the dialog.
LEMMA AnsweredSteps ==
  ASSUME NEW p \in posts,
         \/ Fail(p, dialog) \/ Fail(p, None) \/ Fail(p, Closed("confirm"))
         \/ Succeed(p, Closed(p.slot))
         \/ page \notin {"billing", "resellers", "userkeys"} /\ Succeed(p, dialog)
         \/ Succeed(p, None) \/ Succeed(p, Closed("form"))
         \/ page # "userkeys" /\ page # "billing" /\ page # "resellers" /\ Succeed(p, Closed("confirm"))
  PROVE  Answered
<1>1. \A slot : Closed(slot) \in {dialog, None} /\ (slot = "form" => Closed(slot).slot # "form")
  BY DEF Closed, None
<1>2. None.slot # "form"
  BY DEF None
<1>3. QED
  BY <1>1, <1>2 DEF Answered

LEMMA FlippedKnown == \A s \in States : Flipped(s) # "create"
  BY DEF States, Flipped

LEMMA ListedFlips ==
  ASSUME Stored(shown.rows), NEW r \in Listed
  PROVE  Flipped(shown.rows[r]) # "create"
  BY FlippedKnown DEF Listed, Stored

LEMMA ReadingPages ==
  ASSUME \/ (page = "payments" /\ Payments)      \/ (page = "audit" /\ Audit)
         \/ (page = "adminlogs" /\ Logs)         \/ (page = "withdrawals" /\ WithdrawalList)
         \/ (page = "admintasks" /\ Tasks)       \/ (page = "usertasks" /\ MyTasks)
         \/ (page = "userlogs" /\ MyLogs)        \/ (page = "transactions" /\ Transactions)
         \/ (page = "orders" /\ Orders)          \/ (page = "invites" /\ Invites)
  PROVE  PageStep
<1>1. CASE \/ (page = "payments" /\ Payments)    \/ (page = "withdrawals" /\ WithdrawalList)
           \/ (page = "admintasks" /\ Tasks)     \/ (page = "usertasks" /\ MyTasks)
           \/ (page = "userlogs" /\ MyLogs)
  <2>1. page \in AppliedPages
    BY <1>1 DEF AppliedPages
  <2>2. Type \/ Search \/ Clear \/ Retry \/ Tick \/ Turn \/ TurnTo
    BY <1>1
    DEF Payments, PaymentsBar, PaymentsList, PaymentsTable, WithdrawalList, WithdrawalsBar,
        WithdrawalsTick, WithdrawalsTable, Tasks, TasksBar, TasksList, TasksTable, MyTasks,
        MyTasksBar, MyTasksList, MyTasksTable, MyLogs, MyLogsBar, MyLogsList, MyLogsTable
  <2>3. QED
    BY <2>1, <2>2, BrowseSteps, TypeSteps DEF PageStep
<1>2. CASE page = "adminlogs" /\ Logs
  <2>1. CASE LogsBar
    BY <1>2, <2>1, BrowseSteps, TypeSteps DEF LogsBar, PageStep
  <2>2. CASE LogsSearch \/ LogsTable
    BY <2>2 DEF LogsSearch, LogsTable, TurnLater, Postpone, PageStep
  <2>3. QED
    BY <1>2, <2>1, <2>2 DEF Logs
<1>3. CASE \/ (page = "audit" /\ Audit)    \/ (page = "transactions" /\ Transactions)
           \/ (page = "orders" /\ Orders)  \/ (page = "invites" /\ Invites)
  BY <1>3, BrowseSteps
  DEF Audit, AuditBar, AuditTable, Transactions, TransactionsBar, TransactionsTable, Orders,
      OrdersTable, Invites, InvitesTable, PageStep
<1>4. QED
  BY <1>1, <1>2, <1>3

LEMMA UsersPage ==
  ASSUME OnlyForms, page = "users", Users
  PROVE  PageStep
<1>1. CASE UsersBar \/ UsersList
  BY <1>1, BrowseSteps, TypeSteps DEF UsersBar, UsersList, AppliedPages, PageStep
<1>2. CASE UsersSelect
  BY <1>2 DEF UsersSelect, Mark, PageStep
<1>3. CASE UsersTable \/ UsersBatchBar
  BY <1>3, BrowseSteps, OpenSteps, ChangeSteps DEF UsersTable, UsersBatchBar, PageStep
<1>4. CASE UsersDetail
  <2>1. ASSUME NEW op \in {"edit", "off", "delete"},
               Show([slot |-> "form", op |-> op, rows |-> dialog.rows])
        PROVE  Open
    BY <2>1 DEF Open
  <2>2. ASSUME NEW op \in {"edit", "on"}, Post("none", op, dialog.rows, FALSE), UNCHANGED dialog
        PROVE  Change
    BY <2>2 DEF Change
  <2>3. QED
    BY <1>4, <2>1, <2>2 DEF UsersDetail, PageStep
<1>5. CASE UsersForm
  BY <1>5, SaveSteps, CancelSteps DEF UsersForm, GuardedPages, KeyPages, PageStep
<1>6. CASE UsersBatch
  <2>1. ASSUME dialog.slot = "batch", Batch(dialog.op, FALSE) PROVE Change
    BY <2>1, ChangeSteps DEF OnlyForms
  <2>2. QED
    BY <1>6, <2>1, CancelSteps DEF UsersBatch, PageStep
<1>7. CASE UsersAnswered
  BY <1>7, AnsweredSteps DEF UsersAnswered, PageStep
<1>8. QED
  BY <1>1, <1>2, <1>3, <1>4, <1>5, <1>6, <1>7 DEF Users

LEMMA ChannelsPage ==
  ASSUME OnlyForms, Stored(shown.rows), page = "channels", Channels
  PROVE  PageStep
<1>1. CASE ChannelsBar
  BY <1>1, BrowseSteps, TypeSteps DEF ChannelsBar, AppliedPages, PageStep
<1>2. CASE ChannelsSelect
  BY <1>2 DEF ChannelsSelect, Mark, PageStep
<1>3. CASE ChannelsBatchBar \/ ChannelsBatch
  BY <1>3, OpenSteps, ChangeSteps, CancelSteps DEF ChannelsBatchBar, ChannelsBatch, PageStep
<1>4. CASE ChannelsTable
  BY <1>4, BrowseSteps, OpenSteps, ChangeSteps, ListedFlips DEF ChannelsTable, PageStep
<1>5. CASE ChannelsForm
  BY <1>5, SaveSteps, CancelSteps, ConfirmSteps DEF ChannelsForm, PageStep
<1>6. CASE ChannelsAnswered
  BY <1>6, AnsweredSteps DEF ChannelsAnswered, PageStep
<1>7. QED
  BY <1>1, <1>2, <1>3, <1>4, <1>5, <1>6 DEF Channels

\* Pages with a form that may be sent again, and questions.
LEMMA FormPages ==
  ASSUME OnlyForms, Stored(shown.rows),
         \/ (page = "cards" /\ CardsPage)        \/ (page = "coupons" /\ Coupons)
         \/ (page = "notifications" /\ Notifications)
         \/ (page = "exports" /\ Exports)        \/ (page = "vendors" /\ Vendors)
         \/ (page = "roles" /\ Roles)            \/ (page = "ocpc" /\ Ocpc)
         \/ (page = "vip" /\ Vip)                \/ (page = "upstream" /\ Upstream)
         \/ (page = "keypools" /\ KeyPools)      \/ (page = "vendorkeys" /\ VendorKeys)
         \/ (page = "alerts" /\ Alerts)          \/ (page = "apikeys" /\ ApiKeys)
  PROVE  PageStep
<1>0. page = "cards" => page \in AppliedPages
  BY DEF AppliedPages
<1>1. CASE \/ CardsTop \/ (page = "cards" /\ CardsBar) \/ CardsTable \/ CardsBatches \/ CouponsTop
           \/ CouponsTable
           \/ NotificationsTable \/ ExportsTable \/ RolesTable \/ OcpcTable \/ VipTable
           \/ KeyPoolsTable \/ VendorKeysTop \/ AlertsBar \/ AlertsTable \/ ApiKeysBar
           \/ ApiKeysTable
  <2> page # "userkeys"
    OBVIOUS
  <2>1. QED
    BY <1>0, <1>1, BrowseSteps, TypeSteps, OpenSteps, ChangeSteps
    DEF CardsTop, CardsBar, CardsTable, CardsBatches, CouponsTop, CouponsTable,
        NotificationsTable, ExportsTable, RolesTable, OcpcTable, VipTable, KeyPoolsTable,
        VendorKeysTop, AlertsBar, AlertsTable, ApiKeysBar, ApiKeysTable, PageStep
<1>2. CASE VendorsTable
  <2> page # "userkeys"
    OBVIOUS
  <2>1. QED
    BY <1>2, BrowseSteps, OpenSteps, ListedFlips DEF VendorsTable, PageStep
<1>3. CASE VipRefresh \/ UpstreamTable \/ UpstreamTick
  <2> page # "userkeys"
    OBVIOUS
  <2>1. ASSUME NEW R, ~busy, Post("none", "edit", R, TRUE), UNCHANGED dialog PROVE Change
    BY <2>1 DEF Change
  <2>2. QED
    BY <1>3, <2>1, BrowseSteps, OpenSteps, ChangeSteps
    DEF VipRefresh, UpstreamTable, UpstreamTick, PageStep
<1>4. CASE \/ CardsGenerate \/ CardsConfirm \/ CouponsForm \/ CouponsConfirm \/ NotificationsForm
           \/ ExportsForm \/ VendorsForm \/ VendorsConfirm \/ RolesForm \/ OcpcForm
           \/ OcpcConfirm \/ VipForm \/ UpstreamForm \/ KeyPoolsForm \/ KeyPoolsConfirm
           \/ VendorKeysForm \/ ApiKeysConfirm
  <2> page \notin GuardedPages
    BY DEF GuardedPages, KeyPages
  <2>1. QED
    BY <1>4, SaveSteps, CancelSteps, ConfirmSteps
    DEF CardsGenerate, CardsConfirm, CouponsForm, CouponsConfirm, NotificationsForm, ExportsForm,
        VendorsForm, VendorsConfirm, RolesForm, OcpcForm, OcpcConfirm, VipForm, UpstreamForm,
        KeyPoolsForm, KeyPoolsConfirm, VendorKeysForm, ApiKeysConfirm, PageStep
<1>5. CASE \/ CardsAnswered \/ CouponsAnswered \/ NotificationsAnswered \/ ExportsAnswered
           \/ VendorsAnswered \/ RolesAnswered \/ OcpcAnswered \/ VipAnswered
           \/ UpstreamAnswered \/ KeyPoolsAnswered \/ VendorKeysAnswered \/ AlertsAnswered
           \/ ApiKeysAnswered
  <2> page \notin {"billing", "resellers", "userkeys"}
    OBVIOUS
  <2>1. QED
    BY <1>5, AnsweredSteps
    DEF CardsAnswered, CouponsAnswered, NotificationsAnswered, ExportsAnswered, VendorsAnswered,
        RolesAnswered, OcpcAnswered, VipAnswered, UpstreamAnswered, KeyPoolsAnswered,
        VendorKeysAnswered, AlertsAnswered, ApiKeysAnswered, PageStep
<1>6. QED
  BY <1>1, <1>2, <1>3, <1>4, <1>5
  DEF CardsPage, Coupons, Notifications, Exports, Vendors, Roles, Ocpc, Vip, Upstream, KeyPools,
      VendorKeys, Alerts, ApiKeys

\* Pages whose form is sent once, or shows a key.
LEMMA GuardedSteps ==
  ASSUME OnlyForms, Stored(shown.rows),
         \/ (page = "billing" /\ Billing)              \/ (page = "resellers" /\ Resellers)
         \/ (page = "userkeys" /\ UserKeys)            \/ (page = "resellerkeys" /\ ResellerKeys)
         \/ (page = "resellersites" /\ ResellerSites)
  PROVE  PageStep
<1>1. CASE page = "billing" /\ Billing
  <2>1. CASE BillingBar \/ BillingList \/ BillingTable
    BY <1>1, <2>1, BrowseSteps, TypeSteps
    DEF BillingBar, BillingList, BillingTable, AppliedPages, PageStep
  <2>2. CASE BillingAdjust \/ BillingAnswered
    BY <1>1, <2>2, SaveSteps, CancelSteps, AnsweredSteps
    DEF BillingAdjust, BillingAnswered, PageStep
  <2>3. QED
    BY <1>1, <2>1, <2>2 DEF Billing
<1>2. CASE page = "resellers" /\ Resellers
  <2>1. CASE ResellersTop \/ ResellersTable \/ ResellersJobs
    BY <2>1, BrowseSteps, ChangeSteps, ListedFlips
    DEF ResellersTop, ResellersTable, ResellersJobs, PageStep
  <2>2. CASE ResellersForm \/ ResellersAnswered
    BY <1>2, <2>2, SaveSteps, CancelSteps, AnsweredSteps
    DEF ResellersForm, ResellersAnswered, PageStep
  <2>3. QED
    BY <1>2, <2>1, <2>2 DEF Resellers
<1>3. CASE page = "userkeys" /\ UserKeys
  <2>1. CASE UserKeysTable \/ UserKeysForm \/ UserKeysConfirm
    BY <1>3, <2>1, SaveSteps, OpenSteps, CancelSteps, ConfirmSteps
    DEF UserKeysTable, UserKeysForm, UserKeysConfirm, PageStep
  <2>2. CASE UserKeysAnswered
    BY <2>2, AnsweredSteps DEF UserKeysAnswered, PageStep
  <2>3. CASE UserKeysShown
    BY <1>3, <2>3 DEF UserKeysShown, PutAway, PageStep
  <2>4. QED
    BY <1>3, <2>1, <2>2, <2>3 DEF UserKeys
<1>4. CASE \/ (page = "resellerkeys" /\ ResellerKeys)
           \/ (page = "resellersites" /\ ResellerSites)
  <2>1. CASE ResellerKeysTop \/ ResellerSitesTop
    BY <2>1, BrowseSteps DEF ResellerKeysTop, ResellerSitesTop, PageStep
  <2>2. CASE ResellerKeysForm \/ ResellerSitesForm
    <3>1. (\E d \in {None} : Dismiss(d)) => PutAway
      BY DEF PutAway
    <3>2. QED
      BY <1>4, <2>2, <3>1, SaveSteps, CancelSteps
      DEF ResellerKeysForm, ResellerSitesForm, PageStep
  <2>3. CASE ResellerKeysAnswered \/ ResellerSitesAnswered
    BY <1>4, <2>3, AnsweredSteps DEF ResellerKeysAnswered, ResellerSitesAnswered, PageStep
  <2>4. QED
    BY <1>4, <2>1, <2>2, <2>3 DEF ResellerKeys, ResellerSites
<1>5. QED
  BY <1>1, <1>2, <1>3, <1>4

LEMMA PageSteps ==
  ASSUME OnlyForms, Stored(shown.rows), Page
  PROVE  PageStep
<1>1. CASE \/ (page = "users" /\ Users)
           \/ (page = "channels" /\ Channels)
  BY <1>1, UsersPage, ChannelsPage
<1>2. CASE \/ (page = "payments" /\ Payments)      \/ (page = "audit" /\ Audit)
           \/ (page = "adminlogs" /\ Logs)         \/ (page = "withdrawals" /\ WithdrawalList)
           \/ (page = "admintasks" /\ Tasks)       \/ (page = "usertasks" /\ MyTasks)
           \/ (page = "userlogs" /\ MyLogs)        \/ (page = "transactions" /\ Transactions)
           \/ (page = "orders" /\ Orders)          \/ (page = "invites" /\ Invites)
  BY <1>2, ReadingPages
<1>3. CASE \/ (page = "cards" /\ CardsPage)        \/ (page = "coupons" /\ Coupons)
           \/ (page = "notifications" /\ Notifications)
           \/ (page = "exports" /\ Exports)        \/ (page = "vendors" /\ Vendors)
           \/ (page = "roles" /\ Roles)            \/ (page = "ocpc" /\ Ocpc)
           \/ (page = "vip" /\ Vip)                \/ (page = "upstream" /\ Upstream)
           \/ (page = "keypools" /\ KeyPools)      \/ (page = "vendorkeys" /\ VendorKeys)
           \/ (page = "alerts" /\ Alerts)          \/ (page = "apikeys" /\ ApiKeys)
  BY <1>3, FormPages
<1>4. CASE \/ (page = "billing" /\ Billing)              \/ (page = "resellers" /\ Resellers)
           \/ (page = "userkeys" /\ UserKeys)            \/ (page = "resellerkeys" /\ ResellerKeys)
           \/ (page = "resellersites" /\ ResellerSites)
  BY <1>4, GuardedSteps
<1>5. QED
  BY <1>1, <1>2, <1>3, <1>4 DEF Page

-----------------------------------------------------------------------------
(* The list.  The latest request asks what the controls show, or a reload is *)
(* due; its answer holds every change that was confirmed.                    *)

Current(x) ==
  /\ x.at = QueryOf(draft, filter, at).at
  /\ page # "adminlogs" => x = QueryOf(draft, filter, at)

AskShape(q) == q = [no |-> q.no, query |-> q.query, answer |-> q.answer]

Latest(q) ==
  q.no = asked => /\ Current(q.query) \/ due
                  /\ q.answer # Pending => q.answer.asof >= confirmed

PostShape(p) ==
  p = [no |-> p.no, slot |-> p.slot, op |-> p.op, rows |-> p.rows, guarded |-> p.guarded,
       form |-> p.form, made |-> p.made]

Counters == /\ asked \in Nat /\ applied \in Nat /\ confirmed \in 0..applied
            /\ \A p \in posts : PostShape(p) /\ p.made \in 0..applied

Asked == \A q \in asks :
  /\ AskShape(q) /\ q.no \in Int /\ q.no <= asked
  /\ Stored(q.answer.rows) /\ q.answer.asof \in Int /\ Latest(q)

ListInv ==
  /\ page \in AppliedPages \cup DraftPages \cup WholePages
  /\ srv \in [Rows -> States] /\ Counters /\ Asked
  /\ Stored(shown.rows) /\ shown.asof \in Int /\ ListIsCurrent
  /\ SelectionIsShown /\ (page \notin {"users", "channels"} => selected = {})

LEMMA QueryIs ==
  ASSUME NEW d, NEW f, NEW a
  PROVE  /\ page \in AppliedPages => QueryOf(d, f, a) = [filter |-> f, at |-> a]
         /\ page \in DraftPages => QueryOf(d, f, a) = [filter |-> d, at |-> a]
         /\ page \in WholePages => QueryOf(d, f, a) = Whole
  BY DEF QueryOf, AppliedPages, DraftPages, WholePages

LEMMA PendingIs == Stored(Pending.rows) /\ Pending.asof = -1
  BY DEF Pending, NoRows, Stored

\* A list that is asked for is the latest, and asks what the controls show.
LEMMA AskKeeps ==
  ASSUME Counters, Asked, Ask(QueryOf(draft', filter', at')), UNCHANGED page
  PROVE  Asked' /\ asked' \in Nat /\ ListIsCurrent'
<1>1. QueryOf(draft', filter', at') = QueryOf(draft, filter, at)'
  BY DEF QueryOf
<1>2. asked' = asked + 1 /\ loading' /\ asked \in Nat
  BY DEF Ask, Counters
<1>3. asks' = asks \cup {[no |-> asked + 1, query |-> QueryOf(draft, filter, at)',
                           answer |-> Pending]}
  BY <1>1 DEF Ask
<1>4. ASSUME NEW q \in asks'
      PROVE  /\ AskShape(q) /\ q.no \in Int /\ q.no <= asked'
             /\ Stored(q.answer.rows) /\ q.answer.asof \in Int /\ Latest(q)'
  <2>1. CASE q \in asks
    <3>1. q.no < asked'
      BY <1>2, <2>1 DEF Asked
    <3>2. QED
      BY <1>2, <2>1, <3>1 DEF Asked, Latest
  <2>2. CASE q = [no |-> asked + 1, query |-> QueryOf(draft, filter, at)', answer |-> Pending]
    <3>1. Current(q.query)'
      BY <2>2 DEF Current
    <3>2. QED
      BY <1>2, <2>2, <3>1, PendingIs DEF AskShape, Latest
  <2>3. QED
    BY <1>3, <2>1, <2>2
<1>5. QED
  BY <1>2, <1>4 DEF Asked, ListIsCurrent

\* Nothing of the list but what has a say in it.
LEMMA ListRests ==
  ASSUME ListInv, UNCHANGED <<page, srv, applied, listVars, shown, selected, confirmed>>,
         \A p \in posts' : PostShape(p) /\ p.made \in 0..applied
  PROVE  ListInv'
  BY DEF ListInv, listVars, Counters, Asked, Latest, Current, QueryOf, ListIsCurrent,
         SelectionIsShown

LEMMA ListTurns ==
  ASSUME ListInv, Browse \/ TypeAhead \/ Postpone
  PROVE  ListInv'
<1>1. CASE Browse
  <2>1. PICK d, f, a : Go(d, f, a)
    BY <1>1 DEF Browse
  <2>2. Ask(QueryOf(draft', filter', at'))
    BY <2>1 DEF Go
  <2>3. UNCHANGED <<page, srv, applied, shown, selected, posts, confirmed>>
    BY <2>1 DEF Go, srvVars, postVars
  <2>4. QED
    BY <2>2, <2>3, AskKeeps DEF ListInv, Counters, SelectionIsShown
<1>2. CASE TypeAhead
  <2>1. /\ page \in AppliedPages \cup {"adminlogs"}
        /\ UNCHANGED <<page, srv, applied, shown, selected, posts, confirmed, filter, at, asked,
                       asks, loading, failed, due>>
    BY <1>2 DEF TypeAhead, Stay, srvVars, postVars
  <2>2. ASSUME NEW x, Current(x) PROVE Current(x)'
    <3>1. CASE page \in AppliedPages
      <4>1. QueryOf(draft, filter, at)' = QueryOf(draft, filter, at)
        BY <2>1, <3>1 DEF QueryOf, AppliedPages, DraftPages, WholePages
      <4>2. QED
        BY <2>1, <2>2, <4>1 DEF Current
    <3>2. CASE page = "adminlogs"
      <4>1. QueryOf(draft, filter, at)'.at = QueryOf(draft, filter, at).at
        BY <2>1, <3>2 DEF QueryOf, AppliedPages, DraftPages, WholePages
      <4>2. QED
        BY <2>1, <2>2, <3>2, <4>1 DEF Current
    <3>3. QED
      BY <2>1, <3>1, <3>2
  <2>3. Asked'
    BY <2>1, <2>2 DEF ListInv, Asked, Latest
  <2>4. ListIsCurrent'
    BY <2>1, <2>2 DEF ListInv, ListIsCurrent, Current
  <2>5. QED
    BY <2>1, <2>3, <2>4 DEF ListInv, Counters, SelectionIsShown
<1>3. CASE Postpone
  <2>1. /\ due' /\ UNCHANGED <<page, srv, applied, shown, selected, posts, confirmed, asked, asks>>
    BY <1>3 DEF Postpone, Stay, srvVars, postVars
  <2>2. Asked' /\ ListIsCurrent'
    BY <2>1 DEF ListInv, Asked, Latest, ListIsCurrent
  <2>3. QED
    BY <2>1, <2>2 DEF ListInv, Counters, SelectionIsShown
<1>4. QED
  BY <1>1, <1>2, <1>3

\* What is ticked is on the screen; dialogs do not touch the list.
LEMMA ListStays ==
  ASSUME ListInv, Mark \/ Open \/ New \/ Change \/ Enter \/ PutAway
  PROVE  ListInv'
<1>1. CASE Mark
  <2>1. /\ UNCHANGED <<page, srv, applied, listVars, shown, posts, confirmed>>
        /\ page \in {"users", "channels"} /\ selected' \subseteq DOMAIN shown.rows
    BY <1>1 DEF Mark, Select, srvVars, postVars
  <2>2. QED
    BY <2>1 DEF ListInv, listVars, Counters, Asked, Latest, Current, QueryOf, ListIsCurrent,
                SelectionIsShown
<1>2. CASE Open \/ New \/ PutAway
  <2>1. UNCHANGED <<page, srv, applied, listVars, shown, selected, posts, confirmed>>
    BY <1>2 DEF Open, Show, New, PutAway, Dismiss, srvVars, postVars
  <2>2. QED
    BY <2>1, ListRests DEF ListInv, Counters
<1>3. CASE Change \/ Enter
  <2>1. PICK slot, op, R, g : Post(slot, op, R, g)
    BY <1>3 DEF Change, Enter
  <2>2. UNCHANGED <<page, srv, applied, listVars, shown, selected, confirmed>>
    BY <2>1 DEF Post, srvVars
  <2>3. \A p \in posts' : p \in posts \/ (PostShape(p) /\ p.made = 0)
    BY <2>1 DEF Post, PostShape
  <2>4. QED
    BY <2>2, <2>3, ListRests DEF ListInv, Counters
<1>4. QED
  BY <1>1, <1>2, <1>3

LEMMA ListAfterAnswer ==
  ASSUME ListInv, Answered
  PROVE  ListInv'
<1> PICK p \in posts : \/ \E d : Fail(p, d)
                       \/ \E d : Succeed(p, d)
  BY DEF Answered
<1>1. CASE \E d : Fail(p, d)
  <2>1. /\ UNCHANGED <<page, srv, applied, listVars, shown, selected, confirmed>>
        /\ posts' = posts \ {p}
    BY <1>1 DEF Fail, srvVars
  <2>2. QED
    BY <2>1, ListRests DEF ListInv, Counters
<1>2. CASE \E d : Succeed(p, d)
  <2>1. /\ Ask(QueryOf(draft', filter', at')) /\ posts' = posts \ {p}
        /\ UNCHANGED <<page, srv, applied, shown>>
        /\ confirmed' = IF p.made > confirmed THEN p.made ELSE confirmed
        /\ selected' \in {{}, selected}
    BY <1>2 DEF Succeed, srvVars
  <2>2. Asked' /\ asked' \in Nat /\ ListIsCurrent'
    BY <2>1, AskKeeps DEF ListInv
  <2>3. Counters'
    BY <2>1, <2>2 DEF ListInv, Counters
  <2>4. QED
    BY <2>1, <2>2, <2>3 DEF ListInv, SelectionIsShown
<1>3. QED
  BY <1>1, <1>2

LEMMA FlippedStates == \A s \in States : Flipped(s) \in States
  BY DEF States, Flipped

\* The server and others change rows; the list follows when it asks.
LEMMA ListLater ==
  ASSUME ListInv, Elsewhere \/ DueReload \/ \E p \in posts : Make(p)
  PROVE  ListInv'
<1>1. CASE Elsewhere
  <2>1. srv' \in [Rows -> States]
    BY <1>1, FlippedStates DEF Elsewhere, ListInv
  <2>2. UNCHANGED <<page, applied, listVars, shown, selected, posts, confirmed>>
    BY <1>1 DEF Elsewhere, postVars
  <2>3. QED
    BY <2>1, <2>2 DEF ListInv, listVars, Counters, Asked, Latest, Current, QueryOf,
                      ListIsCurrent, SelectionIsShown
<1>2. CASE DueReload
  <2>1. /\ Ask(QueryOf(draft', filter', at'))
        /\ UNCHANGED <<page, srv, applied, shown, selected, posts, confirmed>>
    BY <1>2 DEF DueReload, srvVars, postVars
  <2>2. QED
    BY <2>1, AskKeeps DEF ListInv, Counters, SelectionIsShown
<1>3. CASE \E p \in posts : Make(p)
  <2> PICK p \in posts : Make(p)
    BY <1>3
  <2>1. srv' \in [Rows -> States] /\ applied' = applied + 1
    BY DEF Make, States
  <2>2. UNCHANGED <<page, listVars, shown, selected, confirmed>>
    BY DEF Make
  <2>3. \A q \in posts' : q \in posts \/ q = [p EXCEPT !.made = applied + 1]
    BY DEF Make
  <2>4. Counters'
    <3>1. PostShape(p)
      BY DEF ListInv, Counters
    <3>2. ASSUME NEW q \in posts' PROVE PostShape(q) /\ q.made \in 0..applied + 1
      <4>1. CASE q \in posts
        BY <4>1 DEF ListInv, Counters
      <4>2. CASE q = [p EXCEPT !.made = applied + 1]
        BY <3>1, <4>2 DEF PostShape, ListInv, Counters
      <4>3. QED
        BY <2>3, <4>1, <4>2
    <3>3. applied' \in Nat /\ confirmed' \in 0..applied' /\ asked' \in Nat
      BY <2>1, <2>2 DEF ListInv, Counters, listVars
    <3>4. QED
      BY <2>1, <3>2, <3>3 DEF Counters
  <2>5. QED
    BY <2>1, <2>2, <2>4 DEF ListInv, listVars, Asked, Latest, Current, QueryOf, ListIsCurrent,
                            SelectionIsShown
<1>4. QED
  BY <1>1, <1>2, <1>3

\* The answer has the server's rows of the moment, with all that was confirmed.
LEMMA ListIsRead ==
  ASSUME ListInv, NEW q \in asks, Read(q)
  PROVE  ListInv'
<1> DEFINE rows == [r \in PageOf(q.query) |-> srv[r]]
           answer == [rows |-> rows, total |-> Cardinality(Matching(q.query.filter)),
                      asof |-> applied]
<1>1. /\ asks' = (asks \ {q}) \cup {[q EXCEPT !.answer = answer]}
      /\ UNCHANGED <<page, srv, applied, draft, filter, at, asked, loading, failed, due, shown,
                     selected, posts, confirmed>>
  BY DEF Read, srvVars, postVars
<1>2. Stored(rows)
  BY DEF Stored, PageOf, Matching, ListInv
<1>3. [q EXCEPT !.answer = answer] = [no |-> q.no, query |-> q.query, answer |-> answer]
  BY DEF ListInv, Asked, AskShape
<1>4. ASSUME NEW x \in asks'
      PROVE  /\ AskShape(x) /\ x.no \in Int /\ x.no <= asked
             /\ Stored(x.answer.rows) /\ x.answer.asof \in Int /\ Latest(x)
  <2>1. CASE x \in asks
    BY <2>1 DEF ListInv, Asked
  <2>2. CASE x = [no |-> q.no, query |-> q.query, answer |-> answer]
    <3>1. x.no = q.no /\ x.query = q.query /\ x.answer = answer
      BY <2>2
    <3>2. answer.asof = applied /\ answer.rows = rows
      OBVIOUS
    <3>3. applied >= confirmed /\ applied \in Int
      BY DEF ListInv, Counters
    <3>4. q.no \in Int /\ q.no <= asked /\ Latest(q)
      BY DEF ListInv, Asked
    <3>5. Latest(x)
      BY <3>1, <3>2, <3>3, <3>4 DEF Latest
    <3>6. AskShape(x)
      BY <2>2 DEF AskShape
    <3>7. QED
      BY <1>2, <3>1, <3>2, <3>3, <3>4, <3>5, <3>6
  <2>3. QED
    BY <1>1, <1>3, <2>1, <2>2
<1>5. Asked'
  BY <1>1, <1>4 DEF Asked, Latest, Current, QueryOf
<1>6. QED
  BY <1>1, <1>5 DEF ListInv, Counters, Current, QueryOf, ListIsCurrent, SelectionIsShown

\* Only the latest answer is shown, and nothing of it is ticked.
LEMMA ListArrives ==
  ASSUME ListInv, NEW q \in asks, ListAnswered(q) \/ ListFailed(q) \/ ListCancelled(q)
  PROVE  ListInv'
<1>1. /\ asks' = asks \ {q}
      /\ UNCHANGED <<page, srv, applied, draft, filter, at, asked, due, posts, confirmed>>
  BY DEF ListAnswered, ListFailed, ListCancelled, srvVars, postVars
<1>2. Asked' /\ Counters'
  BY <1>1 DEF ListInv, Asked, Counters, Latest, Current, QueryOf
<1>3. CASE ListAnswered(q)
  <2>1. /\ q.no = asked /\ q.answer # Pending /\ selected' = SelectionAfter
        /\ shown'.query = q.query /\ shown'.rows = q.answer.rows
        /\ shown'.asof = q.answer.asof
    BY <1>3 DEF ListAnswered
  <2>2. Current(q.query) \/ due
    BY <2>1 DEF ListInv, Asked, Latest
  <2>3. q.answer.asof >= confirmed /\ Stored(q.answer.rows) /\ q.answer.asof \in Int
    BY <2>1 DEF ListInv, Asked, Latest
  <2>4. ListIsCurrent'
    BY <1>1, <2>1, <2>2, <2>3 DEF ListIsCurrent, Current, QueryOf
  <2>5. selected' = {}
    BY <2>1 DEF SelectionAfter, ListInv
  <2>6. QED
    BY <1>1, <1>2, <2>1, <2>3, <2>4, <2>5 DEF ListInv, SelectionIsShown
<1>4. CASE ListFailed(q)
  <2>1. failed' /\ UNCHANGED <<shown, selected>>
    BY <1>4 DEF ListFailed
  <2>2. QED
    BY <1>1, <1>2, <2>1 DEF ListInv, ListIsCurrent, SelectionIsShown
<1>5. CASE ListCancelled(q)
  <2>1. UNCHANGED <<shown, loading, failed>> /\ selected' \in {{}, selected}
    BY <1>5 DEF ListCancelled, SelectionAfter
  <2>2. ListIsCurrent'
    BY <1>1, <2>1 DEF ListInv, ListIsCurrent, QueryOf
  <2>3. QED
    BY <1>1, <1>2, <2>1, <2>2 DEF ListInv, SelectionIsShown
<1>6. QED
  BY <1>3, <1>4, <1>5

-----------------------------------------------------------------------------
(* Forms and keys.  Where the button waits, at most one change waits for its *)
(* answer; the form on the screen, and the one that was sent, have made      *)
(* nothing yet.                                                              *)

Creates(p) == p.op = "create"

Sent ==
  /\ sent \in Nat /\ opened \in Nat /\ busy \in BOOLEAN
  /\ \A p \in posts :
       /\ PostShape(p) /\ p.no \in 1..sent /\ p.form \in 0..opened /\ p.guarded \in BOOLEAN
       /\ Creates(p) => p.slot = "form"
       /\ Creates(p) /\ page \in GuardedPages => p.guarded

OneWaits == /\ \A p \in posts : p.guarded => busy
            /\ \A p, q \in posts : p.guarded /\ q.guarded => p = q

Made == /\ \A k \in done : k.no \in 1..sent /\ k.form \in 0..opened
        /\ KeyIsShown /\ OncePerForm

KeyFirst == /\ page \in KeyPages /\ secret # 0 => \A p \in posts : ~Creates(p)
            /\ page = "userkeys" /\ secret # 0 => dialog.slot # "form"

\* The open form has made nothing, nor has the one that waits for its answer.
Fresh ==
  page \in GuardedPages =>
    /\ dialog.op = "create" /\ (page \in KeyPages => secret = 0)
         => \A k \in done : k.form # opened
    /\ \A p \in posts, k \in done : Creates(p) => p.form # k.form

FormInv == OnlyForms /\ Sent /\ OneWaits /\ Made /\ KeyFirst /\ Fresh

\* A dialog opens or closes, or nothing of this changes.
LEMMA FormRests ==
  ASSUME FormInv, UNCHANGED <<page, opened, busy, sent, posts, done, secret, dismissed>>,
         \/ dialog' = dialog
         \/ dialog'.op # "create" /\ (page = "userkeys" => dialog'.slot # "form")
  PROVE  FormInv'
<1>1. Sent' /\ OneWaits' /\ Made'
  BY DEF FormInv, Sent, OneWaits, Made, KeyIsShown, OncePerForm
<1>2. OnlyForms' /\ KeyFirst'
  BY DEF FormInv, OnlyForms, KeyFirst
<1>3. Fresh'
  BY DEF FormInv, Fresh
<1>4. QED
  BY <1>1, <1>2, <1>3 DEF FormInv

LEMMA FormStays ==
  ASSUME FormInv,
         \/ Browse \/ TypeAhead \/ Postpone \/ Mark \/ Open
         \/ DueReload \/ Elsewhere
         \/ \E q \in asks : Read(q) \/ ListAnswered(q) \/ ListFailed(q) \/ ListCancelled(q)
  PROVE  FormInv'
<1>1. CASE Open
  BY <1>1, FormRests DEF Open, Show, postVars, keyVars
<1>2. CASE \/ Browse \/ TypeAhead \/ Postpone \/ Mark \/ DueReload \/ Elsewhere
           \/ \E q \in asks : Read(q) \/ ListAnswered(q) \/ ListFailed(q) \/ ListCancelled(q)
  <2>1. UNCHANGED <<page, dialog, opened, busy, sent, posts, done, secret, dismissed>>
    <3>1. CASE Browse \/ TypeAhead \/ Postpone \/ Mark
      BY <3>1 DEF Browse, Go, TypeAhead, Stay, Postpone, Mark, Select, dialogVars, postVars, keyVars
    <3>2. CASE \/ DueReload \/ Elsewhere
               \/ \E q \in asks : Read(q) \/ ListAnswered(q) \/ ListFailed(q) \/ ListCancelled(q)
      BY <3>2 DEF DueReload, Elsewhere, Read, ListAnswered, ListFailed, ListCancelled, dialogVars,
                  postVars, keyVars
    <3>3. QED
      BY <1>2, <3>1, <3>2
  <2>2. QED
    BY <2>1, FormRests
<1>3. QED
  BY <1>1, <1>2

\* A new form has made nothing: its number is a new one.
LEMMA FormOpens ==
  ASSUME FormInv, New
  PROVE  FormInv'
<1>1. /\ Free /\ opened' = opened + 1
      /\ dialog' = [slot |-> "form", op |-> "create", rows |-> {}]
      /\ UNCHANGED <<page, busy, sent, posts, done, secret, dismissed>>
  BY DEF New, postVars, keyVars
<1>2. OnlyForms' /\ OneWaits' /\ KeyFirst'
  BY <1>1 DEF FormInv, OnlyForms, OneWaits, KeyFirst, Free
<1>3. Sent' /\ Made'
  BY <1>1 DEF FormInv, Sent, Made, KeyIsShown, OncePerForm
<1>4. Fresh'
  <2>1. opened \in Nat /\ \A k \in done : k.form \in 0..opened
    BY DEF FormInv, Sent, Made
  <2>2. QED
    BY <1>1, <2>1 DEF FormInv, Fresh
<1>5. QED
  BY <1>2, <1>3, <1>4 DEF FormInv

\* A change that is sent is the only one that waits for its answer, if its
\* button waits; a form is sent before its key is shown.
LEMMA FormSends ==
  ASSUME FormInv, Change \/ Enter
  PROVE  FormInv'
<1> PICK slot, op, R : \E g \in BOOLEAN :
      /\ Post(slot, op, R, g) /\ (g => ~busy) /\ dialog' \in {dialog, None}
      /\ op = "create" => /\ slot = "form" /\ dialog.op = "create" /\ dialog.slot = "form"
                          /\ page \in GuardedPages => g
                          /\ page \in {"resellerkeys", "resellersites"} => secret = 0
  BY DEF Change, Enter
<1> PICK g \in BOOLEAN :
      /\ Post(slot, op, R, g) /\ (g => ~busy) /\ dialog' \in {dialog, None}
      /\ op = "create" => /\ slot = "form" /\ dialog.op = "create" /\ dialog.slot = "form"
                          /\ page \in GuardedPages => g
                          /\ page \in {"resellerkeys", "resellersites"} => secret = 0
  OBVIOUS
<1> DEFINE p == [no |-> sent + 1, slot |-> slot, op |-> op, rows |-> R, guarded |-> g,
                 form |-> IF op = "create" THEN opened ELSE 0, made |-> 0]
<1>1. /\ sent' = sent + 1 /\ posts' = posts \cup {p} /\ busy' = (busy \/ g)
      /\ UNCHANGED <<page, opened, done, secret, dismissed>>
  BY DEF Post, keyVars
<1>2. op = "create" => (page \in KeyPages => secret = 0)
  BY DEF FormInv, KeyFirst, KeyPages
<1>3. OnlyForms'
  BY DEF FormInv, OnlyForms, None
<1>4. Sent'
  <2>1. /\ PostShape(p) /\ p.no \in 1..sent + 1 /\ p.form \in 0..opened /\ p.guarded \in BOOLEAN
        /\ Creates(p) => p.slot = "form"
        /\ Creates(p) /\ page \in GuardedPages => p.guarded
    BY DEF FormInv, Sent, PostShape, Creates
  <2>2. QED
    BY <1>1, <2>1 DEF FormInv, Sent
<1>5. OneWaits'
  <2>1. p.guarded = g
    OBVIOUS
  <2>2. QED
    BY <1>1, <2>1 DEF FormInv, OneWaits, Sent
<1>6. Made'
  BY <1>1 DEF FormInv, Sent, Made, KeyIsShown, OncePerForm
<1>7. KeyFirst'
  <2>1. page \in KeyPages /\ secret # 0 => ~Creates(p)
    BY <1>2 DEF Creates
  <2>2. QED
    BY <1>1, <2>1 DEF FormInv, KeyFirst, None
<1>8. Fresh'
  <2>1. page \in GuardedPages => \A k \in done : Creates(p) => p.form # k.form
    BY <1>2 DEF FormInv, Fresh, Creates
  <2>2. QED
    BY <1>1, <2>1 DEF FormInv, Fresh, None
<1>9. QED
  BY <1>3, <1>4, <1>5, <1>6, <1>7, <1>8 DEF FormInv

\* A change that is no longer waited for.
LEMMA SentFewer ==
  ASSUME FormInv, NEW p \in posts, posts' = posts \ {p}, busy' = (busy /\ ~p.guarded),
         UNCHANGED <<page, opened, sent>>
  PROVE  Sent' /\ OneWaits'
<1>1. Sent'
  BY DEF FormInv, Sent
<1>2. p.guarded \in BOOLEAN
  BY DEF FormInv, Sent
<1>3. OneWaits'
  BY <1>2 DEF FormInv, OneWaits
<1>4. QED
  BY <1>1, <1>3

LEMMA FormFails ==
  ASSUME FormInv, NEW p \in posts, NEW d \in {dialog, None}, Fail(p, d)
  PROVE  FormInv'
<1>1. /\ posts' = posts \ {p} /\ dialog' = d /\ busy' = (busy /\ ~p.guarded)
      /\ UNCHANGED <<page, opened, sent, done, secret, dismissed>>
  BY DEF Fail, keyVars
<1>2. Sent' /\ OneWaits'
  BY <1>1, SentFewer
<1>3. OnlyForms' /\ Made' /\ KeyFirst' /\ Fresh'
  BY <1>1 DEF FormInv, OnlyForms, None, Made, KeyIsShown, OncePerForm, KeyFirst, Fresh
<1>4. QED
  BY <1>2, <1>3 DEF FormInv

\* What was made is the first row of its form, and its key is shown: no other
\* new row waits for its answer, and no key is on the screen.
LEMMA FormSucceeds ==
  ASSUME FormInv, NEW p \in posts, NEW d \in {dialog, None},
         page \in {"billing", "resellers", "userkeys"} /\ p.slot = "form" => d.slot # "form",
         Succeed(p, d)
  PROVE  FormInv'
<1> DEFINE row == [no |-> p.no, form |-> p.form]
<1>1. /\ posts' = posts \ {p} /\ dialog' = d /\ busy' = (busy /\ ~p.guarded)
      /\ done' = IF Creates(p) THEN done \cup {row} ELSE done
      /\ secret' = IF Creates(p) /\ page \in KeyPages THEN p.no ELSE secret
      /\ UNCHANGED <<page, opened, sent, dismissed>>
  BY DEF Succeed, Creates
<1>2. Sent' /\ OneWaits'
  BY <1>1, SentFewer
<1>3. OnlyForms'
  BY <1>1 DEF FormInv, OnlyForms, None
<1>4. CASE ~Creates(p)
  BY <1>1, <1>2, <1>3, <1>4
  DEF FormInv, Made, KeyIsShown, OncePerForm, KeyFirst, Fresh, None
<1>5. CASE Creates(p)
  <2>1. /\ p.no \in 1..sent /\ p.form \in 0..opened /\ p.slot = "form" /\ sent \in Nat
        /\ page \in GuardedPages => p.guarded
    BY <1>5 DEF FormInv, Sent
  <2>2. done' = done \cup {row} /\ row.no = p.no /\ row.form = p.form
    BY <1>1, <1>5
  <2>3. KeyIsShown'
    <3>1. page \in KeyPages => secret = 0 /\ secret' = p.no
      BY <1>1, <1>5 DEF FormInv, KeyFirst
    <3>2. \A k \in done : k.no # 0
      BY <2>1 DEF FormInv, Made
    <3>3. QED
      BY <1>1, <2>2, <3>1, <3>2 DEF FormInv, Made, KeyIsShown
  <2>4. OncePerForm'
    BY <1>1, <1>5, <2>2 DEF FormInv, Made, OncePerForm, Fresh
  <2>5. Made'
    BY <1>1, <2>1, <2>2, <2>3, <2>4 DEF FormInv, Made
  <2>6. page \in GuardedPages => \A q \in posts' : ~Creates(q)
    <3>1. \A q \in posts : Creates(q) /\ page \in GuardedPages => q.guarded
      BY DEF FormInv, Sent
    <3>2. QED
      BY <1>1, <2>1, <3>1 DEF FormInv, OneWaits
  <2>7. KeyFirst'
    BY <1>1, <2>1, <2>6 DEF FormInv, KeyFirst, GuardedPages, KeyPages
  <2>8. Fresh'
    <3>1. CASE page \in {"resellerkeys", "resellersites"}
      <4>1. page \in KeyPages /\ secret' # 0
        BY <1>1, <1>5, <2>1, <3>1 DEF KeyPages
      <4>2. QED
        BY <1>1, <2>6, <4>1 DEF Fresh
    <3>2. CASE page \in {"billing", "resellers", "userkeys"}
      <4>1. dialog'.op # "create"
        BY <1>1, <1>3, <2>1, <3>2 DEF OnlyForms
      <4>2. QED
        BY <1>1, <2>6, <4>1 DEF Fresh
    <3>3. QED
      BY <1>1, <3>1, <3>2 DEF Fresh, GuardedPages, KeyPages
  <2>9. QED
    BY <1>2, <1>3, <2>5, <2>7, <2>8 DEF FormInv
<1>6. QED
  BY <1>4, <1>5

LEMMA FormAfterAnswer ==
  ASSUME FormInv, Answered
  PROVE  FormInv'
  BY FormFails, FormSucceeds DEF Answered

\* The key is put away, and with it the form it was shown in.
LEMMA KeyIsPutAway ==
  ASSUME FormInv, PutAway
  PROVE  FormInv'
<1> PICK d \in {dialog, None} : Dismiss(d) /\ (d = dialog => page = "userkeys" \/ d = None)
  BY DEF PutAway
<1>1. /\ secret # 0 /\ secret' = 0 /\ dismissed' = dismissed \cup {secret} /\ dialog' = d
      /\ UNCHANGED <<page, opened, busy, sent, posts, done>>
  BY DEF Dismiss, postVars
<1>2. Sent' /\ OneWaits' /\ OnlyForms' /\ KeyFirst'
  BY <1>1 DEF FormInv, Sent, OneWaits, OnlyForms, KeyFirst, None
<1>3. Made'
  BY <1>1 DEF FormInv, Made, KeyIsShown, OncePerForm
<1>4. dialog'.op # "create"
  BY <1>1 DEF FormInv, OnlyForms, KeyFirst, None
<1>5. QED
  BY <1>1, <1>2, <1>3, <1>4 DEF FormInv, Fresh

\* The server makes the change.
LEMMA FormIsMade ==
  ASSUME FormInv, NEW p \in posts, Make(p)
  PROVE  FormInv'
<1> DEFINE new == [p EXCEPT !.made = applied + 1]
<1>1. /\ posts' = (posts \ {p}) \cup {new}
      /\ UNCHANGED <<page, dialog, opened, busy, sent, done, secret, dismissed>>
  BY DEF Make, dialogVars, keyVars
<1>2. /\ PostShape(new) /\ new.no = p.no /\ new.slot = p.slot /\ new.op = p.op
      /\ new.guarded = p.guarded /\ new.form = p.form
  BY DEF FormInv, Sent, PostShape
<1> HIDE DEF new
<1>3. Sent'
  BY <1>1, <1>2 DEF FormInv, Sent, Creates
<1>4. OneWaits'
  BY <1>1, <1>2 DEF FormInv, OneWaits
<1>5. OnlyForms' /\ Made' /\ KeyFirst' /\ Fresh'
  BY <1>1, <1>2 DEF FormInv, OnlyForms, Made, KeyIsShown, OncePerForm, KeyFirst, Fresh, Creates
<1>6. QED
  BY <1>3, <1>4, <1>5 DEF FormInv

-----------------------------------------------------------------------------
(* Both together.                                                            *)

PagesInv == ListInv /\ FormInv

LEMMA InitPages == ASSUME Init PROVE PagesInv
<1>1. page \in AppliedPages \cup DraftPages \cup WholePages
  BY ConsoleAssumption DEF Init
<1>2. Asked /\ Counters
  BY DEF Init, Asked, Counters, AskShape, Latest, Current, Pending, NoRows, Stored
<1>3. ListInv
  BY <1>1, <1>2
  DEF Init, ListInv, ListIsCurrent, SelectionIsShown, NoRows, Stored, States
<1>4. FormInv
  BY DEF Init, FormInv, OnlyForms, None, Sent, OneWaits, Made, KeyIsShown, OncePerForm, KeyFirst,
         Fresh
<1>5. QED
  BY <1>3, <1>4 DEF PagesInv

LEMMA NextPages == ASSUME PagesInv, [Next]_vars PROVE PagesInv'
<1>1. CASE Page
  <2>1. PageStep
    BY <1>1, PageSteps DEF PagesInv, FormInv, ListInv
  <2>2. QED
    BY <2>1, ListTurns, ListStays, ListAfterAnswer, FormStays, FormOpens, FormSends,
       FormAfterAnswer, KeyIsPutAway DEF PagesInv, PageStep
<1>2. CASE DueReload \/ Elsewhere
  BY <1>2, ListLater, FormStays DEF PagesInv
<1>3. ASSUME NEW q \in asks, Read(q) \/ ListAnswered(q) \/ ListFailed(q) \/ ListCancelled(q)
      PROVE  PagesInv'
  BY <1>3, ListIsRead, ListArrives, FormStays DEF PagesInv
<1>4. ASSUME NEW p \in posts, Make(p) PROVE PagesInv'
  BY <1>4, ListLater, FormIsMade DEF PagesInv
<1>5. CASE UNCHANGED vars
  <2>1. ListInv'
    BY <1>5, ListRests DEF PagesInv, ListInv, Counters, vars, srvVars, postVars
  <2>2. FormInv'
    BY <1>5, FormRests DEF PagesInv, vars, dialogVars, postVars, keyVars
  <2>3. QED
    BY <2>1, <2>2 DEF PagesInv
<1>6. QED
  BY <1>1, <1>2, <1>3, <1>4, <1>5 DEF Next

LEMMA PagesStayRight == Spec => []PagesInv
  BY InitPages, NextPages, PTL DEF Spec

\* A page at rest lists the answer to the query its controls show, and the
\* answer is no older than the changes that were confirmed to it.
THEOREM ListsAreCurrent == Spec => []ListIsCurrent
<1>1. PagesInv => ListIsCurrent
  BY DEF PagesInv, ListInv
<1>2. QED
  BY <1>1, PagesStayRight, PTL

\* Only rows of the list on the screen are ticked, so a batch reaches no other.
THEOREM SelectionsAreShown == Spec => []SelectionIsShown
<1>1. PagesInv => SelectionIsShown
  BY DEF PagesInv, ListInv
<1>2. QED
  BY <1>1, PagesStayRight, PTL

\* Every new key is on the screen until it is put away: no answer takes the
\* place of a key that was not put away.
THEOREM KeysAreShown == Spec => []KeyIsShown
<1>1. PagesInv => KeyIsShown
  BY DEF PagesInv, FormInv, Made
<1>2. QED
  BY <1>1, PagesStayRight, PTL

\* A form whose button waits makes at most one row of what is confirmed to it.
THEOREM FormsMakeOneRow == Spec => []OncePerForm
<1>1. PagesInv => OncePerForm
  BY DEF PagesInv, FormInv, Made
<1>2. QED
  BY <1>1, PagesStayRight, PTL
=============================================================================
