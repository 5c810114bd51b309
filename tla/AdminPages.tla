----------------------------- MODULE AdminPages -----------------------------
(* The pages of the administration that list rows and change them: what each *)
(* offers, and what its dialog does when the answer arrives.                 *)
EXTENDS ConsolePages

\* The page shows r as in use, or as not.
IsOn(r)  == shown.rows[r] = "on"
IsOff(r) == shown.rows[r] = "off"

-----------------------------------------------------------------------------
(* Users: one dialog at a time in one variable, whatever it is for.          *)

UsersBar    == Type \/ Retry \/ New
UsersList   == Search \/ Clear
UsersSelect == \E R \in SUBSET DOMAIN shown.rows : Select(R)
UsersTable  == \/ \E r \in Listed : \/ OpenForm("detail", {r})
                                    \/ IsOn(r) /\ OpenForm("off", {r})
                                    \/ IsOff(r) /\ Direct("on", {r})
               \/ Turn
UsersBatchBar == OpenBatch("off") \/ OpenBatch("edit")
                   \/ (Free /\ selected # {} /\ Batch("on", FALSE))
\* From the details, one of the forms; some changes are made at once.
UsersDetail ==
  /\ dialog.op = "detail"
  /\ \/ \E op \in {"edit", "off", "delete"} :
          Show([slot |-> "form", op |-> op, rows |-> dialog.rows])
     \/ \E op \in {"edit", "on"} : Post("none", op, dialog.rows, FALSE) /\ UNCHANGED dialog
UsersForm   == Save \/ Cancel("form")
UsersBatch  == (dialog.slot = "batch" /\ Batch(dialog.op, FALSE)) \/ Cancel("batch")
UsersAnswered == \E p \in posts : \/ Succeed(p, IF p.slot = "none" THEN dialog ELSE None)
                                  \/ Fail(p, dialog)

Users == UsersBar \/ UsersList \/ UsersSelect \/ UsersTable \/ UsersBatchBar
           \/ UsersDetail \/ UsersForm \/ UsersBatch \/ UsersAnswered

-----------------------------------------------------------------------------
(* Channels: the list; what the form does is ChannelForm's.                  *)

ChannelsBar    == Type \/ Search \/ Clear \/ Retry \/ New
ChannelsSelect == \E R \in SUBSET DOMAIN shown.rows : Select(R)
ChannelsBatchBar == /\ ~busy
                    /\ \/ OpenBatch("edit")
                       \/ \E op \in {"on", "off"} : Free /\ selected # {} /\ Batch(op, TRUE)
ChannelsBatch  == \/ dialog.slot = "batch" /\ selected # {} /\ ~busy /\ Batch("edit", TRUE)
                  \/ Cancel("batch")
ChannelsTable  == \/ \E r \in Listed : \/ OpenForm("edit", {r})
                                       \/ Direct(Flipped(shown.rows[r]), {r})
                                       \/ OpenConfirm("delete", {r})
                  \/ TurnTo
ChannelsForm   == SaveOnce \/ Cancel("form") \/ Confirm \/ Cancel("confirm")
ChannelsAnswered ==
  \E p \in posts : \/ Succeed(p, IF p.slot = "batch" /\ p.op # "edit" THEN dialog ELSE Closed(p.slot))
                   \/ Fail(p, IF p.slot = "confirm" THEN Closed("confirm") ELSE dialog)

Channels == ChannelsBar \/ ChannelsSelect \/ ChannelsBatchBar \/ ChannelsBatch
              \/ ChannelsTable \/ ChannelsForm \/ ChannelsAnswered

-----------------------------------------------------------------------------
(* Cards: making them opens a dialog of the result; voiding and deleting ask *)
(* first.  Their batches are voided as a whole.                              *)

CardsTop   == Retry \/ New
CardsBar   == Type \/ Search \/ Clear
CardsTable == \/ \E r \in Listed : IsOn(r) /\ (OpenConfirm("off", {r}) \/ OpenConfirm("delete", {r}))
              \/ Turn
CardsBatches  == OpenConfirm("off", Rows)
CardsGenerate == Save \/ Cancel("form")
CardsConfirm  == Confirm \/ Cancel("confirm")
CardsAnswered ==
  \E p \in posts : \/ Succeed(p, Closed(p.slot))
                   \/ Fail(p, IF p.slot = "confirm" THEN Closed("confirm") ELSE dialog)

CardsPage == CardsTop \/ CardsBar \/ CardsTable \/ CardsBatches \/ CardsGenerate
               \/ CardsConfirm \/ CardsAnswered

-----------------------------------------------------------------------------
(* Billing: entries are added by hand, once per form.                        *)

BillingBar    == Type \/ Retry \/ New
BillingList   == Search \/ Clear
BillingTable  == Turn
\* Variant: the button stays enabled.
BillingAdjustAgain == Save \/ Cancel("form")
BillingAdjust == SaveOnce \/ Cancel("form")
BillingAnswered == \E p \in posts : Succeed(p, Closed("form")) \/ Fail(p, dialog)

Billing == BillingBar \/ BillingList \/ BillingTable \/ BillingAdjust \/ BillingAnswered

(* Payments and the audit only list.                                         *)

PaymentsBar   == Type \/ Retry
PaymentsList  == Search \/ Clear
PaymentsTable == Turn
Payments      == PaymentsBar \/ PaymentsList \/ PaymentsTable

AuditBar   == TypeNow(1) \/ ClearNow
AuditTable == Turn
Audit      == AuditBar \/ AuditTable

(* The logs are asked for again in the next round of the event loop.         *)

LogsBar    == Type \/ Retry
LogsSearch == Free /\ (Stay(draft, 1, TRUE) \/ Stay("all", 1, TRUE))
LogsTable  == TurnLater
Logs       == LogsBar \/ LogsSearch \/ LogsTable

-----------------------------------------------------------------------------
AlertsBar      == TypeNow(1) \/ ClearNow
AlertsTable    == (\E r \in Listed : IsOn(r) /\ (Direct("edit", {r}) \/ Direct("off", {r}))) \/ Turn
AlertsAnswered == \E p \in posts : Succeed(p, dialog) \/ Fail(p, dialog)
Alerts         == AlertsBar \/ AlertsTable \/ AlertsAnswered

ApiKeysBar      == TypeNow(at) \/ Go(draft, filter, 1) \/ ClearNow
ApiKeysTable    == (\E r \in Listed : IsOn(r) /\ OpenConfirm("off", {r})) \/ Turn
ApiKeysConfirm  == Confirm \/ Cancel("confirm")
ApiKeysAnswered == \E p \in posts : Succeed(p, Closed("confirm")) \/ Fail(p, Closed("confirm"))
ApiKeys         == ApiKeysBar \/ ApiKeysTable \/ ApiKeysConfirm \/ ApiKeysAnswered

CouponsTop      == New
CouponsTable    == (\E r \in Listed : IsOn(r) /\ OpenConfirm("off", {r})) \/ Turn
CouponsForm     == Save \/ Cancel("form")
CouponsConfirm  == Confirm \/ Cancel("confirm")
CouponsAnswered ==
  \E p \in posts : \/ Succeed(p, Closed(p.slot))
                   \/ Fail(p, IF p.slot = "confirm" THEN Closed("confirm") ELSE dialog)
Coupons == CouponsTop \/ CouponsTable \/ CouponsForm \/ CouponsConfirm \/ CouponsAnswered

NotificationsTable ==
  \E r \in Listed : (IsOn(r) /\ Direct("off", {r})) \/ Direct("delete", {r})
NotificationsForm     == New \/ Save \/ Cancel("form")
NotificationsAnswered == \E p \in posts : Succeed(p, Closed(p.slot)) \/ Fail(p, dialog)
Notifications == NotificationsTable \/ NotificationsForm \/ NotificationsAnswered

ExportsTable    == New \/ Refresh
ExportsForm     == Save \/ Cancel("form")
ExportsAnswered == \E p \in posts : Succeed(p, Closed("form")) \/ Fail(p, dialog)
Exports         == ExportsTable \/ ExportsForm \/ ExportsAnswered

VendorsTable    == Retry \/ \E r \in Listed : \/ OpenForm("edit", {r})
                                              \/ OpenConfirm(Flipped(shown.rows[r]), {r})
VendorsForm     == Save \/ Cancel("form")
VendorsConfirm  == Confirm \/ Cancel("confirm")
VendorsAnswered ==
  \E p \in posts : \/ Succeed(p, Closed(p.slot))
                   \/ Fail(p, IF p.slot = "confirm" THEN Closed("confirm") ELSE dialog)
Vendors == VendorsTable \/ VendorsForm \/ VendorsConfirm \/ VendorsAnswered

RolesTable    == New \/ \E r \in Listed : OpenForm("edit", {r}) \/ Direct("delete", {r})
RolesForm     == Save \/ Cancel("form")
RolesAnswered == \E p \in posts : Succeed(p, Closed(p.slot)) \/ Fail(p, dialog)
Roles         == RolesTable \/ RolesForm \/ RolesAnswered

\* The account is switched on or off by the server, whatever the page shows.
OcpcTable    == Retry \/ New \/ \E r \in Listed : \/ OpenForm("edit", {r})
                                                 \/ Direct("flip", {r})
                                                 \/ OpenConfirm("delete", {r})
OcpcForm     == Save \/ Cancel("form")
OcpcConfirm  == Confirm \/ Cancel("confirm")
OcpcAnswered ==
  \E p \in posts : \/ Succeed(p, Closed(p.slot))
                   \/ Fail(p, IF p.slot = "confirm" THEN Closed("confirm") ELSE dialog)
Ocpc == OcpcTable \/ OcpcForm \/ OcpcConfirm \/ OcpcAnswered

VipTable    == New \/ \E r \in Listed : OpenForm("edit", {r}) \/ Direct("delete", {r})
\* All users are put into their groups, with a button that waits.
VipRefresh  == ~busy /\ Free /\ Post("none", "edit", {}, TRUE) /\ UNCHANGED dialog
VipForm     == Save \/ Cancel("form")
VipAnswered == \E p \in posts : Succeed(p, Closed(p.slot)) \/ Fail(p, dialog)
Vip         == VipTable \/ VipRefresh \/ VipForm \/ VipAnswered

\* The list is asked for every ten seconds; rows stay while it is.
UpstreamTable ==
  \E r \in DOMAIN shown.rows :
    \/ OpenForm("edit", {r}) \/ Direct("delete", {r})
    \/ ~busy /\ Free /\ Post("none", "edit", {r}, TRUE) /\ UNCHANGED dialog
UpstreamTick     == Tick
UpstreamForm     == New \/ Save \/ Cancel("form")
UpstreamAnswered == \E p \in posts : Succeed(p, Closed(p.slot)) \/ Fail(p, dialog)
Upstream         == UpstreamTable \/ UpstreamTick \/ UpstreamForm \/ UpstreamAnswered

ResellersTop      == Retry \/ New
ResellersTable    == \E r \in Listed : Direct(Flipped(shown.rows[r]), {r})
ResellersJobs     == \E r \in Listed : IsOff(r) /\ Direct("on", {r})
ResellersForm     == SaveOnce \/ Cancel("form")
ResellersAnswered == \E p \in posts : Succeed(p, Closed(p.slot)) \/ Fail(p, dialog)
Resellers == ResellersTop \/ ResellersTable \/ ResellersJobs \/ ResellersForm \/ ResellersAnswered

KeyPoolsTable    == Retry \/ New \/ \E r \in Listed : Direct("flip", {r}) \/ OpenConfirm("delete", {r})
KeyPoolsForm     == Save \/ Cancel("form")
KeyPoolsConfirm  == Confirm \/ Cancel("confirm")
KeyPoolsAnswered ==
  \E p \in posts : \/ Succeed(p, Closed(p.slot))
                   \/ Fail(p, IF p.slot = "confirm" THEN Closed("confirm") ELSE dialog)
KeyPools == KeyPoolsTable \/ KeyPoolsForm \/ KeyPoolsConfirm \/ KeyPoolsAnswered

-----------------------------------------------------------------------------
(* Two lists whose other operations have modules of their own.               *)

WithdrawalsBar   == Type \/ Search \/ Retry
WithdrawalsTick  == Tick
WithdrawalsTable == Turn
WithdrawalList   == WithdrawalsBar \/ WithdrawalsTick \/ WithdrawalsTable

TasksBar   == Type \/ Retry
TasksList  == Search \/ Clear
TasksTable == Turn
Tasks      == TasksBar \/ TasksList \/ TasksTable
=============================================================================
