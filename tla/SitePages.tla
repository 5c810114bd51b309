----------------------------- MODULE SitePages ------------------------------
(* The pages of users, vendors and resellers that list rows and change them. *)
EXTENDS ConsolePages

(* A user's tasks, calls, entries, orders and withdrawals.                   *)

MyTasksBar   == Type \/ Retry
MyTasksList  == Search \/ Clear
MyTasksTable == TurnTo
MyTasks      == MyTasksBar \/ MyTasksList \/ MyTasksTable

MyLogsBar   == Type \/ Retry
MyLogsList  == Search \/ Clear
MyLogsTable == TurnTo
MyLogs      == MyLogsBar \/ MyLogsList \/ MyLogsTable

TransactionsBar   == TypeNow(at) \/ (Free /\ at # 1 /\ Go(draft, filter, 1)) \/ Refresh
TransactionsTable == TurnTo
Transactions      == TransactionsBar \/ TransactionsTable

OrdersTable == Refresh \/ TurnTo
Orders      == OrdersTable

InvitesTable == Retry \/ (~loading /\ TurnTo)
Invites      == InvitesTable

-----------------------------------------------------------------------------
(* A user's keys: the key is shown once, in a dialog of its own, when the    *)
(* answer arrives.                                                           *)

UserKeysTable    == New \/ \E r \in Listed : OpenConfirm("delete", {r})
\* Variant: the button stays enabled.
UserKeysFormAgain == Save \/ Cancel("form")
UserKeysForm     == SaveOnce \/ Cancel("form")
UserKeysShown    == Dismiss(dialog)
UserKeysConfirm  == Confirm \/ Cancel("confirm")
UserKeysAnswered ==
  \E p \in posts : \/ Succeed(p, Closed(p.slot))
                   \/ Fail(p, IF p.slot = "confirm" THEN Closed("confirm") ELSE dialog)
UserKeys == UserKeysTable \/ UserKeysForm \/ UserKeysShown \/ UserKeysConfirm \/ UserKeysAnswered

(* A reseller's keys: the key is shown in the form, which sends no more until *)
(* it was closed, and forgets the key when it is.                            *)

ResellerKeysTop      == Retry \/ New
ResellerKeysForm     == \/ secret = 0 /\ SaveOnce
                        \/ secret = 0 /\ Cancel("form")
                        \/ dialog.slot = "form" /\ Dismiss(None)
ResellerKeysAnswered == \E p \in posts : Succeed(p, dialog) \/ Fail(p, dialog)
ResellerKeys == ResellerKeysTop \/ ResellerKeysForm \/ ResellerKeysAnswered

(* A reseller's sites: so is what was made.  A site needs a key in use.      *)

ResellerSitesTop      == Retry \/ New
ResellerSitesForm     == \/ secret = 0 /\ SaveOnce
                         \/ secret = 0 /\ Cancel("form")
                         \/ dialog.slot = "form" /\ Dismiss(None)
ResellerSitesAnswered == \E p \in posts : Succeed(p, dialog) \/ Fail(p, dialog)
ResellerSites == ResellerSitesTop \/ ResellerSitesForm \/ ResellerSitesAnswered

(* A vendor's keys: the form stays open for the next one.                    *)

VendorKeysTop      == Retry \/ New
VendorKeysForm     == Save \/ Cancel("form")
VendorKeysAnswered == \E p \in posts : Succeed(p, dialog) \/ Fail(p, dialog)
VendorKeys == VendorKeysTop \/ VendorKeysForm \/ VendorKeysAnswered
=============================================================================
