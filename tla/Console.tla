------------------------------ MODULE Console -------------------------------
(* The pages with a list: one of them, and the server.                       *)
EXTENDS AdminPages, SitePages

Page ==
  \/ page = "users" /\ Users
  \/ page = "channels" /\ Channels
  \/ page = "cards" /\ CardsPage
  \/ page = "billing" /\ Billing
  \/ page = "payments" /\ Payments
  \/ page = "audit" /\ Audit
  \/ page = "adminlogs" /\ Logs
  \/ page = "alerts" /\ Alerts
  \/ page = "apikeys" /\ ApiKeys
  \/ page = "coupons" /\ Coupons
  \/ page = "notifications" /\ Notifications
  \/ page = "exports" /\ Exports
  \/ page = "vendors" /\ Vendors
  \/ page = "roles" /\ Roles
  \/ page = "ocpc" /\ Ocpc
  \/ page = "vip" /\ Vip
  \/ page = "upstream" /\ Upstream
  \/ page = "resellers" /\ Resellers
  \/ page = "keypools" /\ KeyPools
  \/ page = "withdrawals" /\ WithdrawalList
  \/ page = "admintasks" /\ Tasks
  \/ page = "usertasks" /\ MyTasks
  \/ page = "userlogs" /\ MyLogs
  \/ page = "transactions" /\ Transactions
  \/ page = "orders" /\ Orders
  \/ page = "invites" /\ Invites
  \/ page = "userkeys" /\ UserKeys
  \/ page = "resellerkeys" /\ ResellerKeys
  \/ page = "resellersites" /\ ResellerSites
  \/ page = "vendorkeys" /\ VendorKeys

Next ==
  \/ Page \/ DueReload \/ Elsewhere
  \/ \E q \in asks : Read(q) \/ ListAnswered(q) \/ ListFailed(q) \/ ListCancelled(q)
  \/ \E p \in posts : Make(p)

Spec == Init /\ [][Next]_vars

-----------------------------------------------------------------------------
(* Properties.                                                               *)

\* At rest a page lists the answer to the query its controls show, given
\* after every change that was confirmed to it.  The logs page applies its
\* filters whenever it asks, so only the page number can be compared there.
ListIsCurrent ==
  ~loading /\ ~failed /\ ~due =>
    /\ shown.query.at = QueryOf(draft, filter, at).at
    /\ page # "adminlogs" => shown.query = QueryOf(draft, filter, at)
    /\ shown.asof >= confirmed

\* Only rows of the list on the screen are ticked: a batch never reaches a row
\* of an earlier search or another page.
SelectionIsShown == selected \subseteq DOMAIN shown.rows

\* A key is shown until it is put away: the page is the only place the user
\* sees it, and the answer to another request does not take its place.
KeyIsShown == page \in KeyPages => \A k \in done : k.no \in dismissed \cup {secret}

\* On the pages whose button waits, a form makes at most one row of what is
\* confirmed to it: a second press never enters an amount twice.
GuardedPages == {"billing", "resellers"} \cup KeyPages
OncePerForm == page \in GuardedPages => \A p, q \in done : p.form = q.form => p = q
=============================================================================
