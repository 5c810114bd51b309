---------------------------- MODULE ConsolePages ----------------------------
(* What the pages with a list have in common: the list is asked for again    *)
(* whenever its query changes or a change is answered, an answer counts when *)
(* it is that of the latest request, rows are selected and opened in dialogs, *)
(* and changes are sent while all this goes on.  AdminPages and SitePages say *)
(* what each page offers of it; Console puts them together.                  *)
EXTENDS Integers, FiniteSets

CONSTANTS
  Pages,     \* the pages of this run
  MaxAsks,   \* bounds, for each page, the lists asked for
  MaxPosts,  \* bounds the changes sent
  MaxForms   \* bounds the forms of new rows that are opened

Rows    == {1, 2}             \* a list page has one of them
Filters == {"all", "on"}

\* What the query is made of: filters that were applied with a button, the
\* ones in the filter bar, or nothing at all.
AppliedPages == {"users", "channels", "cards", "billing", "payments", "coupons",
                 "withdrawals", "admintasks", "usertasks", "userlogs",
                 "orders", "invites"}
DraftPages   == {"audit", "alerts", "apikeys", "adminlogs", "transactions"}
WholePages   == {"notifications", "exports", "vendors", "roles", "ocpc", "vip",
                 "upstream", "resellers", "keypools", "userkeys", "vendorkeys",
                 "resellerkeys", "resellersites"}

ASSUME ConsoleAssumption ==
  /\ Pages \subseteq AppliedPages \cup DraftPages \cup WholePages
  /\ \A B \in {MaxAsks, MaxPosts, MaxForms} : B \in [Pages -> Nat]

VARIABLES
  page,       \* the page that is open
  srv,        \* per row: none, on (in use, open, unused) or off
  applied,    \* changes of this page the server has made
  stirred,    \* TRUE: somebody else has changed a row (once)
  draft,      \* the filter in the bar
  filter,     \* the filter that was applied
  at,         \* the number of the list page
  asked,      \* lists asked for
  asks,       \* the ones under way: number, query and answer
  loading, failed,
  due,        \* TRUE: a reload is due in the next round of the event loop
  shown,      \* what the page lists: query, rows, how many there are, as of
              \* which change
  selected,   \* the rows that are ticked
  dialog,     \* the dialog that is open
  opened,     \* forms of new rows opened
  busy,       \* TRUE: the button that sends is disabled
  sent,       \* changes sent
  posts,      \* the ones that wait for their answer
  confirmed,  \* the latest change of the server's that was answered
  done,       \* new rows whose making was answered
  secret,     \* the new row whose key the page shows, 0: none
  dismissed   \* the ones whose key was shown and put away

listVars   == <<draft, filter, at, asked, asks, loading, failed, due>>
dialogVars == <<dialog, opened, busy>>
postVars   == <<sent, posts, confirmed, done>>
srvVars    == <<srv, applied, stirred>>
keyVars    == <<secret, dismissed>>
vars == <<page, srvVars, listVars, shown, selected, dialogVars, postVars, keyVars>>

Whole   == [filter |-> "all", at |-> 0]
NoRows  == [r \in {} |-> "on"]
Pending == [rows |-> NoRows, total |-> 0, asof |-> -1]
None    == [slot |-> "none", op |-> "none", rows |-> {}]

-----------------------------------------------------------------------------
(* The list.                                                                 *)

QueryOf(d, f, a) ==
  CASE page \in AppliedPages -> [filter |-> f, at |-> a]
    [] page \in DraftPages   -> [filter |-> d, at |-> a]
    [] page \in WholePages   -> Whole

Ask(q) ==
  /\ asked < MaxAsks[page] /\ asked' = asked + 1
  /\ asks' = asks \cup {[no |-> asked + 1, query |-> q, answer |-> Pending]}
  /\ loading' = TRUE /\ failed' = FALSE

\* The view changes, and with it the list is asked for.
Go(d, f, a) ==
  /\ draft' = d /\ filter' = f /\ at' = a
  /\ Ask(QueryOf(d, f, a))
  /\ UNCHANGED <<page, srvVars, due, shown, selected, dialogVars, postVars, keyVars>>

\* The view changes, the list is not asked for: not yet, when t.
Stay(d, a, t) ==
  /\ draft' = d /\ at' = a /\ due' = t
  /\ UNCHANGED <<page, srvVars, filter, asked, asks, loading, failed, shown,
                 selected, dialogVars, postVars, keyVars>>

\* A dialog covers the page.
Free == dialog = None /\ (page = "userkeys" => secret = 0)

Type     == Free /\ \E f \in Filters \ {draft} : Stay(f, at, due)
Search   == Free /\ Go(draft, draft, 1)
Clear    == Free /\ Go("all", "all", 1)
Retry    == Free /\ failed /\ Go(draft, filter, at)
Refresh  == Free /\ Go(draft, filter, at)
Tick     == Go(draft, filter, at)

\* Filters that are part of the query: the list follows them.
TypeNow(a)  == Free /\ \E f \in Filters \ {draft} : Go(f, filter, a)
ClearNow    == Free /\ (draft # "all" \/ at # 1) /\ Go("all", filter, 1)

\* The buttons under the table, there when there is more than one page.
Previous == at > 1 /\ shown.total > 1
NextPage == at < shown.total /\ shown.total > 1
Turn == Free /\ (\/ Previous /\ Go(draft, filter, at - 1)
                 \/ NextPage /\ Go(draft, filter, at + 1))
TurnLater == Free /\ (\/ Previous /\ Stay(draft, at - 1, TRUE)
                      \/ NextPage /\ Stay(draft, at + 1, TRUE))

\* The shared pager knows the pages there are, and goes to any other one.
Clamped(a)  == IF a > shown.total THEN shown.total ELSE a
TurnTo      == /\ Free /\ shown.total > 0
               /\ \E a \in 1..shown.total : a # Clamped(at) /\ Go(draft, filter, a)

DueReload == /\ due /\ due' = FALSE
             /\ Ask(QueryOf(draft, filter, at))
             /\ UNCHANGED <<page, srvVars, draft, filter, at, shown, selected,
                            dialogVars, postVars, keyVars>>

Matching(f) == {r \in Rows : srv[r] = "on" \/ (srv[r] = "off" /\ f = "all")}
PageOf(q)   == {r \in Matching(q.filter) :
                  q.at \in {0, 1 + Cardinality({s \in Matching(q.filter) : s < r})}}

\* The server answers with the rows it has at that time.
Read(q) ==
  /\ q.answer = Pending
  /\ asks' = (asks \ {q}) \cup
       {[q EXCEPT !.answer = [rows |-> [r \in PageOf(q.query) |-> srv[r]],
                              total |-> Cardinality(Matching(q.query.filter)),
                              asof |-> applied]]}
  /\ UNCHANGED <<page, srvVars, draft, filter, at, asked, loading, failed, due,
                 shown, selected, dialogVars, postVars, keyVars>>

\* Two pages forget what is ticked whenever a list arrives, whichever it is.
SelectionAfter == IF page \in {"users", "channels"} THEN {} ELSE selected

\* Variant: the answer of a request that was overtaken counts too.
ListAnsweredAny(q) ==
  /\ q.answer # Pending
  /\ asks' = asks \ {q}
  /\ shown' = [query |-> q.query, rows |-> q.answer.rows,
               total |-> q.answer.total, asof |-> q.answer.asof]
  /\ loading' = FALSE /\ failed' = FALSE /\ selected' = SelectionAfter
  /\ UNCHANGED <<page, srvVars, draft, filter, at, asked, due, dialogVars,
                 postVars, keyVars>>

\* Variant: what is ticked stays ticked.
ListAnsweredKeeps(q) ==
  /\ q.answer # Pending /\ q.no = asked
  /\ asks' = asks \ {q}
  /\ shown' = [query |-> q.query, rows |-> q.answer.rows,
               total |-> q.answer.total, asof |-> q.answer.asof]
  /\ loading' = FALSE /\ failed' = FALSE
  /\ UNCHANGED <<page, srvVars, draft, filter, at, asked, due, selected,
                 dialogVars, postVars, keyVars>>

ListAnswered(q) ==
  /\ q.answer # Pending /\ q.no = asked
  /\ asks' = asks \ {q}
  /\ shown' = [query |-> q.query, rows |-> q.answer.rows,
               total |-> q.answer.total, asof |-> q.answer.asof]
  /\ loading' = FALSE /\ failed' = FALSE /\ selected' = SelectionAfter
  /\ UNCHANGED <<page, srvVars, draft, filter, at, asked, due, dialogVars,
                 postVars, keyVars>>

ListFailed(q) ==
  /\ q.no = asked
  /\ asks' = asks \ {q} /\ loading' = FALSE /\ failed' = TRUE
  /\ UNCHANGED <<page, srvVars, draft, filter, at, asked, due, shown, selected,
                 dialogVars, postVars, keyVars>>

\* The answer of a request that was overtaken.
ListCancelled(q) ==
  /\ q.answer # Pending /\ q.no # asked
  /\ asks' = asks \ {q} /\ selected' = SelectionAfter
  /\ UNCHANGED <<page, srvVars, draft, filter, at, asked, loading, failed, due,
                 shown, dialogVars, postVars, keyVars>>

-----------------------------------------------------------------------------
(* Rows, dialogs and what is sent.                                           *)

\* While a list is loading a page shows none of its rows.
Listed == IF loading THEN {} ELSE DOMAIN shown.rows

Select(R) ==
  /\ Free /\ selected' = R
  /\ UNCHANGED <<page, srvVars, listVars, shown, dialogVars, postVars, keyVars>>

Show(d) ==
  /\ dialog' = d
  /\ UNCHANGED <<page, srvVars, listVars, shown, selected, opened, busy, postVars, keyVars>>

OpenForm(op, R)    == Free /\ Show([slot |-> "form", op |-> op, rows |-> R])
OpenBatch(op)      == Free /\ selected # {} /\ Show([slot |-> "batch", op |-> op, rows |-> {}])
OpenConfirm(op, R) == Free /\ Show([slot |-> "confirm", op |-> op, rows |-> R])

New ==
  /\ Free /\ opened < MaxForms[page] /\ opened' = opened + 1
  /\ dialog' = [slot |-> "form", op |-> "create", rows |-> {}]
  /\ UNCHANGED <<page, srvVars, listVars, shown, selected, busy, postVars, keyVars>>

Cancel(slot) == dialog.slot = slot /\ Show(None)

Post(slot, op, R, guarded) ==
  /\ sent < MaxPosts[page] /\ sent' = sent + 1
  /\ posts' = posts \cup
       {[no |-> sent + 1, slot |-> slot, op |-> op, rows |-> R, guarded |-> guarded,
         form |-> IF op = "create" THEN opened ELSE 0, made |-> 0]}
  /\ busy' = (busy \/ guarded)
  /\ UNCHANGED <<page, srvVars, listVars, shown, selected, opened, confirmed, done, keyVars>>

\* A button of a row, a form that is sent, one whose button is disabled until
\* it is answered, a question that is answered with yes.
Direct(op, R) == Free /\ Post("none", op, R, FALSE) /\ UNCHANGED dialog
Save == /\ dialog.slot = "form" /\ dialog.op # "detail"
        /\ Post("form", dialog.op, dialog.rows, FALSE) /\ UNCHANGED dialog
SaveOnce == /\ dialog.slot = "form" /\ ~busy
            /\ Post("form", dialog.op, dialog.rows, TRUE) /\ UNCHANGED dialog
\* What is ticked when the button is pressed.
Batch(op, guarded) == Post("batch", op, selected, guarded) /\ UNCHANGED dialog
Confirm == /\ dialog.slot = "confirm"
           /\ Post("confirm", dialog.op, dialog.rows, FALSE) /\ dialog' = None

Closed(slot) == IF dialog.slot = slot THEN None ELSE dialog

KeyPages == {"userkeys", "resellerkeys", "resellersites"}

\* A change is answered: the dialog becomes d, the list is asked for again.
Succeed(p, d) ==
  /\ p.made > 0 /\ posts' = posts \ {p}
  /\ confirmed' = IF p.made > confirmed THEN p.made ELSE confirmed
  /\ done' = IF p.op = "create" THEN done \cup {[no |-> p.no, form |-> p.form]} ELSE done
  /\ secret' = IF p.op = "create" /\ page \in KeyPages THEN p.no ELSE secret
  /\ dialog' = d /\ busy' = (busy /\ ~p.guarded)
  /\ selected' = IF p.slot = "batch" THEN {} ELSE selected
  /\ Ask(QueryOf(draft, filter, at))
  /\ UNCHANGED <<page, srvVars, draft, filter, at, due, shown, opened, sent, dismissed>>

\* It is refused, or its answer does not arrive.
Fail(p, d) ==
  /\ posts' = posts \ {p} /\ dialog' = d /\ busy' = (busy /\ ~p.guarded)
  /\ UNCHANGED <<page, srvVars, listVars, shown, selected, opened, sent, confirmed,
                 done, keyVars>>

\* The key is put away.
Dismiss(d) ==
  /\ secret # 0 /\ secret' = 0 /\ dismissed' = dismissed \cup {secret}
  /\ dialog' = d
  /\ UNCHANGED <<page, srvVars, listVars, shown, selected, opened, busy, postVars>>

-----------------------------------------------------------------------------
(* The server makes a change; others change rows too.                        *)

Flipped(s) == CASE s = "on" -> "off" [] s = "off" -> "on" [] s = "none" -> "none"
Set(R, s)  == [r \in Rows |-> IF r \in R /\ srv[r] # "none" THEN s ELSE srv[r]]

Changed(p, new) ==
  CASE p.op = "create" -> new = [srv EXCEPT ![CHOOSE r \in Rows : srv[r] = "none"] = "on"]
    [] p.op = "edit"   -> new = srv
    [] p.op = "flip"   -> new = [r \in Rows |-> IF r \in p.rows THEN Flipped(srv[r]) ELSE srv[r]]
    [] p.op = "delete" -> new = Set(p.rows, "none")
    [] p.op \in {"on", "off"} -> new = Set(p.rows, p.op)

Make(p) ==
  /\ p.made = 0 /\ (p.op = "create" => \E r \in Rows : srv[r] = "none")
  /\ applied' = applied + 1
  /\ posts' = (posts \ {p}) \cup {[p EXCEPT !.made = applied + 1]}
  /\ \E new \in [Rows -> {"none", "on", "off"}] : Changed(p, new) /\ srv' = new
  /\ UNCHANGED <<page, stirred, listVars, shown, selected, dialogVars, sent, confirmed, done, keyVars>>

Elsewhere ==
  /\ ~stirred /\ stirred' = TRUE
  /\ \E r \in Rows : srv' = [srv EXCEPT ![r] = Flipped(srv[r])]
  /\ UNCHANGED <<page, applied, listVars, shown, selected, dialogVars, postVars, keyVars>>

Init ==
  /\ page \in Pages /\ srv \in [Rows -> {"none", "on"}]
  /\ srv[2] = "on" => srv[1] = "on"
  /\ applied = 0 /\ stirred = FALSE
  /\ draft = "all" /\ filter = "all" /\ at = 1
  /\ asked = 1 /\ loading = TRUE /\ failed = FALSE /\ due = FALSE
  /\ asks = {[no |-> 1, query |-> QueryOf("all", "all", 1), answer |-> Pending]}
  /\ shown = [query |-> QueryOf("all", "all", 1), rows |-> NoRows, total |-> 0, asof |-> 0]
  /\ selected = {} /\ dialog = None /\ opened = 0 /\ busy = FALSE
  /\ sent = 0 /\ posts = {} /\ confirmed = 0 /\ done = {} /\ secret = 0 /\ dismissed = {}
=============================================================================
