----------------------------- MODULE SettingsForm ----------------------------
(* The settings page of the administration: all tabs edit one form, some      *)
(* fields are kept beside it, and a save writes every field the page holds,   *)
(* one row of system_settings at a time.                                      *)
EXTENDS Naturals, FiniteSets

CONSTANTS
  Fields,     \* settings of this run
  Pages,      \* settings pages that are open
  Values,     \* what may be typed or uploaded, On or Off for a switch
  MaxUploads  \* images on their way at a time

\* Kept beside the form, and put over it when it is saved.
OwnFields   == {"recharge_allow_custom", "recharge_plans", "default_rebate_ratio",
                "default_vendor_commission", "result_url_proxy_rules"}
ImageFields == {"logo_url", "qq_group_url", "wechat_cs_url", "qrcode_url"}
Methods     == {"epay_enabled", "pay_apply_enabled", "shouqianba_enabled"}
Absent == 0
Off == 1
On  == 2

SettingsAssumption == Values \subseteq Nat \ {Absent} /\ MaxUploads \in Nat

VARIABLES
  srv,      \* per field, the value of its row and who wrote it last
  fetching, \* pages whose settings have yet to arrive
  filled,   \* the form, Absent: the field is not in it
  own,      \* the fields beside it, Absent: their default
  uploads,  \* images on their way
  pending,  \* the fields of the save under way that are yet to be written
  outcome,  \* of the latest save: sent, stopped, saved, or none: no save or a refused one
  dirty     \* TRUE: edited since the latest save was sent
pageVars == <<fetching, filled, own, uploads>>
saveVars == <<pending, outcome>>
vars == <<srv, pageVars, saveVars, dirty>>

Nothing == [f \in {} |-> Absent]
Blank   == [f \in Fields |-> Absent]

-----------------------------------------------------------------------------
\* The form is filled once, when the settings arrive; without them it stays
\* empty, and can be saved.
Loaded(p) ==
  /\ p \in fetching /\ fetching' = fetching \ {p}
  /\ filled' = [filled EXCEPT ![p] = [f \in Fields |-> srv[f].value]]
  /\ own' = [own EXCEPT ![p] = [f \in Fields |-> IF f \in OwnFields THEN srv[f].value ELSE Absent]]
  /\ UNCHANGED <<srv, uploads, saveVars, dirty>>

LoadFails(p) ==
  /\ p \in fetching /\ fetching' = fetching \ {p}
  /\ UNCHANGED <<srv, filled, own, uploads, saveVars, dirty>>

Set(p, f, v) ==
  /\ IF f \in OwnFields
     THEN own' = [own EXCEPT ![p][f] = v] /\ UNCHANGED filled
     ELSE filled' = [filled EXCEPT ![p][f] = v] /\ UNCHANGED own
  /\ dirty' = [dirty EXCEPT ![p] = TRUE]

Type(p, tab) ==
  /\ p \notin fetching
  /\ \E f \in Fields \cap tab, v \in Values : Set(p, f, v)
  /\ UNCHANGED <<srv, fetching, uploads, saveVars>>

Upload(p, tab) ==
  /\ p \notin fetching
  /\ \E f \in Fields \cap ImageFields \cap tab, v \in Values :
       uploads' = uploads \cup {[page |-> p, field |-> f, url |-> v]}
  /\ Cardinality(uploads) < MaxUploads
  /\ UNCHANGED <<srv, fetching, filled, own, saveVars, dirty>>

Uploaded(u) ==
  /\ uploads' = uploads \ {u}
  /\ Set(u.page, u.field, u.url)
  /\ UNCHANGED <<srv, fetching, saveVars>>

UploadFails(u) ==
  /\ uploads' = uploads \ {u}
  /\ UNCHANGED <<srv, fetching, filled, own, saveVars, dirty>>

\* The tabs.
BasicFields == {"site_name", "logo_url", "result_url_proxy_rules", "user_agreement_url",
                "user_agreement_content", "show_low_price_key"}
AppearanceFields == {"header_html", "footer_html"}
MethodFields(m) ==
  CASE m = "epay_enabled" -> {"epay_url", "epay_pid", "epay_key", "epay_notify_url",
                              "epay_return_url"}
    [] m = "pay_apply_enabled" -> {"pay_apply_urlroot", "pay_apply_key"}
    [] OTHER -> {"shouqianba_api_domain", "shouqianba_terminal_sn", "shouqianba_terminal_key",
                 "shouqianba_public_key", "shouqianba_notify_url"}
PayFields      == {"wechat_pay_enabled", "alipay_enabled"}
NoticeFields   == {"notice_title", "notice_content", "contact_info", "tutorial_markdown"}
                    \cup (ImageFields \ {"logo_url"})
PlanFields     == {"recharge_plans", "recharge_allow_custom"}
AlertFields    == {"alert_task_failure_rate", "alert_task_window_minutes",
                   "alert_webhook_wecom", "alert_webhook_lark", "alert_email"}
WithdrawFields == {"withdraw_single_limit", "withdraw_daily_limit",
                   "withdraw_new_vendor_first_limit", "withdraw_new_vendor_days"}

\* Turning one method of payment on turns the others off.
Toggle(p, m) ==
  /\ p \notin fetching /\ m \in Fields
  /\ \E v \in {On, Off} :
       filled' = [filled EXCEPT ![p] = [f \in Fields |->
                  IF f = m THEN v ELSE IF v = On /\ f \in Methods THEN Off ELSE @[f]]]
  /\ dirty' = [dirty EXCEPT ![p] = TRUE]
  /\ UNCHANGED <<srv, fetching, own, uploads, saveVars>>

\* The keys of a method can be typed while it is on.
Keys(p, m) == m \in Fields /\ filled[p][m] = On /\ Type(p, MethodFields(m))

BasicTab(p)      == Type(p, BasicFields) \/ Upload(p, BasicFields)
AppearanceTab(p) == Type(p, AppearanceFields)
PaymentTab(p)    == Type(p, PayFields) \/ \E m \in Methods : Toggle(p, m) \/ Keys(p, m)
NoticeTab(p)     == Type(p, NoticeFields) \/ Upload(p, NoticeFields)
PlansTab(p)      == Type(p, PlanFields)
RebateTab(p)     == Type(p, {"default_rebate_ratio"})
AlertTab(p)      == Type(p, AlertFields)
WithdrawTab(p)   == Type(p, WithdrawFields)
VendorTab(p)     == Type(p, {"default_vendor_commission"})

Tabs(p) == \/ BasicTab(p) \/ AppearanceTab(p) \/ PaymentTab(p) \/ NoticeTab(p) \/ PlansTab(p)
           \/ RebateTab(p) \/ AlertTab(p) \/ WithdrawTab(p) \/ VendorTab(p)

-----------------------------------------------------------------------------
(* Saving.                                                                    *)

Shown(p, f) == IF f \in OwnFields THEN own[p][f] ELSE filled[p][f]
Held(p)     == {f \in Fields : filled[p][f] # Absent} \cup (Fields \cap OwnFields)

\* Variant: the form is put over the fields beside it.
PayloadFormLast(p) ==
  [f \in Held(p) |-> IF filled[p][f] # Absent THEN filled[p][f] ELSE own[p][f]]
Payload(p) == [f \in Held(p) |-> Shown(p, f)]

Save(p) ==
  /\ p \notin fetching /\ outcome[p] \notin {"sent", "stopped"}
  /\ pending' = [pending EXCEPT ![p] = Payload(p)]
  /\ outcome' = [outcome EXCEPT ![p] = "sent"] /\ dirty' = [dirty EXCEPT ![p] = FALSE]
  /\ UNCHANGED <<srv, pageVars>>

\* The server: one field after another, in no particular order; it stops at the
\* first that fails.
WriteField(p) ==
  /\ outcome[p] = "sent"
  /\ \E f \in DOMAIN pending[p] :
       /\ srv' = [srv EXCEPT ![f] = [value |-> pending[p][f], by |-> p]]
       /\ pending' = [pending EXCEPT ![p] = [g \in DOMAIN @ \ {f} |-> @[g]]]
  /\ UNCHANGED <<pageVars, outcome, dirty>>

Ends(p, from, to) ==
  /\ outcome[p] = from /\ outcome' = [outcome EXCEPT ![p] = to]
  /\ pending' = [pending EXCEPT ![p] = Nothing]
  /\ UNCHANGED <<srv, pageVars, dirty>>

WriteFails(p)   == DOMAIN pending[p] # {} /\ Ends(p, "sent", "stopped")
SaveAnswered(p) == DOMAIN pending[p] = {} /\ Ends(p, "sent", "saved")
SaveFails(p)    == \/ DOMAIN pending[p] = {} /\ Ends(p, "sent", "none")
                   \/ Ends(p, "stopped", "none")

Reload(p) ==
  /\ outcome[p] \notin {"sent", "stopped"} /\ p \notin fetching
  /\ fetching' = fetching \cup {p}
  /\ filled' = [filled EXCEPT ![p] = Blank] /\ own' = [own EXCEPT ![p] = Blank]
  /\ uploads' = {u \in uploads : u.page # p}
  /\ outcome' = [outcome EXCEPT ![p] = "none"] /\ dirty' = [dirty EXCEPT ![p] = FALSE]
  /\ UNCHANGED <<srv, pending>>

-----------------------------------------------------------------------------
Init ==
  /\ srv = [f \in Fields |-> [value |-> Off, by |-> "nobody"]]
  /\ fetching = Pages /\ filled = [p \in Pages |-> Blank]
  /\ own = [p \in Pages |-> Blank] /\ uploads = {}
  /\ pending = [p \in Pages |-> Nothing]
  /\ outcome = [p \in Pages |-> "none"] /\ dirty = [p \in Pages |-> FALSE]

Next ==
  \/ \E p \in Pages : \/ Loaded(p) \/ LoadFails(p) \/ Tabs(p) \/ Save(p) \/ WriteField(p)
                      \/ WriteFails(p) \/ SaveAnswered(p) \/ SaveFails(p)
                      \/ Reload(p)
  \/ \E u \in uploads : Uploaded(u) \/ UploadFails(u)

Spec == Init /\ [][Next]_vars

-----------------------------------------------------------------------------
\* A save that was answered has written every field as the page shows it, be it
\* kept in the form or beside it, unless another page has written it since.
SavedAsShown ==
  \A p \in Pages : outcome[p] = "saved" /\ ~dirty[p] =>
    \A f \in Held(p) : srv[f].by = p => srv[f].value = Shown(p, f)
=============================================================================
