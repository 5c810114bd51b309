----------------------------- MODULE ChannelForm -----------------------------
(* The administrator's channel dialog, the handlers it calls and the server's *)
(* upstream cost monitor.  Three writers replace whole rows: a save of the    *)
(* dialog, a sync asked for in the dialog and a tick of the monitor.  Answers *)
(* reach whatever form the dialog holds by then.                              *)
EXTENDS Integers, FiniteSets

CONSTANTS
  Channels,       \* channels that exist or may be created
  Made0,          \* those that exist at first, bound to no upstream
  Targets,        \* upstream models: platform, model name and group
  Markups,        \* markups an administrator types
  DefaultMarkup,  \* what the form shows when it infers none ("1.2")
  Costs,          \* costs an upstream publishes
  Cost0,          \* the cost they all publish at first
  Unpriced,       \* targets that publish none
  PerCall,        \* TRUE: the models are billed per call, FALSE: per token
  GroupPriced,    \* channels whose row holds pricing_groups at first
  MaxMoves,       \* bounds the changes of upstream costs
  MaxAsks         \* bounds the page's requests under way at a time

New      == "new"       \* the id of a form that was not saved yet
NoTarget == "no target"

ChannelFormAssumption ==
  /\ Markups \subseteq Nat \ {0} /\ DefaultMarkup \in Nat \ {0}
  /\ Costs \subseteq Nat \ {0} /\ Cost0 \in Costs /\ PerCall \in BOOLEAN
  /\ MaxMoves \in Nat /\ MaxAsks \in Nat
  /\ Made0 \subseteq Channels /\ New \notin Channels /\ NoTarget \notin Targets

VARIABLES
  row,        \* per channel, the row's fields
  made,       \* channels that have a row
  upstream,   \* per target, the cost it publishes, 0 when it has none
  moves,
  form,       \* the dialog's form, or Closed
  previewOk, syncOk,  \* the form's gate
  preview,    \* the target of the check under way, if any
  sync,       \* the sync under way, with the row its handler read
  saving,     \* forms whose save is under way
  tick,       \* the rows the running tick has read and has yet to look at
  checked     \* per channel, the <<target, markup>> the server has synced

pageVars == <<form, previewOk, syncOk>>
askVars  == <<preview, sync, saving>>
rowVars  == <<row, made>>
vars     == <<rowVars, pageVars, askVars, upstream, moves, tick, checked>>

Bindings == Targets \cup {NoTarget}
AllMarkups == Markups \cup {DefaultMarkup}

\* A row: the prices are in whole credits; markup 0: no price_markup is kept.
Rows == [target : Bindings, cost : Nat, price : Nat, markup : Nat,
         auto : BOOLEAN, groups : BOOLEAN]

\* A form: cost 0 is a blank input; the prices are not inputs.
Forms == [id : Channels \cup {New}, target : Bindings, cost : Nat,
          markup : AllMarkups, auto : BOOLEAN]

\* The form of a closed dialog is never looked at: opening replaces it.
Closed == [id |-> "closed"]
open == form # Closed

Asks  == [id : Channels, target : Targets, markup : AllMarkups]

NoSync == [stage |-> "none"]

-----------------------------------------------------------------------------
(* The form and the row.                                                     *)

EmptyForm == [id |-> New, target |-> NoTarget, cost |-> 0,
              markup |-> DefaultMarkup, auto |-> FALSE]

\* Inferred from the prices per token; prices per call are not looked at.
InferredMarkup(r) ==
  IF ~PerCall /\ r.cost > 0 /\ r.price > 0 THEN r.price \div r.cost
                                           ELSE DefaultMarkup

FormOf(c, r) == [id |-> c, target |-> r.target, cost |-> r.cost,
                 markup |-> InferredMarkup(r), auto |-> r.auto]

\* pricing_groups is one of the keys the form claims to structure: the text
\* of the advanced configuration leaves it out, and no input holds it.
AdvancedGroups(r) == FALSE

\* What a save makes of the form: prices only from costs, and the binding.
RowOf(f) ==
  LET bound == f.target # NoTarget
  IN  [target |-> f.target, cost |-> f.cost, price |-> f.cost * f.markup,
       markup |-> IF bound THEN f.markup ELSE 0,
       auto |-> bound /\ f.auto, groups |-> AdvancedGroups(f)]

\* Variant: the stored markup is not looked at.
StoredMarkupDefault(r) == DefaultMarkup

\* The server's markup of a row: the stored one, else the ratio of its prices.
StoredMarkup(r) ==
  IF r.markup > 0 THEN r.markup
  ELSE IF r.cost > 0 /\ r.price > 0 THEN r.price \div r.cost ELSE 1

\* Variant: the price keeps the old cost.
SyncedCostOnly(r, t, m) ==
  IF upstream[t] = 0 THEN [r EXCEPT !.target = t]
  ELSE [r EXCEPT !.target = t, !.cost = upstream[t],
                 !.markup = IF m = 1 THEN @ ELSE m]

\* A markup of 1 leaves the stored price_markup as it is.
Synced(r, t, m) ==
  IF upstream[t] = 0 THEN [r EXCEPT !.target = t]
  ELSE [r EXCEPT !.target = t, !.cost = upstream[t],
                 !.price = upstream[t] * m,
                 !.markup = IF m = 1 THEN @ ELSE m]

-----------------------------------------------------------------------------
Init ==
  /\ row = [c \in Channels |->
              [target |-> NoTarget, cost |-> 1, price |-> DefaultMarkup,
               markup |-> 0, auto |-> FALSE, groups |-> c \in GroupPriced]]
  /\ made = Made0
  /\ upstream = [t \in Targets |-> IF t \in Unpriced THEN 0 ELSE Cost0]
  /\ moves = 0
  /\ form = Closed /\ previewOk = FALSE /\ syncOk = FALSE
  /\ preview = NoTarget /\ sync = NoSync /\ saving = {}
  /\ tick = << >> /\ checked = [c \in Channels |-> {}]

\* An upstream changes a cost it publishes; one it publishes stays published.
CostMoves(t) ==
  /\ upstream[t] > 0 /\ moves < MaxMoves
  /\ \E cost \in Costs \ {upstream[t]} :
       upstream' = [upstream EXCEPT ![t] = cost]
  /\ moves' = moves + 1
  /\ UNCHANGED <<rowVars, pageVars, askVars, tick, checked>>

-----------------------------------------------------------------------------
(* The dialog.                                                               *)

\* The list may be old: as if the dialog had been opened when it was loaded.
OpenForm(f, gate) ==
  /\ ~open
  /\ form' = f /\ previewOk' = gate /\ syncOk' = gate
  /\ UNCHANGED <<rowVars, askVars, upstream, moves, tick, checked>>

OpenCreate == OpenForm(EmptyForm, FALSE)

OpenEdit(c) ==
  /\ c \in made
  /\ OpenForm(FormOf(c, row[c]), row[c].auto)

OpenCopy(c) ==
  /\ c \in made
  /\ OpenForm([FormOf(New, row[c]) EXCEPT !.auto = FALSE], FALSE)

CloseForm == form' = Closed /\ previewOk' = FALSE /\ syncOk' = FALSE

Close ==
  /\ open /\ CloseForm
  /\ UNCHANGED <<rowVars, askVars, upstream, moves, tick, checked>>

\* The fields a cost depends on: an edit closes the gate.
ResetGate(f) ==
  /\ open
  /\ form' = [f EXCEPT !.auto = FALSE] /\ previewOk' = FALSE /\ syncOk' = FALSE
  /\ UNCHANGED <<rowVars, askVars, upstream, moves, tick, checked>>

\* The others: it stays as it is.
SetForm(f) ==
  /\ open /\ form' = f
  /\ UNCHANGED <<previewOk, syncOk, rowVars, askVars, upstream,
                 moves, tick, checked>>

EditTarget == open /\ \E t \in Bindings \ {form.target} : ResetGate([form EXCEPT !.target = t])

\* Variant: the edit of the markup leaves the gate alone.
EditMarkupOpen == open /\ \E m \in Markups \ {form.markup} : SetForm([form EXCEPT !.markup = m])

EditMarkup == open /\ \E m \in Markups \ {form.markup} : ResetGate([form EXCEPT !.markup = m])

EditCost == open /\ \E cost \in Costs \ {form.cost} : SetForm([form EXCEPT !.cost = cost])

Ready == previewOk /\ syncOk

\* What the checkbox allows: off at any time, on when the gate is open.
AutoSyncOffered == form.auto \/ (form.id # New /\ form.target # NoTarget /\ Ready)

TickAutoSync == open /\ AutoSyncOffered /\ SetForm([form EXCEPT !.auto = ~@])

UnderWay == Cardinality(saving) + (IF preview = NoTarget THEN 0 ELSE 1)
                                 + (IF sync = NoSync THEN 0 ELSE 1)

Payload == [id |-> form.id, target |-> form.target, markup |-> form.markup]

CheckOffered == form.id # New /\ form.target # NoTarget /\ preview = NoTarget
SyncOffered  == form.id # New /\ form.target # NoTarget /\ sync = NoSync /\ previewOk

AskPreview ==
  /\ open /\ UnderWay < MaxAsks /\ CheckOffered
  /\ preview' = form.target
  /\ UNCHANGED <<rowVars, pageVars, sync, saving, upstream, moves, tick, checked>>

PreviewAnswered ==
  /\ preview # NoTarget
  /\ preview' = NoTarget
  /\ previewOk' = (open /\ upstream[preview] > 0) /\ syncOk' = FALSE
  /\ form' = IF open THEN [form EXCEPT !.auto = FALSE] ELSE form
  /\ UNCHANGED <<rowVars, sync, saving, upstream, moves, tick, checked>>

PreviewFails ==
  /\ preview # NoTarget /\ preview' = NoTarget
  /\ UNCHANGED <<rowVars, pageVars, sync, saving, upstream, moves, tick, checked>>

\* The handler reads the row, then asks the upstream.
AskSync ==
  /\ open /\ UnderWay < MaxAsks /\ SyncOffered
  /\ form.id \in made
  /\ sync' = [stage |-> "read", ask |-> Payload, row |-> row[form.id], ok |-> FALSE]
  /\ UNCHANGED <<rowVars, pageVars, preview, saving, upstream, moves, tick, checked>>

\* It writes all columns of the row it read; no row, nothing is written.
SyncWritten ==
  /\ sync.stage = "read"
  /\ LET a == sync.ask
         priced == upstream[a.target] > 0
         next == [Synced(sync.row, a.target, a.markup) EXCEPT
                    !.auto = @ \/ priced]
     IN  /\ sync' = [sync EXCEPT !.stage = "written", !.row = next, !.ok = priced]
         /\ row' = IF a.id \in made THEN [row EXCEPT ![a.id] = next] ELSE row
         /\ checked' = IF priced THEN [checked EXCEPT ![a.id] = @ \cup {<<a.target, a.markup>>}]
                                 ELSE checked
  /\ UNCHANGED <<made, pageVars, preview, saving, upstream, moves, tick>>

\* The answer's channel replaces the form, whichever it is.
SyncAnswered ==
  /\ sync.stage = "written"
  /\ form' = IF open THEN [FormOf(sync.ask.id, sync.row) EXCEPT !.auto = sync.ok] ELSE form
  /\ previewOk' = (open /\ sync.ok) /\ syncOk' = (open /\ sync.ok)
  /\ sync' = NoSync
  /\ UNCHANGED <<rowVars, preview, saving, upstream, moves, tick, checked>>

SyncFails ==
  /\ sync # NoSync /\ sync' = NoSync
  /\ UNCHANGED <<rowVars, pageVars, preview, saving, upstream, moves, tick, checked>>

-----------------------------------------------------------------------------
(* Saving and deleting.  Nothing disables the save button while   *)
(* a save is under way.                                                      *)

SaveChannel ==
  /\ open /\ (form.auto => Ready)
  /\ UnderWay < MaxAsks /\ form \notin saving
  /\ saving' = saving \cup {form}
  /\ UNCHANGED <<rowVars, pageVars, preview, sync, upstream, moves, tick, checked>>

\* The handler replaces the row and the answer closes the dialog.
UpdateSaved(f) ==
  /\ f \in saving /\ f.id # New
  /\ saving' = saving \ {f} /\ CloseForm
  /\ row' = IF f.id \in made THEN [row EXCEPT ![f.id] = RowOf(f)] ELSE row
  /\ UNCHANGED <<made, preview, sync, upstream,
                 moves, tick, checked>>

CreateSaved(f) ==
  /\ f \in saving /\ f.id = New
  /\ saving' = saving \ {f} /\ CloseForm
  /\ \E c \in Channels \ made :
       /\ checked[c] = {}
       /\ made' = made \cup {c} /\ row' = [row EXCEPT ![c] = RowOf(f)]
  /\ UNCHANGED <<preview, sync, upstream,
                 moves, tick, checked>>

SaveFails(f) ==
  /\ f \in saving /\ saving' = saving \ {f}
  /\ UNCHANGED <<rowVars, pageVars, preview, sync, upstream, moves, tick, checked>>

DeleteChannel(c) ==
  /\ c \in made /\ ~open
  /\ made' = made \ {c}
  /\ UNCHANGED <<row, pageVars, askVars, upstream, moves, tick, checked>>

-----------------------------------------------------------------------------
(* The monitor: one tick at a time.  The channels of a run are not switched   *)
(* off: it looks at active ones only.                                        *)

TickLoads ==
  /\ tick = << >>
  /\ LET due == {c \in made : row[c].auto}
     IN  due # {} /\ tick' = [c \in due |-> row[c]]
  /\ UNCHANGED <<rowVars, pageVars, askVars, upstream, moves, checked>>

CostChanged(old, new) ==
  old.cost # new.cost \/ old.price # new.price \/ old.markup # new.markup

TickSyncs(c) ==
  /\ c \in DOMAIN tick
  /\ LET old == tick[c]
         new == Synced(old, old.target, StoredMarkup(old))
     IN  row' = IF CostChanged(old, new) /\ c \in made
                  THEN [row EXCEPT ![c] = new] ELSE row
  /\ tick' = [d \in DOMAIN tick \ {c} |-> tick[d]]
  /\ UNCHANGED <<made, pageVars, askVars, upstream, moves, checked>>

Monitor == TickLoads \/ \E c \in Channels : TickSyncs(c)

-----------------------------------------------------------------------------
Next ==
  \/ \E t \in Targets : CostMoves(t)
  \/ OpenCreate \/ Close
  \/ \E c \in Channels : OpenEdit(c) \/ OpenCopy(c) \/ DeleteChannel(c)
  \/ EditTarget \/ EditMarkup \/ EditCost \/ TickAutoSync
  \/ AskPreview \/ PreviewAnswered \/ PreviewFails
  \/ AskSync \/ SyncWritten \/ SyncAnswered \/ SyncFails
  \/ SaveChannel \/ \E f \in saving : UpdateSaved(f) \/ CreateSaved(f) \/ SaveFails(f)
  \/ Monitor

Spec == Init /\ [][Next]_vars

-----------------------------------------------------------------------------
(* Properties.                                                               *)

IsChecked(c) == <<row[c].target, row[c].markup>> \in checked[c]

\* A channel that follows the costs of an upstream by itself does so with a
\* model and a markup that were synced for it: late answers, copies, edits made
\* while a request is under way and rows written from an old read included.
FollowedIsChecked ==
  \A c \in made : row[c].auto /\ upstream[row[c].target] > 0 => IsChecked(c)

\* A channel sells at its cost times the markup it keeps, whoever wrote last.
SoldAtMarkup ==
  \A c \in made : row[c].markup > 0 => row[c].price = row[c].cost * row[c].markup

\* The monitor moves a price when the upstream moves its cost, and not else,
\* as long as nobody wrote the row since the monitor read it.
OnlyCostsMovePrices ==
  [][\A c \in DOMAIN tick :
       TickSyncs(c) /\ tick[c] = row[c] /\ row[c].price # row'[c].price
         => row[c].cost # row'[c].cost]_vars
=============================================================================
