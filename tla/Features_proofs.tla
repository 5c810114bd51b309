--------------------------- MODULE Features_proofs ---------------------------
(* The parts that MCFeatures puts side by side and that have no proofs of     *)
(* their own: the channel dialog with the cost monitor, the settings page,    *)
(* the cleanup card, the redeem codes and the pages that generate, for every  *)
(* value of their constants.                                                  *)
EXTENDS MCFeatures, Sequences, FiniteSetTheorems, TLAPS

-----------------------------------------------------------------------------
(* The channel dialog and the cost monitor.  Rows, reads of rows and forms    *)
(* under way all carry prices that are a cost times a markup.                 *)

\* A row sells at its cost times a markup, the one it keeps if it keeps any;
\* one that follows an upstream keeps it.
Sold(r) ==
  \E m \in F!AllMarkups :
    /\ r.price = r.cost * m /\ r.markup \in {0, m}
    /\ r.auto => r.markup = m /\ r.target # F!NoTarget

Syncs == [stage : {"read", "written"}, ask : F!Asks, row : F!Rows, ok : BOOLEAN]

UpstreamCosts == upstream \in [Targets -> Nat]
RowsSold == /\ made \subseteq Channels /\ row \in [Channels -> F!Rows]
            /\ \A c \in Channels : Sold(row[c])
FormTyped == F!open => form \in F!Forms
SyncSold == sync # F!NoSync => sync \in Syncs /\ Sold(sync.row)
SavesTyped == saving \subseteq F!Forms
TickSold ==
  /\ DOMAIN tick \subseteq Channels
  /\ \A c \in DOMAIN tick : tick[c] \in F!Rows /\ Sold(tick[c]) /\ tick[c].auto

SoldInv == UpstreamCosts /\ RowsSold /\ FormTyped /\ SyncSold /\ SavesTyped /\ TickSold

LEMMA DivExact == ASSUME NEW c \in Nat \ {0}, NEW m \in Nat PROVE (c * m) \div c = m
  OBVIOUS

LEMMA MarkupTypes ==
  /\ F!AllMarkups \subseteq Nat \ {0} /\ DefaultMarkup \in F!AllMarkups
  /\ Markups \subseteq F!AllMarkups
  BY ChannelsAssumption DEF F!ChannelFormAssumption, F!AllMarkups

\* What a form infers from a row that sells at a markup is a markup.
LEMMA InferredIsMarkup ==
  ASSUME NEW r \in F!Rows, Sold(r)
  PROVE  F!InferredMarkup(r) \in F!AllMarkups
<1>1. PICK m \in F!AllMarkups : r.price = r.cost * m
  BY DEF Sold
<1>2. r.cost > 0 => r.price \div r.cost = m
  BY <1>1, MarkupTypes, DivExact DEF F!Rows
<1>3. QED
  BY <1>2, MarkupTypes DEF F!InferredMarkup

LEMMA FormOfRow ==
  ASSUME NEW c \in Channels \cup {F!New}, NEW r \in F!Rows, Sold(r)
  PROVE  F!FormOf(c, r) \in F!Forms
  BY InferredIsMarkup DEF F!FormOf, F!Forms, F!Rows

\* What a sync makes of a row: its cost and price, as far as there are any.
LEMMA SyncedRow ==
  ASSUME 1 \notin F!AllMarkups, UpstreamCosts,
         NEW r \in F!Rows, NEW t \in Targets, NEW m \in F!AllMarkups
  PROVE  LET new == F!Synced(r, t, m)
         IN  /\ new \in F!Rows /\ new.target = t /\ new.auto = r.auto
             /\ upstream[t] = 0 =>
                  new.price = r.price /\ new.cost = r.cost /\ new.markup = r.markup
             /\ upstream[t] # 0 =>
                  new.cost = upstream[t] /\ new.price = new.cost * m /\ new.markup = m
<1> DEFINE new == F!Synced(r, t, m)
<1>1. m \in Nat \ {0, 1} /\ upstream[t] \in Nat
  BY MarkupTypes DEF UpstreamCosts
<1>2. CASE upstream[t] = 0
  <2>1. new = [r EXCEPT !.target = t]
    BY <1>2 DEF F!Synced
  <2>2. QED
    BY <1>2, <2>1 DEF F!Rows, F!Bindings
<1>3. CASE upstream[t] # 0
  <2>1. new = [r EXCEPT !.target = t, !.cost = upstream[t],
                        !.price = upstream[t] * m, !.markup = m]
    BY <1>1, <1>3 DEF F!Synced
  <2>2. upstream[t] * m \in Nat
    BY <1>1
  <2>3. QED
    BY <1>1, <1>3, <2>1, <2>2 DEF F!Rows, F!Bindings
<1>4. QED
  BY <1>2, <1>3

\* It sells at a markup.
LEMMA SyncedIsSold ==
  ASSUME 1 \notin F!AllMarkups, UpstreamCosts,
         NEW r \in F!Rows, Sold(r), NEW t \in Targets, NEW m \in F!AllMarkups
  PROVE  F!Synced(r, t, m) \in F!Rows /\ Sold(F!Synced(r, t, m))
<1>1. t # F!NoTarget
  BY ChannelsAssumption DEF F!ChannelFormAssumption
<1>2. QED
  BY <1>1, SyncedRow DEF Sold

LEMMA SavedIsSold ==
  ASSUME NEW f \in F!Forms
  PROVE  F!RowOf(f) \in F!Rows /\ Sold(F!RowOf(f))
<1> DEFINE new == F!RowOf(f)
<1>1. f.cost \in Nat /\ f.markup \in F!AllMarkups /\ f.markup \in Nat
      /\ f.target \in F!Bindings /\ f.auto \in BOOLEAN
  BY MarkupTypes DEF F!Forms
<1>2. f.cost * f.markup \in Nat
  BY <1>1
<1>3. /\ new.target = f.target /\ new.price = new.cost * f.markup
      /\ new.markup = IF f.target # F!NoTarget THEN f.markup ELSE 0
      /\ new.auto = (f.target # F!NoTarget /\ f.auto)
  BY DEF F!RowOf
<1>4. new \in F!Rows
  BY <1>1, <1>2 DEF F!RowOf, F!Rows, F!AdvancedGroups
<1>5. Sold(new)
  BY <1>1, <1>3 DEF Sold
<1>6. QED
  BY <1>4, <1>5

LEMMA InitSold == F!Init => SoldInv
<1> SUFFICES ASSUME F!Init PROVE SoldInv
  OBVIOUS
<1>1. UpstreamCosts
  BY ChannelsAssumption DEF F!Init, UpstreamCosts, F!ChannelFormAssumption
<1>2. RowsSold
  <2>1. made \subseteq Channels
    BY ChannelsAssumption DEF F!Init, F!ChannelFormAssumption
  <2>2. ASSUME NEW c \in Channels PROVE row[c] \in F!Rows /\ Sold(row[c])
    BY MarkupTypes DEF F!Init, F!Rows, Sold, F!Bindings
  <2>3. QED
    BY <2>1, <2>2 DEF RowsSold, F!Init
<1>3. FormTyped /\ SyncSold /\ SavesTyped /\ TickSold
  BY DEF F!Init, FormTyped, F!open, SyncSold, SavesTyped, TickSold
<1>4. QED
  BY <1>1, <1>2, <1>3 DEF SoldInv

LEMMA EmptyFormTyped == F!EmptyForm \in F!Forms
  BY MarkupTypes DEF F!EmptyForm, F!Forms, F!Bindings

\* The steps that leave the rows, and what monitor and sync have of them.
LEMMA DialogSold ==
  ASSUME SoldInv,
         \/ F!OpenCreate \/ F!Close
         \/ \E c \in Channels : F!OpenEdit(c) \/ F!OpenCopy(c)
         \/ F!EditTarget \/ F!EditMarkup \/ F!EditCost \/ F!TickAutoSync
         \/ F!AskPreview \/ F!PreviewAnswered \/ F!PreviewFails
  PROVE  SoldInv'
<1>1. UNCHANGED <<row, made, upstream, sync, saving, tick>>
  BY DEF F!OpenCreate, F!Close, F!OpenEdit, F!OpenCopy, F!EditTarget, F!EditMarkup, F!EditCost,
         F!TickAutoSync, F!AskPreview, F!PreviewAnswered, F!PreviewFails, F!OpenForm,
         F!ResetGate, F!SetForm, F!rowVars, F!askVars
<1>2. FormTyped'
  <2>1. CASE F!OpenCreate \/ F!Close
    BY <2>1, EmptyFormTyped DEF F!OpenCreate, F!OpenForm, F!Close, F!CloseForm, FormTyped, F!open
  <2>2. ASSUME NEW c \in Channels, F!OpenEdit(c) \/ F!OpenCopy(c) PROVE FormTyped'
    <3>1. row[c] \in F!Rows /\ Sold(row[c])
      BY DEF SoldInv, RowsSold
    <3>2. F!FormOf(c, row[c]) \in F!Forms /\ F!FormOf(F!New, row[c]) \in F!Forms
      BY <3>1, FormOfRow
    <3>3. [F!FormOf(F!New, row[c]) EXCEPT !.auto = FALSE] \in F!Forms
      BY <3>2 DEF F!Forms
    <3>4. QED
      BY <2>2, <3>2, <3>3 DEF F!OpenEdit, F!OpenCopy, F!OpenForm, FormTyped
  <2>3. CASE F!EditTarget \/ F!EditMarkup
    <3>1. F!open /\ form \in F!Forms
      BY <2>3 DEF F!EditTarget, F!EditMarkup, SoldInv, FormTyped
    <3>2. PICK f \in F!Forms : form' = [f EXCEPT !.auto = FALSE]
      BY <2>3, <3>1, MarkupTypes DEF F!EditTarget, F!EditMarkup, F!ResetGate, F!Forms
    <3>3. QED
      BY <3>2 DEF F!Forms, FormTyped
  <2>4. CASE F!EditCost \/ F!TickAutoSync
    <3>1. form \in F!Forms
      BY <2>4 DEF F!EditCost, F!TickAutoSync, SoldInv, FormTyped
    <3>2. form' \in F!Forms
      BY <2>4, <3>1, ChannelsAssumption
      DEF F!EditCost, F!TickAutoSync, F!SetForm, F!Forms, F!ChannelFormAssumption
    <3>3. QED
      BY <3>2 DEF FormTyped
  <2>5. CASE F!AskPreview \/ F!PreviewAnswered \/ F!PreviewFails
    BY <2>5 DEF F!AskPreview, F!PreviewAnswered, F!PreviewFails, F!pageVars, SoldInv, FormTyped,
                F!open, F!Forms
  <2>6. QED
    BY <2>1, <2>2, <2>3, <2>4, <2>5
<1>3. QED
  BY <1>1, <1>2 DEF SoldInv, UpstreamCosts, RowsSold, SyncSold, SavesTyped, TickSold

LEMMA SyncingSold ==
  ASSUME 1 \notin F!AllMarkups, SoldInv,
         F!AskSync \/ F!SyncWritten \/ F!SyncAnswered \/ F!SyncFails
  PROVE  SoldInv'
<1>1. CASE F!AskSync
  <2>1. form \in F!Forms /\ form.id \in Channels /\ form.target \in Targets
    BY <1>1 DEF F!AskSync, F!SyncOffered, SoldInv, FormTyped, F!Forms, F!Bindings
  <2>2. row[form.id] \in F!Rows /\ Sold(row[form.id])
    BY <2>1 DEF SoldInv, RowsSold
  <2>3. sync' \in Syncs /\ sync'.row = row[form.id]
    BY <1>1, <2>1, <2>2 DEF F!AskSync, Syncs, F!Payload, F!Asks, F!Forms
  <2>4. QED
    BY <1>1, <2>2, <2>3 DEF F!AskSync, F!rowVars, F!pageVars, SoldInv, UpstreamCosts, RowsSold,
       FormTyped, F!open, SyncSold, SavesTyped, TickSold
<1>2. CASE F!SyncWritten
  <2> DEFINE a == sync.ask
             p == upstream[a.target] > 0
             n == F!Synced(sync.row, a.target, a.markup)
             new == [n EXCEPT !.auto = @ \/ p]
  <2>1. sync \in Syncs /\ Sold(sync.row)
    <3>1. sync.stage = "read"
      BY <1>2 DEF F!SyncWritten
    <3>2. QED
      BY <3>1 DEF F!NoSync, SoldInv, SyncSold
  <2>2. /\ a.id \in Channels /\ a.target \in Targets /\ a.markup \in F!AllMarkups
        /\ sync.row \in F!Rows
    BY <2>1 DEF Syncs, F!Asks
  <2>3. n \in F!Rows /\ Sold(n)
    BY <2>1, <2>2, SyncedIsSold DEF SoldInv
  <2>4. new \in F!Rows /\ Sold(new)
    <3>1. /\ new \in F!Rows /\ new.price = n.price /\ new.cost = n.cost
          /\ new.markup = n.markup /\ new.target = n.target /\ new.auto = (n.auto \/ p)
      BY <2>3 DEF F!Rows
    <3>2. CASE p
      <4>1. n.target = a.target /\ n.price = n.cost * a.markup /\ n.markup = a.markup
        BY <2>2, <3>2, SyncedRow DEF SoldInv, UpstreamCosts
      <4>2. a.target # F!NoTarget
        BY <2>2, ChannelsAssumption DEF F!ChannelFormAssumption
      <4>3. QED
        BY <2>2, <3>1, <4>1, <4>2 DEF Sold
    <3>3. CASE ~p
      BY <2>3, <3>1, <3>3 DEF Sold, F!Rows
    <3>4. QED
      BY <3>1, <3>2, <3>3
  <2>5. /\ sync' = [sync EXCEPT !.stage = "written", !.row = new, !.ok = p]
        /\ row' = IF a.id \in made THEN [row EXCEPT ![a.id] = new] ELSE row
        /\ UNCHANGED <<made, form, saving, upstream, tick>>
    BY <1>2 DEF F!SyncWritten, F!pageVars
  <2> p \in BOOLEAN
    OBVIOUS
  <2> HIDE DEF n, new, p
  <2>6. sync' \in Syncs /\ sync'.row = new
    BY <2>1, <2>4, <2>5 DEF Syncs
  <2>7. RowsSold'
    BY <2>2, <2>4, <2>5 DEF SoldInv, RowsSold
  <2>8. QED
    BY <2>4, <2>5, <2>6, <2>7 DEF SoldInv, UpstreamCosts, FormTyped, F!open, SyncSold, SavesTyped,
       TickSold
<1>3. CASE F!SyncAnswered
  <2>1. sync \in Syncs /\ Sold(sync.row)
    BY <1>3 DEF F!SyncAnswered, F!NoSync, SoldInv, SyncSold
  <2>2. F!FormOf(sync.ask.id, sync.row) \in F!Forms /\ sync.ok \in BOOLEAN
    BY <2>1, FormOfRow DEF Syncs, F!Asks
  <2>3. [F!FormOf(sync.ask.id, sync.row) EXCEPT !.auto = sync.ok] \in F!Forms
    BY <2>2 DEF F!Forms
  <2>4. FormTyped'
    BY <1>3, <2>3 DEF F!SyncAnswered, SoldInv, FormTyped, F!open
  <2>5. QED
    BY <1>3, <2>4 DEF F!SyncAnswered, F!rowVars, SoldInv, UpstreamCosts, RowsSold, SyncSold,
       SavesTyped, TickSold
<1>4. CASE F!SyncFails
  BY <1>4 DEF F!SyncFails, F!rowVars, F!pageVars, SoldInv, UpstreamCosts, RowsSold,
     FormTyped, F!open, SyncSold, SavesTyped, TickSold
<1>5. QED
  BY <1>1, <1>2, <1>3, <1>4

LEMMA SavingSold ==
  ASSUME SoldInv,
         \/ F!SaveChannel \/ \E c \in Channels : F!DeleteChannel(c)
         \/ \E f \in saving : F!UpdateSaved(f) \/ F!CreateSaved(f) \/ F!SaveFails(f)
  PROVE  SoldInv'
<1>1. CASE F!SaveChannel
  BY <1>1 DEF F!SaveChannel, F!rowVars, F!pageVars, SoldInv, UpstreamCosts, RowsSold,
     FormTyped, F!open, SyncSold, SavesTyped, TickSold
<1>2. ASSUME NEW c \in Channels, F!DeleteChannel(c) PROVE SoldInv'
  BY <1>2 DEF F!DeleteChannel, F!askVars, F!pageVars, SoldInv, UpstreamCosts, RowsSold,
     FormTyped, F!open, SyncSold, SavesTyped, TickSold
<1>3. ASSUME NEW f \in saving, F!UpdateSaved(f) \/ F!CreateSaved(f) PROVE SoldInv'
  <2>1. f \in F!Forms /\ F!RowOf(f) \in F!Rows /\ Sold(F!RowOf(f))
    BY <1>3, SavedIsSold DEF SoldInv, SavesTyped
  <2>2. RowsSold'
    BY <1>3, <2>1 DEF F!UpdateSaved, F!CreateSaved, SoldInv, RowsSold, F!Forms
  <2>3. FormTyped'
    BY <1>3 DEF F!UpdateSaved, F!CreateSaved, F!CloseForm, FormTyped, F!open
  <2>4. QED
    BY <1>3, <2>2, <2>3 DEF F!UpdateSaved, F!CreateSaved, SoldInv, UpstreamCosts, SyncSold,
       SavesTyped, TickSold
<1>4. ASSUME NEW f \in saving, F!SaveFails(f) PROVE SoldInv'
  BY <1>4 DEF F!SaveFails, F!rowVars, F!pageVars, SoldInv, UpstreamCosts, RowsSold,
     FormTyped, F!open, SyncSold, SavesTyped, TickSold
<1>5. QED
  BY <1>1, <1>2, <1>3, <1>4

\* The monitor takes a row's own markup.
LEMMA TickedIsSold ==
  ASSUME 1 \notin F!AllMarkups, SoldInv, NEW c \in DOMAIN tick
  PROVE  LET old == tick[c]
             new == F!Synced(old, old.target, F!StoredMarkup(old))
         IN  /\ old.target \in Targets /\ F!StoredMarkup(old) = old.markup
             /\ old.markup \in F!AllMarkups /\ old.price = old.cost * old.markup
             /\ new \in F!Rows /\ Sold(new)
<1> DEFINE old == tick[c]
<1>1. old \in F!Rows /\ Sold(old) /\ old.auto
  BY DEF SoldInv, TickSold
<1>2. /\ old.markup \in F!AllMarkups /\ old.price = old.cost * old.markup
      /\ old.target \in Targets
  BY <1>1 DEF Sold, F!Rows, F!Bindings
<1>3. F!StoredMarkup(old) = old.markup
  <2>1. old.markup > 0
    <3>1. old.markup \in Nat \ {0}
      BY <1>2, MarkupTypes
    <3>2. QED
      BY <3>1
  <2>2. QED
    BY <2>1 DEF F!StoredMarkup
<1>4. QED
  BY <1>1, <1>2, <1>3, SyncedIsSold DEF SoldInv

LEMMA MonitorSold ==
  ASSUME 1 \notin F!AllMarkups, SoldInv,
         (\E t \in Targets : F!CostMoves(t)) \/ F!Monitor
  PROVE  SoldInv'
<1>1. ASSUME NEW t \in Targets, F!CostMoves(t) PROVE SoldInv'
  BY <1>1, ChannelsAssumption DEF F!ChannelFormAssumption, F!CostMoves, F!askVars, F!rowVars,
     F!pageVars, SoldInv, UpstreamCosts, RowsSold, FormTyped, F!open, SyncSold, SavesTyped, TickSold
<1>2. CASE F!TickLoads
  <2>1. TickSold'
    BY <1>2 DEF F!TickLoads, SoldInv, RowsSold, TickSold
  <2>2. QED
    BY <1>2, <2>1 DEF F!TickLoads, F!askVars, F!rowVars, F!pageVars, SoldInv, UpstreamCosts,
       RowsSold, FormTyped, F!open, SyncSold, SavesTyped
<1>3. ASSUME NEW c \in Channels, F!TickSyncs(c) PROVE SoldInv'
  <2> DEFINE new == F!Synced(tick[c], tick[c].target, F!StoredMarkup(tick[c]))
  <2>1. new \in F!Rows /\ Sold(new)
    BY <1>3, TickedIsSold DEF F!TickSyncs
  <2>2. RowsSold'
    BY <1>3, <2>1 DEF F!TickSyncs, SoldInv, RowsSold
  <2>3. TickSold'
    BY <1>3 DEF F!TickSyncs, SoldInv, TickSold
  <2>4. QED
    BY <1>3, <2>2, <2>3 DEF F!TickSyncs, F!askVars, F!pageVars, SoldInv, UpstreamCosts,
       FormTyped, F!open, SyncSold, SavesTyped
<1>4. QED
  BY <1>1, <1>2, <1>3 DEF F!Monitor

LEMMA StepSold ==
  ASSUME 1 \notin F!AllMarkups
  PROVE  SoldInv /\ [F!Next]_channels => SoldInv'
<1> SUFFICES ASSUME SoldInv, [F!Next]_channels PROVE SoldInv'
  OBVIOUS
<1>1. CASE UNCHANGED channels
  BY <1>1 DEF channels, SoldInv, UpstreamCosts, RowsSold, FormTyped, F!open, SyncSold,
     SavesTyped, TickSold
<1>2. CASE F!Next
  BY <1>2, DialogSold, SyncingSold, SavingSold, MonitorSold DEF F!Next
<1>3. QED
  BY <1>1, <1>2

LEMMA SoldHolds ==
  ASSUME 1 \notin F!AllMarkups
  PROVE  FeaturesSpec => []SoldInv
<1>1. FeaturesInit => SoldInv
  BY InitSold DEF FeaturesInit
<1>2. SoldInv /\ [FeaturesNext]_allVars => SoldInv'
  BY StepSold DEF FeaturesNext, allVars
<1>3. QED
  BY <1>1, <1>2, PTL DEF FeaturesSpec

\* For all channels, costs and markups but 1, which the server does not store
\* (admin_upstream_extra.go:1369), a channel sells at its cost times its markup.
THEOREM PricesFollowMarkups ==
  ASSUME 1 \notin F!AllMarkups
  PROVE  FeaturesSpec => []SoldAtMarkup
<1>1. SoldInv => SoldAtMarkup
  BY MarkupTypes DEF SoldInv, RowsSold, Sold, SoldAtMarkup, F!SoldAtMarkup
<1>2. QED
  BY <1>1, SoldHolds, PTL

\* For the same markups: the monitor moves a price only together with the cost
\* it reads, unless the row was written since (admin_upstream_extra.go:1642).
THEOREM OnlyCostsMove ==
  ASSUME 1 \notin F!AllMarkups
  PROVE  FeaturesSpec => OnlyCostsMovePrices
<1> DEFINE Moved == \A c \in DOMAIN tick :
              F!TickSyncs(c) /\ tick[c] = row[c] /\ row[c].price # row'[c].price
                => row[c].cost # row'[c].cost
<1>1. SoldInv /\ [FeaturesNext]_allVars => [Moved]_F!vars
  <2> SUFFICES ASSUME SoldInv, NEW c \in DOMAIN tick, F!TickSyncs(c), tick[c] = row[c],
                      row[c].price # row'[c].price
               PROVE  row[c].cost # row'[c].cost
    OBVIOUS
  <2> DEFINE old == tick[c]
             new == F!Synced(old, old.target, F!StoredMarkup(old))
  <2>1. c \in Channels /\ old \in F!Rows
    BY DEF SoldInv, TickSold
  <2>2. row'[c] = new
    BY <2>1 DEF F!TickSyncs, SoldInv, RowsSold
  <2>3. /\ F!StoredMarkup(old) = old.markup /\ old.markup \in F!AllMarkups
        /\ old.price = old.cost * old.markup
    BY TickedIsSold DEF SoldInv
  <2>4. \/ new.price = old.price
        \/ new.price = new.cost * old.markup
    BY <2>1, <2>3, TickedIsSold, SyncedRow DEF SoldInv
  <2>5. QED
    BY <2>2, <2>3, <2>4
<1>2. QED
  BY <1>1, SoldHolds, PTL DEF FeaturesSpec, OnlyCostsMovePrices, F!OnlyCostsMovePrices

-----------------------------------------------------------------------------
(* The gate.  A channel follows an upstream only with what was synced for it; *)
(* so does every row a sync or the monitor has read, every form whose gate is *)
(* open, and every save that asks for it, u the costs, k what was checked.    *)

Follows(c, r, u, k) ==
  r.auto /\ u[r.target] > 0 => r.cost > 0 /\ <<r.target, r.markup>> \in k[c]

Stands(f, u, k) ==
  /\ f.id # F!New /\ f.target # F!NoTarget
  /\ u[f.target] > 0 => f.cost > 0 /\ <<f.target, f.markup>> \in k[f.id]

CheckedTyped == checked \in [Channels -> SUBSET (Targets \X F!AllMarkups)]
RowsFollow   == \A c \in Channels : Follows(c, row[c], upstream, checked)
GateStands   == F!open /\ syncOk => Stands(form, upstream, checked)
SyncFollows  == sync # F!NoSync =>
                  /\ Follows(sync.ask.id, sync.row, upstream, checked)
                  /\ sync.stage = "written" /\ sync.ok => sync.row.auto
SavesStand   == \A f \in saving : f.auto => Stands(f, upstream, checked)
TickFollows  == \A c \in DOMAIN tick : Follows(c, tick[c], upstream, checked)

GateInv == CheckedTyped /\ RowsFollow /\ GateStands /\ SyncFollows /\ SavesStand /\ TickFollows

\* Costs move, but none appears or goes, and what was checked was checked.
Grows(u, v, k, l) ==
  /\ \A t \in Targets : v[t] > 0 <=> u[t] > 0
  /\ \A c \in Channels : k[c] \subseteq l[c]

LEMMA FollowsOn ==
  ASSUME NEW u, NEW v, NEW k, NEW l, Grows(u, v, k, l),
         NEW c \in Channels, NEW r \in F!Rows, Sold(r), Follows(c, r, u, k)
  PROVE  Follows(c, r, v, l)
<1>1. r.auto => r.target \in Targets
  BY DEF Sold, F!Rows, F!Bindings
<1>2. QED
  BY <1>1 DEF Grows, Follows

LEMMA StandsOn ==
  ASSUME NEW u, NEW v, NEW k, NEW l, Grows(u, v, k, l),
         NEW f \in F!Forms, Stands(f, u, k)
  PROVE  Stands(f, v, l)
  BY DEF Grows, Stands, F!Forms, F!Bindings

\* A form that shows a row that follows infers the row's markup.
LEMMA ShownStands ==
  ASSUME ~PerCall, NEW u, NEW k, NEW c \in Channels, NEW r \in F!Rows, Sold(r), r.auto,
         Follows(c, r, u, k), NEW a \in BOOLEAN
  PROVE  /\ Stands(F!FormOf(c, r), u, k)
         /\ Stands([F!FormOf(c, r) EXCEPT !.auto = a], u, k)
<1>1. c # F!New /\ r.target # F!NoTarget
  BY ChannelsAssumption DEF F!ChannelFormAssumption, Sold
<1>2. ASSUME r.cost > 0 PROVE F!InferredMarkup(r) = r.markup
  <2>1. r.markup \in Nat \ {0} /\ r.price = r.cost * r.markup /\ r.cost \in Nat \ {0}
    BY <1>2, MarkupTypes DEF Sold, F!Rows
  <2>2. r.price > 0
    BY <2>1
  <2>3. r.price \div r.cost = r.markup
    BY <2>1, DivExact
  <2>4. QED
    BY <1>2, <2>2, <2>3 DEF F!InferredMarkup
<1>3. QED
  BY <1>1, <1>2 DEF Stands, Follows, F!FormOf

LEMMA InitGate == F!Init => GateInv
<1> SUFFICES ASSUME F!Init PROVE GateInv
  OBVIOUS
<1>1. RowsFollow
  BY DEF F!Init, RowsFollow, Follows
<1>2. QED
  BY <1>1 DEF F!Init, GateInv, CheckedTyped, GateStands, F!open, SyncFollows, SavesStand,
     TickFollows

LEMMA DialogGate ==
  ASSUME ~PerCall, SoldInv, GateInv,
         \/ F!OpenCreate \/ F!Close
         \/ \E c \in Channels : F!OpenEdit(c) \/ F!OpenCopy(c)
         \/ F!EditTarget \/ F!EditMarkup \/ F!EditCost \/ F!TickAutoSync
         \/ F!AskPreview \/ F!PreviewAnswered \/ F!PreviewFails
  PROVE  GateInv'
<1>1. UNCHANGED <<row, upstream, sync, saving, tick, checked>>
  BY DEF F!OpenCreate, F!Close, F!OpenEdit, F!OpenCopy, F!EditTarget, F!EditMarkup, F!EditCost,
         F!TickAutoSync, F!AskPreview, F!PreviewAnswered, F!PreviewFails, F!OpenForm,
         F!ResetGate, F!SetForm, F!rowVars, F!askVars
<1>2. GateStands'
  <2>1. CASE \/ F!OpenCreate \/ F!Close \/ F!EditTarget \/ F!EditMarkup \/ F!PreviewAnswered
             \/ \E c \in Channels : F!OpenCopy(c)
    <3>1. ~syncOk'
      BY <2>1 DEF F!OpenCreate, F!Close, F!EditTarget, F!EditMarkup, F!PreviewAnswered, F!OpenCopy,
         F!OpenForm, F!CloseForm, F!ResetGate
    <3>2. QED
      BY <3>1 DEF GateStands
  <2>2. ASSUME NEW c \in Channels, F!OpenEdit(c) PROVE GateStands'
    <3>1. /\ row[c] \in F!Rows /\ Sold(row[c]) /\ Follows(c, row[c], upstream, checked)
      BY DEF SoldInv, RowsSold, GateInv, RowsFollow
    <3>2. /\ form' = F!FormOf(c, row[c]) /\ syncOk' = row[c].auto
      BY <2>2 DEF F!OpenEdit, F!OpenForm
    <3>3. QED
      BY <1>1, <3>1, <3>2, ShownStands DEF GateStands
  <2>3. CASE F!EditCost \/ F!TickAutoSync
    <3>1. form \in F!Forms /\ F!open /\ syncOk' = syncOk
      BY <2>3 DEF F!EditCost, F!TickAutoSync, F!SetForm, SoldInv, FormTyped
    <3>2. /\ form'.id = form.id /\ form'.target = form.target /\ form'.markup = form.markup
          /\ form'.cost = form.cost \/ form'.cost > 0
      BY <2>3, <3>1, ChannelsAssumption
      DEF F!EditCost, F!TickAutoSync, F!SetForm, F!Forms, F!ChannelFormAssumption
    <3>3. QED
      BY <1>1, <3>1, <3>2 DEF GateInv, GateStands, Stands
  <2>4. CASE F!AskPreview \/ F!PreviewFails
    BY <1>1, <2>4 DEF F!AskPreview, F!PreviewFails, F!pageVars, GateInv, GateStands, F!open
  <2>5. QED
    BY <2>1, <2>2, <2>3, <2>4
<1>3. QED
  BY <1>1, <1>2 DEF GateInv, CheckedTyped, RowsFollow, SyncFollows, SavesStand, TickFollows

\* What holds of rows, forms and reads goes on to hold.
LEMMA GateGrows ==
  ASSUME SoldInv, GateInv, Grows(upstream, upstream', checked, checked')
  PROVE  /\ \A c \in Channels : Follows(c, row[c], upstream', checked')
         /\ F!open /\ syncOk => Stands(form, upstream', checked')
         /\ \A f \in saving : f.auto => Stands(f, upstream', checked')
         /\ \A c \in DOMAIN tick : Follows(c, tick[c], upstream', checked')
         /\ sync # F!NoSync => Follows(sync.ask.id, sync.row, upstream', checked')
<1>1. \A c \in Channels : Follows(c, row[c], upstream', checked')
  BY FollowsOn DEF SoldInv, RowsSold, GateInv, RowsFollow
<1>2. F!open /\ syncOk => Stands(form, upstream', checked')
  <2> SUFFICES ASSUME F!open, syncOk PROVE Stands(form, upstream', checked')
    OBVIOUS
  <2>1. form \in F!Forms /\ Stands(form, upstream, checked)
    BY DEF SoldInv, FormTyped, GateInv, GateStands
  <2>2. QED
    BY <2>1, StandsOn
<1>3. \A f \in saving : f.auto => Stands(f, upstream', checked')
  BY StandsOn DEF SoldInv, SavesTyped, GateInv, SavesStand
<1>4. \A c \in DOMAIN tick : Follows(c, tick[c], upstream', checked')
  BY FollowsOn DEF SoldInv, TickSold, GateInv, TickFollows
<1>5. sync # F!NoSync => Follows(sync.ask.id, sync.row, upstream', checked')
  BY FollowsOn DEF SoldInv, SyncSold, Syncs, F!Asks, GateInv, SyncFollows
<1>6. QED
  BY <1>1, <1>2, <1>3, <1>4, <1>5

LEMMA CostGate ==
  ASSUME SoldInv, GateInv, NEW t \in Targets, F!CostMoves(t)
  PROVE  GateInv'
<1>1. Grows(upstream, upstream', checked, checked')
  <2>1. PICK cost \in Nat \ {0} : upstream' = [upstream EXCEPT ![t] = cost]
    BY ChannelsAssumption DEF F!CostMoves, F!ChannelFormAssumption
  <2>2. upstream[t] > 0 /\ upstream \in [Targets -> Nat] /\ checked' = checked
    BY DEF F!CostMoves, SoldInv, UpstreamCosts
  <2>3. QED
    BY <2>1, <2>2 DEF Grows
<1>2. UNCHANGED <<row, form, syncOk, sync, saving, tick, checked>>
  BY DEF F!CostMoves, F!rowVars, F!pageVars, F!askVars
<1>3. QED
  BY <1>1, <1>2, GateGrows DEF GateInv, CheckedTyped, RowsFollow, GateStands, F!open, SyncFollows,
     SavesStand, TickFollows

LEMMA WrittenGate ==
  ASSUME 1 \notin F!AllMarkups, SoldInv, GateInv, F!SyncWritten
  PROVE  GateInv'
<1> DEFINE a == sync.ask
           p == upstream[a.target] > 0
           n == F!Synced(sync.row, a.target, a.markup)
           new == [n EXCEPT !.auto = @ \/ p]
<1>1. sync \in Syncs
  <2>1. sync.stage = "read"
    BY DEF F!SyncWritten
  <2>2. QED
    BY <2>1 DEF F!NoSync, SoldInv, SyncSold
<1>2. /\ a.id \in Channels /\ a.target \in Targets /\ a.markup \in F!AllMarkups
      /\ sync.row \in F!Rows
  BY <1>1 DEF Syncs, F!Asks
<1>3. /\ n \in F!Rows /\ n.target = a.target
      /\ p => n.cost > 0 /\ n.markup = a.markup
  BY <1>2, SyncedRow DEF SoldInv, UpstreamCosts
<1>4. /\ new.target = n.target /\ new.cost = n.cost /\ new.markup = n.markup
      /\ p => new.auto
  BY <1>3 DEF F!Rows
<1>5. /\ sync' = [sync EXCEPT !.stage = "written", !.row = new, !.ok = p]
      /\ row' = IF a.id \in made THEN [row EXCEPT ![a.id] = new] ELSE row
      /\ checked' = IF p THEN [checked EXCEPT ![a.id] = @ \cup {<<a.target, a.markup>>}]
                         ELSE checked
      /\ UNCHANGED <<made, form, syncOk, saving, upstream, tick>>
  BY DEF F!SyncWritten, F!pageVars
<1> HIDE DEF n, new
<1>6. Grows(upstream, upstream', checked, checked') /\ CheckedTyped'
  BY <1>2, <1>5 DEF GateInv, CheckedTyped, Grows
<1>7. Follows(a.id, new, upstream', checked')
  BY <1>2, <1>3, <1>4, <1>5 DEF Follows, GateInv, CheckedTyped
<1>8. RowsFollow'
  BY <1>2, <1>5, <1>6, <1>7, GateGrows DEF RowsFollow, SoldInv, RowsSold
<1>9. SyncFollows'
  <2>1. sync'.ask = a /\ sync'.row = new /\ sync'.ok = p
    BY <1>1, <1>5 DEF Syncs
  <2>2. QED
    BY <1>4, <1>7, <2>1 DEF SyncFollows
<1>10. QED
  BY <1>5, <1>6, <1>8, <1>9, GateGrows DEF GateInv, GateStands, F!open, SavesStand, TickFollows

LEMMA SyncingGate ==
  ASSUME ~PerCall, SoldInv, GateInv, F!AskSync \/ F!SyncAnswered \/ F!SyncFails
  PROVE  GateInv'
<1>1. CASE F!AskSync
  <2>1. form.id \in Channels
    BY <1>1 DEF F!AskSync, F!SyncOffered, SoldInv, FormTyped, F!Forms
  <2>2. sync'.ask.id = form.id /\ sync'.row = row[form.id] /\ sync'.stage = "read"
    BY <1>1 DEF F!AskSync, F!Payload
  <2>3. SyncFollows'
    BY <1>1, <2>1, <2>2 DEF F!AskSync, GateInv, RowsFollow, SyncFollows
  <2>4. QED
    BY <1>1, <2>3 DEF F!AskSync, F!rowVars, F!pageVars, GateInv, CheckedTyped, RowsFollow,
       GateStands, F!open, SavesStand, TickFollows
<1>2. CASE F!SyncAnswered
  <2>1. /\ sync \in Syncs /\ Sold(sync.row)
        /\ Follows(sync.ask.id, sync.row, upstream, checked)
        /\ sync.ok => sync.row.auto
    BY <1>2 DEF F!SyncAnswered, F!NoSync, SoldInv, SyncSold, GateInv, SyncFollows
  <2>2. /\ sync.ok => Stands([F!FormOf(sync.ask.id, sync.row) EXCEPT !.auto = sync.ok],
                             upstream, checked)
    BY <2>1, ShownStands DEF Syncs, F!Asks
  <2>3. GateStands'
    BY <1>2, <2>2 DEF F!SyncAnswered, GateStands, F!open
  <2>4. QED
    BY <1>2, <2>3 DEF F!SyncAnswered, F!rowVars, GateInv, CheckedTyped, RowsFollow, SyncFollows,
       SavesStand, TickFollows
<1>3. CASE F!SyncFails
  BY <1>3 DEF F!SyncFails, F!rowVars, F!pageVars, GateInv, CheckedTyped, RowsFollow, GateStands,
     F!open, SyncFollows, SavesStand, TickFollows
<1>4. QED
  BY <1>1, <1>2, <1>3

LEMMA SavingGate ==
  ASSUME SoldInv, GateInv,
         \/ F!SaveChannel \/ \E c \in Channels : F!DeleteChannel(c)
         \/ \E f \in saving : F!UpdateSaved(f) \/ F!CreateSaved(f) \/ F!SaveFails(f)
  PROVE  GateInv'
<1>1. CASE F!SaveChannel
  <2>1. SavesStand'
    BY <1>1 DEF F!SaveChannel, F!Ready, GateInv, GateStands, SavesStand
  <2>2. QED
    BY <1>1, <2>1 DEF F!SaveChannel, F!rowVars, F!pageVars, GateInv, CheckedTyped, RowsFollow,
       GateStands, F!open, SyncFollows, TickFollows
<1>2. ASSUME NEW c \in Channels, F!DeleteChannel(c) PROVE GateInv'
  BY <1>2 DEF F!DeleteChannel, F!askVars, F!pageVars, GateInv, CheckedTyped, RowsFollow,
     GateStands, F!open, SyncFollows, SavesStand, TickFollows
<1>3. ASSUME NEW f \in saving, F!UpdateSaved(f) \/ F!CreateSaved(f) PROVE GateInv'
  <2>1. f \in F!Forms /\ (f.auto => Stands(f, upstream, checked))
    BY <1>3 DEF SoldInv, SavesTyped, GateInv, SavesStand
  <2>2. ASSUME NEW c \in Channels, c = f.id \/ f.id = F!New
        PROVE  Follows(c, F!RowOf(f), upstream, checked)
    BY <2>1, <2>2 DEF F!RowOf, Follows, Stands
  <2>3. RowsFollow'
    <3>1. CASE F!UpdateSaved(f)
      BY <2>1, <2>2, <3>1 DEF F!UpdateSaved, GateInv, RowsFollow, SoldInv, RowsSold, F!Forms
    <3>2. CASE F!CreateSaved(f)
      BY <2>1, <2>2, <3>2 DEF F!CreateSaved, GateInv, RowsFollow, SoldInv, RowsSold
    <3>3. QED
      BY <1>3, <3>1, <3>2
  <2>4. GateStands'
    BY <1>3 DEF F!UpdateSaved, F!CreateSaved, F!CloseForm, GateStands
  <2>5. QED
    BY <1>3, <2>3, <2>4 DEF F!UpdateSaved, F!CreateSaved, GateInv, CheckedTyped, SyncFollows,
       SavesStand, TickFollows
<1>4. ASSUME NEW f \in saving, F!SaveFails(f) PROVE GateInv'
  BY <1>4 DEF F!SaveFails, F!rowVars, F!pageVars, GateInv, CheckedTyped, RowsFollow, GateStands,
     F!open, SyncFollows, SavesStand, TickFollows
<1>5. QED
  BY <1>1, <1>2, <1>3, <1>4

LEMMA MonitorGate ==
  ASSUME 1 \notin F!AllMarkups, SoldInv, GateInv, F!Monitor
  PROVE  GateInv'
<1>1. CASE F!TickLoads
  <2>1. TickFollows'
    BY <1>1 DEF F!TickLoads, SoldInv, RowsSold, GateInv, RowsFollow, TickFollows
  <2>2. QED
    BY <1>1, <2>1 DEF F!TickLoads, F!askVars, F!rowVars, F!pageVars, GateInv, CheckedTyped,
       RowsFollow, GateStands, F!open, SyncFollows, SavesStand
<1>2. ASSUME NEW c \in Channels, F!TickSyncs(c) PROVE GateInv'
  <2> DEFINE old == tick[c]
             new == F!Synced(old, old.target, F!StoredMarkup(old))
  <2>1. /\ old \in F!Rows /\ old.auto /\ Follows(c, old, upstream, checked)
        /\ old.target \in Targets /\ old.markup \in F!AllMarkups
        /\ F!StoredMarkup(old) = old.markup
    BY <1>2, TickedIsSold DEF F!TickSyncs, SoldInv, TickSold, GateInv, TickFollows
  <2>2. /\ new.target = old.target
        /\ upstream[old.target] > 0 => new.cost > 0 /\ new.markup = old.markup
    BY <2>1, SyncedRow DEF SoldInv, UpstreamCosts
  <2>3. Follows(c, new, upstream, checked)
    BY <2>1, <2>2 DEF Follows
  <2>4. RowsFollow'
    BY <1>2, <2>3 DEF F!TickSyncs, SoldInv, RowsSold, GateInv, RowsFollow
  <2>5. TickFollows'
    BY <1>2 DEF F!TickSyncs, GateInv, TickFollows
  <2>6. QED
    BY <1>2, <2>4, <2>5 DEF F!TickSyncs, F!askVars, F!pageVars, GateInv, CheckedTyped,
       GateStands, F!open, SyncFollows, SavesStand
<1>3. QED
  BY <1>1, <1>2 DEF F!Monitor

LEMMA StepGate ==
  ASSUME 1 \notin F!AllMarkups, ~PerCall
  PROVE  SoldInv /\ GateInv /\ [F!Next]_channels => GateInv'
<1> SUFFICES ASSUME SoldInv, GateInv, [F!Next]_channels PROVE GateInv'
  OBVIOUS
<1>1. CASE UNCHANGED channels
  BY <1>1 DEF channels, GateInv, CheckedTyped, RowsFollow, GateStands, F!open, SyncFollows,
     SavesStand, TickFollows
<1>2. CASE F!Next
  BY <1>2, DialogGate, CostGate, WrittenGate, SyncingGate, SavingGate, MonitorGate DEF F!Next
<1>3. QED
  BY <1>1, <1>2

\* For all channels, models and markups but 1, where models are billed per
\* token: a channel follows an upstream only with a model and a markup that were
\* synced for it, however late the dialog's answers (AdminChannelsPage.tsx:664).
THEOREM FollowersAreChecked ==
  ASSUME 1 \notin F!AllMarkups, ~PerCall
  PROVE  FeaturesSpec => []FollowedIsChecked
<1>1. FeaturesInit => GateInv
  BY InitGate DEF FeaturesInit
<1>2. SoldInv /\ GateInv /\ [FeaturesNext]_allVars => GateInv'
  BY StepGate DEF FeaturesNext, allVars
<1>3. SoldInv /\ GateInv => FollowedIsChecked
  BY DEF SoldInv, RowsSold, GateInv, RowsFollow, Follows, FollowedIsChecked,
         F!FollowedIsChecked, F!IsChecked
<1>4. QED
  BY <1>1, <1>2, <1>3, SoldHolds, PTL DEF FeaturesSpec

-----------------------------------------------------------------------------
(* The settings page.  While a save is under way and nothing was edited since *)
(* it was sent, what is left to write and what it has written is as shown.    *)

FormTypes ==
  /\ saved \in [SettingFields -> [value : Nat, by : SettingPages \cup {"nobody"}]]
  /\ filled \in [SettingPages -> [SettingFields -> Nat]]
  /\ own \in [SettingPages -> [SettingFields -> Nat]]
  /\ uploads \subseteq [page : SettingPages, field : SettingFields, url : Values]
  /\ \A p \in SettingPages : /\ DOMAIN pending[p] \subseteq SettingFields
                             /\ \A f \in DOMAIN pending[p] : pending[p][f] \in Nat
  /\ DOMAIN pending = SettingPages
  /\ DOMAIN outcome = SettingPages /\ DOMAIN dirty = SettingPages
  /\ fetching \subseteq SettingPages /\ \A p \in fetching : outcome[p] = "none"

\* What p has to write is what it shows, and so is what it wrote last.
AsShown(p) ==
  \A f \in S!Held(p) :
    /\ f \in DOMAIN pending[p] => pending[p][f] = S!Shown(p, f)
    /\ f \notin DOMAIN pending[p] /\ saved[f].by = p => saved[f].value = S!Shown(p, f)

SettingsInv ==
  /\ FormTypes
  /\ \A p \in SettingPages : outcome[p] = "sent" /\ ~dirty[p] => AsShown(p)
  /\ S!SavedAsShown

LEMMA InitSettings == S!Init => SettingsInv
<1> SUFFICES ASSUME S!Init PROVE SettingsInv
  OBVIOUS
<1>1. S!Blank \in [SettingFields -> Nat] /\ DOMAIN S!Nothing = {}
  BY DEF S!Blank, S!Absent, S!Nothing
<1>2. FormTypes
  BY <1>1 DEF S!Init, FormTypes, S!Off
<1>3. QED
  BY <1>2 DEF S!Init, SettingsInv, S!SavedAsShown

\* Pages whose save is neither under way nor answered, or that were edited since.
Free(p) == dirty[p] \/ outcome[p] \notin {"sent", "saved"}

\* A step that changes only what free pages show keeps the rest.
LEMMA Elsewhere ==
  ASSUME SettingsInv, FormTypes',
         UNCHANGED saved,
         \A p \in SettingPages :
           \/ Free(p)'
           \/ /\ filled'[p] = filled[p] /\ own'[p] = own[p] /\ dirty'[p] = dirty[p]
              /\ outcome'[p] = outcome[p] /\ pending'[p] = pending[p]
  PROVE  SettingsInv'
<1>1. ASSUME NEW p \in SettingPages, ~Free(p)'
      PROVE  /\ ~dirty[p] /\ outcome'[p] = outcome[p] /\ pending'[p] = pending[p]
             /\ S!Held(p)' = S!Held(p) /\ \A f \in SettingFields : S!Shown(p, f)' = S!Shown(p, f)
  BY <1>1 DEF Free, S!Held, S!Shown
<1>2. \A p \in SettingPages : (outcome[p] = "sent" /\ ~dirty[p])' => AsShown(p)'
  BY <1>1 DEF SettingsInv, AsShown, Free, S!Held
<1>3. S!SavedAsShown'
  BY <1>1 DEF SettingsInv, S!SavedAsShown, Free, S!Held
<1>4. QED
  BY <1>2, <1>3 DEF SettingsInv

LEMMA EditSettings ==
  ASSUME SettingsInv,
         \/ \E p \in SettingPages : S!Loaded(p) \/ S!LoadFails(p) \/ S!Tabs(p) \/ S!Reload(p)
         \/ \E u \in uploads : S!Uploaded(u) \/ S!UploadFails(u)
  PROVE  SettingsInv'
<1> USE SettingsInv DEF SettingsInv
<1>1. ASSUME NEW p \in SettingPages, NEW f \in SettingFields, NEW v \in Values, S!Set(p, f, v),
             UNCHANGED <<saved, fetching, pending, outcome>>, uploads' \subseteq uploads
      PROVE  SettingsInv'
  <2>1. v \in Nat
    BY SettingsAssumption DEF S!SettingsAssumption
  <2>2. FormTypes'
    <3>1. /\ [filled[p] EXCEPT ![f] = v] \in [SettingFields -> Nat]
          /\ [own[p] EXCEPT ![f] = v] \in [SettingFields -> Nat]
      BY <2>1 DEF FormTypes
    <3>2. /\ filled' \in [SettingPages -> [SettingFields -> Nat]]
          /\ own' \in [SettingPages -> [SettingFields -> Nat]]
          /\ DOMAIN dirty' = SettingPages
      <4>1. CASE f \in S!OwnFields
        <5>1. own' = [own EXCEPT ![p] = [own[p] EXCEPT ![f] = v]] /\ filled' = filled
          BY <1>1, <4>1 DEF S!Set
        <5>2. QED
          BY <1>1, <3>1, <5>1 DEF S!Set, FormTypes
      <4>2. CASE f \notin S!OwnFields
        <5>1. filled' = [filled EXCEPT ![p] = [filled[p] EXCEPT ![f] = v]] /\ own' = own
          BY <1>1, <4>2 DEF S!Set
        <5>2. QED
          BY <1>1, <3>1, <5>1 DEF S!Set, FormTypes
      <4>3. QED
        BY <4>1, <4>2
    <3>3. QED
      BY <1>1, <3>2 DEF FormTypes
  <2>3. dirty'[p]
    BY <1>1 DEF S!Set, FormTypes
  <2>4. \A q \in SettingPages : q = p \/ (filled'[q] = filled[q] /\ own'[q] = own[q]
                                          /\ dirty'[q] = dirty[q])
    BY <1>1 DEF S!Set, FormTypes
  <2>5. QED
    BY <1>1, <2>2, <2>3, <2>4, Elsewhere DEF Free
<1>2. ASSUME NEW p \in SettingPages, S!Loaded(p) \/ S!Reload(p) PROVE SettingsInv'
  <2>1. FormTypes'
    <3> DEFINE read == [f \in SettingFields |-> saved[f].value]
               beside == [f \in SettingFields |->
                            IF f \in S!OwnFields THEN saved[f].value ELSE S!Absent]
    <3>1. /\ S!Blank \in [SettingFields -> Nat] /\ read \in [SettingFields -> Nat]
          /\ beside \in [SettingFields -> Nat]
      BY DEF S!Blank, S!Absent, FormTypes
    <3>2. CASE S!Loaded(p)
      <4>1. /\ filled' = [filled EXCEPT ![p] = read] /\ own' = [own EXCEPT ![p] = beside]
            /\ fetching' = fetching \ {p}
            /\ UNCHANGED <<saved, uploads, pending, outcome, dirty>>
        BY <3>2 DEF S!Loaded, S!saveVars
      <4>2. QED
        BY <3>1, <4>1 DEF FormTypes
    <3>3. CASE S!Reload(p)
      <4>1. /\ filled' \in [SettingPages -> [SettingFields -> Nat]]
            /\ own' \in [SettingPages -> [SettingFields -> Nat]]
        BY <3>1, <3>3 DEF S!Reload, FormTypes
      <4>2. uploads' \subseteq uploads /\ UNCHANGED <<saved, pending>>
        BY <3>3 DEF S!Reload
      <4>3. /\ DOMAIN outcome' = SettingPages /\ DOMAIN dirty' = SettingPages
            /\ fetching' \subseteq SettingPages /\ \A x \in fetching' : outcome'[x] = "none"
        BY <3>3 DEF S!Reload, FormTypes
      <4>4. QED
        BY <4>1, <4>2, <4>3 DEF FormTypes
    <3>4. QED
      BY <1>2, <3>2, <3>3
  <2>2. Free(p)'
    BY <1>2 DEF S!Loaded, S!Reload, S!saveVars, FormTypes, Free
  <2>3. /\ UNCHANGED saved
        /\ \A q \in SettingPages : q = p \/
             /\ filled'[q] = filled[q] /\ own'[q] = own[q] /\ dirty'[q] = dirty[q]
             /\ outcome'[q] = outcome[q] /\ pending'[q] = pending[q]
    BY <1>2 DEF S!Loaded, S!Reload, S!saveVars, FormTypes
  <2>4. QED
    BY <2>1, <2>2, <2>3, Elsewhere
<1>3. ASSUME NEW p \in SettingPages, S!LoadFails(p) PROVE SettingsInv'
  <2>1. FormTypes'
    BY <1>3 DEF S!LoadFails, S!saveVars, FormTypes
  <2>2. QED
    BY <1>3, <2>1, Elsewhere DEF S!LoadFails, S!saveVars
<1>4. ASSUME NEW p \in SettingPages, NEW tab, S!Type(p, tab) PROVE SettingsInv'
  BY <1>1, <1>4 DEF S!Type, S!saveVars
<1>5. ASSUME NEW p \in SettingPages, NEW tab, S!Upload(p, tab) PROVE SettingsInv'
  <2>1. FormTypes'
    BY <1>5 DEF S!Upload, S!saveVars, FormTypes
  <2>2. QED
    BY <1>5, <2>1, Elsewhere DEF S!Upload, S!saveVars
<1>6. ASSUME NEW p \in SettingPages, NEW m, S!Toggle(p, m) PROVE SettingsInv'
  <2>1. /\ UNCHANGED <<saved, fetching, own, uploads, pending, outcome>>
        /\ dirty' = [dirty EXCEPT ![p] = TRUE]
        /\ \E g \in [SettingFields -> Nat] : filled' = [filled EXCEPT ![p] = g]
    <3>1. PICK v \in {S!On, S!Off} :
            filled' = [filled EXCEPT ![p] = [f \in SettingFields |->
                         IF f = m THEN v
                         ELSE IF v = S!On /\ f \in S!Methods THEN S!Off ELSE filled[p][f]]]
      BY <1>6 DEF S!Toggle, FormTypes
    <3>2. [f \in SettingFields |-> IF f = m THEN v
             ELSE IF v = S!On /\ f \in S!Methods THEN S!Off ELSE filled[p][f]]
            \in [SettingFields -> Nat]
      BY DEF FormTypes, S!On, S!Off
    <3>3. QED
      BY <1>6, <3>1, <3>2 DEF S!Toggle, S!saveVars
  <2>2. FormTypes'
    BY <2>1 DEF FormTypes
  <2>3. Free(p)' /\ \A q \in SettingPages : q = p \/ (filled'[q] = filled[q] /\ dirty'[q] = dirty[q])
    BY <2>1 DEF FormTypes, Free
  <2>4. QED
    BY <2>1, <2>2, <2>3, Elsewhere
<1>7. ASSUME NEW p \in SettingPages, S!Tabs(p) PROVE SettingsInv'
  BY <1>4, <1>5, <1>6, <1>7
  DEF S!Tabs, S!BasicTab, S!AppearanceTab, S!PaymentTab, S!NoticeTab, S!PlansTab, S!RebateTab,
      S!AlertTab, S!WithdrawTab, S!VendorTab, S!Keys
<1>8. ASSUME NEW u \in uploads, S!Uploaded(u) PROVE SettingsInv'
  <2>1. u.page \in SettingPages /\ u.field \in SettingFields /\ u.url \in Values
    BY DEF FormTypes
  <2>2. QED
    BY <1>1, <1>8, <2>1 DEF S!Uploaded, S!saveVars
<1>9. ASSUME NEW u \in uploads, S!UploadFails(u) PROVE SettingsInv'
  <2>1. FormTypes'
    BY <1>9 DEF S!UploadFails, S!saveVars, FormTypes
  <2>2. QED
    BY <1>9, <2>1, Elsewhere DEF S!UploadFails, S!saveVars
<1>10. QED
  BY <1>2, <1>3, <1>7, <1>8, <1>9

LEMMA SaveSettings ==
  ASSUME SettingsInv, NEW p \in SettingPages, S!Save(p)
  PROVE  SettingsInv'
<1>1. FormTypes'
  BY DEF SettingsInv, S!Save, S!pageVars, FormTypes, S!Payload, S!Held, S!Shown
<1>2. /\ pending'[p] = S!Payload(p) /\ outcome'[p] = "sent"
      /\ UNCHANGED <<saved, filled, own>>
      /\ \A q \in SettingPages \ {p} : pending'[q] = pending[q] /\ outcome'[q] = outcome[q]
                                       /\ dirty'[q] = dirty[q]
  BY DEF SettingsInv, S!Save, S!pageVars, FormTypes
<1>3. AsShown(p)'
  BY <1>2 DEF AsShown, S!Payload, S!Held, S!Shown
<1>4. \A q \in SettingPages : (outcome[q] = "sent" /\ ~dirty[q])' => AsShown(q)'
  BY <1>2, <1>3 DEF SettingsInv, AsShown, S!Held, S!Shown
<1>5. S!SavedAsShown'
  BY <1>2 DEF SettingsInv, S!SavedAsShown, S!Held, S!Shown
<1>6. QED
  BY <1>1, <1>4, <1>5 DEF SettingsInv

LEMMA WriteSettings ==
  ASSUME SettingsInv, NEW p \in SettingPages, S!WriteField(p)
  PROVE  SettingsInv'
<1>1. PICK f \in DOMAIN pending[p] :
        /\ saved' = [saved EXCEPT ![f] = [value |-> pending[p][f], by |-> p]]
        /\ pending' = [pending EXCEPT ![p] = [g \in DOMAIN @ \ {f} |-> @[g]]]
  BY DEF S!WriteField
<1>2. UNCHANGED <<filled, own, fetching, uploads, outcome, dirty>> /\ outcome[p] = "sent"
  BY DEF S!WriteField, S!pageVars
<1>3. /\ f \in SettingFields /\ pending[p][f] \in Nat
      /\ DOMAIN pending'[p] = DOMAIN pending[p] \ {f}
      /\ \A g \in DOMAIN pending'[p] : pending'[p][g] = pending[p][g]
      /\ \A q \in SettingPages \ {p} : pending'[q] = pending[q]
      /\ DOMAIN pending' = SettingPages
  BY <1>1 DEF SettingsInv, FormTypes
<1>4. /\ saved'[f].value = pending[p][f] /\ saved'[f].by = p
      /\ \A g \in SettingFields \ {f} : saved'[g] = saved[g]
  BY <1>1, <1>3 DEF SettingsInv, FormTypes
<1>5. FormTypes'
  BY <1>1, <1>2, <1>3 DEF SettingsInv, FormTypes
<1>6. ASSUME NEW q \in SettingPages
      PROVE  /\ S!Held(q)' = S!Held(q) /\ S!Held(q) \subseteq SettingFields
             /\ \A g \in SettingFields : S!Shown(q, g)' = S!Shown(q, g)
  BY <1>2 DEF S!Held, S!Shown
<1>7. ASSUME NEW q \in SettingPages, outcome[q] = "sent", ~dirty[q] PROVE AsShown(q)'
  <2>1. AsShown(q)
    BY <1>7 DEF SettingsInv
  <2>2. CASE q = p
    BY <1>3, <1>4, <1>6, <2>1, <2>2 DEF AsShown
  <2>3. CASE q # p
    BY <1>3, <1>4, <1>6, <2>1, <2>3 DEF AsShown
  <2>4. QED
    BY <2>2, <2>3
<1>8. S!SavedAsShown'
  <2> SUFFICES ASSUME NEW q \in SettingPages, outcome[q] = "saved", ~dirty[q],
                      NEW g \in S!Held(q), saved'[g].by = q
               PROVE  saved'[g].value = S!Shown(q, g)
    BY <1>2, <1>6 DEF S!SavedAsShown
  <2>1. q # p /\ g \in SettingFields
    BY <1>2, <1>6
  <2>2. g # f
    BY <1>4, <2>1
  <2>3. QED
    BY <1>4, <2>1, <2>2 DEF SettingsInv, S!SavedAsShown
<1>9. QED
  BY <1>2, <1>5, <1>7, <1>8 DEF SettingsInv

LEMMA EndSettings ==
  ASSUME SettingsInv, NEW p \in SettingPages,
         S!WriteFails(p) \/ S!SaveAnswered(p) \/ S!SaveFails(p)
  PROVE  SettingsInv'
<1>1. PICK to : /\ outcome' = [outcome EXCEPT ![p] = to] /\ to # "sent"
                /\ to = "saved" => outcome[p] = "sent" /\ DOMAIN pending[p] = {}
                /\ pending' = [pending EXCEPT ![p] = S!Nothing]
                /\ UNCHANGED <<saved, fetching, filled, own, uploads, dirty>>
                /\ outcome[p] # "none"
  BY DEF S!WriteFails, S!SaveAnswered, S!SaveFails, S!Ends, S!pageVars
<1>2. DOMAIN S!Nothing = {}
  BY DEF S!Nothing
<1>3. FormTypes'
  BY <1>1, <1>2 DEF SettingsInv, FormTypes
<1>4. /\ outcome'[p] = to
      /\ \A q \in SettingPages \ {p} : outcome'[q] = outcome[q] /\ pending'[q] = pending[q]
  BY <1>1 DEF SettingsInv, FormTypes
<1>5. \A q \in SettingPages : (outcome[q] = "sent" /\ ~dirty[q])' => AsShown(q)'
  BY <1>1, <1>4 DEF SettingsInv, AsShown, S!Held, S!Shown
<1>6. S!SavedAsShown'
  <2> SUFFICES ASSUME NEW q \in SettingPages, outcome'[q] = "saved", ~dirty[q],
                      NEW g \in S!Held(q), saved[g].by = q
               PROVE  saved[g].value = S!Shown(q, g)
    BY <1>1 DEF S!SavedAsShown, S!Held, S!Shown
  <2>1. CASE q = p
    BY <1>1, <1>4, <2>1 DEF SettingsInv, AsShown
  <2>2. CASE q # p
    BY <1>4, <2>2 DEF SettingsInv, S!SavedAsShown
  <2>3. QED
    BY <2>1, <2>2
<1>7. QED
  BY <1>3, <1>5, <1>6 DEF SettingsInv

LEMMA StepSettings == SettingsInv /\ [S!Next]_settings => SettingsInv'
<1> SUFFICES ASSUME SettingsInv, [S!Next]_settings PROVE SettingsInv'
  OBVIOUS
<1>1. CASE UNCHANGED settings
  BY <1>1 DEF settings, SettingsInv, FormTypes, AsShown, S!SavedAsShown, S!Held, S!Shown
<1>2. CASE S!Next
  BY <1>2, EditSettings, SaveSettings, WriteSettings, EndSettings DEF S!Next
<1>3. QED
  BY <1>1, <1>2

\* For all pages, fields, tabs, uploads and orders in which fields are written:
\* an answered save has written what its page shows (AdminSettingsPage.tsx:217).
THEOREM SettingsAreSavedAsShown == FeaturesSpec => []SavedAsShown
<1>1. FeaturesInit => SettingsInv
  BY InitSettings DEF FeaturesInit
<1>2. SettingsInv /\ [FeaturesNext]_allVars => SettingsInv'
  BY StepSettings DEF FeaturesNext, allVars
<1>3. SettingsInv => SavedAsShown
  BY DEF SettingsInv, SavedAsShown
<1>4. QED
  BY <1>1, <1>2, <1>3, PTL DEF FeaturesSpec

-----------------------------------------------------------------------------
(* The cleanup card.  While its dialog is there no preview is under way, and  *)
(* the preview shown is the latest answer, for the fields as they are.        *)

\* A run has its five fields.
RunShape(r) == r = [target |-> r.target, days |-> r.days, deleted |-> r.deleted,
                    phase |-> r.phase, told |-> r.told]

CleanupInv ==
  /\ \E Z : runs \in Seq(Z)
  /\ \A i \in DOMAIN runs : RunShape(runs[i])
  /\ T!CleanupIsPreviewed
  /\ estimate # T!NoPreview => answered = estimate
  /\ dialog # "closed" =>
       T!PreviewIsCurrent /\ loading = T!Idle /\ estimate.count > 0

LEMMA InitCleanup == T!Init => CleanupInv
<1> SUFFICES ASSUME T!Init PROVE CleanupInv
  OBVIOUS
<1>1. runs \in Seq({}) /\ DOMAIN runs = {}
  BY DEF T!Init
<1>2. QED
  BY <1>1 DEF CleanupInv, T!Init, T!CleanupIsPreviewed

LEMMA RunsStay ==
  ASSUME CleanupInv, UNCHANGED runs
  PROVE  /\ \E Z : runs' \in Seq(Z)
         /\ \A i \in DOMAIN runs' : RunShape(runs'[i])
         /\ T!CleanupIsPreviewed'
  BY DEF CleanupInv, T!CleanupIsPreviewed

LEMMA CardCleanup ==
  ASSUME CleanupInv,
         \/ \E t \in Tables, d \in Days : T!Age(t, d)
         \/ T!ChangeField \/ T!PreviewCleanup \/ T!PreviewAnswered \/ T!PreviewFails
         \/ T!OpenCleanupDialog \/ T!CloseDialog \/ T!TypeConfirmation
         \/ T!RunAnswered \/ T!RunFails
  PROVE  CleanupInv'
<1>1. UNCHANGED runs
  BY DEF T!Age, T!ChangeField, T!PreviewCleanup, T!PreviewAnswered, T!PreviewFails,
         T!OpenCleanupDialog, T!CloseDialog, T!TypeConfirmation, T!RunAnswered, T!RunFails
<1>2. estimate' # T!NoPreview => answered' = estimate'
  BY DEF CleanupInv, T!Age, T!ChangeField, T!PreviewCleanup, T!PreviewAnswered,
         T!PreviewFails, T!OpenCleanupDialog, T!CloseDialog, T!TypeConfirmation,
         T!RunAnswered, T!RunFails, T!cardVars
<1>3. dialog' # "closed" =>
        T!PreviewIsCurrent' /\ loading' = T!Idle /\ estimate'.count > 0
  BY DEF CleanupInv, T!Age, T!ChangeField, T!PreviewCleanup, T!PreviewAnswered,
         T!PreviewFails, T!OpenCleanupDialog, T!CloseDialog, T!TypeConfirmation,
         T!RunAnswered, T!RunFails, T!cardVars, T!PreviewIsCurrent
<1>4. QED
  BY <1>1, <1>2, <1>3, RunsStay DEF CleanupInv

LEMMA SentCleanup ==
  ASSUME CleanupInv, T!RunCleanup
  PROVE  CleanupInv'
<1> DEFINE run == [target |-> target, days |-> days, deleted |-> 0,
                   phase |-> "deleting", told |-> answered]
<1>1. PICK Z : runs \in Seq(Z)
  BY DEF CleanupInv
<1>2. runs \in Seq(Z \cup {run})
  BY <1>1
<1>3. /\ runs' = Append(runs, run) /\ runs' \in Seq(Z \cup {run})
      /\ Len(runs') = Len(runs) + 1 /\ DOMAIN runs' = 1..Len(runs')
  BY <1>2 DEF T!RunCleanup
<1>4. \A i \in DOMAIN runs' : (i \in DOMAIN runs /\ runs'[i] = runs[i]) \/ runs'[i] = run
  BY <1>2, <1>3
<1>5. answered.target = target /\ answered.days = days /\ answered.count > 0
  <2>1. T!PreviewIsCurrent /\ estimate.count > 0
    BY DEF CleanupInv, T!RunCleanup
  <2>2. estimate # T!NoPreview
    BY <2>1 DEF T!NoPreview
  <2>3. QED
    BY <2>1, <2>2 DEF CleanupInv, T!PreviewIsCurrent
<1>6. RunShape(run)
  BY DEF RunShape
<1>7. \A i \in DOMAIN runs' : RunShape(runs'[i])
  BY <1>4, <1>6 DEF CleanupInv
<1>8. T!CleanupIsPreviewed'
  BY <1>4, <1>5 DEF CleanupInv, T!CleanupIsPreviewed
<1>9. QED
  BY <1>3, <1>7, <1>8 DEF CleanupInv, T!RunCleanup, T!PreviewIsCurrent

LEMMA RunsCleanup ==
  ASSUME CleanupInv, NEW i \in DOMAIN runs, T!Batch(i) \/ T!RunEnds(i)
  PROVE  CleanupInv'
<1>1. PICK r : /\ runs' = [runs EXCEPT ![i] = r] /\ RunShape(r) /\ r.target = runs[i].target
               /\ r.days = runs[i].days /\ r.told = runs[i].told
  BY DEF CleanupInv, T!Batch, T!RunEnds, RunShape
<1>2. PICK Z : runs \in Seq(Z)
  BY DEF CleanupInv
<1>3. runs' \in Seq(Z \cup {r})
  BY <1>1, <1>2
<1>4. DOMAIN runs' = DOMAIN runs /\ \A j \in DOMAIN runs : j # i => runs'[j] = runs[j]
  BY <1>1
<1>5. QED
  BY <1>1, <1>3, <1>4 DEF CleanupInv, T!Batch, T!RunEnds, T!cardVars, T!CleanupIsPreviewed,
     T!PreviewIsCurrent

LEMMA StepCleanup == CleanupInv /\ [T!Next]_cleanup => CleanupInv'
<1> SUFFICES ASSUME CleanupInv, [T!Next]_cleanup PROVE CleanupInv'
  OBVIOUS
<1>1. CASE UNCHANGED cleanup
  BY <1>1 DEF cleanup, CleanupInv, T!CleanupIsPreviewed, T!PreviewIsCurrent
<1>2. CASE T!Next
  BY <1>2, CardCleanup, SentCleanup, RunsCleanup DEF T!Next
<1>3. QED
  BY <1>1, <1>2

\* For all fields, ages and bounds a cleanup is sent only for what the latest
\* count was for, and only when it counted some rows (AdminTasksPage.tsx:197).
THEOREM CleanupsArePreviewed == FeaturesSpec => []CleanupIsPreviewed
<1>1. FeaturesInit => CleanupInv
  BY InitCleanup DEF FeaturesInit
<1>2. CleanupInv /\ [FeaturesNext]_allVars => CleanupInv'
  BY StepCleanup DEF FeaturesNext, allVars
<1>3. CleanupInv => CleanupIsPreviewed
  BY DEF CleanupInv, CleanupIsPreviewed
<1>4. QED
  BY <1>1, <1>2, <1>3, PTL DEF FeaturesSpec

-----------------------------------------------------------------------------
(* Redeem codes.  Type correctness first: CardTypes.                          *)

CardTypes ==
  /\ card \in [CardIds -> {"none", "unused", "used", "voided"}]
  /\ credited \in [CardIds -> Nat]
  /\ found \in [CardIds -> Nat] /\ marked \in [CardIds -> Nat]

LEMMA InitTyped == CardsInit => CardTypes
  BY DEF CardsInit, CardTypes

LEMMA StepTyped == CardTypes /\ [CardsNext]_cardsVars => CardTypes'
<1> SUFFICES ASSUME CardTypes, [CardsNext]_cardsVars PROVE CardTypes'
  OBVIOUS
<1> USE DEF CardTypes, rowVars, payoutVars, workVars
<1>1. CASE UNCHANGED cardsVars
  BY <1>1 DEF cardsVars
<1>2. ASSUME NEW batch \in SUBSET CardIds, GenerateCards(batch) PROVE CardTypes'
  BY <1>2 DEF GenerateCards
<1>3. CASE ListCards \/ VoidCardBatch \/ ServerStops
  BY <1>3 DEF ListCards, VoidCardBatch, ServerStops
<1>4. ASSUME NEW c \in CardIds,
             AskVoid(c) \/ VoidCard(c) \/ AskDelete(c) \/ DeleteCard(c)
      PROVE  CardTypes'
  BY <1>4 DEF AskVoid, VoidCard, AskDelete, DeleteCard
<1>5. ASSUME NEW c \in CardIds, Redeem(c) \/ Take(c) \/ TakeFails(c) PROVE CardTypes'
  BY <1>5 DEF Redeem, Take, Taken, TakeFails
<1>6. ASSUME NEW c \in CardIds,
             Recharged(c) \/ RechargeFails(c) \/ RechargeAnswerLost(c)
      PROVE  CardTypes'
  BY <1>6 DEF Recharged, RechargeFails, RechargeAnswerLost, Recharges, Restored
<1>7. QED
  BY <1>1, <1>2, <1>3, <1>4, <1>5, <1>6 DEF CardsNext

\* A card is unused, used, voided or deleted, a redemption is at one of its
\* steps, and what a card paid out is a number, whatever is cut off (card.go:149).
THEOREM CardsTyped == CardsSpec => []CardTypes
  BY InitTyped, StepTyped, PTL DEF CardsSpec

-----------------------------------------------------------------------------
(* The money of one card.  A card that can be redeemed, now or after it is    *)
(* generated, has been paid out only by a recharge that was reported failed.  *)

Allowed(c) == IF c \in doubtful THEN 1 ELSE 0
Redeemable(c) == card[c] = "unused" \/ (card[c] = "none" /\ c \notin gone)

MoneyInv ==
  \A c \in CardIds :
    /\ Redeemable(c) => credited[c] + marked[c] <= Allowed(c)
    /\ credited[c] + marked[c] <= 1 + Allowed(c)
    /\ card[c] = "used" => credited[c] + marked[c] > 0 \/ c \in cutOff
    /\ c \in gone => card[c] = "none"

LEMMA InitMoney == CardsInit => MoneyInv
<1> SUFFICES ASSUME CardsInit, NEW c \in CardIds
             PROVE  /\ Redeemable(c) => credited[c] + marked[c] <= Allowed(c)
                    /\ credited[c] + marked[c] <= 1 + Allowed(c)
                    /\ card[c] = "used" => credited[c] + marked[c] > 0 \/ c \in cutOff
                    /\ c \in gone => card[c] = "none"
  BY DEF MoneyInv
<1>1. /\ credited[c] = 0 /\ marked[c] = 0 /\ Allowed(c) = 0
      /\ card[c] = "none" /\ c \notin gone
  BY DEF CardsInit, Allowed
<1>2. QED
  BY <1>1

\* A step of the administrator moves no money.
LEMMA AdminKeepsMoney ==
  ASSUME CardTypes, MoneyInv,
         \/ \E batch \in SUBSET CardIds : GenerateCards(batch)
         \/ ListCards \/ VoidCardBatch
         \/ \E c \in CardIds :
              AskVoid(c) \/ VoidCard(c) \/ AskDelete(c) \/ DeleteCard(c)
  PROVE  MoneyInv'
<1> USE DEF CardTypes, MoneyInv, Redeemable, Allowed, rowVars, payoutVars, workVars
<1>1. ASSUME NEW batch \in SUBSET CardIds, GenerateCards(batch) PROVE MoneyInv'
  BY <1>1 DEF GenerateCards
<1>2. CASE ListCards \/ VoidCardBatch
  BY <1>2 DEF ListCards, VoidCardBatch, Unused
<1>3. ASSUME NEW c \in CardIds, AskVoid(c) \/ AskDelete(c) PROVE MoneyInv'
  BY <1>3 DEF AskVoid, AskDelete
<1>4. ASSUME NEW c \in CardIds, VoidCard(c) PROVE MoneyInv'
  BY <1>4 DEF VoidCard
<1>5. ASSUME NEW c \in CardIds, DeleteCard(c) PROVE MoneyInv'
  BY <1>5 DEF DeleteCard
<1>6. QED
  BY <1>1, <1>2, <1>3, <1>4, <1>5

LEMMA RedemptionKeepsMoney ==
  ASSUME CardTypes, MoneyInv, NEW c \in CardIds,
         \/ Redeem(c) \/ Take(c) \/ TakeFails(c)
         \/ Recharged(c) \/ RechargeFails(c) \/ RechargeAnswerLost(c)
  PROVE  MoneyInv'
<1> USE DEF CardTypes, MoneyInv, Redeemable, Allowed, rowVars, payoutVars, workVars
<1>1. CASE Redeem(c) \/ TakeFails(c)
  BY <1>1 DEF Redeem, TakeFails
<1>2. CASE Take(c)
  BY <1>2 DEF Take, Taken
<1>3. CASE Recharged(c)
  BY <1>3 DEF Recharged, Recharges
<1>4. CASE RechargeFails(c)
  BY <1>4 DEF RechargeFails, Recharges, Restored
<1>5. CASE RechargeAnswerLost(c)
  BY <1>5 DEF RechargeAnswerLost, Recharges, Restored
<1>6. QED
  BY <1>1, <1>2, <1>3, <1>4, <1>5

LEMMA StopKeepsMoney ==
  ASSUME CardTypes, MoneyInv, ServerStops
  PROVE  MoneyInv'
  BY DEF ServerStops, CardTypes, MoneyInv, Redeemable, Allowed, rowVars

LEMMA StepMoney == CardTypes /\ MoneyInv /\ [CardsNext]_cardsVars => MoneyInv'
<1> SUFFICES ASSUME CardTypes, MoneyInv, [CardsNext]_cardsVars PROVE MoneyInv'
  OBVIOUS
<1>1. CASE UNCHANGED cardsVars
  BY <1>1 DEF cardsVars, rowVars, payoutVars, workVars, MoneyInv, Redeemable, Allowed
<1>2. CASE CardsNext
  BY <1>2, AdminKeepsMoney, RedemptionKeepsMoney, StopKeepsMoney DEF CardsNext
<1>3. QED
  BY <1>1, <1>2

LEMMA MoneyHolds == CardsSpec => [](CardTypes /\ MoneyInv)
<1>1. CardTypes /\ MoneyInv /\ [CardsNext]_cardsVars => (CardTypes /\ MoneyInv)'
  BY StepTyped, StepMoney
<1>2. QED
  BY InitTyped, InitMoney, <1>1, PTL DEF CardsSpec

\* A card's credits are added once, or twice when the answer of a recharge was
\* lost: whoever redeems, voids or deletes it at the same time (card.go:149).
THEOREM CardsRedeemedOnce == CardsSpec => []RedeemedOnce
<1>1. CardTypes /\ MoneyInv => RedeemedOnce
  <2> SUFFICES ASSUME MoneyInv, NEW c \in CardIds
               PROVE  credited[c] + marked[c] <= IF c \in doubtful THEN 2 ELSE 1
    BY DEF RedeemedOnce
  <2>1. credited[c] + marked[c] <= 1 + Allowed(c)
    BY DEF MoneyInv
  <2>2. QED
    BY <2>1 DEF Allowed
<1>2. QED
  BY MoneyHolds, <1>1, PTL

\* A card that is marked used was paid out, is being paid out, or its
\* redemption was cut off in between (card.go:172).
THEOREM UsedCardsArePaidOut == CardsSpec => []UsedIsPaidOut
<1>1. MoneyInv => UsedIsPaidOut
  BY DEF MoneyInv, UsedIsPaidOut
<1>2. QED
  BY MoneyHolds, <1>1, PTL

-----------------------------------------------------------------------------
(* Voided and deleted cards.                                                  *)

StaysVoided ==
  \A c \in CardIds :
    /\ card[c] = "voided" => card'[c] \in {"voided", "none"}
    /\ c \in gone => card'[c] = "none"

LEMMA StepStaysVoided == CardTypes /\ MoneyInv /\ [CardsNext]_cardsVars => [StaysVoided]_cardsVars
<1> SUFFICES ASSUME CardTypes, MoneyInv, CardsNext PROVE StaysVoided
  BY DEF StaysVoided
<1> USE DEF StaysVoided, CardTypes, MoneyInv, rowVars, payoutVars, workVars
<1>1. ASSUME NEW batch \in SUBSET CardIds, GenerateCards(batch) PROVE StaysVoided
  BY <1>1 DEF GenerateCards
<1>2. CASE ListCards \/ VoidCardBatch \/ ServerStops
  BY <1>2 DEF ListCards, VoidCardBatch, ServerStops, Unused
<1>3. ASSUME NEW c \in CardIds,
             AskVoid(c) \/ VoidCard(c) \/ AskDelete(c) \/ DeleteCard(c)
      PROVE  StaysVoided
  BY <1>3 DEF AskVoid, VoidCard, AskDelete, DeleteCard
<1>4. ASSUME NEW c \in CardIds, Redeem(c) \/ Take(c) \/ TakeFails(c) PROVE StaysVoided
  BY <1>4 DEF Redeem, Take, Taken, TakeFails
<1>5. ASSUME NEW c \in CardIds,
             Recharged(c) \/ RechargeFails(c) \/ RechargeAnswerLost(c)
      PROVE  StaysVoided
  BY <1>5 DEF Recharged, RechargeFails, RechargeAnswerLost, Recharges, Restored
<1>6. QED
  BY <1>1, <1>2, <1>3, <1>4, <1>5 DEF CardsNext

\* A card that was voided or deleted stays so, however late a redemption fails
\* or a void request writes (admin_card_extra.go:56, card.go:184).
THEOREM CardsStayVoided == CardsSpec => VoidedForGood
<1>1. [StaysVoided]_cardsVars <=> [\A c \in CardIds :
        /\ card[c] = "voided" => card'[c] \in {"voided", "none"}
        /\ c \in gone => card'[c] = "none"]_cardsVars
  BY DEF StaysVoided
<1>2. QED
  BY MoneyHolds, StepStaysVoided, <1>1, PTL DEF CardsSpec, VoidedForGood

-----------------------------------------------------------------------------
(* The pages that generate: one generation is asked for at a time, the page  *)
(* follows the latest one, and drops none that the server took.              *)

\* A visit that waits for an answer has nothing else to show or to follow, and
\* its button is disabled.
Visit ==
  /\ last \in 0..MaxSubmits /\ posts \subseteq {last} \ {0}
  /\ status \in {"idle", "polling", "done", "failed"}
  /\ posts # {} => running = TRUE /\ task = 0 /\ shown = 0 /\ status # "done"
  /\ LatestOnly

\* What the server does is known to the page, was left or lost.
Accounted ==
  /\ DOMAIN srv = Submits
  /\ \A k \in posts : srv[k] # "none"
  /\ \A k \in Submits :
       /\ srv[k] \in {"none", "asked", "now", "refused"} \cup Made
       /\ srv[k] # "none" => k <= last
       /\ srv[k] \in Made \cup {"asked", "now"} =>
            k \in posts \cup left \cup lost \cup ({task, shown} \ {0})
       /\ srv[k] = "asked" => k \in posts \cup left \cup lost

VisitInv == Visit /\ Accounted

LEMMA InitVisit == ASSUME GenerationAssumption PROVE GenerationInit => VisitInv
<1> SUFFICES ASSUME GenerationInit PROVE VisitInv
  OBVIOUS
<1>1. Visit
  BY DEF GenerationInit, GenerationAssumption, Visit, LatestOnly
<1>2. Accounted
  BY DEF GenerationInit, Accounted, Made
<1>3. QED
  BY <1>1, <1>2 DEF VisitInv

-----------------------------------------------------------------------------
(* The page's steps.                                                          *)

LEMMA LoadKeepsVisit ==
  ASSUME VisitInv, Loaded \/ AskStatus \/ \E k \in Submits : StatusIgnored(k)
  PROVE  VisitInv'
<1>1. UNCHANGED <<last, posts, status, running, task, shown, srv, left, lost>>
  BY DEF Loaded, AskStatus, StatusIgnored, netVars, viewVars
<1>2. QED
  BY <1>1 DEF VisitInv, Visit, LatestOnly, Accounted

LEMMA GenerateKeepsVisit ==
  ASSUME GenerationAssumption, VisitInv, Generate
  PROVE  VisitInv'
<1> DEFINE k == last + 1
<1>1. /\ last \in 0..MaxSubmits /\ MaxSubmits \in Nat /\ last < MaxSubmits
      /\ last' = k /\ posts' = posts \cup {k} /\ srv' = [srv EXCEPT ![k] = "asked"]
      /\ left' = left \cup 1..last /\ running' = TRUE /\ task' = 0 /\ shown' = 0
      /\ status' = StatusWhenAsked /\ lost' = lost
  BY DEF Generate, GenerationAssumption, VisitInv, Visit
<1>2. posts = {}
  BY DEF Generate, GenerateOffered, ImageOffers, VideoOffers, MusicOffers, CreationOffers,
         RegenerateOffered, VisitInv, Visit
<1>3. k \in Submits /\ DOMAIN srv = Submits
  BY <1>1 DEF Submits, VisitInv, Accounted
<1>4. Visit'
  BY <1>1, <1>2 DEF Visit, LatestOnly, StatusWhenAsked
<1>5. ASSUME NEW j \in Submits
      PROVE  /\ srv'[j] \in {"none", "asked", "now", "refused"} \cup Made
             /\ srv'[j] # "none" => j <= last'
             /\ srv'[j] \in Made \cup {"asked", "now"} => j \in posts' \cup left' \cup lost'
  <2>1. CASE j = k
    <3>1. srv'[j] = "asked" /\ j \in posts' /\ j <= last'
      BY <1>1, <1>3, <2>1
    <3>2. QED
      BY <3>1
  <2>2. CASE j # k
    <3>1. srv'[j] = srv[j]
      BY <1>1, <1>3, <2>2
    <3>2. srv[j] # "none" => j \in 1..last
      BY <1>1 DEF VisitInv, Accounted, Submits
    <3>3. srv[j] \in {"none", "asked", "now", "refused"} \cup Made
      BY DEF VisitInv, Accounted
    <3>4. QED
      BY <1>1, <3>1, <3>2, <3>3 DEF Made, Submits
  <2>3. QED
    BY <2>1, <2>2
<1>6. Accounted'
  <2>1. \A j \in posts' : srv'[j] # "none"
    BY <1>1, <1>2, <1>3
  <2>2. QED
    BY <1>1, <1>3, <1>5, <2>1 DEF Accounted
<1>7. QED
  BY <1>4, <1>6 DEF VisitInv

LEMMA AnswerKeepsVisit ==
  ASSUME VisitInv, NEW k \in Submits, PostAnswered(k)
  PROVE  VisitInv'
<1>1. /\ k \in posts /\ posts = {k} /\ k = last /\ k # 0 /\ posts' = {}
      /\ task = 0 /\ shown = 0
      /\ UNCHANGED <<last, srv, left, lost>>
  BY DEF PostAnswered, VisitInv, Visit
<1>2. srv[k] \in Made \cup {"now", "refused"}
  BY <1>1 DEF PostAnswered, VisitInv, Accounted
<1>3. CASE srv[k] \in Made
  <2>1. task' = k /\ status' = "polling" /\ shown' = shown
    BY <1>3 DEF PostAnswered, Made
  <2>2. Visit'
    BY <1>1, <2>1 DEF VisitInv, Visit, LatestOnly
  <2>3. ASSUME NEW j \in Submits
        PROVE  /\ srv'[j] \in {"none", "asked", "now", "refused"} \cup Made
               /\ srv'[j] # "none" => j <= last'
               /\ srv'[j] \in Made \cup {"asked", "now"} =>
                    j \in posts' \cup left' \cup lost' \cup ({task', shown'} \ {0})
               /\ srv'[j] = "asked" => j \in posts' \cup left' \cup lost'
    <3>1. CASE j = k
      <4>1. srv'[k] \in {"now"} \cup Made /\ k \in {task', shown'} \ {0}
        BY <1>1, <1>3, <2>1
      <4>2. srv[k] # "none" => k <= last
        BY DEF VisitInv, Accounted
      <4>3. QED
        BY <1>1, <3>1, <4>1, <4>2 DEF Made
    <3>2. CASE j # k
      <4>1. /\ srv[j] \in {"none", "asked", "now", "refused"} \cup Made
            /\ srv[j] # "none" => j <= last
            /\ srv[j] \in Made \cup {"asked", "now"} =>
                 j \in posts \cup left \cup lost \cup ({task, shown} \ {0})
            /\ srv[j] = "asked" => j \in posts \cup left \cup lost
        BY DEF VisitInv, Accounted
      <4>2. QED
        BY <1>1, <3>2, <4>1
    <3>3. QED
      BY <3>1, <3>2
  <2>4. Accounted'
    <3>1. posts' = {} /\ DOMAIN srv' = Submits
      BY <1>1 DEF VisitInv, Accounted
    <3>2. QED
      BY <2>3, <3>1 DEF Accounted
  <2>5. QED
    BY <2>2, <2>4 DEF VisitInv
<1>4. CASE srv[k] = "now"
  <2>1. task' = task /\ status' = "done" /\ shown' = k
    BY <1>4 DEF PostAnswered, Made
  <2>2. Visit'
    BY <1>1, <2>1 DEF VisitInv, Visit, LatestOnly
  <2>3. ASSUME NEW j \in Submits
        PROVE  /\ srv'[j] \in {"none", "asked", "now", "refused"} \cup Made
               /\ srv'[j] # "none" => j <= last'
               /\ srv'[j] \in Made \cup {"asked", "now"} =>
                    j \in posts' \cup left' \cup lost' \cup ({task', shown'} \ {0})
               /\ srv'[j] = "asked" => j \in posts' \cup left' \cup lost'
    <3>1. CASE j = k
      <4>1. srv'[k] \in {"now"} \cup Made /\ k \in {task', shown'} \ {0}
        BY <1>1, <1>4, <2>1
      <4>2. srv[k] # "none" => k <= last
        BY DEF VisitInv, Accounted
      <4>3. QED
        BY <1>1, <3>1, <4>1, <4>2 DEF Made
    <3>2. CASE j # k
      <4>1. /\ srv[j] \in {"none", "asked", "now", "refused"} \cup Made
            /\ srv[j] # "none" => j <= last
            /\ srv[j] \in Made \cup {"asked", "now"} =>
                 j \in posts \cup left \cup lost \cup ({task, shown} \ {0})
            /\ srv[j] = "asked" => j \in posts \cup left \cup lost
        BY DEF VisitInv, Accounted
      <4>2. QED
        BY <1>1, <3>2, <4>1
    <3>3. QED
      BY <3>1, <3>2
  <2>4. Accounted'
    <3>1. posts' = {} /\ DOMAIN srv' = Submits
      BY <1>1 DEF VisitInv, Accounted
    <3>2. QED
      BY <2>3, <3>1 DEF Accounted
  <2>5. QED
    BY <2>2, <2>4 DEF VisitInv
<1>5. CASE srv[k] = "refused"
  <2>1. task' = task /\ status' \in {"idle", "failed"} /\ shown' = shown
    BY <1>5 DEF PostAnswered, Made, StatusWhenRefused
  <2>2. Visit'
    BY <1>1, <2>1 DEF VisitInv, Visit, LatestOnly
  <2>3. Accounted'
    BY <1>1, <1>5, <2>1 DEF VisitInv, Accounted, Made
  <2>4. QED
    BY <2>2, <2>3 DEF VisitInv
<1>6. QED
  BY <1>2, <1>3, <1>4, <1>5

LEMMA LostKeepsVisit ==
  ASSUME VisitInv, NEW k \in Submits, PostLost(k)
  PROVE  VisitInv'
<1>1. /\ posts = {k} /\ posts' = {} /\ lost' = lost \cup {k} /\ task = 0 /\ shown = 0
      /\ status' \in {"idle", "failed"}
      /\ UNCHANGED <<task, shown, last, srv, left>>
  BY DEF PostLost, StatusWhenLost, VisitInv, Visit
<1>2. Visit'
  BY <1>1 DEF VisitInv, Visit, LatestOnly
<1>3. Accounted'
  BY <1>1 DEF VisitInv, Accounted
<1>4. QED
  BY <1>2, <1>3 DEF VisitInv

LEMMA FollowKeepsVisit ==
  ASSUME VisitInv, NEW k \in Submits, StatusAnswered(k)
  PROVE  VisitInv'
<1>1. /\ task = k /\ k = last /\ k # 0 /\ posts = {} /\ shown' = k
      /\ status' \in {"done", "failed"}
      /\ UNCHANGED <<posts, task, last, srv, left, lost>>
  BY DEF StatusAnswered, Current, Polling, ImagePolls, VideoPolls, MusicPolls,
         CreationPolls, VisitInv, Visit, LatestOnly
<1>2. Visit'
  BY <1>1 DEF VisitInv, Visit, LatestOnly
<1>3. Accounted'
  BY <1>1 DEF VisitInv, Visit, LatestOnly, Accounted
<1>4. QED
  BY <1>2, <1>3 DEF VisitInv

LEMMA MoveKeepsVisit ==
  ASSUME VisitInv, Leave \/ \E m \in {"image", "video", mode} : Reset(m)
  PROVE  VisitInv'
<1>1. CASE \E m \in {"image", "video", mode} : Reset(m)
  <2>1. /\ status' = "idle" /\ task' = 0 /\ shown' = 0
        /\ left' = left \cup ({task, shown} \ {0})
        /\ UNCHANGED <<posts, running, lost, last, srv>>
    BY <1>1 DEF Reset, netVars
  <2>2. Visit'
    BY <2>1 DEF VisitInv, Visit, LatestOnly
  <2>3. Accounted'
    BY <2>1 DEF VisitInv, Accounted
  <2>4. QED
    BY <2>2, <2>3 DEF VisitInv
<1>2. CASE Leave
  <2>1. /\ status' = "idle" /\ task' = 0 /\ shown' = 0 /\ posts' = {}
        /\ left' = left \cup 1..last
        /\ UNCHANGED <<lost, last, srv>>
    BY <1>2 DEF Leave
  <2>2. Visit'
    BY <2>1 DEF VisitInv, Visit, LatestOnly
  <2>3. \A k \in Submits : srv[k] # "none" => k \in 1..last
    BY DEF VisitInv, Visit, Accounted, Submits
  <2>4. Accounted'
    BY <2>1, <2>3 DEF VisitInv, Accounted, Made
  <2>5. QED
    BY <2>2, <2>4 DEF VisitInv
<1>3. QED
  BY <1>1, <1>2

-----------------------------------------------------------------------------
(* The server's steps.                                                        *)

LEMMA ServerKeepsVisit ==
  ASSUME VisitInv, NEW k \in Submits, ServerTakes(k) \/ Finish(k)
  PROVE  VisitInv'
<1>1. UNCHANGED <<last, posts, status, running, task, shown, left, lost>>
  BY DEF ServerTakes, Finish, viewVars, netVars
<1>2. PICK becomes \in {"processing", "now", "refused", "done", "failed"} :
        /\ srv' = [srv EXCEPT ![k] = becomes]
        /\ srv[k] \in {"asked", "processing"}
  BY DEF ServerTakes, Finish
<1>3. Visit'
  BY <1>1 DEF VisitInv, Visit, LatestOnly
<1>4. Accounted'
  BY <1>1, <1>2 DEF VisitInv, Accounted, Made
<1>5. QED
  BY <1>3, <1>4 DEF VisitInv

LEMMA StepVisit ==
  ASSUME GenerationAssumption PROVE VisitInv /\ [GenerationNext]_generationVars => VisitInv'
<1> SUFFICES ASSUME VisitInv, [GenerationNext]_generationVars PROVE VisitInv'
  OBVIOUS
<1>1. CASE UNCHANGED generationVars
  BY <1>1 DEF generationVars, viewVars, netVars, VisitInv, Visit, LatestOnly, Accounted
<1>2. ASSUME SwitchTab \/ MakeVideo \/ Reuse
      PROVE  \E m \in {"image", "video", mode} : Reset(m)
  BY <1>2 DEF SwitchTab, MakeVideo, Reuse
<1>3. CASE GenerationNext
  BY <1>2, <1>3, LoadKeepsVisit, GenerateKeepsVisit, AnswerKeepsVisit, LostKeepsVisit,
     FollowKeepsVisit, MoveKeepsVisit, ServerKeepsVisit
  DEF GenerationNext, LoadImagePage, LoadVideoPage, LoadMusicPage, LoadCreationPage
<1>4. QED
  BY <1>1, <1>3

LEMMA VisitHolds == ASSUME GenerationAssumption PROVE GenerationSpec => []VisitInv
<1>1. VisitInv /\ [GenerationNext]_generationVars => VisitInv'
  BY StepVisit
<1>2. GenerationInit => VisitInv
  BY InitVisit
<1>3. QED
  BY <1>1, <1>2, PTL DEF GenerationSpec

\* A visit never has two generations asked for at a time (each is charged),
\* whatever the user resets, switches or regenerates (UserImageGenPage.tsx:247).
THEOREM OnePostAtATime == ASSUME GenerationAssumption PROVE GenerationSpec => []OnePost
<1>1. VisitInv => OnePost
  <2> SUFFICES ASSUME VisitInv PROVE Cardinality(posts) <= 1
    BY DEF OnePost
  <2>1. posts = {} \/ posts = {last}
    BY DEF VisitInv, Visit
  <2>2. Cardinality({}) = 0
    BY FS_EmptySet
  <2>3. Cardinality({last}) = 1
    BY FS_Singleton
  <2>4. CASE posts = {}
    BY <2>2, <2>4
  <2>5. CASE posts = {last}
    BY <2>3, <2>5
  <2>6. QED
    BY <2>1, <2>4, <2>5
<1>2. QED
  BY VisitHolds, <1>1, PTL

\* The page follows and shows the latest generation only, however late the
\* answers about the others arrive (useCreationTask.ts:112).
THEOREM LatestIsFollowed == ASSUME GenerationAssumption PROVE GenerationSpec => []LatestOnly
<1>1. VisitInv => LatestOnly
  BY DEF VisitInv, Visit
<1>2. QED
  BY VisitHolds, <1>1, PTL

\* A generation the server took is followed or shown, unless its answer was lost
\* or the user moved on from it (useCreationTask.ts:43).
THEOREM NoneIsDropped == ASSUME GenerationAssumption PROVE GenerationSpec => []NothingDropped
<1>1. VisitInv => NothingDropped
  BY DEF VisitInv, Accounted, NothingDropped
<1>2. QED
  BY VisitHolds, <1>1, PTL
=============================================================================
