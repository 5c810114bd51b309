------------------------------ MODULE TaskCleanup ------------------------------
(* The cleanup card of the task administration: a preview counts the finished *)
(* rows older than a number of days, and only a confirmed preview may be run. *)
EXTENDS Integers, Sequences, FiniteSetsExt

CONSTANTS
  Tables,     \* tables that can be cleaned: tasks, llm_logs
  Days,       \* what may be typed as days to keep
  MinDays,    \* the server keeps at least so many
  MaxPerRun,  \* rows one run deletes at most
  MaxRuns,    \* bound: runs sent
  MaxRows     \* bound: finished rows of a table

CleanupAssumption ==
  Days \subseteq Nat /\ MinDays \in Nat /\ MaxPerRun \in Nat \ {0} /\ MaxRuns \in Nat /\ MaxRows \in Nat

Idle      == [target |-> "none", days |-> 0]
NoPreview == [target |-> "none", days |-> 0, count |-> 0]

VARIABLES
  aged,     \* per table and days, its finished rows that are older
  target,   \* the card: the table selected,
  days,     \* the days typed,
  estimate, \* the preview shown,
  loading,  \* the preview under way, for the fields as they were,
  dialog,   \* the confirmation: closed, open, confirmed or running
  runs,     \* runs the server got: what for, rows deleted, phase; told is a
            \* history: the latest count the page had been given
  answered  \* history: that count
cardVars == <<target, days, estimate, loading, dialog>>
vars == <<aged, cardVars, runs, answered>>

Fields == [target |-> target, days |-> days]
Counted(f) == [target |-> f.target, days |-> f.days, count |-> aged[f.target][f.days]]

-----------------------------------------------------------------------------
(* The server's rows.                                                         *)

\* A finished row passes an age, which leaves the older ages as they are.
Age(t, d) ==
  /\ aged[t][d] < MaxRows
  /\ \A e \in Days : e < d => aged[t][e] > aged[t][d]
  /\ aged' = [aged EXCEPT ![t][d] = @ + 1]
  /\ UNCHANGED <<cardVars, runs, answered>>

\* Deleting n rows older than d days, the oldest or not.
Deletes(t, d, n) ==
  \E left \in [Days -> 0..MaxRows] :
    /\ \A e \in Days :
         /\ left[e] \in aged[t][e] - n .. aged[t][e]
         /\ e <= d => left[e] = aged[t][e] - n
         /\ \A g \in Days : e < g => left[g] <= left[e]
    /\ aged' = [aged EXCEPT ![t] = left]

-----------------------------------------------------------------------------
(* The card.                                                                  *)

Valid == days >= MinDays

\* Variant: any preview does.
PreviewIsAny == estimate # NoPreview

\* A preview counts for the button as long as it is for these fields.
PreviewIsCurrent == estimate.target = target /\ estimate.days = days

\* The dialog covers the card.  A change of a field drops the preview shown,
\* not the one under way.
ChangeField ==
  /\ dialog = "closed"
  /\ \/ target' \in Tables \ {target} /\ UNCHANGED days
     \/ days' \in Days \ {days} /\ UNCHANGED target
  /\ estimate' = NoPreview
  /\ UNCHANGED <<aged, loading, dialog, runs, answered>>

PreviewCleanup ==
  /\ dialog = "closed" /\ loading = Idle /\ Valid /\ loading' = Fields
  /\ UNCHANGED <<aged, target, days, estimate, dialog, runs, answered>>

PreviewAnswered ==
  /\ loading # Idle /\ loading' = Idle
  /\ estimate' = Counted(loading)
  /\ answered' = estimate'
  /\ UNCHANGED <<aged, target, days, dialog, runs>>

PreviewFails ==
  /\ loading # Idle /\ loading' = Idle /\ estimate' = NoPreview
  /\ UNCHANGED <<aged, target, days, dialog, runs, answered>>

OpenCleanupDialog ==
  /\ dialog = "closed" /\ PreviewIsCurrent /\ loading = Idle /\ estimate.count > 0
  /\ dialog' = "open"
  /\ UNCHANGED <<aged, target, days, estimate, loading, runs, answered>>

CloseDialog ==
  /\ dialog \in {"open", "confirmed"} /\ dialog' = "closed"
  /\ UNCHANGED <<aged, target, days, estimate, loading, runs, answered>>

TypeConfirmation ==
  /\ dialog = "open" /\ dialog' = "confirmed"
  /\ UNCHANGED <<aged, target, days, estimate, loading, runs, answered>>

RunCleanup ==
  /\ dialog = "confirmed" /\ PreviewIsCurrent /\ Len(runs) < MaxRuns
  /\ dialog' = "running"
  /\ runs' = Append(runs, [target |-> target, days |-> days, deleted |-> 0,
                           phase |-> "deleting", told |-> answered])
  /\ UNCHANGED <<aged, target, days, estimate, loading, answered>>

-----------------------------------------------------------------------------
(* The server runs it in batches, by the age of the rows at that moment, and  *)
(* goes on when the page has given up waiting.                                *)

Batch(i) ==
  /\ runs[i].phase = "deleting" /\ runs[i].days >= MinDays
  /\ runs[i].deleted < MaxPerRun /\ aged[runs[i].target][runs[i].days] > 0
  /\ Deletes(runs[i].target, runs[i].days, 1)
  /\ runs' = [runs EXCEPT ![i].deleted = @ + 1]
  /\ UNCHANGED <<cardVars, answered>>

\* The last batch came back short, the run is at its limit, or a batch failed.
RunEnds(i) ==
  /\ runs[i].phase = "deleting"
  /\ \/ /\ runs[i].deleted = MaxPerRun \/ aged[runs[i].target][runs[i].days] = 0
        /\ runs' = [runs EXCEPT ![i].phase = "done"]
     \/ runs' = [runs EXCEPT ![i].phase = "failed"]
  /\ UNCHANGED <<aged, cardVars, answered>>

RunAnswered ==
  /\ dialog = "running" /\ runs[Len(runs)].phase = "done"
  /\ estimate' = Counted(Fields) /\ answered' = estimate' /\ dialog' = "closed"
  /\ UNCHANGED <<aged, target, days, loading, runs>>

\* Refused, or nothing heard for the time the client waits: the dialog stays
\* open over the same preview.
RunFails ==
  /\ dialog = "running" /\ dialog' = "confirmed"
  /\ UNCHANGED <<aged, target, days, estimate, loading, runs, answered>>

-----------------------------------------------------------------------------
Init ==
  /\ aged = [t \in Tables |-> [d \in Days |-> 0]]
  /\ target = "tasks" /\ days = Max(Days) /\ estimate = NoPreview /\ loading = Idle
  /\ dialog = "closed" /\ runs = <<>> /\ answered = NoPreview

Next ==
  \/ \E t \in Tables, d \in Days : Age(t, d)
  \/ ChangeField \/ PreviewCleanup \/ PreviewAnswered \/ PreviewFails
  \/ OpenCleanupDialog \/ CloseDialog \/ TypeConfirmation
  \/ RunCleanup \/ RunAnswered \/ RunFails
  \/ \E i \in DOMAIN runs : Batch(i) \/ RunEnds(i)

Spec == Init /\ [][Next]_vars

-----------------------------------------------------------------------------
\* A cleanup reaches the server only as the admin was told: the latest count the
\* page was given is for the run's type and days and is of some rows, whatever
\* was changed or answered in between (AdminTasksPage.tsx: previewIsCurrent).
CleanupIsPreviewed ==
  \A i \in DOMAIN runs :
    /\ runs[i].told.target = runs[i].target /\ runs[i].told.days = runs[i].days
    /\ runs[i].told.count > 0
=============================================================================
