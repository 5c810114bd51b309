------------------------------ MODULE MCFeatures ------------------------------
(* Features that keep no state in common, side by side: a behaviour takes one *)
(* of them, and the others stay as they began.                                *)
EXTENDS Withdrawals, Cards, GenerationPages, TLC

CONSTANTS
  Channels, Made0, Targets, Markups, DefaultMarkup, Costs, Cost0, Unpriced, PerCall,
  GroupPriced, MaxMoves, MaxAsks,
  SettingFields, SettingPages, Values, MaxUploads,
  Tables, Days, MinDays, MaxPerRun, MaxRuns, MaxRows

VARIABLES
  part,
  row, made, upstream, moves, form, previewOk, syncOk, preview, sync, saving, tick, checked,
  saved, fetching, filled, own, uploads, pending, outcome, dirty,
  aged, target, days, estimate, loading, dialog, runs, answered

F == INSTANCE ChannelForm
S == INSTANCE SettingsForm WITH Fields <- SettingFields, Pages <- SettingPages, srv <- saved
T == INSTANCE TaskCleanup

ASSUME CardsAssumption
ASSUME ChannelsAssumption == F!ChannelFormAssumption
ASSUME SettingsAssumption == S!SettingsAssumption
ASSUME T!CleanupAssumption
ASSUME GenerationAssumption

MCRequests == 1..2
MCAmounts  == {1}

channels == <<row, made, upstream, moves, form, previewOk, syncOk, preview, sync, saving, tick,
              checked>>
settings == <<saved, fetching, filled, own, uploads, pending, outcome, dirty>>
cleanup  == <<aged, target, days, estimate, loading, dialog, runs, answered>>
allVars == <<part, vars, cardsVars, channels, settings, cleanup, generationVars>>

FeaturesInit ==
  /\ part \in {"withdrawals", "cards", "channels", "settings", "cleanup", "generation"}
  /\ Init /\ CardsInit /\ GenerationInit /\ F!Init /\ S!Init /\ T!Init
  /\ part # "generation" => page = "creation"

FeaturesNext ==
  /\ UNCHANGED part
  /\ \/ /\ part = "withdrawals" /\ Next
        /\ UNCHANGED <<cardsVars, channels, settings, cleanup, generationVars>>
     \/ /\ part = "cards" /\ CardsNext
        /\ UNCHANGED <<vars, channels, settings, cleanup, generationVars>>
     \/ /\ part = "channels" /\ F!Next
        /\ UNCHANGED <<vars, cardsVars, settings, cleanup, generationVars>>
     \/ /\ part = "settings" /\ S!Next
        /\ UNCHANGED <<vars, cardsVars, channels, cleanup, generationVars>>
     \/ /\ part = "cleanup" /\ T!Next
        /\ UNCHANGED <<vars, cardsVars, channels, settings, generationVars>>
     \/ /\ part = "generation" /\ GenerationNext
        /\ UNCHANGED <<vars, cardsVars, channels, settings, cleanup>>

FeaturesSpec == FeaturesInit /\ [][FeaturesNext]_allVars

ReviewersAreAlike == Permutations(Reviewers)

-----------------------------------------------------------------------------
(* The properties of the other parts, as their modules state them.            *)

\* A channel follows costs by itself only with a model and a markup that were
\* synced for it (AdminChannelsPage.tsx:664, upstreamReady).
FollowedIsChecked == F!FollowedIsChecked

\* A channel sells at its cost times its markup (admin_upstream_extra.go:1368).
SoldAtMarkup == F!SoldAtMarkup

\* The monitor moves a price with the cost, and not else
\* (admin_upstream_extra.go:1642, syncChannelFromUpstream).
OnlyCostsMovePrices == F!OnlyCostsMovePrices

\* A save that was answered has written what the settings page shows
\* (AdminSettingsPage.tsx:217, save).
SavedAsShown == S!SavedAsShown

\* A cleanup is sent only for what the latest count was for
\* (AdminTasksPage.tsx:197, previewIsCurrent).
CleanupIsPreviewed == T!CleanupIsPreviewed
=============================================================================
