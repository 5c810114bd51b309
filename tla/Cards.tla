-------------------------------- MODULE Cards --------------------------------
(* Redeem codes: an administrator generates a batch, voids or deletes cards;  *)
(* users redeem them.  The handlers read a row and write it later, so that    *)
(* requests for one card overlap.                                             *)
EXTENDS Integers

CONSTANTS
  CardIds,      \* cards, all of one batch (bounds the cards generated)
  MaxRedeemers  \* bounds the redemptions of one card under way at a time

CardsAssumption == MaxRedeemers \in Nat

VARIABLES
  card,        \* per card, its row's status; "none": not generated, or deleted
  gone,        \* cards whose row was deleted
  credited,    \* per card, how often its credits were added to a user
  doubtful,    \* cards whose recharge was committed and its answer lost
  cutOff,      \* cards taken by a redemption that stopped before the recharge
  found,       \* per card, redemptions that saw it unused
  marked,      \* per card, redemptions that took it and have yet to recharge
  voiding,     \* cards whose void request may write: it did not see them used
  deleting,    \* cards whose delete request saw them unused
  listed       \* cards the administrator's page last showed as unused

rowVars   == <<card, gone>>
payoutVars == <<credited, doubtful, cutOff>>
workVars  == <<found, marked, voiding, deleting>>
cardsVars      == <<rowVars, payoutVars, workVars, listed>>

CardsInit ==
  /\ card = [c \in CardIds |-> "none"] /\ gone = {}
  /\ credited = [c \in CardIds |-> 0] /\ doubtful = {} /\ cutOff = {}
  /\ found = [c \in CardIds |-> 0] /\ marked = [c \in CardIds |-> 0]
  /\ voiding = {} /\ deleting = {} /\ listed = {}

Unused == {c \in CardIds : card[c] = "unused"}

-----------------------------------------------------------------------------
(* The administrator's page and its handlers.                                *)

\* One transaction inserts the batch and its cards; the list is loaded again.
GenerateCards(batch) ==
  /\ batch # {} /\ \A c \in batch : card[c] = "none" /\ c \notin gone
  /\ card' = [c \in CardIds |-> IF c \in batch THEN "unused" ELSE card[c]]
  /\ UNCHANGED <<gone, payoutVars, workVars, listed>>

ListCards ==
  /\ listed' = Unused
  /\ UNCHANGED <<rowVars, payoutVars, workVars>>

\* The page offers a card it shows as unused; the handler looks at the row: it
\* is there and not used.
AskVoid(c) ==
  /\ c \in listed /\ c \notin voiding /\ card[c] \in {"unused", "voided"}
  /\ voiding' = voiding \cup {c}
  /\ UNCHANGED <<rowVars, payoutVars, found, marked, deleting, listed>>

\* By its id, whatever it holds by now.
VoidCard(c) ==
  /\ c \in voiding /\ voiding' = voiding \ {c}
  /\ card' = [card EXCEPT ![c] = IF c \in gone THEN @ ELSE "voided"]
  /\ UNCHANGED <<gone, payoutVars, found, marked, deleting, listed>>

\* One statement, with the condition on the status.
VoidCardBatch ==
  /\ Unused # {}
  /\ card' = [c \in CardIds |-> IF c \in Unused THEN "voided" ELSE card[c]]
  /\ UNCHANGED <<gone, payoutVars, workVars, listed>>

AskDelete(c) ==
  /\ c \in listed /\ c \notin deleting /\ card[c] = "unused"
  /\ deleting' = deleting \cup {c}
  /\ UNCHANGED <<rowVars, payoutVars, found, marked, voiding, listed>>

DeleteCard(c) ==
  /\ c \in deleting /\ deleting' = deleting \ {c}
  /\ card' = [card EXCEPT ![c] = "none"] /\ gone' = gone \cup {c}
  /\ UNCHANGED <<payoutVars, found, marked, voiding, listed>>

-----------------------------------------------------------------------------
(* A user's redemption: the page sends the code, the handler looks it up.     *)

Redeem(c) ==
  /\ card[c] = "unused" /\ found[c] + marked[c] < MaxRedeemers
  /\ found' = [found EXCEPT ![c] = @ + 1]
  /\ UNCHANGED <<rowVars, payoutVars, marked, voiding, deleting, listed>>

Taken(c) ==
  /\ found[c] > 0 /\ found' = [found EXCEPT ![c] = @ - 1]
  /\ card' = [card EXCEPT ![c] = "used"] /\ marked' = [marked EXCEPT ![c] = @ + 1]
  /\ UNCHANGED <<gone, payoutVars, voiding, deleting, listed>>

\* Variant: the write does not look at the status.
TakeAny(c) == c \notin gone /\ Taken(c)

\* UPDATE ... WHERE id = ? AND status = 'unused'.
Take(c) == card[c] = "unused" /\ Taken(c)

\* No row was updated, or the statement failed.
TakeFails(c) ==
  /\ found[c] > 0 /\ found' = [found EXCEPT ![c] = @ - 1]
  /\ UNCHANGED <<rowVars, payoutVars, marked, voiding, deleting, listed>>

Recharges(c) ==
  /\ marked[c] > 0 /\ marked' = [marked EXCEPT ![c] = @ - 1]
  /\ UNCHANGED <<gone, cutOff, found, voiding, deleting, listed>>

Recharged(c) ==
  /\ Recharges(c) /\ credited' = [credited EXCEPT ![c] = @ + 1]
  /\ UNCHANGED <<card, doubtful>>

\* Variants: the card stays used; the card is made unused whatever it is.
RestoredNever(c)  == card
RestoredAlways(c) == [card EXCEPT ![c] = "unused"]

\* UPDATE ... WHERE status = 'used' AND used_by = ?.
Restored(c) == [card EXCEPT ![c] = IF @ = "used" THEN "unused" ELSE @]

RechargeFails(c) ==
  /\ Recharges(c) /\ card' = Restored(c)
  /\ UNCHANGED <<credited, doubtful>>

\* The recharge was committed, and reported as failed (once per card).
RechargeAnswerLost(c) ==
  /\ c \notin doubtful /\ doubtful' = doubtful \cup {c}
  /\ Recharges(c) /\ card' = Restored(c)
  /\ credited' = [credited EXCEPT ![c] = @ + 1]

\* Every request is cut off where it is.
ServerStops ==
  /\ cutOff' = cutOff \cup {c \in CardIds : marked[c] > 0}
  /\ found' = [c \in CardIds |-> 0] /\ marked' = [c \in CardIds |-> 0]
  /\ voiding' = {} /\ deleting' = {}
  /\ UNCHANGED <<rowVars, credited, doubtful, listed>>

-----------------------------------------------------------------------------
CardsNext ==
  \/ \E batch \in SUBSET CardIds : GenerateCards(batch)
  \/ ListCards \/ VoidCardBatch \/ ServerStops
  \/ \E c \in CardIds :
       \/ AskVoid(c) \/ VoidCard(c) \/ AskDelete(c) \/ DeleteCard(c)
       \/ Redeem(c) \/ Take(c) \/ TakeFails(c)
       \/ Recharged(c) \/ RechargeFails(c) \/ RechargeAnswerLost(c)

CardsSpec == CardsInit /\ [][CardsNext]_cardsVars

-----------------------------------------------------------------------------
(* Properties.                                                               *)

\* A card's credits are added once, whoever redeems it, voids it or deletes it
\* at the same time; a recharge whose answer is lost may give them once more.
RedeemedOnce ==
  \A c \in CardIds : credited[c] + marked[c] <= IF c \in doubtful THEN 2 ELSE 1

\* A card that is marked used was paid out, is being paid out, or its
\* redemption was cut off between the two.
UsedIsPaidOut ==
  \A c \in CardIds :
    card[c] = "used" => credited[c] + marked[c] > 0 \/ c \in cutOff

\* A card that was voided or deleted stays so, however late a redemption fails.
VoidedForGood ==
  [][\A c \in CardIds :
       /\ card[c] = "voided" => card'[c] \in {"voided", "none"}
       /\ c \in gone => card'[c] = "none"]_cardsVars
=============================================================================
