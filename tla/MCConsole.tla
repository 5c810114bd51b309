----------------------------- MODULE MCConsole ------------------------------
(* Two pages with many dialogs get fewer lists and changes, so that all fit. *)
EXTENDS Console
AllPages == AppliedPages \cup DraftPages \cup WholePages
Large    == {"users", "cards"}
Wide     == {"channels", "upstream"}
Asks     == [p \in Pages |-> IF p \in Large \cup Wide THEN 2 ELSE 3]
Posts    == [p \in Pages |-> IF p \in Large THEN 1 ELSE 2]
Forms    == [p \in Pages |-> IF p \in Large \cup Wide THEN 1 ELSE 2]
=============================================================================
