------------------------------- MODULE Sessions ------------------------------
(* The sessions of one browser: a token per role in the local storage that    *)
(* all tabs share, the routes that look at it when they are entered, and the  *)
(* HTTP client that drops it and leaves for the sign-in page when a call is   *)
(* refused.                                                                   *)
EXTENDS Integers, FiniteSets

CONSTANTS
  Roles,      \* of user, admin, vendor and reseller
  Tabs,
  MaxTokens,  \* bounds the sign-ins
  MaxMoves,   \* bounds what users do otherwise
  MaxCalls    \* bounds the calls under way when a page asks again

SessionsAssumption ==
  /\ Roles \subseteq {"user", "admin", "vendor", "reseller"}
  /\ {MaxTokens, MaxMoves, MaxCalls} \subseteq Nat

VARIABLES
  stored,   \* per role, the token in the local storage, 0: none
  issued,   \* tokens the server has issued
  alive,    \* the ones it still accepts
  place,    \* per tab, what it shows
  calls,    \* calls under way, with the token they carry and the verdict
  signins,  \* sign-ins under way
  moves
vars == <<stored, issued, alive, place, calls, signins, moves>>

\* The dashboard and the models of the user console are open to everyone; both
\* load the user's data.
SignInPage(r) == [role |-> r, kind |-> "signin"]
Home(r)       == [role |-> r, kind |-> IF r = "user" THEN "open" ELSE "console"]
Places == {SignInPage(r) : r \in Roles} \cup {Home(r) : r \in Roles}
            \cup {[role |-> r, kind |-> "console"] : r \in Roles}

\* The guards of the routes.
RequireRole(p, tokens) == IF tokens[p.role] = 0 THEN SignInPage(p.role) ELSE p
PublicOnly(p, tokens)  == IF tokens[p.role] # 0 THEN Home(p.role) ELSE p
Landing(p, tokens) ==
  CASE p.kind = "console" -> RequireRole(p, tokens)
    [] p.kind = "signin"  -> PublicOnly(p, tokens)
    [] p.kind = "open"    -> p

\* A page that shows data asks for it as it is entered.
CallsOf(t, p, tokens) ==
  {[tab |-> t, role |-> p.role, token |-> tokens[p.role], verdict |-> "none"] :
     x \in {p.kind} \ {"signin"}}

Enter(t, p, tokens, others) ==
  /\ place' = [place EXCEPT ![t] = p]
  /\ calls' = others \cup CallsOf(t, p, tokens)

\* What a tab has under way ends when it loads another document.
Others(t, S) == {x \in S : x.tab # t}

Move == moves < MaxMoves /\ moves' = moves + 1

\* An address is typed, or the page reloaded.
Open(t) ==
  /\ Move
  /\ \E p \in Places : Enter(t, Landing(p, stored), stored, Others(t, calls))
  /\ signins' = Others(t, signins)
  /\ UNCHANGED <<stored, issued, alive>>

\* A link within the console: the guard of a route that stays entered does not
\* look again.
Follow(t) ==
  /\ Move
  /\ \E p \in Places :
       /\ \/ p.role = place[t].role
          \/ place[t].role = "admin" /\ p = Home("user")
          \/ place[t].role = "user" /\ p = Home("admin") /\ stored["admin"] # 0
       /\ Enter(t, IF p.kind = "console" /\ p = place[t] THEN p ELSE Landing(p, stored),
                stored, calls)
  /\ UNCHANGED <<stored, issued, alive, signins>>

\* Pages ask again: a button, a timer.
AskAgain(t) ==
  /\ Cardinality(calls) < MaxCalls
  /\ Enter(t, place[t], stored, calls)
  /\ UNCHANGED <<stored, issued, alive, signins, moves>>

\* The forms of users, administrators and resellers wait for the answer, the
\* vendors' does not.
SignIn(t, r, waits) ==
  /\ place[t] = SignInPage(r)
  /\ waits => \A s \in signins : s.tab # t
  /\ \E n \in 1..2 : /\ [tab |-> t, role |-> r, no |-> n] \notin signins
                     /\ signins' = signins \cup {[tab |-> t, role |-> r, no |-> n]}
  /\ UNCHANGED <<stored, issued, alive, place, calls, moves>>

UserSignsIn(t)     == SignIn(t, "user", TRUE)
AdminSignsIn(t)    == SignIn(t, "admin", TRUE)
ResellerSignsIn(t) == SignIn(t, "reseller", TRUE)
VendorSignsIn(t)   == SignIn(t, "vendor", FALSE)

\* The token is stored and the tab goes home, wherever it is by now.
SignedIn(s) ==
  /\ issued < MaxTokens /\ issued' = issued + 1
  /\ alive' = alive \cup {issued + 1}
  /\ stored' = [stored EXCEPT ![s.role] = issued + 1]
  /\ Enter(s.tab, Landing(Home(s.role), stored'), stored', calls)
  /\ signins' = signins \ {s}
  /\ UNCHANGED moves

SignInFails(s) ==
  /\ signins' = signins \ {s}
  /\ UNCHANGED <<stored, issued, alive, place, calls, moves>>

SignOut(t) ==
  /\ Move
  /\ place[t].kind = "console" \/ (place[t].kind = "open" /\ stored[place[t].role] # 0)
  /\ stored' = [stored EXCEPT ![place[t].role] = 0]
  /\ Enter(t, Landing(SignInPage(place[t].role), stored'), stored', calls)
  /\ UNCHANGED <<issued, alive, signins>>

\* The server: a token expires; a call is refused for its token (401), or for
\* the user's rights (403); the others are answered.
Expire(k) ==
  /\ k \in alive /\ alive' = alive \ {k}
  /\ UNCHANGED <<stored, issued, place, calls, signins, moves>>

Deny(c) ==
  /\ c.verdict = "none"
  /\ calls' = (calls \ {c}) \cup
       {[c EXCEPT !.verdict = IF c.token \in alive THEN "forbidden" ELSE "refused"]}
  /\ UNCHANGED <<stored, issued, alive, place, signins, moves>>

\* An answer that is not a refusal, or none at all, changes no session.
Answered(c) ==
  /\ calls' = calls \ {c}
  /\ UNCHANGED <<stored, issued, alive, place, signins, moves>>

\* The token of the role is dropped, and the tab loads the sign-in page unless
\* it is there.
Leave(c) ==
  IF place[c.tab] = SignInPage(c.role)
  THEN calls' = calls \ {c} /\ UNCHANGED <<place, signins>>
  ELSE /\ Enter(c.tab, Landing(SignInPage(c.role), stored'), stored', Others(c.tab, calls))
       /\ signins' = Others(c.tab, signins)

\* Variant: whatever is not ok counts as refused.
RefusedOrForbidden(c) ==
  /\ c.verdict \in {"refused", "forbidden"}
  /\ stored' = [stored EXCEPT ![c.role] = 0]
  /\ Leave(c)
  /\ UNCHANGED <<issued, alive, moves>>

\* Variant: the token stays.
RefusedKeepsToken(c) ==
  /\ c.verdict = "refused" /\ UNCHANGED stored
  /\ Leave(c)
  /\ UNCHANGED <<issued, alive, moves>>

Refused(c) ==
  /\ c.verdict = "refused"
  /\ stored' = [stored EXCEPT ![c.role] = 0]
  /\ Leave(c)
  /\ UNCHANGED <<issued, alive, moves>>

-----------------------------------------------------------------------------
Init ==
  /\ stored = [r \in Roles |-> 0] /\ issued = 0 /\ alive = {}
  /\ \E r \in Roles : place = [t \in Tabs |-> SignInPage(r)]
  /\ calls = {} /\ signins = {} /\ moves = 0

Next ==
  \/ \E t \in Tabs : \/ Open(t) \/ Follow(t) \/ AskAgain(t) \/ SignOut(t)
                     \/ UserSignsIn(t) \/ AdminSignsIn(t)
                     \/ ResellerSignsIn(t) \/ VendorSignsIn(t)
  \/ \E s \in signins : SignedIn(s) \/ SignInFails(s)
  \/ \E k \in alive : Expire(k)
  \/ \E c \in calls : Deny(c) \/ Answered(c) \/ Refused(c)

Spec == Init /\ [][Next]_vars

-----------------------------------------------------------------------------
(* Properties.                                                                *)

\* A session ends when its user signs out or the server refuses a call of its
\* role for the token: not when a right is missing, and not with another role's.
SessionsEndForCause ==
  [][\A r \in Roles : stored[r] # 0 /\ stored'[r] = 0 =>
       \/ \E t \in Tabs : SignOut(t) /\ place[t].role = r
       \/ \E c \in calls : c.role = r /\ c.token \notin alive /\ c.verdict = "refused"]_vars

\* The sign-in page and the console do not send a tab to and fro: only so many
\* calls are refused as sign-ins and moves bring about.
BouncesEnd == <>[][\A c \in calls : ~Refused(c)]_vars
=============================================================================
