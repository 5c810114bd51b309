------------------------------- MODULE MCSite -------------------------------
(* Recharging and signing in, which keep no state in common: a behaviour     *)
(* takes one of them.  Recharging has two orders at each of three gateways,  *)
(* signing in has the four roles in two tabs of one browser.                 *)
EXTENDS Recharge

CONSTANTS Roles, Tabs, MaxTokens, MaxMoves, MaxCalls
VARIABLES part, stored, issued, alive, place, calls, signins, moves

S == INSTANCE Sessions

ASSUME SessionsAssumption == S!SessionsAssumption

MCGateways == {"shouqianba", "payApply", "epay"}
MCOrders   == 1..2
MCAmounts  == {2}
MCRoles    == {"user", "admin", "vendor", "reseller"}

sessions == <<stored, issued, alive, place, calls, signins, moves>>

SiteInit ==
  /\ part \in {"recharge", "sessions"}
  /\ Init /\ S!Init
  /\ part # "recharge" => gateway = "epay"
  /\ part # "sessions" => \E t \in Tabs : place[t] = S!SignInPage("user")

SiteNext ==
  /\ UNCHANGED part
  /\ \/ part = "recharge" /\ Next /\ UNCHANGED sessions
     \/ part = "sessions" /\ S!Next /\ UNCHANGED vars

SiteSpec == SiteInit /\ [][SiteNext]_<<part, vars, sessions>> /\ Fairness

-----------------------------------------------------------------------------
(* The properties of the sessions, as their module states them.              *)

\* A session ends when its user signs out or a call is refused for its token
\* (http.ts:33, the client of every role).
SessionsEndForCause == S!SessionsEndForCause

\* The sign-in page and the console do not send a tab to and fro (router.tsx:96).
BouncesEnd == S!BouncesEnd
=============================================================================
