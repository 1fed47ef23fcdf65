------------------------------ MODULE Session ------------------------------
(***************************************************************************)
(* What the SDK promises an application about its session, without the     *)
(* layers: getRegistered() and the EventListener.  The two are brought up  *)
(* to date one after the other, getRegistered() first, so an application   *)
(* that asks meanwhile is ahead of its own listener; but the listener is   *)
(* told before the session goes on.  Registration implements it.           *)
(***************************************************************************)
VARIABLES registered, \* what getRegistered() returns
          event       \* the last event the listener heard

vars == <<registered, event>>

Init == registered = FALSE /\ event = "start"

(* Outside a session whose beginning and end were told. *)
Outside == ~registered /\ event # "onLogin"

(* Inside one whose beginning was told. *)
Inside == registered /\ event = "onLogin"

LogIn == Outside /\ registered' = TRUE /\ UNCHANGED event

TellLogin ==
  /\ registered /\ event # "onLogin"
  /\ event' = "onLogin"
  /\ UNCHANGED registered

(* A login fails: only outside a session. *)
Fail == Outside /\ event' = "onLoginFailed" /\ UNCHANGED registered

LogOut == Inside /\ registered' = FALSE /\ UNCHANGED event

TellLogout ==
  /\ ~registered /\ event = "onLogin"
  /\ event' = "onLogout"
  /\ UNCHANGED registered

Next == LogIn \/ TellLogin \/ Fail \/ LogOut \/ TellLogout

Spec == Init /\ [][Next]_vars

(* The listener does hear of the beginning and of the end. *)
FairSpec == Spec /\ WF_vars(TellLogin) /\ WF_vars(TellLogout)
=============================================================================
