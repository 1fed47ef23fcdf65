------------------------------ MODULE CallLine ------------------------------
(***************************************************************************)
(* The calls of an endpoint as its EventListener hears of them: what the   *)
(* SDK promises of the order of the events, whichever thread they come on  *)
(* and whatever becomes of the calls meanwhile.  Calls implements it.      *)
(***************************************************************************)
CONSTANTS OutCalls, InCalls

VARIABLE heard  \* the last event heard of each call

Calls == OutCalls \cup InCalls
Ends == {"Hangup", "Rejected", "Invalid"}
Open(c) == heard[c] \in {"begun", "answered"}

Init == heard = [c \in Calls |-> "none"]

(* onOutgoingCall: whenever the application wants. *)
Place(c) ==
  /\ heard[c] = "none"
  /\ heard' = [heard EXCEPT ![c] = "begun"]

(* onIncomingCall: only to an application that has no call. *)
Offer(c) ==
  /\ heard[c] = "none" /\ \A d \in Calls : ~Open(d)
  /\ heard' = [heard EXCEPT ![c] = "begun"]

(* onOutgoingCallAnswered, once. *)
Answered(c) ==
  /\ heard[c] = "begun"
  /\ heard' = [heard EXCEPT ![c] = "answered"]

(* One of the three ends, once, and nothing after it. *)
End(c) ==
  /\ Open(c)
  /\ \E e \in Ends : heard' = [heard EXCEPT ![c] = e]

Next ==
  \/ \E c \in OutCalls : Place(c) \/ Answered(c)
  \/ \E c \in InCalls : Offer(c)
  \/ \E c \in Calls : End(c)

Spec == Init /\ [][Next]_heard
=============================================================================
