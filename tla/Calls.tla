------------------------------- MODULE Calls -------------------------------
(***************************************************************************)
(* Outgoing and incoming calls, from the Outgoing and Incoming objects of  *)
(* the application, through BackendListener.java and                       *)
(* plivo_app_callback.cpp, down to the call slots of pjsua.                *)
(*                                                                         *)
(* A call is named by its SIP Call-ID; pjsua keeps it in a slot, whose     *)
(* number (pjsuaCallId) a later call takes over.  Two threads run: the     *)
(* application's and the pjsua worker.  pjsip holds the call's dialog lock *)
(* while it reports a state of the call, so one call's callbacks never     *)
(* overlap, and pjsua_call_make_call and the handling of an INVITE exclude *)
(* each other by the pjsua lock; each of these is one step here.  The end  *)
(* of a call is two: the listener hears of it, and then BackendListener    *)
(* puts its books in order, which the pjsua lock does not cover.           *)
(***************************************************************************)
EXTENDS Integers

CONSTANTS OutCalls, InCalls, \* the SIP Call-IDs of outgoing and incoming calls
          Outs,              \* the Outgoing objects
          MaxCalls,          \* number of pjsua call slots (ua_cfg.max_calls)
          FailCodes,         \* the final codes an outgoing INVITE can fail with
          Careful,           \* does the application keep to one call at a time?
          None

Calls == OutCalls \cup InCalls
Objects == Outs \cup InCalls  \* the Incoming object of a call goes by its Call-ID

ASSUME CallsAssumption ==
  /\ OutCalls \cap InCalls = {} /\ Outs \cap Calls = {} /\ None \notin Outs \cup Calls
  /\ MaxCalls \in Nat \ {0} /\ FailCodes \subseteq 300..699 /\ Careful \in BOOLEAN

Slots == 0 .. MaxCalls - 1

VARIABLES
  curOutgoing,                 \* Endpoint.java
  outgoingList, incomingList,  \* BackendListener.java: how often each object is listed
  signallingStats,             \* BackendListener.java: the call it was made for
  callId, pjsuaCallId, active, \* Outgoing.java, IO.java: per object
  objs,    \* history: the objects created and those call() was invoked on
  inv,     \* pjsua: the state of each call
  slot,    \* pjsua: its slot
  cause,   \* pjsua: the status code that will be reported at its end
  leaving, \* pjsua: what has been sent, or is waiting to be, to end it
  next,    \* pjsua: where the search for a free slot starts
  op, obj, \* where the application's thread is, and in which object's method
  ending,  \* per thread: the call whose end BackendListener is working off,
  found,   \* and the Outgoing object it looked up for it
  heard,   \* history: the last event the listener heard of each call
  crashed  \* a NullPointerException left a callback, and the process is gone

java == <<curOutgoing, outgoingList, incomingList, signallingStats>>
objects == <<callId, pjsuaCallId, active, objs>>
pjsua == <<inv, slot, cause, leaving, next>>
thread == <<op, obj>>
workoff == <<ending, found>>
vars == <<java, objects, pjsua, thread, workoff, heard, crashed>>

InvStates == {"null", "calling", "early", "connecting", "confirmed", "disconnected", "over"}
LeavingStates == {"no", "cancel", "pendingBye", "bye"}
Ops == {"idle", "call", "callReturned", "answer", "answerReturned", "reject", "hangup"}
Threads == {"app", "worker"}
Ends == {"Hangup", "Rejected", "Invalid"}
Events == {"none", "begun", "answered"} \cup Ends

ListsOK ==
  /\ curOutgoing \in Outs \cup {None}
  /\ outgoingList \in [Outs -> Nat]
  /\ incomingList \subseteq InCalls
  /\ signallingStats \in Calls \cup {None}

ObjectsOK ==
  /\ callId \in [Outs -> OutCalls \cup {None}]
  /\ pjsuaCallId \in [Objects -> Slots]
  /\ active \in [Objects -> BOOLEAN]
  /\ objs \in [Outs -> {"none", "created", "called"}]

PjsuaOK ==
  /\ inv \in [Calls -> InvStates]
  /\ slot \in [Calls -> Slots]
  /\ cause \in [Calls -> Nat]
  /\ leaving \in [Calls -> LeavingStates]
  /\ next \in 0 .. MaxCalls

ControlOK ==
  /\ op \in Ops /\ obj \in Objects \cup {None}
  /\ ending \in [Threads -> Calls \cup {None}]
  /\ found \in [Threads -> SUBSET Outs]
  /\ heard \in [Calls -> Events]
  /\ crashed \in BOOLEAN

TypeOK == ListsOK /\ ObjectsOK /\ PjsuaOK /\ ControlOK

Init ==
  /\ curOutgoing = None /\ signallingStats = None
  /\ outgoingList = [o \in Outs |-> 0] /\ incomingList = {}
  /\ callId = [o \in Outs |-> None] /\ pjsuaCallId = [x \in Objects |-> 0]
  /\ active = [x \in Objects |-> FALSE] /\ objs = [o \in Outs |-> "none"]
  /\ inv = [c \in Calls |-> "null"] /\ slot = [c \in Calls |-> 0]
  /\ cause = [c \in Calls |-> 0] /\ leaving = [c \in Calls |-> "no"] /\ next = 0
  /\ op = "idle" /\ obj = None /\ ending = [t \in Threads |-> None]
  /\ found = [t \in Threads |-> {}]
  /\ heard = [c \in Calls |-> "none"] /\ crashed = FALSE

-----------------------------------------------------------------------------
(* Helpers.                                                                *)

Live(c) == inv[c] \notin {"null", "over"}
Occupies(c, s) == Live(c) /\ slot[c] = s
Free(s) == \A c \in Calls : ~Occupies(c, s)
Unlocked(c) == \A t \in Threads : ending[t] # c  \* the call's dialog lock is free

(* The slot pjsua gives a new call: the first free one, round-robin. *)
Start == IF next >= MaxCalls THEN 0 ELSE next
Distance(s) == IF s >= Start THEN s - Start ELSE s + MaxCalls - Start
Allocated(s) == Free(s) /\ \A r \in Slots : Free(r) => Distance(s) <= Distance(r)

(* Mutant: only outgoing calls count. *)
isCallAvailableOutgoing == \E o \in Outs : outgoingList[o] > 0

(* Mutant: only incoming calls count. *)
isCallAvailableIncoming == incomingList # {}

isCallAvailable == (\E o \in Outs : outgoingList[o] > 0) \/ incomingList # {}
getOutgoing(c) == {o \in Outs : outgoingList[o] > 0 /\ callId[o] = c}
Listed(c) == c \in incomingList \/ getOutgoing(c) # {}

(* pjsip keeps the greatest of the codes it meets as the cause of the end. *)
Worse(c, code) == IF code > cause[c] THEN code ELSE cause[c]

(* on_call_state, at the end of a call: the event its cause stands for. *)
RejectCodes(c) == IF c \in InCalls THEN {486, 487} ELSE 480..489
EndEvent(c, code) ==
  IF code = 200 THEN "Hangup" ELSE IF code \in RejectCodes(c) THEN "Rejected" ELSE "Invalid"

(* Mutant: no branch of on_call_state is for the codes from 600 on. *)
DisconnectBelow600(t, c, code) ==
  /\ inv' = [inv EXCEPT ![c] = "disconnected"] /\ cause' = [cause EXCEPT ![c] = code]
  /\ ending' = [ending EXCEPT ![t] = c] /\ found' = [found EXCEPT ![t] = getOutgoing(c)]
  /\ heard' = [heard EXCEPT ![c] = IF Listed(c) /\ code < 600 THEN EndEvent(c, code) ELSE @]

(* Thread t reports the end of the call up to the listener's hearing of it. *)
Disconnect(t, c, code) ==
  /\ inv' = [inv EXCEPT ![c] = "disconnected"]
  /\ cause' = [cause EXCEPT ![c] = code]
  /\ ending' = [ending EXCEPT ![t] = c]
  /\ found' = [found EXCEPT ![t] = getOutgoing(c)]
  /\ heard' = [heard EXCEPT ![c] = IF Listed(c) THEN EndEvent(c, code) ELSE @]

(* Mutant: the incoming call stays on its list. *)
DelistOutgoing(c, o) ==
  /\ outgoingList' = [x \in Outs |-> outgoingList[x] - (IF x \in o THEN 1 ELSE 0)]
  /\ UNCHANGED incomingList

(* List.remove, which does nothing to a list the object is not on. *)
Delist(c, o) ==
  /\ outgoingList' = [x \in Outs |-> IF x \in o /\ outgoingList[x] > 0
                                   THEN outgoingList[x] - 1 ELSE outgoingList[x]]
  /\ incomingList' = incomingList \ {c}

(* What is left of the six on...Hangup, Rejected and Invalid handlers after *)
(* the listener returned; then pjsua frees the slot.                        *)
BookEnd(t) ==
  /\ ending[t] # None /\ ~crashed
  /\ LET c == ending[t]
         o == found[t]
     IN /\ active' = [x \in Objects |-> active[x] /\ x # c /\ x \notin o]
        /\ Delist(c, o)
        /\ signallingStats' = IF c \in incomingList \/ o # {} THEN None ELSE signallingStats
        /\ inv' = [inv EXCEPT ![c] = "over"]
        /\ cause' = [cause EXCEPT ![c] = 0] /\ leaving' = [leaving EXCEPT ![c] = "no"]
  /\ ending' = [ending EXCEPT ![t] = None]
  /\ found' = [found EXCEPT ![t] = {}]
  /\ UNCHANGED <<curOutgoing, callId, pjsuaCallId, objs, slot, next, thread, heard, crashed>>

-----------------------------------------------------------------------------
(* The application's thread.  Each method first checks what it needs (a    *)
(* refused call changes nothing and is left out) and then goes native.     *)

At(o) == op = o /\ ending["app"] = None /\ ~crashed
Enter(o, x) == op' = o /\ obj' = x
Leave == op' = "idle" /\ obj' = None

(* Endpoint.createOutgoingCall. *)
CreateOutgoingCall(o) ==
  /\ At("idle") /\ objs[o] = "none"
  /\ objs' = [objs EXCEPT ![o] = "created"]
  /\ curOutgoing' = o
  /\ UNCHANGED <<outgoingList, incomingList, signallingStats, callId, pjsuaCallId, active,
                 pjsua, thread, workoff, heard, crashed>>

(* A careful application calls on the object it created last, once, when   *)
(* every call it has heard of has ended.                                   *)
CallPolicy(o) ==
  Careful => /\ o = curOutgoing /\ objs[o] = "created"
             /\ \A c \in Calls : heard[c] \in Ends \cup {"none"}

(* Outgoing.call and callH, up to plivo.Call. *)
Call(o) ==
  /\ At("idle") /\ objs[o] # "none" /\ CallPolicy(o)
  /\ Enter("call", o)
  /\ objs' = [objs EXCEPT ![o] = "called"]
  /\ UNCHANGED <<java, callId, pjsuaCallId, active, pjsua, workoff, heard, crashed>>

(* Mutant: slots are counted from one. *)
onOutgoingCallCounted(c, s) ==
  /\ pjsuaCallId' = [pjsuaCallId EXCEPT ![curOutgoing] = s + 1]
  /\ callId' = [callId EXCEPT ![curOutgoing] = c]
  /\ outgoingList' = [outgoingList EXCEPT ![curOutgoing] = @ + 1]
  /\ heard' = [heard EXCEPT ![c] = "begun"] /\ signallingStats' = c

(* Mutant: the object does not learn its slot. *)
onOutgoingCallNoSlot(c, s) ==
  /\ callId' = [callId EXCEPT ![curOutgoing] = c]
  /\ outgoingList' = [outgoingList EXCEPT ![curOutgoing] = @ + 1]
  /\ heard' = [heard EXCEPT ![c] = "begun"] /\ signallingStats' = c
  /\ UNCHANGED pjsuaCallId

(* BackendListener.onOutgoingCall: the call goes to the object created last. *)
onOutgoingCall(c, s) ==
  /\ pjsuaCallId' = [pjsuaCallId EXCEPT ![curOutgoing] = s]
  /\ callId' = [callId EXCEPT ![curOutgoing] = c]
  /\ outgoingList' = [outgoingList EXCEPT ![curOutgoing] = @ + 1]
  /\ heard' = [heard EXCEPT ![c] = "begun"]
  /\ signallingStats' = c

(* plivo.Call: the INVITE goes out, or there is no slot, no account, no    *)
(* valid URI, no transport.  It returns 0 all the same.                    *)
MakeCall ==
  /\ At("call")
  /\ op' = "callReturned"
  /\ \/ \E c \in OutCalls, s \in Slots :
          /\ inv[c] = "null" /\ Allocated(s)
          /\ inv' = [inv EXCEPT ![c] = "calling"]
          /\ slot' = [slot EXCEPT ![c] = s]
          /\ next' = Start + 1
          /\ onOutgoingCall(c, s)
     \/ UNCHANGED <<inv, slot, next, pjsuaCallId, callId, outgoingList, heard, signallingStats>>
  /\ UNCHANGED <<curOutgoing, incomingList, active, objs, cause, leaving, obj, workoff,
                 crashed>>

(* Back in Outgoing.call. *)
CallReturns ==
  /\ At("callReturned")
  /\ active' = [active EXCEPT ![obj] = TRUE]
  /\ Leave
  /\ UNCHANGED <<java, callId, pjsuaCallId, objs, pjsua, workoff, heard, crashed>>

(* Incoming.answer and reject, IO.hangup, up to the native call. *)
Enters(m, x) ==
  /\ At("idle")
  /\ Enter(m, x)
  /\ UNCHANGED <<java, objects, pjsua, workoff, heard, crashed>>

Answer(c) == heard[c] # "none" /\ ~active[c] /\ Enters("answer", c)
Reject(c) == heard[c] # "none" /\ ~active[c] /\ Enters("reject", c)
Hangup(x) == active[x] /\ Enters("hangup", x)

(* plivo.Answer: 200 to the call in the slot, if it waits for an answer.   *)
(* The function has no return statement: anything may come back.           *)
NativeAnswer ==
  /\ At("answer") /\ op' = "answerReturned"
  /\ LET Waiting(c) == c \in InCalls /\ Occupies(c, pjsuaCallId[obj]) /\ inv[c] = "early"
     IN \/ \E c \in Calls : /\ Waiting(c) /\ Unlocked(c)
                            /\ inv' = [inv EXCEPT ![c] = "connecting"]
        \/ (\A c \in Calls : ~Waiting(c)) /\ UNCHANGED inv
  /\ UNCHANGED <<java, objects, slot, cause, leaving, next, obj, workoff, heard, crashed>>

AnswerReturns ==
  /\ At("answerReturned")
  /\ \E b \in BOOLEAN : active' = [active EXCEPT ![obj] = b]
  /\ Leave
  /\ UNCHANGED <<java, callId, pjsuaCallId, objs, pjsua, workoff, heard, crashed>>

(* plivo.Reject: 486 to the call in the slot, if it waits for an answer. *)
NativeReject ==
  /\ At("reject") /\ Leave
  /\ LET Waiting(c) == c \in InCalls /\ Occupies(c, pjsuaCallId[obj]) /\ inv[c] = "early"
     IN \/ \E c \in Calls : Waiting(c) /\ Unlocked(c) /\ Disconnect("app", c, Worse(c, 486))
        \/ (\A c \in Calls : ~Waiting(c)) /\ UNCHANGED <<inv, cause, workoff, heard>>
  /\ UNCHANGED <<java, objects, slot, leaving, next, crashed>>

(* plivo.Hangup of the call in the slot, whichever that is by now: decline *)
(* it, cancel it, or say BYE, which before the ACK has to wait.            *)
HangUp(c) ==
  \/ /\ inv[c] = "early" /\ c \in InCalls
     /\ Disconnect("app", c, Worse(c, 603))
     /\ UNCHANGED leaving
  \/ /\ inv[c] \in {"calling", "early"} /\ c \in OutCalls
     /\ cause' = [cause EXCEPT ![c] = Worse(c, 487)]
     /\ leaving' = [leaving EXCEPT ![c] = "cancel"]
     /\ UNCHANGED <<inv, workoff, heard>>
  \/ /\ inv[c] = "connecting"
     /\ cause' = [cause EXCEPT ![c] = Worse(c, 603)]
     /\ leaving' = [leaving EXCEPT ![c] = IF @ = "bye" THEN @ ELSE "pendingBye"]
     /\ UNCHANGED <<inv, workoff, heard>>
  \/ /\ inv[c] = "confirmed"
     /\ cause' = [cause EXCEPT ![c] = Worse(c, 200)]
     /\ leaving' = [leaving EXCEPT ![c] = "bye"]
     /\ UNCHANGED <<inv, workoff, heard>>

NativeHangup ==
  /\ At("hangup") /\ Leave
  /\ \/ \E c \in Calls : Occupies(c, pjsuaCallId[obj]) /\ Unlocked(c) /\ HangUp(c)
     \/ Free(pjsuaCallId[obj]) /\ UNCHANGED <<inv, cause, leaving, workoff, heard>>
  /\ UNCHANGED <<java, objects, slot, next, crashed>>

-----------------------------------------------------------------------------
(* The pjsua worker: what the network does to a call.                      *)

Event(c) == ending["worker"] = None /\ Unlocked(c) /\ ~crashed

(* on_incoming_call and BackendListener.onIncomingCall: 180 is sent, then   *)
(* the call is offered to the application or, if it is not the only one,   *)
(* rejected with 486 on the spot, of which no listener hears.              *)
IncomingCall(c) ==
  /\ Event(c) /\ inv[c] = "null"
  /\ \E s \in Slots :
       /\ Allocated(s)
       /\ slot' = [slot EXCEPT ![c] = s]
       /\ next' = Start + 1
       /\ \/ /\ ~isCallAvailable
             /\ inv' = [inv EXCEPT ![c] = "early"]
             /\ incomingList' = incomingList \cup {c}
             /\ pjsuaCallId' = [pjsuaCallId EXCEPT ![c] = s]
             /\ heard' = [heard EXCEPT ![c] = "begun"]
             /\ signallingStats' = c
          \/ /\ isCallAvailable
             /\ inv' = [inv EXCEPT ![c] = "over"]
             /\ UNCHANGED <<incomingList, pjsuaCallId, heard, signallingStats>>
  /\ UNCHANGED <<curOutgoing, outgoingList, callId, active, objs, cause, leaving, thread,
                 workoff, crashed>>

(* 180 or 183 for an outgoing call: onOutgoingCallRinging. *)
Ringing(c) ==
  /\ Event(c) /\ inv[c] = "calling"
  /\ inv' = [inv EXCEPT ![c] = "early"]
  /\ UNCHANGED <<java, objects, slot, cause, leaving, next, thread, workoff, heard, crashed>>

(* 200 for an outgoing call: onOutgoingCallConnecting, which does without   *)
(* a test for signallingStats, the ACK, onOutgoingCallAnswered; and a BYE   *)
(* if the application hung up in the meantime.                             *)
Accepted(c) ==
  /\ Event(c) /\ inv[c] \in {"calling", "early"}
  /\ inv' = [inv EXCEPT ![c] = "confirmed"]
  /\ leaving' = [leaving EXCEPT ![c] = IF @ = "cancel" THEN "bye" ELSE @]
  /\ IF Listed(c) /\ signallingStats = None
     THEN crashed' = TRUE /\ UNCHANGED heard
     ELSE /\ heard' = [heard EXCEPT ![c] = IF Listed(c) THEN "answered" ELSE @]
          /\ UNCHANGED crashed
  /\ UNCHANGED <<java, objects, slot, cause, next, thread, workoff>>

(* The ACK for an incoming call: onIncomingCallAnswered, which tells only  *)
(* the statistics; and the BYE that was waiting for it.                    *)
Acknowledged(c) ==
  /\ Event(c) /\ inv[c] = "connecting" /\ leaving[c] # "bye"
  /\ inv' = [inv EXCEPT ![c] = "confirmed"]
  /\ leaving' = [leaving EXCEPT ![c] = IF @ = "pendingBye" THEN "bye" ELSE @]
  /\ UNCHANGED <<java, objects, slot, cause, next, thread, workoff, heard, crashed>>

(* No ACK came: pjsip gives up and says BYE. *)
NoAck(c) ==
  /\ Event(c) /\ inv[c] = "connecting" /\ leaving[c] # "bye"
  /\ cause' = [cause EXCEPT ![c] = IF leaving[c] = "pendingBye" THEN 408 ELSE Worse(c, 408)]
  /\ leaving' = [leaving EXCEPT ![c] = "bye"]
  /\ UNCHANGED <<java, objects, inv, slot, next, thread, workoff, heard, crashed>>

(* The ways a call ends, with the code each stands for. *)
Ended(c, code) ==
  /\ Event(c) /\ Disconnect("worker", c, code)
  /\ UNCHANGED <<java, objects, slot, leaving, next, thread, crashed>>

Failed(c) ==  \* an outgoing INVITE is refused, cancelled or times out
  /\ inv[c] \in {"calling", "early"}
  /\ \E code \in FailCodes : Ended(c, Worse(c, code))

Cancelled(c) ==  \* the caller gives up
  inv[c] = "early" /\ Ended(c, Worse(c, 487))

RemoteBye(c) ==
  /\ inv[c] \in {"early", "connecting", "confirmed"}
  /\ Ended(c, IF leaving[c] = "pendingBye" THEN 200 ELSE Worse(c, 200))

ByeAnswered(c) ==  \* or timed out
  leaving[c] = "bye" /\ inv[c] \in {"connecting", "confirmed"} /\ Ended(c, Worse(c, 200))

SessionLost(c) ==  \* a session refresh was not answered
  inv[c] = "confirmed" /\ Ended(c, Worse(c, 408))

-----------------------------------------------------------------------------
User ==
  \/ \E o \in Outs : CreateOutgoingCall(o) \/ Call(o)
  \/ \E c \in InCalls : Answer(c) \/ Reject(c)
  \/ \E x \in Objects : Hangup(x)

Native == MakeCall \/ NativeAnswer \/ NativeReject \/ NativeHangup
Return == CallReturns \/ AnswerReturns
Bookkeeping == \E t \in Threads : BookEnd(t)

Network ==
  \/ \E c \in InCalls : IncomingCall(c) \/ Acknowledged(c) \/ NoAck(c) \/ Cancelled(c)
  \/ \E c \in OutCalls : Ringing(c) \/ Accepted(c) \/ Failed(c)
  \/ \E c \in Calls : RemoteBye(c) \/ ByeAnswered(c) \/ SessionLost(c)

Next == User \/ Native \/ Return \/ Bookkeeping \/ Network

Spec == Init /\ [][Next]_vars

(***************************************************************************)
(* A native call once made goes on and returns, and so does a callback.    *)
(* pjsip ends every transaction, by a timeout of its own if need be: a     *)
(* cancelled INVITE fails or is accepted, a 200 is acknowledged or given   *)
(* up, a BYE is answered or times out.                                     *)
(***************************************************************************)
Settles(c) ==
  \/ c \in OutCalls /\ leaving[c] = "cancel" /\ (Accepted(c) \/ Failed(c))
  \/ c \in InCalls /\ (Acknowledged(c) \/ NoAck(c))
  \/ ByeAnswered(c)

FairSpec ==
  /\ Spec
  /\ WF_vars(Native \/ Return)
  /\ \A t \in Threads : WF_vars(BookEnd(t))
  /\ \A c \in Calls : WF_vars(Settles(c))

-----------------------------------------------------------------------------
(* Properties.                                                             *)

(* The incoming calls the SDK goes by are those pjsua has, no more and no  *)
(* less: none is left ringing that the application never heard of, and     *)
(* none that is gone keeps the endpoint busy.                              *)
IncomingListIsLive == incomingList = {c \in InCalls : Live(c)}

(* "currently allowing only 1 incoming call": never two at once. *)
OneIncoming == \A c, d \in incomingList : c = d

(* Whatever the application does, and whichever object a call is booked    *)
(* under, the events it hears are those of a CallLine: each call begins,   *)
(* is answered and ends once and in this order, and none is offered while  *)
(* the end of another is still to be heard.                                *)
Line == INSTANCE CallLine
IsCallLine == Line!Spec

(* With a careful application every outgoing call pjsua has is listed      *)
(* once, under an object that knows its Call-ID and its slot; so hangup()  *)
(* of a listed call ends that call, and the list is empty again when the   *)
(* calls are gone.                                                         *)
OutgoingListIsLive ==
  /\ \A c \in OutCalls : Live(c) =>
       \E o \in Outs : outgoingList[o] = 1 /\ callId[o] = c /\ pjsuaCallId[o] = slot[c]
  /\ \A o \in Outs : outgoingList[o] > 0 => callId[o] # None /\ Live(callId[o])

(* A call the application hung up ends, and the listener hears of its end. *)
HangupEnds ==
  \A c \in Calls : leaving[c] # "no" /\ heard[c] # "none" ~> heard[c] \in Ends \/ crashed

(* "Call Placed": call() returns true only if there is a call. *)
CallPlacedMeansCall ==
  [][op = "callReturned" /\ op' = "idle" => callId[obj] # None]_vars

(* "Call canceled or timeout from the other side before answering": a call *)
(* reported rejected was not answered before.                              *)
RejectedBeforeAnswering ==
  [][\A c \in OutCalls : heard'[c] = "Rejected" => heard[c] # "answered"]_vars

(* hangup() of an object ends no call but the object's own. *)
CallOf(x) == IF x \in Outs THEN callId[x] ELSE x
HangupEndsOwnCall ==
  [][op = "hangup" /\ op' = "idle" =>
       \A c \in Calls : inv'[c] # inv[c] \/ leaving'[c] # leaving[c] => c = CallOf(obj)]_vars

(* "Holds the outgoing/incoming calls for multiple call handlings": a call *)
(* that is answered finds the statistics its handlers write to.            *)
NeverCrashes == ~crashed
=============================================================================
