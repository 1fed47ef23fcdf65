---------------------------- MODULE CallsProofs ----------------------------
(***************************************************************************)
(* What is proved of Calls for every set of calls and objects, every       *)
(* number of slots and every application, careful or not.                  *)
(***************************************************************************)
EXTENDS Calls, TLAPS

(* The code pjsip would report is a number whichever it keeps. *)
LEMMA WorseType ==
  ASSUME PjsuaOK, NEW c \in Calls, NEW code \in Nat
  PROVE  Worse(c, code) \in Nat
BY DEF PjsuaOK, Worse

(* The slot search starts at a slot. *)
LEMMA StartType ==
  ASSUME PjsuaOK
  PROVE  Start \in Slots /\ Start + 1 \in 0 .. MaxCalls
BY CallsAssumption DEF PjsuaOK, Start, Slots

(* The end of a call, by either thread, leaves the types of what it sets. *)
LEMMA DisconnectType ==
  ASSUME TypeOK, NEW t \in Threads, NEW c \in Calls, NEW code \in Nat, Disconnect(t, c, code)
  PROVE  /\ inv' \in [Calls -> InvStates] /\ cause' \in [Calls -> Nat]
         /\ ending' \in [Threads -> Calls \cup {None}]
         /\ found' \in [Threads -> SUBSET Outs]
         /\ heard' \in [Calls -> Events]
<1>1. getOutgoing(c) \in SUBSET Outs
  BY DEF getOutgoing
<1>2. EndEvent(c, code) \in Events
  BY DEF EndEvent, Events, Ends
<1> HIDE DEF getOutgoing, EndEvent
<1>3. QED
  BY <1>1, <1>2 DEF TypeOK, PjsuaOK, ControlOK, Disconnect, InvStates

(* The calls the worker ends, with the code of each way to end. *)
LEMMA EndedSteps ==
  ASSUME TypeOK, NEW c \in Calls,
         Failed(c) \/ Cancelled(c) \/ RemoteBye(c) \/ ByeAnswered(c) \/ SessionLost(c)
  PROVE  /\ inv[c] \notin {"null", "disconnected", "over"}
         /\ \E code \in Nat : Ended(c, code)
<1> USE WorseType DEF TypeOK
<1>1. CASE Failed(c)
  BY <1>1, CallsAssumption DEF Failed
<1>2. CASE Cancelled(c)
  BY <1>2 DEF Cancelled
<1>3. CASE RemoteBye(c)
  BY <1>3 DEF RemoteBye
<1>4. CASE ByeAnswered(c)
  BY <1>4 DEF ByeAnswered
<1>5. CASE SessionLost(c)
  BY <1>5 DEF SessionLost
<1>6. QED
  BY <1>1, <1>2, <1>3, <1>4, <1>5

(* A step of the worker on the network's behalf, sorted by what it does. *)
LEMMA NetworkSteps ==
  ASSUME TypeOK, Network
  PROVE  \/ \E c \in InCalls : IncomingCall(c) \/ Acknowledged(c) \/ NoAck(c)
         \/ \E c \in OutCalls : Ringing(c) \/ Accepted(c)
         \/ \E c \in Calls, code \in Nat :
              Ended(c, code) /\ inv[c] \notin {"null", "disconnected", "over"}
BY EndedSteps DEF Network, Calls

-----------------------------------------------------------------------------
(* Type correctness: no step takes a list, a slot, a cause or an object's  *)
(* fields out of its set of values.                                        *)
THEOREM TypeCorrect == Spec => []TypeOK
<1> USE DEF java, objects, pjsua, thread, workoff
<1>1. Init => TypeOK
  <2>1. 0 \in Slots /\ 0 \in 0 .. MaxCalls
    BY CallsAssumption DEF Slots
  <2>2. Init => ListsOK
    BY DEF Init, ListsOK
  <2>3. Init => ObjectsOK
    BY <2>1 DEF Init, ObjectsOK
  <2>4. Init => PjsuaOK
    BY <2>1 DEF Init, PjsuaOK, InvStates, LeavingStates
  <2>5. ASSUME Init PROVE ControlOK
    <3>1. op \in Ops /\ obj \in Objects \cup {None} /\ crashed \in BOOLEAN
      BY <2>5 DEF Init, Ops
    <3>2. /\ ending \in [Threads -> Calls \cup {None}]
          /\ found \in [Threads -> SUBSET Outs]
      BY <2>5 DEF Init
    <3>3. heard \in [Calls -> Events]
      BY <2>5 DEF Init, Events
    <3>4. QED
      BY <3>1, <3>2, <3>3 DEF ControlOK
  <2>6. QED
    BY <2>2, <2>3, <2>4, <2>5 DEF TypeOK
<1>2. ASSUME TypeOK, [Next]_vars PROVE ListsOK'
  <2> USE <1>2 DEF TypeOK, ListsOK
  <2>1. CASE User
    BY <2>1 DEF User, CreateOutgoingCall, Call, Answer, Reject, Hangup, Enters
  <2>2. CASE Native
    <3>1. CASE MakeCall
      BY <3>1 DEF MakeCall, onOutgoingCall, Calls
    <3>2. CASE NativeAnswer
      BY <3>2 DEF NativeAnswer
    <3>3. CASE NativeReject
      BY <3>3 DEF NativeReject
    <3>4. CASE NativeHangup
      BY <3>4 DEF NativeHangup
    <3>5. QED
      BY <2>2, <3>1, <3>2, <3>3, <3>4 DEF Native
  <2>3. CASE Return
    BY <2>3 DEF Return, CallReturns, AnswerReturns
  <2>4. CASE Bookkeeping
    BY <2>4 DEF Bookkeeping, BookEnd, Delist
  <2>5. CASE Network
    BY <2>5, NetworkSteps DEF IncomingCall, Acknowledged, NoAck, Ringing, Accepted, Ended, Calls
  <2>6. CASE UNCHANGED vars
    BY <2>6 DEF vars
  <2>7. QED
    BY <2>1, <2>2, <2>3, <2>4, <2>5, <2>6 DEF Next
<1>3. ASSUME TypeOK, [Next]_vars PROVE ObjectsOK'
  <2> USE <1>3 DEF TypeOK, ObjectsOK
  <2>1. CASE User
    BY <2>1 DEF User, CreateOutgoingCall, Call, Answer, Reject, Hangup, Enters
  <2>2. CASE Native
    BY <2>2 DEF Native, MakeCall, onOutgoingCall, NativeAnswer, NativeReject, NativeHangup
  <2>3. CASE Return
    BY <2>3 DEF Return, CallReturns, AnswerReturns
  <2>4. CASE Bookkeeping
    BY <2>4 DEF Bookkeeping, BookEnd, Delist
  <2>5. CASE Network
    <3>1. ASSUME NEW c \in InCalls, IncomingCall(c) PROVE ObjectsOK'
      BY <3>1 DEF IncomingCall
    <3>2. ASSUME NEW c \in InCalls, Acknowledged(c) \/ NoAck(c) PROVE ObjectsOK'
      BY <3>2 DEF Acknowledged, NoAck
    <3>3. ASSUME NEW c \in OutCalls, Ringing(c) \/ Accepted(c) PROVE ObjectsOK'
      BY <3>3 DEF Ringing, Accepted
    <3>4. ASSUME NEW c \in Calls, NEW code \in Nat, Ended(c, code) PROVE ObjectsOK'
      BY <3>4 DEF Ended
    <3>5. QED
      BY <2>5, <3>1, <3>2, <3>3, <3>4, NetworkSteps DEF Calls
  <2>6. CASE UNCHANGED vars
    BY <2>6 DEF vars
  <2>7. QED
    BY <2>1, <2>2, <2>3, <2>4, <2>5, <2>6 DEF Next
<1>4. ASSUME TypeOK, [Next]_vars PROVE PjsuaOK'
  <2> USE <1>4 DEF TypeOK
  <2>1. CASE User
    BY <2>1 DEF User, CreateOutgoingCall, Call, Answer, Reject, Hangup, Enters, PjsuaOK
  <2>2. CASE MakeCall
    BY <2>2, StartType DEF MakeCall, PjsuaOK, InvStates
  <2>3. CASE NativeAnswer
    BY <2>3 DEF NativeAnswer, PjsuaOK, InvStates
  <2>4. CASE NativeReject
    <3>1. ASSUME NEW c \in Calls, Disconnect("app", c, Worse(c, 486)) PROVE PjsuaOK'
      BY <2>4, <3>1, WorseType, DisconnectType DEF NativeReject, PjsuaOK, Threads
    <3>2. QED
      BY <2>4, <3>1 DEF NativeReject, PjsuaOK
  <2>5. CASE NativeHangup
    <3>1. ASSUME NEW c \in Calls, HangUp(c) PROVE PjsuaOK'
      <4>1. Worse(c, 603) \in Nat /\ Worse(c, 487) \in Nat /\ Worse(c, 200) \in Nat
        BY WorseType
      <4>2. CASE Disconnect("app", c, Worse(c, 603)) /\ UNCHANGED leaving
        BY <2>5, <4>1, <4>2, DisconnectType DEF NativeHangup, PjsuaOK, Threads
      <4>3. CASE /\ inv' = inv
                 /\ \E code \in Nat : cause' = [cause EXCEPT ![c] = code]
                 /\ \E l \in LeavingStates : leaving' = [leaving EXCEPT ![c] = l]
        BY <2>5, <4>3 DEF NativeHangup, PjsuaOK
      <4>4. leaving[c] \in LeavingStates
        BY DEF PjsuaOK
      <4>5. QED
        BY <3>1, <4>1, <4>2, <4>3, <4>4 DEF HangUp, LeavingStates
    <3>2. QED
      BY <2>5, <3>1 DEF NativeHangup, PjsuaOK
  <2>6. CASE Return
    BY <2>6 DEF Return, CallReturns, AnswerReturns, PjsuaOK
  <2>7. CASE Bookkeeping
    <3>1. PICK t \in Threads : BookEnd(t)
      BY <2>7 DEF Bookkeeping
    <3>2. /\ inv' = [inv EXCEPT ![ending[t]] = "over"]
          /\ cause' = [cause EXCEPT ![ending[t]] = 0]
          /\ leaving' = [leaving EXCEPT ![ending[t]] = "no"]
          /\ UNCHANGED <<slot, next>>
      BY <3>1 DEF BookEnd, Delist
    <3>3. QED
      BY <3>2 DEF PjsuaOK, InvStates, LeavingStates
  <2>8. CASE Network
    <3>1. ASSUME NEW c \in InCalls, IncomingCall(c) PROVE PjsuaOK'
      <4>1. PICK s \in Slots : slot' = [slot EXCEPT ![c] = s]
        BY <3>1 DEF IncomingCall
      <4>2. inv' = [inv EXCEPT ![c] = "early"] \/ inv' = [inv EXCEPT ![c] = "over"]
        BY <3>1 DEF IncomingCall
      <4>3. next' = Start + 1 /\ UNCHANGED <<cause, leaving>>
        BY <3>1 DEF IncomingCall
      <4>4. QED
        BY <4>1, <4>2, <4>3, StartType DEF PjsuaOK, InvStates
    <3>2. ASSUME NEW c \in Calls, Acknowledged(c) \/ Ringing(c) \/ Accepted(c) PROVE PjsuaOK'
      BY <3>2 DEF Acknowledged, Ringing, Accepted, PjsuaOK, InvStates, LeavingStates
    <3>3. ASSUME NEW c \in Calls, NoAck(c) PROVE PjsuaOK'
      BY <3>3, WorseType DEF NoAck, PjsuaOK, LeavingStates
    <3>4. ASSUME NEW c \in Calls, NEW code \in Nat, Ended(c, code) PROVE PjsuaOK'
      BY <3>4, DisconnectType DEF Ended, PjsuaOK, Threads
    <3>5. QED
      BY <2>8, <3>1, <3>2, <3>3, <3>4, NetworkSteps DEF Calls
  <2>9. CASE UNCHANGED vars
    BY <2>9 DEF vars, PjsuaOK
  <2>10. QED
    BY <2>1, <2>2, <2>3, <2>4, <2>5, <2>6, <2>7, <2>8, <2>9 DEF Next, Native
<1>5. ASSUME TypeOK, [Next]_vars PROVE ControlOK'
  <2> USE <1>5 DEF TypeOK
  <2>1. CASE User
    BY <2>1 DEF User, CreateOutgoingCall, Call, Answer, Reject, Hangup, Enters, Enter, ControlOK,
                Ops, Objects
  <2>2. CASE MakeCall
    BY <2>2 DEF MakeCall, onOutgoingCall, ControlOK, Ops, Events
  <2>3. CASE NativeAnswer
    BY <2>3 DEF NativeAnswer, ControlOK, Ops
  <2>4. CASE NativeReject
    <3>1. ASSUME NEW c \in Calls, Disconnect("app", c, Worse(c, 486)) PROVE ControlOK'
      BY <2>4, <3>1, WorseType, DisconnectType DEF NativeReject, Leave, ControlOK, Threads, Ops
    <3>2. QED
      BY <2>4, <3>1 DEF NativeReject, Leave, ControlOK, Ops
  <2>5. CASE NativeHangup
    <3>1. ASSUME NEW c \in Calls, Disconnect("app", c, Worse(c, 603)) PROVE ControlOK'
      BY <2>5, <3>1, WorseType, DisconnectType DEF NativeHangup, Leave, ControlOK, Threads, Ops
    <3>2. CASE UNCHANGED <<workoff, heard>>
      BY <2>5, <3>2 DEF NativeHangup, Leave, ControlOK, Ops
    <3>3. QED
      BY <2>5, <3>1, <3>2 DEF NativeHangup, HangUp
  <2>6. CASE Return
    BY <2>6 DEF Return, CallReturns, AnswerReturns, Leave, ControlOK, Ops
  <2>7. CASE Bookkeeping
    BY <2>7 DEF Bookkeeping, BookEnd, Delist, ControlOK
  <2>8. CASE Network
    <3>1. ASSUME NEW c \in Calls, NEW code \in Nat, Ended(c, code) PROVE ControlOK'
      BY <3>1, DisconnectType DEF Ended, ControlOK, Threads
    <3>2. ASSUME NEW c \in Calls, IncomingCall(c) \/ Acknowledged(c) \/ NoAck(c) \/ Ringing(c)
          PROVE  ControlOK'
      BY <3>2 DEF IncomingCall, Acknowledged, NoAck, Ringing, ControlOK, Events
    <3>3. ASSUME NEW c \in Calls, Accepted(c) PROVE ControlOK'
      BY <3>3 DEF Accepted, ControlOK, Events
    <3>4. QED
      BY <2>8, <3>1, <3>2, <3>3, NetworkSteps DEF Calls
  <2>9. CASE UNCHANGED vars
    BY <2>9 DEF vars, ControlOK
  <2>10. QED
    BY <2>1, <2>2, <2>3, <2>4, <2>5, <2>6, <2>7, <2>8, <2>9 DEF Next, Native
<1>6. TypeOK /\ [Next]_vars => TypeOK'
  BY <1>2, <1>3, <1>4, <1>5 DEF TypeOK
<1>7. QED
  BY <1>1, <1>6, PTL DEF Spec

-----------------------------------------------------------------------------
(* The bookkeeping of incoming calls: the list is exactly what pjsua has,  *)
(* and never more than one call.  Inductive beside TypeOK: a call enters   *)
(* the list only when isCallAvailable found it empty, a refused one is     *)
(* over at once, the network ends only calls that are live, and only       *)
(* BookEnd ends the life of a call, which takes it off the list.           *)
THEOREM IncomingCorrect == Spec => [](IncomingListIsLive /\ OneIncoming)
<1> DEFINE Inv == IncomingListIsLive /\ OneIncoming
<1> USE DEF java, objects, pjsua, thread, workoff
<1>1. Init => Inv
  BY DEF Init, IncomingListIsLive, OneIncoming, Live, Calls
<1>2. ASSUME TypeOK, TypeOK', Inv, [Next]_vars PROVE Inv'
  <2> USE <1>2
  <2>1. ASSUME UNCHANGED incomingList,
               \A c \in InCalls : Live(c) = Live(c)'
        PROVE  Inv'
    BY <2>1 DEF IncomingListIsLive, OneIncoming
  <2>2. ASSUME UNCHANGED <<incomingList, inv>> PROVE Inv'
    BY <2>1, <2>2 DEF Live
  <2>3. ASSUME NEW c \in Calls, Live(c), UNCHANGED incomingList,
               NEW i \in InvStates \ {"null", "over"}, inv' = [inv EXCEPT ![c] = i]
        PROVE  Inv'
    BY <2>1, <2>3 DEF Live, TypeOK, PjsuaOK, Calls
  <2>4. CASE User \/ Return \/ UNCHANGED vars
    BY <2>2, <2>4 DEF User, CreateOutgoingCall, Call, Answer, Reject, Hangup, Enters, Return,
                      CallReturns, AnswerReturns, vars
  <2>5. CASE MakeCall
    <3>1. CASE inv' = inv
      BY <2>2, <2>5, <3>1 DEF MakeCall
    <3>2. ASSUME NEW c \in OutCalls, inv' = [inv EXCEPT ![c] = "calling"] PROVE Inv'
      BY <2>1, <2>5, <3>2, CallsAssumption DEF MakeCall, Live, TypeOK, PjsuaOK, Calls
    <3>3. QED
      BY <2>5, <3>1, <3>2 DEF MakeCall
  <2>6. CASE NativeAnswer
    <3>1. ASSUME NEW c \in Calls, inv[c] = "early", inv' = [inv EXCEPT ![c] = "connecting"]
          PROVE  Inv'
      BY <2>3, <2>6, <3>1 DEF NativeAnswer, InvStates, Live
    <3>2. QED
      BY <2>2, <2>6, <3>1 DEF NativeAnswer
  <2>7. ASSUME NEW t \in Threads, NEW c \in Calls, NEW code \in Nat, Disconnect(t, c, code),
               Live(c), UNCHANGED incomingList
        PROVE  Inv'
    BY <2>3, <2>7 DEF Disconnect, InvStates
  <2>8. CASE NativeReject
    <3>1. ASSUME NEW c \in Calls, inv[c] = "early", Disconnect("app", c, Worse(c, 486))
          PROVE  Inv'
      BY <2>7, <2>8, <3>1, WorseType DEF NativeReject, Live, TypeOK, Threads
    <3>2. QED
      BY <2>2, <2>8, <3>1 DEF NativeReject
  <2>9. CASE NativeHangup
    <3>1. ASSUME NEW c \in Calls, inv[c] = "early", Disconnect("app", c, Worse(c, 603))
          PROVE  Inv'
      BY <2>7, <2>9, <3>1, WorseType DEF NativeHangup, Live, TypeOK, Threads
    <3>2. QED
      BY <2>2, <2>9, <3>1 DEF NativeHangup, HangUp
  <2>10. CASE Bookkeeping
    <3>1. PICK t \in Threads : BookEnd(t)
      BY <2>10 DEF Bookkeeping
    <3>2. /\ ending[t] \in Calls
          /\ inv' = [inv EXCEPT ![ending[t]] = "over"]
          /\ incomingList' = incomingList \ {ending[t]}
      BY <3>1 DEF BookEnd, Delist, TypeOK, ControlOK
    <3>3. QED
      BY <3>2 DEF IncomingListIsLive, OneIncoming, Live, TypeOK, PjsuaOK, Calls
  <2>11. CASE Network
    <3>1. ASSUME NEW c \in InCalls, IncomingCall(c) PROVE Inv'
      <4>1. CASE isCallAvailable
        BY <2>1, <3>1, <4>1 DEF IncomingCall, Live, TypeOK, PjsuaOK, Calls
      <4>2. CASE ~isCallAvailable
        <5>1. incomingList = {} /\ incomingList' = {c} /\ inv' = [inv EXCEPT ![c] = "early"]
          BY <3>1, <4>2 DEF IncomingCall, isCallAvailable
        <5>2. QED
          BY <5>1 DEF IncomingListIsLive, OneIncoming, Live, TypeOK, PjsuaOK, Calls
      <4>3. QED
        BY <4>1, <4>2
    <3>2. ASSUME NEW c \in Calls, Acknowledged(c) \/ Ringing(c) \/ Accepted(c) PROVE Inv'
      BY <2>3, <3>2 DEF Acknowledged, Ringing, Accepted, InvStates, Live
    <3>3. ASSUME NEW c \in Calls, NoAck(c) PROVE Inv'
      BY <2>2, <3>3 DEF NoAck
    <3>4. ASSUME NEW c \in Calls, NEW code \in Nat, Ended(c, code),
                 inv[c] \notin {"null", "disconnected", "over"}
          PROVE  Inv'
      BY <2>7, <3>4 DEF Ended, Live, Threads
    <3>5. QED
      BY <2>11, <3>1, <3>2, <3>3, <3>4, NetworkSteps DEF Calls
  <2>12. QED
    BY <2>4, <2>5, <2>6, <2>8, <2>9, <2>10, <2>11 DEF Next, Native
<1>3. QED
  BY <1>1, <1>2, TypeCorrect, PTL DEF Spec

(* Of these: however calls arrive and end, never two are offered at once.  *)
COROLLARY OneIncomingCorrect == Spec => []OneIncoming
BY IncomingCorrect, PTL

-----------------------------------------------------------------------------
(* The steps of Calls, sorted by what they do to the books.                *)

(* Nothing is booked: calls only go on, or are refused. *)
GoesOn(c) ==
  \/ inv'[c] = inv[c]
  \/ c \in OutCalls /\ inv[c] = "calling" /\ inv'[c] = "early"
  \/ c \in InCalls /\ inv[c] \in {"early", "connecting"} /\ inv'[c] \in {"connecting", "confirmed"}
  \/ c \in InCalls /\ inv[c] = "null" /\ inv'[c] = "over"
Still ==
  /\ UNCHANGED <<outgoingList, incomingList, callId, ending, found, heard>>
  /\ \A o \in Outs : pjsuaCallId'[o] = pjsuaCallId[o]
  /\ \A c \in OutCalls : slot'[c] = slot[c]
  /\ \A c \in Calls : GoesOn(c)

(* A call of the application's. *)
Placed(c, s) ==
  /\ At("call") /\ inv[c] = "null" /\ inv' = [inv EXCEPT ![c] = "calling"]
  /\ slot' = [slot EXCEPT ![c] = s] /\ onOutgoingCall(c, s)
  /\ UNCHANGED <<incomingList, curOutgoing, ending, found>>

(* A call offered to the application. *)
Offered(c) ==
  /\ inv[c] = "null" /\ ~isCallAvailable /\ inv' = [inv EXCEPT ![c] = "early"]
  /\ incomingList' = incomingList \cup {c} /\ heard' = [heard EXCEPT ![c] = "begun"]
  /\ \A o \in Outs : pjsuaCallId'[o] = pjsuaCallId[o]
  /\ \A d \in OutCalls : slot'[d] = slot[d]
  /\ UNCHANGED <<outgoingList, callId, ending, found>>

(* The end of a call, by either thread. *)
Underway == {"calling", "early", "connecting", "confirmed"}
Dropped(t, c, code) ==
  /\ Disconnect(t, c, code) /\ inv[c] \in Underway
  /\ ending[t] = None /\ \A u \in Threads : ending[u] # c
  /\ UNCHANGED <<outgoingList, incomingList, callId, pjsuaCallId, slot>>

LEMMA NativeBooks ==
  ASSUME TypeOK, Native
  PROVE  \/ Still
         \/ \E c \in OutCalls, s \in Slots : Placed(c, s)
         \/ \E t \in Threads, c \in Calls, code \in Nat : Dropped(t, c, code)
<1> USE DEF java, objects, pjsua, thread, workoff
<1>1. ASSUME NEW c \in InCalls, NEW code \in Nat, inv[c] = "early", At(op), Unlocked(c),
             Disconnect("app", c, code),
             UNCHANGED <<outgoingList, incomingList, callId, pjsuaCallId, slot>>
      PROVE  Dropped("app", c, code)
  BY <1>1 DEF Dropped, Underway, At, Unlocked
<1>2. ASSUME inv' = inv,
             UNCHANGED <<outgoingList, incomingList, callId, pjsuaCallId, slot, ending, found, heard>>
      PROVE  Still
  BY <1>2 DEF Still, GoesOn
<1>3. CASE MakeCall
  <2>1. CASE \E c \in OutCalls, s \in Slots :
               /\ inv[c] = "null" /\ Allocated(s)
               /\ inv' = [inv EXCEPT ![c] = "calling"]
               /\ slot' = [slot EXCEPT ![c] = s]
               /\ next' = Start + 1
               /\ onOutgoingCall(c, s)
    BY <1>3, <2>1 DEF MakeCall, Placed
  <2>2. CASE UNCHANGED <<inv, slot, next, pjsuaCallId, callId, outgoingList, heard, signallingStats>>
    BY <1>2, <1>3, <2>2 DEF MakeCall
  <2>3. QED
    BY <1>3, <2>1, <2>2 DEF MakeCall
<1>4. CASE NativeAnswer
  <2>1. ASSUME NEW c \in InCalls, inv[c] = "early", inv' = [inv EXCEPT ![c] = "connecting"]
        PROVE  Still
    BY <1>4, <2>1 DEF NativeAnswer, Still, GoesOn, TypeOK, PjsuaOK
  <2>2. CASE UNCHANGED inv
    BY <1>2, <1>4, <2>2 DEF NativeAnswer
  <2>3. QED
    BY <1>4, <2>1, <2>2 DEF NativeAnswer
<1>5. CASE NativeReject
  <2>1. ASSUME NEW c \in InCalls, inv[c] = "early", Unlocked(c), Disconnect("app", c, Worse(c, 486))
        PROVE  Dropped("app", c, Worse(c, 486)) /\ Worse(c, 486) \in Nat
    BY <1>1, <1>5, <2>1, WorseType DEF NativeReject, At, TypeOK, Calls
  <2>2. CASE UNCHANGED <<inv, cause, workoff, heard>>
    BY <1>2, <1>5, <2>2 DEF NativeReject
  <2>3. QED
    BY <1>5, <2>1, <2>2 DEF NativeReject, Threads, Calls
<1>6. CASE NativeHangup
  <2>1. ASSUME NEW c \in InCalls, inv[c] = "early", Unlocked(c), Disconnect("app", c, Worse(c, 603))
        PROVE  Dropped("app", c, Worse(c, 603)) /\ Worse(c, 603) \in Nat
    BY <1>1, <1>6, <2>1, WorseType DEF NativeHangup, At, TypeOK, Calls
  <2>2. CASE UNCHANGED <<inv, workoff, heard>>
    BY <1>2, <1>6, <2>2 DEF NativeHangup
  <2>3. QED
    BY <1>6, <2>1, <2>2 DEF NativeHangup, HangUp, Threads, Calls
<1>7. QED
  BY <1>3, <1>4, <1>5, <1>6 DEF Native

LEMMA NetworkBooks ==
  ASSUME TypeOK, Network
  PROVE  \/ Still
         \/ \E c \in InCalls : Offered(c)
         \/ \E c \in OutCalls : Accepted(c)
         \/ \E c \in Calls, code \in Nat : Dropped("worker", c, code)
<1> USE CallsAssumption DEF java, objects, pjsua, thread, workoff, TypeOK, PjsuaOK, Calls
<1>1. ASSUME NEW c \in InCalls, IncomingCall(c) PROVE Still \/ Offered(c)
  <2>1. PICK s \in Slots : slot' = [slot EXCEPT ![c] = s]
    BY ZenonT(30), <1>1 DEF IncomingCall
  <2>2. \A o \in Outs : pjsuaCallId'[o] = pjsuaCallId[o]
    BY <1>1 DEF IncomingCall, ObjectsOK, Objects
  <2>3. \A d \in OutCalls : slot'[d] = slot[d]
    BY <2>1
  <2>4. CASE isCallAvailable
    BY <1>1, <2>2, <2>3, <2>4 DEF IncomingCall, Still, GoesOn
  <2>5. CASE ~isCallAvailable
    BY <1>1, <2>2, <2>3, <2>5 DEF IncomingCall, Offered
  <2>6. QED
    BY <2>4, <2>5
<1>2. ASSUME NEW c \in InCalls, Acknowledged(c) \/ NoAck(c) PROVE Still
  BY <1>2 DEF Acknowledged, NoAck, Still, GoesOn
<1>3. ASSUME NEW c \in OutCalls, Ringing(c) PROVE Still
  BY <1>3 DEF Ringing, Still, GoesOn
<1>4. ASSUME NEW c \in Calls, NEW code \in Nat, Ended(c, code),
             inv[c] \notin {"null", "disconnected", "over"}
      PROVE  Dropped("worker", c, code)
  <2>1. inv[c] \in Underway
    BY <1>4 DEF InvStates, Underway
  <2>2. QED
    BY <1>4, <2>1 DEF Ended, Event, Unlocked, Dropped
<1>5. QED
  BY <1>1, <1>2, <1>3, <1>4, NetworkSteps

LEMMA Books ==
  ASSUME TypeOK, [Next]_vars
  PROVE  \/ Still
         \/ \E c \in OutCalls, s \in Slots : Placed(c, s)
         \/ \E c \in InCalls : Offered(c)
         \/ \E c \in OutCalls : Accepted(c)
         \/ \E t \in Threads, c \in Calls, code \in Nat : Dropped(t, c, code)
         \/ \E t \in Threads : BookEnd(t)
<1>1. CASE User \/ Return \/ UNCHANGED vars
  BY <1>1 DEF User, CreateOutgoingCall, Call, Answer, Reject, Hangup, Enters, Return, CallReturns,
              AnswerReturns, vars, java, objects, pjsua, thread, workoff, Still, GoesOn
<1>2. CASE Network
  BY <1>2, NetworkBooks DEF Threads
<1>3. QED
  BY <1>1, <1>2, NativeBooks DEF Next, Bookkeeping

-----------------------------------------------------------------------------
(* The bookkeeping of outgoing calls, for a careful application.           *)

(* An object is called on once, and is then the one created last. *)
Once ==
  /\ \A o \in Outs : objs[o] \in {"none", "created"} => callId[o] = None
  /\ op = "call" => obj \in Outs /\ curOutgoing = obj /\ callId[obj] = None /\ objs[obj] = "called"

(* Such an object has no more than one call, and knows it. *)
Knows(o) ==
  IF callId[o] = None
  THEN outgoingList[o] = 0
  ELSE /\ inv[callId[o]] # "null" /\ pjsuaCallId[o] = slot[callId[o]]
       /\ outgoingList[o] = IF Live(callId[o]) THEN 1 ELSE 0
Known ==
  /\ \A o \in Outs : Knows(o)
  /\ \A o, q \in Outs : callId[o] # None /\ callId[o] = callId[q] => o = q
  /\ \A c \in OutCalls : inv[c] # "null" => \E o \in Outs : callId[o] = c

(* The two threads work off the ends of different calls, and have found    *)
(* the call's own object.                                                  *)
Found ==
  /\ \A t \in Threads : ending[t] # None =>
       /\ inv[ending[t]] = "disconnected"
       /\ found[t] = {o \in Outs : callId[o] = ending[t]}
  /\ \A t, u \in Threads : ending[t] # None /\ ending[t] = ending[u] => t = u

LEMMA OnceStep ==
  ASSUME Careful = TRUE, TypeOK, Once, [Next]_vars
  PROVE  Once'
<1> USE CallsAssumption DEF Once, TypeOK, ListsOK, ObjectsOK, java, objects, pjsua, thread, workoff
<1>1. ASSUME NEW o \in Outs, CreateOutgoingCall(o) PROVE Once'
  BY <1>1 DEF CreateOutgoingCall, At
<1>2. ASSUME NEW o \in Outs, Call(o) PROVE Once'
  BY <1>2, Careful = TRUE DEF Call, CallPolicy, Enter
<1>3. CASE \/ \E c \in InCalls : Answer(c) \/ Reject(c)
           \/ \E x \in Objects : Hangup(x)
  BY <1>3 DEF Answer, Reject, Hangup, Enters, Enter
<1>4. CASE MakeCall
  BY <1>4 DEF MakeCall, At, onOutgoingCall
<1>5. CASE NativeAnswer \/ NativeReject \/ NativeHangup \/ Return
  BY <1>5 DEF NativeAnswer, NativeReject, NativeHangup, Return, CallReturns, AnswerReturns, Leave
<1>6. CASE Bookkeeping \/ UNCHANGED vars
  BY <1>6 DEF Bookkeeping, BookEnd, vars
<1>7. CASE Network
  <2>1. ASSUME NEW c \in Calls, IncomingCall(c) \/ Acknowledged(c) \/ NoAck(c) \/ Ringing(c) \/ Accepted(c)
        PROVE  UNCHANGED <<objs, callId, op, obj, curOutgoing>>
    BY <2>1 DEF IncomingCall, Acknowledged, NoAck, Ringing, Accepted
  <2>2. ASSUME NEW c \in Calls, NEW code \in Nat, Ended(c, code)
        PROVE  UNCHANGED <<objs, callId, op, obj, curOutgoing>>
    BY <2>2 DEF Ended
  <2>3. UNCHANGED <<objs, callId, op, obj, curOutgoing>>
    BY <1>7, <2>1, <2>2, NetworkSteps DEF Calls, TypeOK
  <2>4. QED
    BY <2>3
<1>8. QED
  BY <1>1, <1>2, <1>3, <1>4, <1>5, <1>6, <1>7 DEF Next, User, Native

(* The calls that go on keep their life and their place in the books. *)
LEMMA StillKnown ==
  ASSUME TypeOK, Known, Found,
         UNCHANGED <<outgoingList, callId, ending, found>>,
         \A o \in Outs : pjsuaCallId'[o] = pjsuaCallId[o],
         \A c \in OutCalls : slot'[c] = slot[c],
         \A c \in OutCalls : inv[c] = "null" <=> inv'[c] = "null",
         \A c \in OutCalls : inv[c] = "over" <=> inv'[c] = "over",
         \A c \in Calls : inv[c] = "disconnected" => inv'[c] = "disconnected"
  PROVE  Known' /\ Found'
<1> USE CallsAssumption DEF TypeOK, ObjectsOK
<1>1. ASSUME NEW o \in Outs PROVE Knows(o)'
  <2>1. callId'[o] = callId[o] /\ callId[o] \in OutCalls \cup {None}
    OBVIOUS
  <2>2. CASE callId[o] = None
    BY <2>1, <2>2 DEF Known, Knows
  <2>3. CASE callId[o] \in OutCalls
    BY <2>1, <2>3 DEF Known, Knows, Live, Calls
  <2>4. QED
    BY <2>1, <2>2, <2>3
<1>2. Known'
  BY <1>1 DEF Known
<1>3. Found'
  BY DEF Found, ControlOK
<1>4. QED
  BY <1>2, <1>3

LEMMA PlacedKnown ==
  ASSUME TypeOK, Once, Known, Found, NEW c \in OutCalls, NEW s \in Slots, Placed(c, s)
  PROVE  Known' /\ Found'
<1> USE CallsAssumption DEF TypeOK, ListsOK, ObjectsOK, PjsuaOK, Calls
<1> DEFINE o == curOutgoing
<1>1. /\ o \in Outs /\ callId[o] = None /\ inv[c] = "null" /\ c # None
      /\ inv' = [inv EXCEPT ![c] = "calling"] /\ slot' = [slot EXCEPT ![c] = s]
      /\ callId' = [callId EXCEPT ![o] = c] /\ pjsuaCallId' = [pjsuaCallId EXCEPT ![o] = s]
      /\ outgoingList' = [outgoingList EXCEPT ![o] = @ + 1]
      /\ UNCHANGED <<ending, found>>
  BY DEF Placed, onOutgoingCall, Once, At
<1> HIDE DEF o
<1>2. \A q \in Outs : callId[q] # c
  BY <1>1 DEF Known, Knows
<1>3. outgoingList[o] = 0
  BY <1>1 DEF Known, Knows
<1>4. ASSUME NEW q \in Outs PROVE Knows(q)'
  <2>1. CASE q = o
    BY <1>1, <1>3, <2>1 DEF Knows, Live, Objects
  <2>2. CASE q # o
    BY <1>1, <1>2, <2>2 DEF Known, Knows, Live, Objects
  <2>3. QED
    BY <2>1, <2>2
<1>5. Known'
  BY <1>1, <1>2, <1>4 DEF Known
<1>6. \A t \in Threads : ending[t] # c
  BY <1>1 DEF Found
<1>7. ASSUME NEW t \in Threads, ending'[t] # None
      PROVE  /\ inv'[ending'[t]] = "disconnected"
             /\ found'[t] = {q \in Outs : callId'[q] = ending'[t]}
  BY <1>1, <1>6, <1>7 DEF Found, ControlOK
<1>8. Found'
  BY <1>1, <1>7 DEF Found
<1>9. QED
  BY <1>5, <1>8

LEMMA DroppedKnown ==
  ASSUME TypeOK, Known, Found, NEW t \in Threads, NEW c \in Calls, NEW code \in Nat,
         Dropped(t, c, code)
  PROVE  Known' /\ Found'
<1> USE CallsAssumption DEF TypeOK, ObjectsOK, PjsuaOK
<1>1. /\ inv' = [inv EXCEPT ![c] = "disconnected"] /\ ending' = [ending EXCEPT ![t] = c]
      /\ found' = [found EXCEPT ![t] = getOutgoing(c)] /\ inv[c] \in Underway
      /\ ending[t] = None /\ \A u \in Threads : ending[u] # c
      /\ UNCHANGED <<outgoingList, callId, pjsuaCallId, slot>>
  BY DEF Dropped, Disconnect
<1>2. ASSUME NEW o \in Outs PROVE Knows(o)'
  BY <1>1 DEF Known, Knows, Live, Calls, Underway
<1>3. Known'
  BY <1>1, <1>2 DEF Known, Calls, Underway
<1>4. getOutgoing(c) = {o \in Outs : callId[o] = c}
  BY <1>1 DEF getOutgoing, Known, Knows, Live, Underway, Calls
<1>5. ASSUME NEW u \in Threads, ending'[u] # None
      PROVE  /\ inv'[ending'[u]] = "disconnected"
             /\ found'[u] = {o \in Outs : callId'[o] = ending'[u]}
  BY <1>1, <1>4, <1>5 DEF Found, ControlOK
<1>6. Found'
  BY <1>1, <1>5 DEF Found, ControlOK
<1>7. QED
  BY <1>3, <1>6

LEMMA BookedKnown ==
  ASSUME TypeOK, Known, Found, NEW t \in Threads, BookEnd(t)
  PROVE  Known' /\ Found'
<1> USE CallsAssumption DEF TypeOK, ListsOK, ObjectsOK, PjsuaOK, Calls
<1> DEFINE c == ending[t]
<1>1. /\ c \in Calls /\ inv[c] = "disconnected" /\ found[t] = {o \in Outs : callId[o] = c}
      /\ inv' = [inv EXCEPT ![c] = "over"] /\ ending' = [ending EXCEPT ![t] = None]
      /\ found' = [found EXCEPT ![t] = {}]
      /\ outgoingList' = [x \in Outs |-> IF x \in found[t] /\ outgoingList[x] > 0
                                         THEN outgoingList[x] - 1 ELSE outgoingList[x]]
      /\ UNCHANGED <<callId, pjsuaCallId, slot>>
  BY DEF BookEnd, Delist, Found, ControlOK
<1> HIDE DEF c
<1>2. ASSUME NEW o \in Outs PROVE Knows(o)'
  <2>1. CASE callId[o] = c
    BY <1>1, <2>1 DEF Known, Knows, Live
  <2>2. CASE callId[o] # c
    BY <1>1, <2>2 DEF Known, Knows, Live
  <2>3. QED
    BY <2>1, <2>2
<1>3. Known'
  BY <1>1, <1>2 DEF Known
<1>4. \A u \in Threads : u # t => ending[u] # c
  BY <1>1 DEF Found, c
<1>5. ASSUME NEW u \in Threads, ending'[u] # None
      PROVE  /\ inv'[ending'[u]] = "disconnected"
             /\ found'[u] = {o \in Outs : callId'[o] = ending'[u]}
  BY <1>1, <1>4, <1>5 DEF Found, ControlOK
<1>6. Found'
  BY <1>1, <1>5 DEF Found, ControlOK
<1>7. QED
  BY <1>3, <1>6

LEMMA KnownStep ==
  ASSUME TypeOK, Once, Known, Found, [Next]_vars
  PROVE  Known' /\ Found'
<1> USE CallsAssumption DEF TypeOK, PjsuaOK, Calls
<1>1. CASE Still
  <2>1. /\ UNCHANGED <<outgoingList, callId, ending, found>>
        /\ \A o \in Outs : pjsuaCallId'[o] = pjsuaCallId[o]
        /\ \A d \in OutCalls : slot'[d] = slot[d]
        /\ \A d \in OutCalls : inv[d] = "null" <=> inv'[d] = "null"
        /\ \A d \in OutCalls : inv[d] = "over" <=> inv'[d] = "over"
        /\ \A d \in Calls : inv[d] = "disconnected" => inv'[d] = "disconnected"
    BY <1>1 DEF Still, GoesOn
  <2>2. QED
    BY <2>1, StillKnown
<1>2. ASSUME NEW c \in InCalls, Offered(c) PROVE Known' /\ Found'
  <2>1. /\ UNCHANGED <<outgoingList, callId, ending, found>>
        /\ \A o \in Outs : pjsuaCallId'[o] = pjsuaCallId[o]
        /\ \A d \in OutCalls : slot'[d] = slot[d] /\ inv'[d] = inv[d]
        /\ \A d \in Calls : inv[d] = "disconnected" => inv'[d] = "disconnected"
    BY <1>2 DEF Offered
  <2>2. QED
    BY <2>1, StillKnown
<1>3. ASSUME NEW c \in OutCalls, Accepted(c) PROVE Known' /\ Found'
  <2>1. /\ inv[c] \in {"calling", "early"} /\ inv' = [inv EXCEPT ![c] = "confirmed"]
        /\ UNCHANGED <<outgoingList, callId, ending, found, pjsuaCallId, slot>>
    BY <1>3 DEF Accepted, java, objects, workoff
  <2>2. /\ \A d \in OutCalls : inv[d] = "null" <=> inv'[d] = "null"
        /\ \A d \in OutCalls : inv[d] = "over" <=> inv'[d] = "over"
        /\ \A d \in Calls : inv[d] = "disconnected" => inv'[d] = "disconnected"
    BY <2>1
  <2>3. QED
    BY <2>1, <2>2, StillKnown
<1>4. QED
  BY <1>1, <1>2, <1>3, Books, PlacedKnown, DroppedKnown, BookedKnown

(* With a careful application every outgoing call pjsua has is listed      *)
(* once, under an object that knows its Call-ID and its slot, and nothing  *)
(* else is listed: whatever becomes of the calls, and although the end of  *)
(* each is worked off outside the lock, by either thread.                  *)
THEOREM OutgoingCorrect ==
  ASSUME Careful = TRUE
  PROVE  Spec => []OutgoingListIsLive
<1>1. Init => Once /\ Known /\ Found
  BY CallsAssumption DEF Init, Once, Known, Knows, Found, Calls
<1>2. TypeOK /\ Once /\ Known /\ Found /\ [Next]_vars => Once' /\ Known' /\ Found'
  BY Careful = TRUE, OnceStep, KnownStep
<1>3. TypeOK /\ Known => OutgoingListIsLive
  BY CallsAssumption DEF TypeOK, ObjectsOK, Known, Knows, Live, OutgoingListIsLive, Calls
<1>4. QED
  BY <1>1, <1>2, <1>3, TypeCorrect, PTL DEF Spec
=============================================================================
