--------------------------- MODULE CallLineProofs ---------------------------
(***************************************************************************)
(* Calls implements CallLine, for every application.  The proof counts:    *)
(* an object that is called on anew before its last call is over loses     *)
(* that call's Call-ID, but stays listed for it, so its number of listings *)
(* is the number of its calls the listener has not heard the end of.       *)
(***************************************************************************)
EXTENDS CallsProofs, FiniteSets, FiniteSetTheorems

(* There is an object to book a call under. *)
Created == (\E o \in Outs : objs[o] # "none") \/ op = "call" => curOutgoing # None

(* What the listener heard of a call, by the call's state. *)
HeardOf(c) ==
  /\ inv[c] = "null" => heard[c] = "none"
  /\ inv[c] \in Underway => Line!Open(c)
  /\ inv[c] \in {"calling", "early"} => heard[c] = "begun"
  /\ c \in InCalls /\ Line!Open(c) => inv[c] \in Underway

(* The ends the two threads are working off. *)
EndOf(t) ==
  ending[t] # None =>
    /\ inv[ending[t]] = "disconnected"
    /\ found[t] # {} => ending[t] \in OutCalls /\ heard[ending[t]] \in Ends
Ending ==
  /\ \A t \in Threads : EndOf(t)
  /\ \A t \in Threads : ending[t] = None => found[t] = {}
  /\ \A t, u \in Threads : ending[t] # None /\ ending[t] = ending[u] => t = u

(* An object knows calls that were made. *)
Made == \A o \in Outs : callId[o] # None => inv[callId[o]] # "null"

LineInv == Created /\ (\A c \in Calls : HeardOf(c)) /\ Ending /\ Made

(* The calls an object is listed for: the listener has not heard the end,  *)
(* or it has, but the object is still to be taken off the list.            *)
Outstanding(c) == Line!Open(c) \/ \E t \in Threads : ending[t] = c /\ found[t] # {}
Owned(owner, o) == {c \in OutCalls : owner[c] = o /\ Outstanding(c)}

(* The owner of a call is the object it was made for, whatever call that   *)
(* object knows by now.                                                    *)
OwnerOK(owner) ==
  /\ \A c \in OutCalls : Outstanding(c) => owner[c] \in Outs
  /\ \A o \in Outs : callId[o] # None => owner[callId[o]] = o
  /\ \A t \in Threads : ending[t] \in OutCalls => found[t] \subseteq {owner[ending[t]]}
CountOK(owner, o) ==
  IsFiniteSet(Owned(owner, o)) /\ Cardinality(Owned(owner, o)) = outgoingList[o]
Counted ==
  \E owner \in [OutCalls -> Outs \cup {None}] :
    OwnerOK(owner) /\ \A o \in Outs : CountOK(owner, o)

-----------------------------------------------------------------------------
LEMMA CreatedStep ==
  ASSUME TypeOK, Created, [Next]_vars
  PROVE  Created'
<1> USE CallsAssumption DEF Created, TypeOK, ListsOK, ObjectsOK, java, objects, pjsua, thread, workoff
<1>1. ASSUME NEW o \in Outs, CreateOutgoingCall(o) \/ Call(o) PROVE Created'
  BY <1>1 DEF CreateOutgoingCall, Call, Enter, At
<1>2. CASE \/ \E c \in InCalls : Answer(c) \/ Reject(c)
           \/ \E x \in Objects : Hangup(x)
  BY <1>2 DEF Answer, Reject, Hangup, Enters, Enter
<1>3. CASE Native \/ Return
  BY <1>3 DEF Native, MakeCall, At, onOutgoingCall, NativeAnswer, NativeReject, NativeHangup, Return,
              CallReturns, AnswerReturns, Leave
<1>4. CASE Bookkeeping \/ UNCHANGED vars
  BY <1>4 DEF Bookkeeping, BookEnd, vars
<1>5. CASE Network
  <2>1. ASSUME NEW c \in Calls,
               \/ IncomingCall(c) \/ Acknowledged(c) \/ NoAck(c) \/ Ringing(c) \/ Accepted(c)
               \/ \E code \in Nat : Ended(c, code)
        PROVE  UNCHANGED <<objs, op, curOutgoing>>
    BY <2>1 DEF IncomingCall, Acknowledged, NoAck, Ringing, Accepted, Ended
  <2>2. UNCHANGED <<objs, op, curOutgoing>>
    BY <1>5, <2>1, NetworkSteps DEF Calls, TypeOK
  <2>3. QED
    BY <2>2
<1>6. QED
  BY <1>1, <1>2, <1>3, <1>4, <1>5 DEF Next, User

(* Every end of a call is one of the three events. *)
LEMMA DroppedHeard ==
  ASSUME TypeOK, IncomingListIsLive, NEW t \in Threads, NEW c \in Calls, NEW code \in Nat,
         Dropped(t, c, code)
  PROVE  /\ inv' = [inv EXCEPT ![c] = "disconnected"] /\ inv[c] \in Underway
         /\ ending' = [ending EXCEPT ![t] = c] /\ found' = [found EXCEPT ![t] = getOutgoing(c)]
         /\ ending[t] = None /\ \A u \in Threads : ending[u] # c
         /\ \/ \E e \in Ends : heard' = [heard EXCEPT ![c] = e]
            \/ heard' = heard /\ c \in OutCalls /\ getOutgoing(c) = {}
         /\ getOutgoing(c) # {} => c \in OutCalls /\ heard'[c] \in Ends
         /\ c \in OutCalls /\ getOutgoing(c) = {} => heard' = heard
         /\ getOutgoing(c) \subseteq Outs
<1> USE CallsAssumption DEF TypeOK, ControlOK, PjsuaOK
<1>1. /\ inv' = [inv EXCEPT ![c] = "disconnected"] /\ inv[c] \in Underway
      /\ ending' = [ending EXCEPT ![t] = c] /\ found' = [found EXCEPT ![t] = getOutgoing(c)]
      /\ ending[t] = None /\ \A u \in Threads : ending[u] # c
      /\ heard' = [heard EXCEPT ![c] = IF Listed(c) THEN EndEvent(c, code) ELSE heard[c]]
  BY DEF Dropped, Disconnect
<1>2. EndEvent(c, code) \in Ends
  BY DEF EndEvent, Ends
<1>3. getOutgoing(c) # {} => c \in OutCalls /\ Listed(c)
  BY DEF getOutgoing, Listed, ObjectsOK
<1>4. ~Listed(c) => c \in OutCalls /\ getOutgoing(c) = {}
  BY <1>1 DEF IncomingListIsLive, Listed, Calls, Live, Underway
<1>5. /\ getOutgoing(c) \subseteq Outs
      /\ c \in OutCalls /\ getOutgoing(c) = {} => ~Listed(c)
  BY DEF getOutgoing, Listed, ListsOK
<1>6. CASE Listed(c)
  <2>1. heard' = [heard EXCEPT ![c] = EndEvent(c, code)]
    BY <1>1, <1>6
  <2>2. heard'[c] \in Ends
    BY <1>2, <2>1
  <2>3. \E e \in Ends : heard' = [heard EXCEPT ![c] = e]
    BY <1>2, <2>1
  <2>4. QED
    BY <1>1, <1>3, <1>5, <1>6, <2>2, <2>3
<1>7. CASE ~Listed(c)
  <2>1. heard' = heard
    BY <1>1, <1>7
  <2>2. QED
    BY <1>1, <1>3, <1>4, <1>5, <1>7, <2>1
<1>8. QED
  BY <1>6, <1>7

(* What becomes of the events and of the ends being worked off. *)
LEMMA LineStep ==
  ASSUME TypeOK, IncomingListIsLive, LineInv, [Next]_vars
  PROVE  (\A c \in Calls : HeardOf(c)') /\ Ending'
<1> USE CallsAssumption DEF TypeOK, PjsuaOK, ControlOK, LineInv, Calls
<1>1. CASE Still
  <2>1. UNCHANGED <<heard, ending, found>>
    BY <1>1 DEF Still
  <2>2. ASSUME NEW c \in Calls PROVE HeardOf(c)'
    BY <1>1, <2>2 DEF Still, GoesOn, HeardOf, Line!Open, Underway
  <2>3. \A c \in Calls : inv[c] = "disconnected" => inv'[c] = "disconnected"
    BY <1>1 DEF Still, GoesOn
  <2>4. Ending'
    BY <2>1, <2>3 DEF Ending, EndOf
  <2>5. QED
    BY <2>2, <2>4
<1>2. ASSUME NEW d \in Calls, inv[d] # "disconnected",
             NEW i \in Underway, inv' = [inv EXCEPT ![d] = i],
             NEW e \in {"begun", "answered"}, heard' = [heard EXCEPT ![d] = e],
             i \in {"calling", "early"} => e = "begun",
             UNCHANGED <<ending, found>>
      PROVE  (\A c \in Calls : HeardOf(c)') /\ Ending'
  <2>1. ASSUME NEW c \in Calls PROVE HeardOf(c)'
    <3>1. CASE c = d
      <4>1. inv'[c] = i /\ heard'[c] = e
        BY <1>2, <3>1
      <4>2. QED
        BY <1>2, <4>1 DEF HeardOf, Line!Open, Underway
    <3>2. CASE c # d
      <4>1. inv'[c] = inv[c] /\ heard'[c] = heard[c]
        BY <1>2, <3>2
      <4>2. QED
        BY <2>1, <4>1 DEF HeardOf, Line!Open
    <3>3. QED
      BY <3>1, <3>2
  <2>2. \A t \in Threads : ending[t] # d
    BY <1>2 DEF Ending, EndOf
  <2>3. Ending'
    BY <1>2, <2>2 DEF Ending, EndOf
  <2>4. QED
    BY <2>1, <2>3
<1>3. ASSUME NEW c \in OutCalls, NEW s \in Slots, Placed(c, s)
      PROVE  (\A d \in Calls : HeardOf(d)') /\ Ending'
  <2>1. /\ inv[c] = "null" /\ inv' = [inv EXCEPT ![c] = "calling"]
        /\ heard' = [heard EXCEPT ![c] = "begun"] /\ UNCHANGED <<ending, found>>
    BY <1>3 DEF Placed, onOutgoingCall
  <2>2. QED
    BY ZenonT(30), <1>2, <2>1 DEF Underway
<1>4. ASSUME NEW c \in InCalls, Offered(c)
      PROVE  (\A d \in Calls : HeardOf(d)') /\ Ending'
  <2>1. /\ inv[c] = "null" /\ inv' = [inv EXCEPT ![c] = "early"]
        /\ heard' = [heard EXCEPT ![c] = "begun"] /\ UNCHANGED <<ending, found>>
    BY <1>4 DEF Offered
  <2>2. QED
    BY <1>2, <2>1 DEF Underway
<1>5. ASSUME NEW c \in OutCalls, Accepted(c)
      PROVE  (\A d \in Calls : HeardOf(d)') /\ Ending'
  <2>1. /\ inv[c] \in {"calling", "early"} /\ inv' = [inv EXCEPT ![c] = "confirmed"]
        /\ UNCHANGED <<ending, found>>
        /\ heard' = heard \/ heard' = [heard EXCEPT ![c] = "answered"]
    BY <1>5 DEF Accepted, workoff
  <2>2. heard[c] = "begun"
    BY <2>1 DEF HeardOf
  <2>3. CASE heard' = heard
    <3>1. heard' = [heard EXCEPT ![c] = "begun"]
      BY <2>2, <2>3
    <3>2. QED
      BY ZenonT(30), <1>2, <2>1, <3>1 DEF Underway
  <2>4. CASE heard' = [heard EXCEPT ![c] = "answered"]
    BY ZenonT(30), <1>2, <2>1, <2>4 DEF Underway
  <2>5. QED
    BY <2>1, <2>3, <2>4
<1>6. ASSUME NEW t \in Threads, NEW c \in Calls, NEW code \in Nat, Dropped(t, c, code)
      PROVE  (\A d \in Calls : HeardOf(d)') /\ Ending'
  <2>1. ASSUME NEW d \in Calls PROVE HeardOf(d)'
    <3>1. CASE d = c
      <4>1. inv'[c] = "disconnected" /\ (heard'[c] \in Ends \/ c \notin InCalls)
        BY <1>6, DroppedHeard
      <4>2. QED
        BY <3>1, <4>1 DEF HeardOf, Line!Open, Underway, Ends
    <3>2. CASE d # c
      <4>1. inv'[d] = inv[d] /\ heard'[d] = heard[d]
        BY <1>6, <3>2, DroppedHeard
      <4>2. QED
        BY <4>1 DEF HeardOf, Line!Open
    <3>3. QED
      BY <3>1, <3>2
  <2>2. ASSUME NEW u \in Threads PROVE EndOf(u)'
    <3>1. CASE u = t
      BY <1>6, <3>1, DroppedHeard DEF EndOf
    <3>2. CASE u # t
      BY <1>6, <3>2, DroppedHeard DEF Ending, EndOf
    <3>3. QED
      BY <3>1, <3>2
  <2>3. Ending'
    BY <1>6, <2>2, DroppedHeard DEF Ending
  <2>4. QED
    BY <2>1, <2>3
<1>7. ASSUME NEW t \in Threads, BookEnd(t)
      PROVE  (\A d \in Calls : HeardOf(d)') /\ Ending'
  <2>1. /\ ending[t] \in Calls /\ inv[ending[t]] = "disconnected"
        /\ inv' = [inv EXCEPT ![ending[t]] = "over"]
        /\ ending' = [ending EXCEPT ![t] = None] /\ found' = [found EXCEPT ![t] = {}]
        /\ heard' = heard
    BY <1>7 DEF BookEnd, Ending, EndOf
  <2>2. ASSUME NEW d \in Calls PROVE HeardOf(d)'
    BY <2>1 DEF HeardOf, Line!Open, Underway
  <2>3. ASSUME NEW u \in Threads PROVE EndOf(u)'
    <3>1. CASE u = t
      BY <2>1, <3>1 DEF EndOf
    <3>2. CASE u # t
      BY <2>1, <3>2 DEF Ending, EndOf
    <3>3. QED
      BY <3>1, <3>2
  <2>4. Ending'
    BY <2>1, <2>3 DEF Ending
  <2>5. QED
    BY <2>2, <2>4
<1>8. QED
  BY <1>1, <1>3, <1>4, <1>5, <1>6, <1>7, Books

LEMMA MadeStep ==
  ASSUME TypeOK, LineInv, [Next]_vars
  PROVE  Made'
<1> USE CallsAssumption DEF TypeOK, ObjectsOK, PjsuaOK, LineInv, Made, Calls
<1>1. CASE Still
  BY <1>1 DEF Still, GoesOn
<1>2. ASSUME NEW c \in Calls, NEW i \in InvStates \ {"null"}, inv' = [inv EXCEPT ![c] = i],
             UNCHANGED callId
      PROVE  Made'
  BY <1>2
<1>3. ASSUME NEW c \in OutCalls, NEW s \in Slots, Placed(c, s) PROVE Made'
  <2>1. inv' = [inv EXCEPT ![c] = "calling"] /\ callId' = [callId EXCEPT ![curOutgoing] = c]
    BY <1>3 DEF Placed, onOutgoingCall
  <2>2. QED
    BY <2>1
<1>4. ASSUME NEW c \in InCalls, Offered(c) PROVE Made'
  BY <1>2, <1>4 DEF Offered, InvStates
<1>5. ASSUME NEW c \in OutCalls, Accepted(c) PROVE Made'
  BY <1>2, <1>5 DEF Accepted, InvStates, objects
<1>6. ASSUME NEW t \in Threads, NEW c \in Calls, NEW code \in Nat, Dropped(t, c, code) PROVE Made'
  BY <1>2, <1>6 DEF Dropped, Disconnect, InvStates
<1>7. ASSUME NEW t \in Threads, BookEnd(t) PROVE Made'
  BY <1>2, <1>7 DEF BookEnd, ControlOK, InvStates
<1>8. QED
  BY <1>1, <1>3, <1>4, <1>5, <1>6, <1>7, Books

-----------------------------------------------------------------------------
(* Counting.                                                               *)

LEMMA SameCount ==
  ASSUME NEW owner, NEW o \in Outs, CountOK(owner, o), outgoingList'[o] = outgoingList[o],
         \A c \in OutCalls : owner[c] = o => (Outstanding(c) <=> Outstanding(c)')
  PROVE  CountOK(owner, o)'
<1>1. Owned(owner, o)' = Owned(owner, o)
  BY DEF Owned
<1>2. QED
  BY <1>1 DEF CountOK

(* Nobody's count changes while no call becomes outstanding or ceases to be. *)
LEMMA SameCounted ==
  ASSUME TypeOK, Counted, UNCHANGED <<outgoingList, callId>>,
         \A c \in OutCalls : Outstanding(c) <=> Outstanding(c)',
         \A t \in Threads : ending'[t] \in OutCalls =>
            \/ ending'[t] = ending[t] /\ found'[t] = found[t]
            \/ \A o \in found'[t] : o \in Outs /\ callId[o] = ending'[t]
  PROVE  Counted'
<1>1. PICK owner \in [OutCalls -> Outs \cup {None}] :
        OwnerOK(owner) /\ \A o \in Outs : CountOK(owner, o)
  BY DEF Counted
<1>2. ASSUME NEW t \in Threads, ending'[t] \in OutCalls
      PROVE  found'[t] \subseteq {owner[ending'[t]]}
  <2>1. CASE ending'[t] = ending[t] /\ found'[t] = found[t]
    BY <1>1, <1>2, <2>1 DEF OwnerOK
  <2>2. CASE \A o \in found'[t] : o \in Outs /\ callId[o] = ending'[t]
    <3>1. \A o \in found'[t] : owner[ending'[t]] = o
      BY <1>1, <1>2, <2>2, CallsAssumption DEF OwnerOK, Calls
    <3>2. QED
      BY <3>1
  <2>3. QED
    BY <1>2, <2>1, <2>2
<1>3. OwnerOK(owner)'
  BY <1>1, <1>2 DEF OwnerOK
<1>4. ASSUME NEW o \in Outs PROVE CountOK(owner, o)'
  BY <1>1, SameCount
<1>5. QED
  BY <1>3, <1>4 DEF Counted

LEMMA PlacedCounted ==
  ASSUME TypeOK, LineInv, Counted, NEW c \in OutCalls, NEW s \in Slots, Placed(c, s)
  PROVE  Counted'
<1> USE CallsAssumption DEF TypeOK, ListsOK, ObjectsOK, PjsuaOK, ControlOK, Calls
<1>1. PICK owner \in [OutCalls -> Outs \cup {None}] :
        OwnerOK(owner) /\ \A o \in Outs : CountOK(owner, o)
  BY DEF Counted
<1>2. PICK p \in Outs : curOutgoing = p
  BY DEF LineInv, Created, Placed, At
<1>3. /\ inv[c] = "null" /\ callId' = [callId EXCEPT ![p] = c]
      /\ outgoingList' = [outgoingList EXCEPT ![p] = @ + 1]
      /\ heard' = [heard EXCEPT ![c] = "begun"] /\ UNCHANGED <<ending, found>>
  BY <1>2 DEF Placed, onOutgoingCall
<1>4. \A t \in Threads : ending[t] # c
  BY <1>3 DEF LineInv, Ending, EndOf
<1>5. ~Outstanding(c) /\ Outstanding(c)'
  BY <1>3, <1>4 DEF LineInv, HeardOf, Line!Open, Outstanding
<1>6. ASSUME NEW d \in OutCalls, d # c PROVE Outstanding(d) <=> Outstanding(d)'
  BY <1>3, <1>6 DEF Outstanding, Line!Open
<1> DEFINE owner2 == [owner EXCEPT ![c] = p]
<1>7. owner2 \in [OutCalls -> Outs \cup {None}] /\ owner2[c] = p
      /\ \A d \in OutCalls : d # c => owner2[d] = owner[d]
  BY <1>1
<1> HIDE DEF owner2
<1>8. OwnerOK(owner2)'
  <2>1. \A d \in OutCalls : Outstanding(d)' => owner2[d] \in Outs
    BY <1>1, <1>6, <1>7 DEF OwnerOK
  <2>2. \A o \in Outs : callId'[o] # None => owner2[callId'[o]] = o
    <3> SUFFICES ASSUME NEW o \in Outs, callId'[o] # None PROVE owner2[callId'[o]] = o
      OBVIOUS
    <3>1. CASE o = p
      BY <1>3, <1>7, <3>1
    <3>2. CASE o # p
      <4>1. callId'[o] = callId[o] /\ callId[o] \in OutCalls /\ callId[o] # c
        BY <1>3, <3>2 DEF LineInv, Made
      <4>2. QED
        BY <1>1, <1>7, <4>1 DEF OwnerOK
    <3>3. QED
      BY <3>1, <3>2
  <2>3. \A t \in Threads : ending'[t] \in OutCalls => found'[t] \subseteq {owner2[ending'[t]]}
    BY <1>1, <1>3, <1>4, <1>7 DEF OwnerOK
  <2>4. QED
    BY <2>1, <2>2, <2>3 DEF OwnerOK
<1>9. ASSUME NEW o \in Outs PROVE CountOK(owner2, o)'
  <2>1. CASE o = p
    <3>1. Owned(owner2, o)' = Owned(owner, o) \cup {c} /\ c \notin Owned(owner, o)
      BY <1>5, <1>6, <1>7, <2>1 DEF Owned
    <3>2. IsFiniteSet(Owned(owner, o)) /\ Cardinality(Owned(owner, o)) = outgoingList[o]
      BY <1>1 DEF CountOK
    <3>3. /\ IsFiniteSet(Owned(owner, o) \cup {c})
          /\ Cardinality(Owned(owner, o) \cup {c}) = outgoingList[o] + 1
      BY SMTT(30), <3>1, <3>2, FS_AddElement
    <3>4. outgoingList'[o] = outgoingList[o] + 1
      BY <1>3, <2>1
    <3>5. QED
      BY <3>1, <3>3, <3>4 DEF CountOK
  <2>2. CASE o # p
    <3>1. Owned(owner2, o)' = Owned(owner, o)
      BY <1>5, <1>6, <1>7, <2>2 DEF Owned
    <3>2. QED
      BY <1>1, <1>3, <2>2, <3>1 DEF CountOK
  <2>3. QED
    BY <2>1, <2>2
<1>10. QED
  BY <1>7, <1>8, <1>9 DEF Counted

(* The end of a call is worked off: only now it is not outstanding.        *)
LEMMA BookedCounted ==
  ASSUME TypeOK, LineInv, Counted, NEW t \in Threads, BookEnd(t)
  PROVE  Counted'
<1> USE CallsAssumption DEF TypeOK, ListsOK, ObjectsOK, PjsuaOK, ControlOK, Calls
<1>1. PICK c \in Calls : c = ending[t]
  BY DEF BookEnd
<1>2. /\ ending' = [ending EXCEPT ![t] = None] /\ found' = [found EXCEPT ![t] = {}]
      /\ heard' = heard /\ callId' = callId
      /\ outgoingList' = [x \in Outs |-> IF x \in found[t] /\ outgoingList[x] > 0
                                         THEN outgoingList[x] - 1 ELSE outgoingList[x]]
  BY DEF BookEnd, Delist
<1>3. \A u \in Threads : u # t => ending[u] # c
  BY <1>1 DEF LineInv, Ending
<1>4. ASSUME NEW d \in OutCalls, d # c PROVE Outstanding(d) <=> Outstanding(d)'
  BY <1>1, <1>2, <1>4 DEF Outstanding, Line!Open
<1>5. CASE found[t] = {}
  <2>1. outgoingList' = outgoingList
    BY <1>2, <1>5
  <2>2. Outstanding(c) <=> Outstanding(c)'
    BY <1>1, <1>2, <1>3, <1>5 DEF Outstanding, Line!Open
  <2>3. \A u \in Threads : ending'[u] \in OutCalls => ending'[u] = ending[u] /\ found'[u] = found[u]
    BY <1>2
  <2>4. QED
    BY <1>2, <1>4, <2>1, <2>2, <2>3, SameCounted
<1>6. CASE found[t] # {}
  <2>1. PICK owner \in [OutCalls -> Outs \cup {None}] :
          OwnerOK(owner) /\ \A o \in Outs : CountOK(owner, o)
    BY DEF Counted
  <2>2. c \in OutCalls /\ heard[c] \in Ends
    BY <1>1, <1>6 DEF LineInv, Ending, EndOf
  <2>3. PICK p \in Outs : found[t] = {p} /\ owner[c] = p
    BY <1>1, <1>6, <2>1, <2>2 DEF OwnerOK
  <2>4. Outstanding(c) /\ ~Outstanding(c)'
    BY <1>1, <1>2, <1>3, <1>6, <2>2 DEF Outstanding, Line!Open, Ends
  <2>5. Owned(owner, p)' = Owned(owner, p) \ {c} /\ c \in Owned(owner, p)
    BY <1>4, <2>2, <2>3, <2>4 DEF Owned
  <2>6. IsFiniteSet(Owned(owner, p)) /\ Cardinality(Owned(owner, p)) = outgoingList[p]
    BY <2>1 DEF CountOK
  <2>7. /\ IsFiniteSet(Owned(owner, p) \ {c})
        /\ Cardinality(Owned(owner, p) \ {c}) = outgoingList[p] - 1
    BY <2>5, <2>6, FS_RemoveElement
  <2>8. outgoingList[p] # 0
    BY <2>5, <2>6, FS_EmptySet
  <2>9. ASSUME NEW o \in Outs PROVE CountOK(owner, o)'
    <3>1. CASE o = p
      <4>1. outgoingList'[p] = outgoingList[p] - 1
        BY <1>2, <2>3, <2>8
      <4>2. QED
        BY <2>5, <2>7, <3>1, <4>1 DEF CountOK
    <3>2. CASE o # p
      <4>1. outgoingList'[o] = outgoingList[o]
        BY <1>2, <2>3, <3>2
      <4>2. Owned(owner, o)' = Owned(owner, o)
        BY <1>4, <2>3, <3>2 DEF Owned
      <4>3. QED
        BY <2>1, <4>1, <4>2 DEF CountOK
    <3>3. QED
      BY <3>1, <3>2
  <2>10. OwnerOK(owner)'
    <3>1. \A d \in OutCalls : Outstanding(d)' => Outstanding(d)
      BY <1>4, <2>4
    <3>2. \A u \in Threads : ending'[u] \in OutCalls => ending'[u] = ending[u] /\ found'[u] = found[u]
      BY <1>2
    <3>3. QED
      BY <1>2, <2>1, <3>1, <3>2 DEF OwnerOK
  <2>11. QED
    BY <2>9, <2>10 DEF Counted
<1>7. QED
  BY <1>5, <1>6

LEMMA CountedStep ==
  ASSUME TypeOK, IncomingListIsLive, LineInv, Counted, [Next]_vars
  PROVE  Counted'
<1> USE CallsAssumption DEF TypeOK, ControlOK, Calls
<1>1. CASE Still
  <2>1. UNCHANGED <<outgoingList, callId, heard, ending, found>>
    BY <1>1 DEF Still
  <2>2. \A c \in OutCalls : Outstanding(c) <=> Outstanding(c)'
    BY <2>1 DEF Outstanding, Line!Open
  <2>3. QED
    BY <2>1, <2>2, SameCounted
<1>2. ASSUME NEW c \in InCalls, Offered(c) PROVE Counted'
  <2>1. UNCHANGED <<outgoingList, callId, ending, found>> /\ heard' = [heard EXCEPT ![c] = "begun"]
    BY <1>2 DEF Offered
  <2>2. \A d \in OutCalls : Outstanding(d) <=> Outstanding(d)'
    BY <2>1 DEF Outstanding, Line!Open
  <2>3. QED
    BY <2>1, <2>2, SameCounted
<1>3. ASSUME NEW c \in OutCalls, Accepted(c) PROVE Counted'
  <2>1. /\ inv[c] \in {"calling", "early"} /\ UNCHANGED <<outgoingList, callId, ending, found>>
        /\ heard' = heard \/ heard' = [heard EXCEPT ![c] = "answered"]
    BY <1>3 DEF Accepted, java, objects, workoff
  <2>2. heard[c] = "begun"
    BY <2>1 DEF LineInv, HeardOf
  <2>3. \A d \in OutCalls : Outstanding(d) <=> Outstanding(d)'
    BY <2>1, <2>2 DEF Outstanding, Line!Open
  <2>4. QED
    BY <2>1, <2>3, SameCounted
<1>4. ASSUME NEW t \in Threads, NEW c \in Calls, NEW code \in Nat, Dropped(t, c, code) PROVE Counted'
  <2>1. /\ ending' = [ending EXCEPT ![t] = c] /\ found' = [found EXCEPT ![t] = getOutgoing(c)]
        /\ ending[t] = None /\ \A u \in Threads : ending[u] # c
        /\ inv[c] \in Underway /\ UNCHANGED <<outgoingList, callId>>
        /\ heard' = heard \/ \E e \in Ends : heard' = [heard EXCEPT ![c] = e]
        /\ c \in OutCalls /\ getOutgoing(c) = {} => heard' = heard
    BY <1>4, DroppedHeard DEF Dropped
  <2>2. ASSUME NEW d \in OutCalls PROVE Outstanding(d) <=> Outstanding(d)'
    <3>1. CASE d = c
      <4>1. Outstanding(c)
        BY <2>1 DEF LineInv, HeardOf, Outstanding
      <4>2. Outstanding(c)'
        BY <2>1, <3>1, <4>1 DEF Outstanding, Line!Open
      <4>3. QED
        BY <3>1, <4>1, <4>2
    <3>2. CASE d # c
      BY <2>1, <3>2 DEF Outstanding, Line!Open
    <3>3. QED
      BY <3>1, <3>2
  <2>3. ASSUME NEW u \in Threads, ending'[u] \in OutCalls
        PROVE  \/ ending'[u] = ending[u] /\ found'[u] = found[u]
               \/ \A o \in found'[u] : o \in Outs /\ callId[o] = ending'[u]
    BY <2>1 DEF getOutgoing
  <2>4. QED
    BY <2>1, <2>2, <2>3, SameCounted
<1>5. QED
  BY <1>1, <1>2, <1>3, <1>4, Books, PlacedCounted, BookedCounted

-----------------------------------------------------------------------------
(* One step of Calls is one of CallLine, or the listener hears nothing.    *)
LEMMA Refines ==
  ASSUME TypeOK, IncomingListIsLive, LineInv, Counted, [Next]_vars
  PROVE  [Line!Next]_heard
<1> USE CallsAssumption DEF TypeOK, ControlOK, ListsOK, Calls, Line!Next, Line!Calls
<1>1. CASE Still
  BY <1>1 DEF Still
<1>2. ASSUME NEW c \in OutCalls, NEW s \in Slots, Placed(c, s) PROVE [Line!Next]_heard
  <2>1. heard' = [heard EXCEPT ![c] = "begun"] /\ heard[c] = "none"
    BY <1>2 DEF Placed, onOutgoingCall, LineInv, HeardOf
  <2>2. QED
    BY <1>2, <2>1 DEF Line!Place
<1>3. ASSUME NEW c \in InCalls, Offered(c) PROVE [Line!Next]_heard
  <2>1. ASSUME NEW d \in InCalls PROVE ~Line!Open(d)
    BY <1>3 DEF Offered, isCallAvailable, IncomingListIsLive, LineInv, HeardOf, Live, Underway
  <2>2. ASSUME NEW d \in OutCalls PROVE ~Line!Open(d)
    <3> SUFFICES ASSUME Line!Open(d) PROVE FALSE
      OBVIOUS
    <3>1. PICK owner \in [OutCalls -> Outs \cup {None}] :
            OwnerOK(owner) /\ \A o \in Outs : CountOK(owner, o)
      BY DEF Counted
    <3>2. Outstanding(d) /\ owner[d] \in Outs
      BY <3>1 DEF Outstanding, OwnerOK
    <3>3. d \in Owned(owner, owner[d])
      BY <3>2 DEF Owned
    <3>4. outgoingList[owner[d]] = 0
      BY <1>3, <3>2 DEF Offered, isCallAvailable
    <3>5. QED
      BY <3>1, <3>2, <3>3, <3>4, FS_EmptySet DEF CountOK
  <2>3. heard[c] = "none"
    BY <1>3 DEF Offered, LineInv, HeardOf
  <2>4. Line!Offer(c)
    BY <1>3, <2>1, <2>2, <2>3 DEF Offered, Line!Offer
  <2>5. QED
    BY <2>4
<1>4. ASSUME NEW c \in OutCalls, Accepted(c) PROVE [Line!Next]_heard
  BY <1>4 DEF Accepted, LineInv, HeardOf, Line!Answered
<1>5. ASSUME NEW t \in Threads, NEW c \in Calls, NEW code \in Nat, Dropped(t, c, code)
      PROVE  [Line!Next]_heard
  <2>1. Line!Open(c)
    BY <1>5 DEF Dropped, LineInv, HeardOf
  <2>2. heard' = heard \/ Line!End(c)
    BY <1>5, <2>1, DroppedHeard DEF Line!End, Line!Ends, Ends
  <2>3. QED
    BY <2>2
<1>6. ASSUME NEW t \in Threads, BookEnd(t) PROVE [Line!Next]_heard
  BY <1>6 DEF BookEnd
<1>7. QED
  BY <1>1, <1>2, <1>3, <1>4, <1>5, <1>6, Books

(* Whatever the application does, and whichever object a call is booked    *)
(* under, the listener hears what CallLine promises: each call begins, is  *)
(* answered and ends once and in this order, and none is offered before    *)
(* the ends of all others were heard.                                      *)
THEOREM CallLineImplemented == Spec => IsCallLine
<1>1. Init => Line!Init /\ LineInv
  BY DEF Init, Line!Init, Line!Calls, Calls, LineInv, Created, HeardOf, Line!Open, Underway, Ending,
         EndOf, Made
<1>2. Init => Counted
  <2> SUFFICES ASSUME Init PROVE Counted
    OBVIOUS
  <2> DEFINE owner == [c \in OutCalls |-> None]
  <2>1. OwnerOK(owner) /\ \A o \in Outs : Owned(owner, o) = {}
    BY CallsAssumption DEF Init, OwnerOK, Owned, Outstanding, Line!Open, Calls
  <2>2. \A o \in Outs : CountOK(owner, o)
    BY <2>1, FS_EmptySet DEF CountOK, Init
  <2>3. owner \in [OutCalls -> Outs \cup {None}]
    OBVIOUS
  <2>4. QED
    BY <2>1, <2>2, <2>3 DEF Counted
<1>3. TypeOK /\ IncomingListIsLive /\ LineInv /\ Counted /\ [Next]_vars => LineInv' /\ Counted'
  BY CreatedStep, LineStep, MadeStep, CountedStep DEF LineInv
<1>4. TypeOK /\ IncomingListIsLive /\ LineInv /\ Counted /\ [Next]_vars => [Line!Next]_heard
  BY Refines
<1>5. QED
  BY <1>1, <1>2, <1>3, <1>4, TypeCorrect, IncomingCorrect, PTL DEF Spec, IsCallLine, Line!Spec
=============================================================================
