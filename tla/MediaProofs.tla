----------------------------- MODULE MediaProofs -----------------------------
(***************************************************************************)
(* What is proved of Media for all objects and slots: that mute silences,  *)
(* for every application, also one with several active calls; and that     *)
(* hold silences and sound flows, for one that keeps to one active call.   *)
(***************************************************************************)
EXTENDS Media, TLAPS

(* The calls the objects are about are those in the slots; the worker is   *)
(* busy with a slot that is taken; and while the application is in a       *)
(* method of an object, that object's slot went to no other active call.   *)
SlotsAgree ==
  /\ \A s \in Slots : occupant[s] # None => pjsuaCallId[occupant[s]] = s
  /\ \A o \in Objects : isActive[o] =>
       pjsuaCallId[o] \in Slots /\ occupant[pjsuaCallId[o]] = o
  /\ cb # "idle" => occupant[cbSlot] # None
  /\ cb = "ended" => ~isActive[occupant[cbSlot]]
  /\ obj # None => pjsuaCallId[obj] \in Slots
  /\ obj # None => \A o \in Objects : isActive[o] /\ o # obj => pjsuaCallId[o] # pjsuaCallId[obj]

(* Only a call that has, or had, an active object has media and a          *)
(* connected port.                                                         *)
PortsAgree ==
  /\ cb \in {"out", "in", "device"} => media_status[cbSlot] # "none"
  /\ \A s \in Slots :
       /\ s \in mic \cup speaker => media_status[s] # "none"
       /\ occupant[s] = None => media_status[s] = "none" /\ s \notin offered
       /\ occupant[s] # None /\ ~isActive[occupant[s]] =>
            s \notin offered /\ (media_status[s] = "none" \/ (cb = "ended" /\ cbSlot = s))

(* MuteSilences with the object whose method is under way. *)
MutedIsOff ==
  \A o \in Objects : isActive[o] /\ isOnMute[o] /\ "mute" \notin reopened[o] => ~Said(o)

IInv == Typed /\ SlotsAgree /\ PortsAgree /\ MutedIsOff

-----------------------------------------------------------------------------
(* No flag, slot, port or device leaves its set of values. *)
LEMMA TypedInvariance == Spec => []Typed
<1> USE DEF java, calls, sound, thread, worker, history
<1>1. Init => Typed
  BY DEF Init, Typed, Devices, Ops
<1>2. Typed /\ Next => Typed'
  <2> SUFFICES ASSUME Typed, Next PROVE Typed'
    OBVIOUS
  <2> USE MediaAssumption DEF Typed, Devices, Ops
  <2>1. CASE User
    BY <2>1 DEF User, mute, unmute, hold, unhold, Enter
  <2>2. CASE Native
    <3>1. CASE Mute
      BY <3>1 DEF Mute, At, Leave, Disconnected, Wanted
    <3>2. CASE UnMute
      <4>1. port \in Ports \cup {None}
        BY <3>2 DEF port, conf_slot, Ports, UnMute, At
      <4>2. QED
        BY <3>2, <4>1 DEF UnMute, At, Leave, Connected
    <3>3. CASE Hold
      BY <3>3 DEF Hold, At, Leave, Disconnected
    <3>4. CASE HoldDevice
      <4>1. obj \in Objects
        BY <3>4 DEF HoldDevice, At
      <4>2. CASE device' = "null" /\ Wanted("hold") /\ UNCHANGED failed
        BY <3>4, <4>1, <4>2 DEF HoldDevice, Leave, Wanted
      <4>3. CASE UNCHANGED <<device, isOnHold, reopened>>
        BY <3>4, <4>1, <4>3 DEF HoldDevice, Leave
      <4>4. QED
        BY <3>4, <4>2, <4>3 DEF HoldDevice
    <3>5. CASE UnHold
      BY <3>5 DEF UnHold, At, Leave, set_snd_dev
    <3>6. CASE UnHoldConnect
      <4>1. port \in Slots => Connected(port) \subseteq Ports
        BY DEF Connected, Ports
      <4>2. obj \in Objects
        BY <3>6 DEF UnHoldConnect, At
      <4>3. CASE port \in Slots
        BY <3>6, <4>1, <4>2, <4>3 DEF UnHoldConnect, At, Leave
      <4>4. CASE port \notin Slots
        BY <3>6, <4>4 DEF UnHoldConnect, At, Leave
      <4>5. QED
        BY <4>3, <4>4
    <3>7. QED
      BY <2>2, <3>1, <3>2, <3>3, <3>4, <3>5, <3>6 DEF Native
  <2>3. CASE Lines
    <3>1. ASSUME NEW o \in Outs, Call(o) PROVE Typed'
      BY <3>1 DEF Call, Objects
    <3>2. ASSUME NEW o \in Ins, IncomingCall(o) PROVE Typed'
      BY <3>2 DEF IncomingCall, Objects
    <3>3. ASSUME NEW o \in Ins, Answer(o) PROVE Typed'
      BY <3>3 DEF Answer, Objects
    <3>4. ASSUME NEW s \in Slots, CallEnded(s) PROVE Typed'
      BY <3>4 DEF CallEnded, WorkerIdle
    <3>5. CASE SlotFreed
      BY <3>5 DEF SlotFreed
    <3>6. CASE NetworkChanged
      BY <3>6 DEF NetworkChanged
    <3>7. QED
      BY <2>3, <3>1, <3>2, <3>3, <3>4, <3>5, <3>6 DEF Lines
  <2>4. CASE Negotiation
    <3>1. ASSUME NEW s \in Slots, MediaUpdate(s) PROVE Typed'
      BY <3>1 DEF MediaUpdate, WorkerIdle
    <3>2. ASSUME NEW s \in Slots, Offer(s) PROVE Typed'
      BY <3>2 DEF Offer
    <3>3. CASE ConnectSpeaker
      BY <3>3 DEF ConnectSpeaker
    <3>4. CASE ConnectMic
      BY <3>4 DEF ConnectMic, Connected, Undone, Ports
    <3>5. CASE SelectDevice
      BY <3>5 DEF SelectDevice, set_snd_dev, Undone
    <3>6. QED
      BY <2>4, <3>1, <3>2, <3>3, <3>4, <3>5 DEF Negotiation, handleIPChange
  <2>5. QED
    BY <2>1, <2>2, <2>3, <2>4 DEF Next
<1>3. Typed /\ UNCHANGED vars => Typed'
  BY DEF Typed, vars
<1>4. Typed /\ [Next]_vars => Typed'
  BY <1>2, <1>3
<1>5. QED
  BY <1>1, <1>4, PTL DEF Spec

-----------------------------------------------------------------------------
(* A native function works on the port of its own call, or on one that no  *)
(* active call has.                                                        *)
LEMMA OwnPort ==
  ASSUME Typed, SlotsAgree, PortsAgree, obj # None,
         NEW o \in Objects, isActive[o], port = pjsuaCallId[o]
  PROVE  o = obj
BY MediaAssumption DEF SlotsAgree, Typed, port, conf_slot

(* The steps of the application's thread keep the agreement on the slots,  *)
(* since they give no call a slot or an object.                            *)
LEMMA NativeStep ==
  ASSUME IInv, Native \/ User
  PROVE  SlotsAgree' /\ PortsAgree' /\ MutedIsOff'
<1> USE MediaAssumption DEF IInv, java, calls, sound, thread, worker, history
<1>1. CASE User
  BY <1>1 DEF User, mute, unmute, hold, unhold, Enter, Typed, SlotsAgree, PortsAgree,
              MutedIsOff, Said
<1>2. CASE Native
  <2>1. /\ UNCHANGED <<isActive, pjsuaCallId, calls, worker>>
        /\ obj # None /\ obj \in Objects /\ (obj' = obj \/ obj' = None)
    BY <1>2 DEF Native, Mute, UnMute, Hold, HoldDevice, UnHold, UnHoldConnect, At, Leave,
                Typed
  <2>2. SlotsAgree'
    BY <2>1 DEF SlotsAgree, Typed
  <2>3. mic' \subseteq mic \cup ({port} \ {None})
    BY <1>2 DEF Native, Mute, UnMute, Hold, HoldDevice, UnHold, UnHoldConnect, At, Leave,
                Connected, Disconnected
  <2>4. port \in Slots => media_status[port] # "none"
    BY <2>1 DEF port, conf_slot, Typed, SlotsAgree
  <2>5. PortsAgree'
    <3>1. speaker' = speaker
      BY <1>2 DEF Native, Mute, UnMute, Hold, HoldDevice, UnHold, UnHoldConnect
    <3>2. QED
      BY <2>1, <2>3, <2>4, <3>1 DEF PortsAgree
  <2>6. ASSUME NEW o \in Objects, o # obj, isActive[o], isOnMute[o], "mute" \notin reopened[o]
        PROVE  ~Said(o)'
    <3>1. pjsuaCallId[o] \notin mic
      BY <2>6 DEF MutedIsOff, Said
    <3>2. port # pjsuaCallId[o]
      BY <2>1, <2>6, OwnPort
    <3>3. QED
      BY <2>1, <2>3, <3>1, <3>2 DEF Said
  <2>7. ASSUME NEW o \in Objects, o # obj
        PROVE  isOnMute'[o] = isOnMute[o] /\ reopened'[o] = reopened[o]
    BY <1>2, <2>1, <2>7 DEF Native, Mute, UnMute, Hold, HoldDevice, UnHold, UnHoldConnect, At,
       Wanted, Typed
  <2>8. ASSUME NEW o \in Objects, o = obj, isActive[o], isOnMute'[o], "mute" \notin reopened'[o]
        PROVE  ~Said(o)'
    <3>1. pjsuaCallId[obj] \in Slots /\ occupant[pjsuaCallId[obj]] = obj
      BY <2>1, <2>8 DEF SlotsAgree
    <3>2. port = IF media_status[pjsuaCallId[obj]] = "none" THEN None ELSE pjsuaCallId[obj]
      BY <2>1, <3>1 DEF port, conf_slot
    <3>3. CASE Mute
      BY <2>1, <2>8, <3>1, <3>2, <3>3 DEF Mute, Typed, Disconnected, Said
    <3>4. CASE UnMute
      BY <2>1, <2>8, <3>4 DEF UnMute, Typed
    <3>5. CASE Hold
      BY <2>1, <2>8, <3>5 DEF Hold, MutedIsOff, Said, Disconnected
    <3>6. CASE HoldDevice
      BY <2>1, <2>8, <3>6 DEF HoldDevice, Wanted, MutedIsOff, Said, Typed
    <3>7. CASE UnHold
      BY <2>1, <2>8, <3>7 DEF UnHold, MutedIsOff, Said
    <3>8. CASE UnHoldConnect
      BY <2>1, <2>8, <3>8 DEF UnHoldConnect, MutedIsOff, Said, Typed
    <3>9. QED
      BY <1>2, <3>3, <3>4, <3>5, <3>6, <3>7, <3>8 DEF Native
  <2>9. MutedIsOff'
    BY <2>1, <2>6, <2>7, <2>8 DEF MutedIsOff
  <2>10. QED
    BY <2>2, <2>5, <2>9
<1>3. QED
  BY <1>1, <1>2

(* A call that comes or goes. *)
LEMMA LinesStep ==
  ASSUME IInv, Lines
  PROVE  SlotsAgree' /\ PortsAgree' /\ MutedIsOff'
<1> USE MediaAssumption DEF IInv, java, calls, sound, thread, worker, history, Objects, Typed
<1>1. ASSUME NEW o \in Outs, Call(o) PROVE SlotsAgree' /\ PortsAgree' /\ MutedIsOff'
  <2>1. PICK s \in Slots : /\ occupant[s] = None
                           /\ occupant' = [occupant EXCEPT ![s] = o]
                           /\ pjsuaCallId' = [pjsuaCallId EXCEPT ![o] = s]
                           /\ offered' = offered \cup {s}
    BY <1>1 DEF Call
  <2>2. \A r \in Slots : occupant[r] # o
    BY <1>1 DEF Call, HasCall
  <2>3. SlotsAgree'
    BY <1>1, <2>1, <2>2 DEF Call, SlotsAgree, Idle
  <2>4. PortsAgree'
    BY <1>1, <2>1, <2>2 DEF Call, PortsAgree, SlotsAgree
  <2>5. MutedIsOff'
    BY <1>1, <2>1 DEF Call, MutedIsOff, Said
  <2>6. QED
    BY <2>3, <2>4, <2>5
<1>2. ASSUME NEW o \in Ins, IncomingCall(o) PROVE SlotsAgree' /\ PortsAgree' /\ MutedIsOff'
  <2>1. PICK s \in Slots : /\ occupant[s] = None
                           /\ occupant' = [occupant EXCEPT ![s] = o]
                           /\ pjsuaCallId' = [pjsuaCallId EXCEPT ![o] = s]
    BY <1>2 DEF IncomingCall
  <2>2. ~isActive[o] /\ obj # o /\ \A r \in Slots : occupant[r] # o
    BY <1>2 DEF IncomingCall, SlotsAgree
  <2>3. SlotsAgree'
    BY <1>2, <2>1, <2>2 DEF IncomingCall, SlotsAgree, WorkerIdle
  <2>4. PortsAgree'
    BY <1>2, <2>1, <2>2 DEF IncomingCall, PortsAgree, SlotsAgree
  <2>5. MutedIsOff'
    BY <1>2, <2>1, <2>2 DEF IncomingCall, MutedIsOff, Said
  <2>6. QED
    BY <2>3, <2>4, <2>5
<1>3. ASSUME NEW o \in Ins, Answer(o) PROVE SlotsAgree' /\ PortsAgree' /\ MutedIsOff'
  <2>1. PICK s \in Slots : /\ s = pjsuaCallId[o] /\ occupant[s] = o /\ cbSlot # s
                           /\ offered' = offered \cup {s}
    BY <1>3 DEF Answer
  <2>2. SlotsAgree'
    BY <1>3, <2>1 DEF Answer, SlotsAgree, Idle
  <2>3. PortsAgree'
    BY <1>3, <2>1 DEF Answer, PortsAgree, SlotsAgree
  <2>4. s \notin mic
    BY <1>3, <2>1 DEF Answer, PortsAgree
  <2>5. MutedIsOff'
    BY <1>3, <2>1, <2>4 DEF Answer, MutedIsOff, Said
  <2>6. QED
    BY <2>2, <2>3, <2>5
<1>4. ASSUME NEW s \in Slots, CallEnded(s) PROVE SlotsAgree' /\ PortsAgree' /\ MutedIsOff'
  <2>1. SlotsAgree'
    BY <1>4 DEF CallEnded, SlotsAgree
  <2>2. PortsAgree'
    BY <1>4 DEF CallEnded, PortsAgree, SlotsAgree, WorkerIdle
  <2>3. MutedIsOff'
    BY <1>4 DEF CallEnded, MutedIsOff, Said
  <2>4. QED
    BY <2>1, <2>2, <2>3
<1>5. CASE SlotFreed
  <2>1. SlotsAgree'
    BY <1>5 DEF SlotFreed, SlotsAgree
  <2>2. PortsAgree'
    BY <1>5 DEF SlotFreed, PortsAgree, SlotsAgree
  <2>3. MutedIsOff'
    BY <1>5 DEF SlotFreed, MutedIsOff, Said
  <2>4. QED
    BY <2>1, <2>2, <2>3
<1>6. CASE NetworkChanged
  BY <1>6 DEF NetworkChanged, SlotsAgree, PortsAgree, MutedIsOff, Said
<1>7. QED
  BY <1>1, <1>2, <1>3, <1>4, <1>5, <1>6 DEF Lines

(* Media negotiated anew: the worker connects a microphone again, and      *)
(* records whose wishes that undoes.                                       *)
LEMMA NegotiationStep ==
  ASSUME IInv, Negotiation
  PROVE  SlotsAgree' /\ PortsAgree' /\ MutedIsOff'
<1> USE MediaAssumption DEF IInv, java, calls, sound, thread, worker, history, Typed
<1>1. ASSUME NEW s \in Slots, MediaUpdate(s) PROVE SlotsAgree' /\ PortsAgree' /\ MutedIsOff'
  <2>1. SlotsAgree'
    BY <1>1 DEF MediaUpdate, SlotsAgree, PortsAgree
  <2>2. PortsAgree'
    BY <1>1 DEF MediaUpdate, PortsAgree, WorkerIdle
  <2>3. MutedIsOff'
    BY <1>1 DEF MediaUpdate, MutedIsOff, Said
  <2>4. QED
    BY <2>1, <2>2, <2>3
<1>2. ASSUME NEW s \in Slots, Offer(s) PROVE SlotsAgree' /\ PortsAgree' /\ MutedIsOff'
  BY <1>2 DEF Offer, SlotsAgree, PortsAgree, MutedIsOff, Said
<1>3. CASE ConnectSpeaker
  BY <1>3 DEF ConnectSpeaker, SlotsAgree, PortsAgree, MutedIsOff, Said
<1>4. CASE ConnectMic \/ SelectDevice
  <2>1. cbSlot \in Slots /\ occupant[cbSlot] \in Objects /\ mic' \subseteq mic \cup {cbSlot}
    BY <1>4 DEF ConnectMic, SelectDevice, SlotsAgree, Connected
  <2>2. reopened'[occupant[cbSlot]] = {"mute", "hold"}
    BY <1>4, <2>1 DEF ConnectMic, SelectDevice, Undone
  <2>3. SlotsAgree'
    BY <1>4 DEF ConnectMic, SelectDevice, SlotsAgree
  <2>4. PortsAgree'
    BY <1>4 DEF ConnectMic, SelectDevice, PortsAgree, Connected
  <2>5. ASSUME NEW o \in Objects, isActive[o], isOnMute[o], "mute" \notin reopened'[o]
        PROVE  ~Said(o)'
    <3>1. o # occupant[cbSlot] /\ reopened'[o] = reopened[o]
      BY <1>4, <2>1, <2>2, <2>5 DEF ConnectMic, SelectDevice, Undone
    <3>2. pjsuaCallId[o] # cbSlot
      BY <2>5, <3>1 DEF SlotsAgree
    <3>3. QED
      BY <1>4, <2>1, <2>5, <3>1, <3>2 DEF ConnectMic, SelectDevice, MutedIsOff, Said
  <2>6. MutedIsOff'
    BY <1>4, <2>5 DEF ConnectMic, SelectDevice, MutedIsOff
  <2>7. QED
    BY <2>3, <2>4, <2>6
<1>5. QED
  BY <1>1, <1>2, <1>3, <1>4 DEF Negotiation, handleIPChange

(* What the proofs of all three properties rest on, for every application. *)
LEMMA Invariance == Spec => []IInv
<1>1. Init => SlotsAgree /\ PortsAgree /\ MutedIsOff
  BY MediaAssumption DEF Init, SlotsAgree, PortsAgree, MutedIsOff
<1>2. Typed /\ SlotsAgree /\ PortsAgree /\ MutedIsOff /\ [Next]_vars
      => SlotsAgree' /\ PortsAgree' /\ MutedIsOff'
  <2> SUFFICES ASSUME IInv, [Next]_vars
               PROVE  SlotsAgree' /\ PortsAgree' /\ MutedIsOff'
    BY DEF IInv
  <2>1. CASE UNCHANGED vars
    BY <2>1 DEF vars, java, calls, sound, thread, worker, history, IInv, SlotsAgree,
                PortsAgree, MutedIsOff, Said
  <2>2. QED
    BY <2>1, NativeStep, LinesStep, NegotiationStep DEF Next
<1>3. QED
  BY <1>1, <1>2, TypedInvariance, PTL DEF Spec, IInv

(* Type correctness: whatever the two threads do, no flag, slot, port or   *)
(* device leaves its set of values, a method under way has its object, and *)
(* neither side of the sound is connected to a port that is gone.          *)
THEOREM TypeCorrect == Spec => []TypeOK
<1>1. IInv => TypeOK
  <2> SUFFICES ASSUME IInv, NEW s \in mic \cup speaker, s # "device"
               PROVE  media_status[s] # "none"
    BY DEF IInv, TypeOK
  <2>1. s \in Slots
    BY DEF IInv, Typed, Ports
  <2>2. QED
    BY <2>1 DEF IInv, PortsAgree
<1>2. QED
  BY <1>1, Invariance, PTL

(* A muted call is not connected to the microphone unless its media was    *)
(* negotiated since: for any number of calls at once.                      *)
THEOREM MuteSilencesCorrect == Spec => []MuteSilences
<1>1. IInv => MuteSilences
  BY DEF IInv, MutedIsOff, MuteSilences, Up
<1>2. QED
  BY <1>1, Invariance, PTL

-----------------------------------------------------------------------------
(* With one active call at a time, hold and sound.                         *)

(* No second active call, not even beside the one a method is in. *)
OneActive ==
  \A o \in Objects : isActive[o] =>
    (\A q \in Objects : isActive[q] => o = q) /\ (obj # None => o = obj)

(* An Incoming object is answered once, and untouched until then. *)
Unanswered(o) ==
  /\ ~isActive[o]
  /\ pjsuaCallId[o] \in Slots =>
       occupant[pjsuaCallId[o]] = o /\ ~(cb = "ended" /\ cbSlot = pjsuaCallId[o])
Fresh == \A o \in Ins : Unanswered(o) => ~isOnHold[o] /\ obj # o

(* A method that has cut a call off, or has put the device back, finds the *)
(* call's port and the device as it left them.                             *)
Midway ==
  /\ op = "HoldDevice" /\ isActive[obj] => media_status[pjsuaCallId[obj]] # "none"
  /\ op = "UnHoldConnect" => device = snd_dev

(* HoldSilences, with the object whose unhold() has put the device back.   *)
Held ==
  \A o \in Objects : isActive[o] /\ isOnHold[o] /\ "hold" \notin reopened[o] =>
    /\ media_status[pjsuaCallId[o]] # "none"
    /\ device = "null" \/ (obj = o /\ op = "UnHoldConnect")

(* SoundFlows in its three parts, each with the place of on_call_media_state *)
(* from which on it holds again.                                           *)
Flowing(o) == isActive[o] /\ media_status[pjsuaCallId[o]] = "active"
Heard ==
  /\ \A o \in Objects : Flowing(o) /\ cbSlot # pjsuaCallId[o] => pjsuaCallId[o] \in speaker
  /\ cb \in {"in", "device"} => cbSlot \in speaker
Spoken ==
  \A o \in Objects :
    /\ Flowing(o) /\ ~isOnMute[o] /\ ~isOnHold[o] /\ ~failed[o]
    /\ cbSlot # pjsuaCallId[o] \/ cb = "device"
    /\ ~(obj = o /\ op = "HoldDevice")
    => Said(o)
Selected ==
  \A o \in Objects :
    /\ Flowing(o) /\ ~isOnHold[o] /\ ~failed[o] /\ snd_dev = "sound"
    /\ cbSlot # pjsuaCallId[o]
    => device = "sound"

OneInv == OneActive /\ Fresh /\ Midway /\ Held /\ Heard /\ Spoken /\ Selected

(* The methods of the objects: an active object is the one they are in.    *)
LEMMA NativeOne ==
  ASSUME IInv, OneInv, Native \/ User
  PROVE  OneInv'
<1> USE MediaAssumption DEF java, calls, sound, thread, worker, history
<1>1. CASE User
  <2>1. PICK o \in Objects : Enter(o, op') /\ op' \in {"Mute", "UnMute", "Hold", "UnHold"}
    BY <1>1 DEF User, mute, unmute, hold, unhold, Enter
  <2>2. isActive[o] /\ obj' = o /\ UNCHANGED <<java, calls, sound, worker, history>>
    BY <2>1 DEF Enter
  <2>3. OneActive' /\ Fresh' /\ Midway'
    BY <2>1, <2>2 DEF OneInv, OneActive, Fresh, Unanswered, Midway
  <2>4. Held' /\ Heard'
    BY <2>1, <2>2, op = "idle" DEF OneInv, Held, Heard, Flowing, Enter, Idle
  <2>5. Spoken' /\ Selected'
    BY <2>1, <2>2 DEF OneInv, Spoken, Selected, Flowing, Said, Enter, Idle
  <2>6. QED
    BY <2>3, <2>4, <2>5 DEF OneInv
<1>2. CASE Native
  <2>1. /\ UNCHANGED <<isActive, pjsuaCallId, calls, worker, speaker>>
        /\ obj # None /\ obj \in Objects /\ (obj' = obj \/ obj' = None)
    BY <1>2 DEF Native, Mute, UnMute, Hold, HoldDevice, UnHold, UnHoldConnect, At, Leave,
                IInv, Typed
  <2>2. \A o \in Objects : isActive[o] => o = obj
    BY <2>1 DEF OneInv, OneActive
  <2>3. isActive[obj] =>
          /\ pjsuaCallId[obj] \in Slots
          /\ port = IF media_status[pjsuaCallId[obj]] = "none" THEN None ELSE pjsuaCallId[obj]
    BY <2>1 DEF port, conf_slot, IInv, SlotsAgree
  <2>4. OneActive' /\ Heard'
    BY <2>1, <2>2 DEF OneInv, OneActive, Heard, Flowing
  <2>5. \A o \in Objects : o # obj => isOnHold'[o] = isOnHold[o]
    BY <1>2, <2>1 DEF Native, Mute, UnMute, Hold, HoldDevice, UnHold, UnHoldConnect, At, IInv,
                      Typed
  <2>6. Fresh'
    BY <2>1, <2>5 DEF OneInv, Fresh, Unanswered, Objects
  <2> DEFINE Rest == Midway /\ Held /\ Spoken /\ Selected
  <2>7. ASSUME Mute PROVE Rest'
    BY <2>1, <2>2, <2>3, <2>7
    DEF Mute, At, Leave, Wanted, IInv, Typed, OneInv, Midway, Held, Spoken, Selected, Flowing
  <2>8. ASSUME UnMute PROVE Rest'
    BY <2>1, <2>2, <2>3, <2>8
    DEF UnMute, At, Leave, Connected, IInv, Typed, OneInv, Midway, Held, Spoken, Selected, Flowing,
        Said
  <2>9. ASSUME Hold PROVE Rest'
    BY <2>1, <2>2, <2>3, <2>9
    DEF Hold, At, Leave, IInv, Typed, OneInv, Midway, Held, Spoken, Selected, Flowing, Said
  <2>10. ASSUME HoldDevice PROVE Rest'
    BY <2>1, <2>2, <2>3, <2>10
    DEF HoldDevice, At, Leave, Wanted, IInv, Typed, OneInv, Midway, Held, Spoken, Selected,
        Flowing, Said
  <2>11. ASSUME UnHold PROVE Rest'
    BY <2>1, <2>2, <2>3, <2>11
    DEF UnHold, At, Leave, set_snd_dev, IInv, Typed, OneInv, Midway, Held, Spoken, Selected,
        Flowing, Said
  <2>12. ASSUME UnHoldConnect PROVE Rest'
    BY <2>1, <2>2, <2>3, <2>12
    DEF UnHoldConnect, At, Leave, Connected, IInv, Typed, OneInv, Midway, Held, Spoken,
        Selected, Flowing, Said
  <2>13. Rest'
    BY <1>2, <2>7, <2>8, <2>9, <2>10, <2>11, <2>12 DEF Native
  <2>14. QED
    BY <2>4, <2>6, <2>13 DEF OneInv
<1>3. QED
  BY <1>1, <1>2

(* A call that comes or goes: it has no media yet, or not anymore, and the *)
(* one that comes is the only one.                                         *)
LEMMA LinesOne ==
  ASSUME OneAtATime = TRUE, IInv, OneInv, Lines
  PROVE  OneInv'
<1> USE MediaAssumption DEF java, calls, sound, thread, worker, history, IInv, Typed, OneInv,
        Objects
<1>1. ASSUME NEW o \in Outs, Call(o) PROVE OneInv'
  <2>1. PICK s \in Slots : /\ occupant[s] = None
                           /\ occupant' = [occupant EXCEPT ![s] = o]
                           /\ pjsuaCallId' = [pjsuaCallId EXCEPT ![o] = s]
    BY <1>1 DEF Call
  <2>2. \A q \in Objects : ~isActive[q]
    BY <1>1, OneAtATime = TRUE DEF Call, Policy
  <2>3. media_status[s] = "none" /\ cbSlot # s
    BY <2>1 DEF PortsAgree, SlotsAgree
  <2>4. OneActive' /\ Midway'
    BY <1>1, <2>2 DEF Call, Idle, OneActive, Midway
  <2>5. Fresh'
    BY <1>1, <2>1 DEF Call, Fresh, Unanswered
  <2>6. Held' /\ Heard'
    BY <1>1, <2>1, <2>2, <2>3 DEF Call, Held, Heard, Flowing
  <2>7. Spoken' /\ Selected'
    BY <1>1, <2>1, <2>2, <2>3 DEF Call, Spoken, Selected, Flowing
  <2>8. QED
    BY <2>4, <2>5, <2>6, <2>7
<1>2. ASSUME NEW o \in Ins, IncomingCall(o) PROVE OneInv'
  <2>1. PICK s \in Slots : /\ occupant[s] = None
                           /\ occupant' = [occupant EXCEPT ![s] = o]
                           /\ pjsuaCallId' = [pjsuaCallId EXCEPT ![o] = s]
    BY <1>2 DEF IncomingCall
  <2>2. ~isActive[o] /\ pjsuaCallId[o] = None
    BY <1>2 DEF IncomingCall, SlotsAgree
  <2>3. OneActive' /\ Midway'
    BY <1>2, <2>1, <2>2 DEF IncomingCall, OneActive, Midway
  <2>4. Fresh'
    BY <1>2, <2>1, <2>2 DEF IncomingCall, Fresh, Unanswered, WorkerIdle
  <2>5. Held' /\ Heard'
    BY <1>2, <2>1, <2>2 DEF IncomingCall, Held, Heard, Flowing
  <2>6. Spoken' /\ Selected'
    BY <1>2, <2>1, <2>2 DEF IncomingCall, Spoken, Selected, Flowing, Said
  <2>7. QED
    BY <2>3, <2>4, <2>5, <2>6
<1>3. ASSUME NEW o \in Ins, Answer(o) PROVE OneInv'
  <2>1. PICK s \in Slots : s = pjsuaCallId[o] /\ occupant[s] = o /\ cbSlot # s
    BY <1>3 DEF Answer
  <2>2. \A q \in Objects : ~isActive[q]
    BY <1>3, OneAtATime = TRUE DEF Answer, Policy
  <2>3. media_status[s] = "none" /\ ~isOnHold[o]
    BY <2>1, <2>2 DEF PortsAgree, Fresh, Unanswered
  <2>4. OneActive' /\ Midway'
    BY <1>3, <2>2 DEF Answer, Idle, OneActive, Midway
  <2>5. Fresh'
    BY <1>3 DEF Answer, Fresh, Unanswered
  <2>6. Held' /\ Heard'
    BY <1>3, <2>1, <2>2, <2>3 DEF Answer, Held, Heard, Flowing
  <2>7. Spoken' /\ Selected'
    BY <1>3, <2>1, <2>2, <2>3 DEF Answer, Spoken, Selected, Flowing
  <2>8. QED
    BY <2>4, <2>5, <2>6, <2>7
<1>4. ASSUME NEW s \in Slots, CallEnded(s) PROVE OneInv'
  <2>1. /\ occupant[s] \in Objects /\ pjsuaCallId[occupant[s]] = s
        /\ cbSlot = None /\ \A o \in Objects : isActive[o] => pjsuaCallId[o] # None
    BY <1>4 DEF CallEnded, WorkerIdle, SlotsAgree
  <2>2. OneActive' /\ Midway'
    BY <1>4, <2>1 DEF CallEnded, OneActive, Midway
  <2>3. Fresh'
    BY <1>4, <2>1 DEF CallEnded, Fresh, Unanswered, WorkerIdle, SlotsAgree
  <2>4. Held' /\ Heard'
    BY <1>4, <2>1 DEF CallEnded, Held, Heard, Flowing, WorkerIdle
  <2>5. Spoken' /\ Selected'
    BY <1>4, <2>1 DEF CallEnded, Spoken, Selected, Flowing, Said, WorkerIdle
  <2>6. QED
    BY <2>2, <2>3, <2>4, <2>5
<1>5. CASE SlotFreed
  <2>1. cbSlot \in Slots /\ \A o \in Objects : isActive[o] => pjsuaCallId[o] # cbSlot
    BY <1>5 DEF SlotFreed, SlotsAgree
  <2>2. OneActive' /\ Midway'
    BY <1>5, <2>1 DEF SlotFreed, OneActive, Midway
  <2>3. Fresh'
    BY <1>5, <2>1 DEF SlotFreed, Fresh, Unanswered
  <2>4. Held' /\ Heard'
    BY <1>5, <2>1 DEF SlotFreed, Held, Heard, Flowing, SlotsAgree
  <2>5. Spoken' /\ Selected'
    BY <1>5, <2>1 DEF SlotFreed, Spoken, Selected, Flowing, Said, SlotsAgree
  <2>6. QED
    BY <2>2, <2>3, <2>4, <2>5
<1>6. CASE NetworkChanged
  BY <1>6 DEF NetworkChanged, OneActive, Fresh, Unanswered, Midway, Held, Heard, Spoken, Selected,
              Flowing, Said
<1>7. QED
  BY <1>1, <1>2, <1>3, <1>4, <1>5, <1>6 DEF Lines

(* Media negotiated anew, of a call of an active object.                   *)
LEMMA NegotiationOne ==
  ASSUME IInv, OneInv, Negotiation
  PROVE  OneInv'
<1> USE MediaAssumption DEF java, calls, sound, thread, worker, history, IInv, Typed, OneInv
<1>1. ASSUME NEW s \in Slots, MediaUpdate(s) PROVE OneInv'
  <2>1. PICK status \in {"active", "held"} :
          /\ media_status' = [media_status EXCEPT ![s] = status]
          /\ mic \ {s} \subseteq mic' /\ speaker \ {s} \subseteq speaker'
          /\ IF status = "active" THEN cb' = "out" /\ cbSlot' = s ELSE UNCHANGED worker
    BY <1>1 DEF MediaUpdate
  <2>2. /\ cb = "idle" /\ cbSlot = None
        /\ \A o \in Objects : isActive[o] => pjsuaCallId[o] # None
    BY <1>1 DEF MediaUpdate, WorkerIdle, SlotsAgree
  <2>3. OneActive' /\ Midway'
    BY <1>1, <2>1 DEF MediaUpdate, OneActive, Midway
  <2>4. Fresh'
    BY <1>1, <2>1, <2>2 DEF MediaUpdate, Fresh, Unanswered, Objects
  <2>5. Held'
    BY <1>1, <2>1 DEF MediaUpdate, Held
  <2>6. Heard'
    BY <1>1, <2>1, <2>2 DEF MediaUpdate, Heard, Flowing
  <2>7. Spoken'
    BY <1>1, <2>1, <2>2 DEF MediaUpdate, Spoken, Flowing, Said
  <2>8. Selected'
    BY <1>1, <2>1, <2>2 DEF MediaUpdate, Selected, Flowing
  <2>9. QED
    BY <2>3, <2>4, <2>5, <2>6, <2>7, <2>8
<1>2. ASSUME NEW s \in Slots, Offer(s) PROVE OneInv'
  BY <1>2 DEF Offer, OneActive, Fresh, Unanswered, Midway, Held, Heard, Spoken, Selected,
              Flowing, Said
<1>3. CASE ConnectSpeaker
  BY <1>3 DEF ConnectSpeaker, OneActive, Fresh, Unanswered, Midway, Held, Heard, Spoken, Selected,
              Flowing, Said
<1>4. ASSUME ConnectMic \/ SelectDevice
      PROVE  /\ UNCHANGED <<java, calls, snd_dev, thread, speaker>>
             /\ cb' # "ended" /\ cb # "ended" /\ mic \subseteq mic'
             /\ cbSlot \in Slots /\ occupant[cbSlot] \in Objects
             /\ \A o \in Objects : isActive[o] /\ o # occupant[cbSlot] => pjsuaCallId[o] # cbSlot
             /\ \A o \in Objects : o # occupant[cbSlot] => reopened'[o] = reopened[o]
             /\ reopened'[occupant[cbSlot]] = {"mute", "hold"}
             /\ device' \in {device, snd_dev}
  BY <1>4 DEF ConnectMic, SelectDevice, Undone, SlotsAgree, Connected, set_snd_dev
<1>5. ASSUME ConnectMic \/ SelectDevice
      PROVE  OneActive' /\ Fresh' /\ Midway'
  BY <1>4, <1>5 DEF OneActive, Fresh, Unanswered, Midway, Objects
<1>6. ASSUME ConnectMic \/ SelectDevice PROVE Held'
  <2>1. ASSUME NEW o \in Objects, isActive[o], o # occupant[cbSlot], isOnHold[o]
        PROVE  FALSE
    <3>1. isActive[occupant[cbSlot]]
      BY <1>4, <1>6 DEF PortsAgree, ConnectMic, SelectDevice
    <3>2. QED
      BY <1>4, <1>6, <2>1, <3>1 DEF OneActive
  <2>2. QED
    BY <1>4, <1>6, <2>1 DEF Held
<1>7. CASE ConnectMic
  <2>1. Heard'
    BY <1>4, <1>7 DEF ConnectMic, Heard, Flowing
  <2>2. Spoken'
    BY <1>4, <1>7 DEF ConnectMic, Connected, Spoken, Flowing, Said
  <2>3. Selected'
    BY <1>4, <1>7 DEF ConnectMic, Selected, Flowing
  <2>4. QED
    BY <1>5, <1>6, <1>7, <2>1, <2>2, <2>3
<1>8. CASE SelectDevice
  <2>1. Heard'
    BY <1>4, <1>8 DEF SelectDevice, Heard, Flowing
  <2>2. Spoken'
    BY <1>4, <1>8 DEF SelectDevice, Spoken, Flowing, Said
  <2>3. Selected'
    <3>1. PICK ok \in BOOLEAN :
            /\ device' = IF ok THEN snd_dev ELSE device
            /\ failed' = [failed EXCEPT ![occupant[cbSlot]] = @ \/ ~ok]
      BY <1>8 DEF SelectDevice, set_snd_dev
    <3>2. ASSUME NEW o \in Objects, Flowing(o), ~isOnHold[o], ~failed'[o], snd_dev = "sound"
          PROVE  device' = "sound"
      <4>1. CASE o = occupant[cbSlot]
        BY ZenonT(30), <1>4, <1>8, <3>1, <3>2, <4>1
      <4>2. CASE o # occupant[cbSlot]
        BY <1>4, <1>8, <3>1, <3>2, <4>2 DEF Selected, Flowing
      <4>3. QED
        BY <4>1, <4>2
    <3>3. QED
      BY <1>4, <1>8, <3>2 DEF Selected, Flowing
  <2>4. QED
    BY <1>5, <1>6, <1>8, <2>1, <2>2, <2>3
<1>9. QED
  BY <1>1, <1>2, <1>3, <1>7, <1>8 DEF Negotiation, handleIPChange

LEMMA OneInvariance ==
  ASSUME OneAtATime = TRUE
  PROVE  Spec => []OneInv
<1>1. Init => OneInv
  <2> SUFFICES ASSUME Init PROVE OneInv
    OBVIOUS
  <2>1. OneActive /\ Fresh /\ Midway
    BY MediaAssumption DEF Init, OneActive, Fresh, Midway, Objects
  <2>2. Held /\ Heard /\ Spoken /\ Selected
    BY DEF Init, Held, Heard, Spoken, Selected, Flowing
  <2>3. QED
    BY <2>1, <2>2 DEF OneInv
<1>2. IInv /\ OneInv /\ [Next]_vars => OneInv'
  <2> SUFFICES ASSUME IInv, OneInv, [Next]_vars PROVE OneInv'
    OBVIOUS
  <2>1. CASE UNCHANGED vars
    BY <2>1 DEF vars, java, calls, sound, thread, worker, history, OneInv, OneActive, Fresh,
                Unanswered, Midway, Held, Heard, Spoken, Selected, Flowing, Said
  <2>2. QED
    BY <2>1, OneAtATime = TRUE, NativeOne, LinesOne, NegotiationOne DEF Next
<1>3. QED
  BY <1>1, <1>2, Invariance, PTL DEF Spec

(* From a call on hold nothing is heard on the other side, as long as the  *)
(* application keeps to one active call: also when it is unmuted meanwhile. *)
THEOREM HoldSilencesCorrect ==
  ASSUME OneAtATime = TRUE
  PROVE  Spec => []HoldSilences
<1>1. Spec => []OneInv
  BY OneInvariance, OneAtATime = TRUE
<1>2. OneInv => HoldSilences
  BY DEF OneInv, Held, HoldSilences, Up
<1>3. QED
  BY <1>1, <1>2, PTL

(* For such an application a call that is neither muted nor on hold has    *)
(* its sound, both ways, whatever was undone and negotiated before.        *)
THEOREM SoundFlowsCorrect ==
  ASSUME OneAtATime = TRUE
  PROVE  Spec => []SoundFlows
<1>1. Spec => []OneInv
  BY OneInvariance, OneAtATime = TRUE
<1>2. OneInv => SoundFlows
  BY DEF OneInv, Heard, Spoken, Selected, Flowing, SoundFlows, Up
<1>3. QED
  BY <1>1, <1>2, PTL
=============================================================================
