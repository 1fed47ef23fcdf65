-------------------------------- MODULE Media --------------------------------
(***************************************************************************)
(* The sound of a call: mute, hold and what undoes them.                   *)
(*                                                                         *)
(* IO.java keeps two flags per object.  plivo_app_callback.cpp turns each  *)
(* operation into connections of pjsua's conference, whose port 0 is the   *)
(* sound device, and into a choice of the device, which all calls share.   *)
(* The application's thread does so while the pjsua worker, whenever media *)
(* is negotiated anew, connects the call again (on_call_media_state): no   *)
(* lock spans two calls of pjsua on either side.                           *)
(***************************************************************************)
EXTENDS Integers, FiniteSets

CONSTANTS Outs, Ins,  \* the Outgoing objects, and one Incoming object per call
          Slots,      \* the call slots of pjsua; also the call's conference port
          OneAtATime, \* does the application keep to one active call?
          None        \* no object, no port

Objects == Outs \cup Ins

ASSUME MediaAssumption ==
  /\ Outs \cap Ins = {} /\ None \notin Objects \cup Slots /\ "device" \notin Slots
  /\ OneAtATime \in BOOLEAN

Ports == Slots \cup {"device"}  \* "device" is port 0

VARIABLES
  isConnected,                     \* NetworkChangeReceiver.java
  isActive, isOnMute, isOnHold,    \* IO.java, per object
  pjsuaCallId,                     \* IO.java, per object
  snd_dev,                         \* the static capture_snd_dev and playback_snd_dev
  occupant,     \* pjsua: whose call a slot has
  media_status, \* pjsua: "none" as long as the call has no port
  offered,      \* pjsua: the slots whose media is being negotiated
  mic, speaker, \* pjsua: the ports port 0 is connected to, and those connected to it
  device,       \* pjsua: the sound device, or the null device
  op, obj,      \* where the application's thread is, and in which object's method
  cb, cbSlot,   \* where the worker is, in on_call_media_state or at the end of a call
  reopened,     \* history: the wishes not met on this object's call, or undone since
  failed        \* history: a step of pjsua for this object's call has failed

java == <<isConnected, isActive, isOnMute, isOnHold, pjsuaCallId>>
calls == <<occupant, media_status, offered>>
sound == <<mic, speaker, device, snd_dev>>
thread == <<op, obj>>
worker == <<cb, cbSlot>>
history == <<reopened, failed>>
vars == <<java, calls, sound, thread, worker, history>>

Devices == {"sound", "null"}
Ops == {"idle", "Mute", "UnMute", "Hold", "HoldDevice", "UnHold", "UnHoldConnect"}

Typed ==
  /\ isConnected \in BOOLEAN
  /\ isActive \in [Objects -> BOOLEAN]
  /\ isOnMute \in [Objects -> BOOLEAN] /\ isOnHold \in [Objects -> BOOLEAN]
  /\ pjsuaCallId \in [Objects -> Slots \cup {None}]
  /\ occupant \in [Slots -> Objects \cup {None}]
  /\ media_status \in [Slots -> {"none", "active", "held"}]
  /\ offered \subseteq Slots /\ mic \subseteq Ports /\ speaker \subseteq Slots
  /\ device \in Devices /\ snd_dev \in Devices
  /\ op \in Ops /\ obj \in Objects \cup {None} /\ (op = "idle" <=> obj = None)
  /\ cb \in {"idle", "out", "in", "device", "ended"} /\ cbSlot \in Slots \cup {None}
  /\ (cb = "idle" <=> cbSlot = None)
  /\ reopened \in [Objects -> SUBSET {"mute", "hold"}]
  /\ failed \in [Objects -> BOOLEAN]

(* Every variable has its values, and only ports that exist are connected. *)
TypeOK == Typed /\ \A s \in mic \cup speaker : s # "device" => media_status[s] # "none"

Init ==
  /\ isConnected = TRUE
  /\ isActive = [o \in Objects |-> FALSE]
  /\ isOnMute = [o \in Objects |-> FALSE] /\ isOnHold = [o \in Objects |-> FALSE]
  /\ pjsuaCallId = [o \in Objects |-> None]
  /\ occupant = [s \in Slots |-> None] /\ media_status = [s \in Slots |-> "none"]
  /\ offered = {} /\ mic = {} /\ speaker = {}
  /\ device = "sound" /\ snd_dev = "sound"
  /\ op = "idle" /\ obj = None /\ cb = "idle" /\ cbSlot = None
  /\ reopened = [o \in Objects |-> {}] /\ failed = [o \in Objects |-> FALSE]

-----------------------------------------------------------------------------
(* pjsua.                                                                  *)

(* conf_slot of pjsua_call_get_info.  For a slot that has no call anymore  *)
(* the record is left zeroed, and 0 is the sound device.                   *)
conf_slot(s) ==
  CASE occupant[s] = None -> "device"
    [] occupant[s] # None /\ media_status[s] = "none" -> None
    [] OTHER -> s

(* pjsua_conf_connect(0, p) and pjsua_conf_disconnect(0, p). *)
Connected(p) == mic \cup ({p} \ {None})
Disconnected(p) == mic \ {p}

(* pjsua_set_snd_dev of the saved identifiers.  Those of the null device   *)
(* select it again; a device that will not open is not selected.           *)
set_snd_dev(ok) == device' = IF ok THEN snd_dev ELSE device

-----------------------------------------------------------------------------
(* Calls come and go; Calls.tla has the whole of it.                       *)

Idle == op = "idle"
WorkerIdle == cb = "idle"
Policy == OneAtATime => \A o \in Objects : ~isActive[o]
HasCall(o) == \E s \in Slots : occupant[s] = o

(* Outgoing.call: the slot is taken and, with the answer or before it,     *)
(* media is negotiated.  The flags of the object are left as they are.     *)
Call(o) ==
  /\ Idle /\ isConnected /\ Policy /\ ~isActive[o] /\ ~HasCall(o)
  /\ \E s \in Slots :
       /\ occupant[s] = None
       /\ occupant' = [occupant EXCEPT ![s] = o]
       /\ pjsuaCallId' = [pjsuaCallId EXCEPT ![o] = s]
       /\ offered' = offered \cup {s}
  /\ isActive' = [isActive EXCEPT ![o] = TRUE]
  /\ reopened' = [reopened EXCEPT ![o] = {"mute", "hold"}] /\ failed' = [failed EXCEPT ![o] = FALSE]
  /\ UNCHANGED <<isConnected, isOnMute, isOnHold, media_status, sound, thread, worker>>

(* onIncomingCall, with a new Incoming object. *)
IncomingCall(o) ==
  /\ WorkerIdle /\ pjsuaCallId[o] = None
  /\ \E s \in Slots :
       /\ occupant[s] = None
       /\ occupant' = [occupant EXCEPT ![s] = o]
       /\ pjsuaCallId' = [pjsuaCallId EXCEPT ![o] = s]
  /\ UNCHANGED <<isConnected, isActive, isOnMute, isOnHold, media_status, offered, sound,
                 thread, worker, history>>

(* Incoming.answer, of a call that is still there. *)
Answer(o) ==
  /\ Idle /\ isConnected /\ Policy /\ ~isActive[o]
  /\ isActive' = [isActive EXCEPT ![o] = TRUE]
  /\ \E s \in Slots : /\ s = pjsuaCallId[o] /\ occupant[s] = o /\ cbSlot # s
                      /\ offered' = offered \cup {s}
  /\ UNCHANGED <<isConnected, isOnMute, isOnHold, pjsuaCallId, occupant, media_status, sound,
                 thread, worker, history>>

(* The end of a call: the handlers of BackendListener. *)
CallEnded(s) ==
  /\ WorkerIdle /\ occupant[s] # None
  /\ isActive' = [isActive EXCEPT ![occupant[s]] = FALSE]
  /\ offered' = offered \ {s}
  /\ cb' = "ended" /\ cbSlot' = s
  /\ UNCHANGED <<isConnected, isOnMute, isOnHold, pjsuaCallId, occupant, media_status, sound,
                 thread, history>>

(* And after them pjsua takes the port down and frees the slot. *)
SlotFreed ==
  /\ cb = "ended"
  /\ occupant' = [occupant EXCEPT ![cbSlot] = None]
  /\ media_status' = [media_status EXCEPT ![cbSlot] = "none"]
  /\ mic' = mic \ {cbSlot} /\ speaker' = speaker \ {cbSlot}
  /\ cb' = "idle" /\ cbSlot' = None
  /\ UNCHANGED <<java, offered, device, snd_dev, thread, history>>

NetworkChanged ==
  /\ isConnected' = ~isConnected
  /\ UNCHANGED <<isActive, isOnMute, isOnHold, pjsuaCallId, calls, sound, thread, worker,
                 history>>

-----------------------------------------------------------------------------
(* Media is negotiated: with the answer, when the other side asks for it   *)
(* (a hold of its own, a session refresh) and on a change of the network.  *)

Offer(s) ==
  /\ media_status[s] # "none" /\ cbSlot # s
  /\ offered' = offered \cup {s}
  /\ UNCHANGED <<java, occupant, media_status, sound, thread, worker, history>>

(* handleIPChange, on the application's thread: only with a single call    *)
(* and only if its media is active.                                        *)
handleIPChange ==
  /\ Idle /\ isConnected
  /\ \E s \in Slots : /\ \A r \in Slots : occupant[r] # None <=> r = s
                      /\ media_status[s] = "active"
                      /\ Offer(s)

(* The end of a negotiation.  The port is a new one, without connections,  *)
(* or the old one; on_call_media_state does nothing unless media is active. *)
MediaUpdate(s) ==
  /\ WorkerIdle /\ s \in offered
  /\ offered' = offered \ {s}
  /\ \E status \in {"active", "held"}, port \in {"new", "old"} :
       /\ port = "old" => media_status[s] # "none"
       /\ media_status' = [media_status EXCEPT ![s] = status]
       /\ mic' = IF port = "old" THEN mic ELSE mic \ {s}
       /\ speaker' = IF port = "old" THEN speaker ELSE speaker \ {s}
       /\ IF status = "active" THEN cb' = "out" /\ cbSlot' = s ELSE UNCHANGED worker
  /\ UNCHANGED <<java, occupant, device, snd_dev, thread, history>>

(* Its three steps: what is heard, what is said, and the device. *)
ConnectSpeaker ==
  /\ cb = "out" /\ cb' = "in"
  /\ speaker' = speaker \cup {cbSlot}
  /\ UNCHANGED <<java, calls, mic, device, snd_dev, thread, cbSlot, history>>

Undone == [reopened EXCEPT ![occupant[cbSlot]] = {"mute", "hold"}]

ConnectMic ==
  /\ cb = "in" /\ cb' = "device"
  /\ mic' = Connected(cbSlot)
  /\ reopened' = Undone
  /\ UNCHANGED <<java, calls, speaker, device, snd_dev, thread, cbSlot, failed>>

SelectDevice ==
  /\ cb = "device" /\ cb' = "idle" /\ cbSlot' = None
  /\ \E ok \in BOOLEAN :
       /\ set_snd_dev(ok)
       /\ failed' = [failed EXCEPT ![occupant[cbSlot]] = @ \/ ~ok]
  /\ reopened' = Undone
  /\ UNCHANGED <<java, calls, mic, speaker, snd_dev, thread>>

-----------------------------------------------------------------------------
(* The operations of IO.java, each up to its native function.  One that is *)
(* refused, or finds its flag as it wants it, changes nothing.             *)

Enter(o, native) ==
  /\ Idle /\ isConnected /\ isActive[o]
  /\ op' = native /\ obj' = o
  /\ UNCHANGED <<java, calls, sound, worker, history>>

mute(o) == ~isOnMute[o] /\ Enter(o, "Mute")
unmute(o) == isOnMute[o] /\ Enter(o, "UnMute")
hold(o) == ~isOnHold[o] /\ Enter(o, "Hold")
unhold(o) == isOnHold[o] /\ Enter(o, "UnHold")

At(o) == op = o

Leave == op' = "idle" /\ obj' = None

(* Mutant: a call's identifier is taken for its port. *)
portOfIdentifier == pjsuaCallId[obj]

port == conf_slot(pjsuaCallId[obj])
Wanted(wish) == reopened' = [reopened EXCEPT ![obj] = @ \ {wish}]

(* Mute, which fails only on a call that has no port yet. *)
Mute ==
  /\ At("Mute") /\ Leave
  /\ mic' = Disconnected(port)
  /\ isOnMute' = [isOnMute EXCEPT ![obj] = port # None]
  /\ Wanted("mute")
  /\ UNCHANGED <<isConnected, isActive, isOnHold, pjsuaCallId, calls, speaker, device,
                 snd_dev, worker, failed>>

(* UnMute, which never fails, whether or not there is something to connect. *)
UnMute ==
  /\ At("UnMute") /\ Leave
  /\ mic' = Connected(port)
  /\ isOnMute' = [isOnMute EXCEPT ![obj] = FALSE]
  /\ UNCHANGED <<isConnected, isActive, isOnHold, pjsuaCallId, calls, speaker, device,
                 snd_dev, worker, history>>

(* Hold: the microphone is disconnected ... *)
Hold ==
  /\ At("Hold")
  /\ IF port \in Slots
     THEN op' = "HoldDevice" /\ mic' = Disconnected(port) /\ UNCHANGED obj
     ELSE Leave /\ UNCHANGED mic
  /\ UNCHANGED <<java, calls, speaker, device, snd_dev, worker, history>>

(* Mutant: the microphone is cut off, and that is all. *)
HoldDeviceKept ==
  /\ At("HoldDevice") /\ Leave
  /\ snd_dev' = device
  /\ isOnHold' = [isOnHold EXCEPT ![obj] = TRUE]
  /\ Wanted("hold")
  /\ UNCHANGED <<isConnected, isActive, isOnMute, pjsuaCallId, calls, mic, speaker, worker,
                 device, failed>>

(* ... and the device exchanged for the null device, to be put back later.  *)
HoldDevice ==
  /\ At("HoldDevice") /\ Leave
  /\ snd_dev' = device
  /\ \/ /\ device' = "null"
        /\ isOnHold' = [isOnHold EXCEPT ![obj] = TRUE]
        /\ Wanted("hold") /\ UNCHANGED failed
     \/ /\ failed' = [failed EXCEPT ![obj] = TRUE]
        /\ UNCHANGED <<device, isOnHold, reopened>>
  /\ UNCHANGED <<isConnected, isActive, isOnMute, pjsuaCallId, calls, mic, speaker, worker>>

(* Mutant: the device is not put back. *)
UnHoldSilent ==
  /\ At("UnHold") /\ op' = "UnHoldConnect"
  /\ UNCHANGED <<java, calls, sound, worker, obj, history>>

(* UnHold: the device is put back ... *)
UnHold ==
  /\ At("UnHold")
  /\ \E ok \in BOOLEAN :
       /\ set_snd_dev(ok)
       /\ IF ok THEN op' = "UnHoldConnect" /\ UNCHANGED obj ELSE Leave
  /\ UNCHANGED <<java, calls, mic, speaker, snd_dev, worker, history>>

(* Mutant: the mute is taken to have lasted. *)
UnHoldConnectMuted ==
  /\ At("UnHoldConnect") /\ Leave
  /\ mic' = IF port \in Slots THEN Connected(port) ELSE mic
  /\ isOnHold' = [isOnHold EXCEPT ![obj] = port \notin Slots]
  /\ UNCHANGED <<isConnected, isActive, isOnMute, pjsuaCallId, calls, speaker, device,
                 snd_dev, worker, history>>

(* ... and the microphone connected again; then a mute is renewed, by       *)
(* mute() with all its conditions.                                         *)
UnHoldConnect ==
  /\ At("UnHoldConnect")
  /\ IF port \in Slots
     THEN /\ mic' = Connected(port)
          /\ isOnHold' = [isOnHold EXCEPT ![obj] = FALSE]
          /\ isOnMute' = [isOnMute EXCEPT ![obj] = FALSE]
          /\ IF isOnMute[obj] /\ isConnected /\ isActive[obj]
             THEN op' = "Mute" /\ UNCHANGED obj
             ELSE Leave
     ELSE Leave /\ UNCHANGED <<mic, isOnHold, isOnMute>>
  /\ UNCHANGED <<isConnected, isActive, pjsuaCallId, calls, speaker, device, snd_dev, worker,
                 history>>

-----------------------------------------------------------------------------
User == \E o \in Objects : mute(o) \/ unmute(o) \/ hold(o) \/ unhold(o)
Native == Mute \/ UnMute \/ Hold \/ HoldDevice \/ UnHold \/ UnHoldConnect
Lines ==
  \/ \E o \in Outs : Call(o)
  \/ \E o \in Ins : IncomingCall(o) \/ Answer(o)
  \/ (\E s \in Slots : CallEnded(s)) \/ SlotFreed \/ NetworkChanged
Negotiation ==
  \/ (\E s \in Slots : Offer(s) \/ MediaUpdate(s)) \/ handleIPChange
  \/ ConnectSpeaker \/ ConnectMic \/ SelectDevice

Next == User \/ Native \/ Lines \/ Negotiation

Spec == Init /\ [][Next]_vars

-----------------------------------------------------------------------------
(* Properties.  They are about a call whose object no method is in: while  *)
(* one is, unhold() of a muted call lets the microphone through.           *)

Up(o) == isActive[o] /\ obj # o
Said(o) == pjsuaCallId[o] \in mic  \* the microphone is connected to the call

(* A muted call is not connected to the microphone, whatever hold and      *)
(* unhold, changes of the network and failures came in between, unless     *)
(* media was negotiated since.                                             *)
MuteSilences ==
  \A o \in Objects : Up(o) /\ isOnMute[o] /\ "mute" \notin reopened[o] => ~Said(o)

(* From a call on hold nothing is heard on the other side, not even when   *)
(* it is unmuted meanwhile: for then it is the device that is silent.      *)
HoldSilences ==
  \A o \in Objects :
    Up(o) /\ isOnHold[o] /\ "hold" \notin reopened[o] => ~Said(o) \/ device = "null"

(* And a call that is neither muted nor on hold has its sound, both ways,  *)
(* as soon as its media is active, unless a step of pjsua failed or the    *)
(* device to put back was lost.                                            *)
SoundFlows ==
  \A o \in Objects :
    /\ Up(o) /\ ~isOnMute[o] /\ ~isOnHold[o] /\ ~failed[o] /\ snd_dev = "sound"
    /\ media_status[pjsuaCallId[o]] = "active" /\ cbSlot # pjsuaCallId[o]
    => Said(o) /\ pjsuaCallId[o] \in speaker /\ device = "sound"

(* "unhold success": the application has a sound device again. *)
UnholdRestoresSound ==
  [][op = "UnHoldConnect" /\ isOnHold' # isOnHold => device = "sound"]_vars

(* "apply mute if already on mute before hold was applied": a call muted   *)
(* before unhold() is muted after it.                                      *)
UnholdKeepsMute ==
  [][op = "UnHoldConnect" /\ op' = "idle" /\ isActive[obj] => ~(isOnMute[obj] /\ ~isOnMute'[obj])]_vars
=============================================================================
