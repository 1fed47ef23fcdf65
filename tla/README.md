# A TLA+ model of the Plivo Android SDK

The repository is an Android library for VoIP calls.  An application creates an
`Endpoint`, logs it in to the Plivo cloud, and places and receives calls through
`Outgoing` and `Incoming` objects; it hears of what happens through an
`EventListener`.  The SDK is a thin stack:

    application  --calls-->  Endpoint, Outgoing, Incoming, IO        (Java)
                 <-events--  BackendListener -> EventListener        (Java)
                             |            ^
                       plivo.java   PlivoAppCallback                 (SWIG)
                             v            |
                             plivo_app_callback.cpp                  (C++)
                             v            ^
                             pjsua / pjsip 2.7.2                     (not in the repository)

What makes it hard is that each layer keeps its own copy of the state
(`isRegistered`, `isLoggedIn`, `is_logged_in`; `isActive`, the call lists, the
slots of pjsua), that two threads write the copies without a lock of their own
(the application's, going down, and the pjsua worker, coming up), and that SIP
answers cross the application's wishes on the wire.

This directory holds the model, the TLC runs that check it and the proofs about
it.  `PROJECT.json` lists the components, the runs, the lines each definition
stands for, the hazards and the theorems.

## The components

| component | state it keeps | operations | hard | correct when | module |
|---|---|---|---|---|---|
| Registration | the flags of three layers, pjsua's accounts | `login`, `logout`, `keepAlive`, `setRegTimeout`, `relayVoipPushNotification`, `resetEndpoint`; `on_reg_state2` | two threads, flags without a lock, refreshes and retries pjsua makes by itself, answers told apart by global flags | the layers agree, the listener hears whole sessions, one account at a time, every login answered | `Registration`, `Session` |
| Calls | two lists of calls, the fields of each object, one `signallingStats`; the slots of pjsua | `createOutgoingCall`, `call`, `callH`, `answer`, `reject`, `hangup`; `on_incoming_call`, `on_call_state` | crossing CANCEL and 200, slots used again, objects booked under another call, end bookkeeping after the listener | the lists are what pjsua has, one incoming call, hangup ends its own call and is reported | `Calls`, `CallLine` |
| Media | `isOnMute`, `isOnHold`; conference ports, the sound device | `mute`, `unmute`, `hold`, `unhold`, `handleIPChange`; `on_call_media_state` | Java flags and native connections part when one step fails or media is negotiated anew | a muted call is not heard, a held one silent, any other has its sound | `Media` |
| Call insights | a buffer of events, a timer, a WebSocket, one `signallingStats` | answer, summary, feedback and RTP events | timer, worker, WebSocket and HTTP threads on one unsynchronised list | no event lost, the timer ends with the call, an event carries its own call's identifier | `Insights` |
| RTP statistics | counters of packets, open alerts, the audio level | a sample each five seconds | counters and "current call" shared by all calls and timers | figures add up, an alert stands exactly as long as it should | `RtpStats` |
| Feedback | the last call's identifiers | `submitCallQualityFeedback` | the identifiers change under the caller | filed under the right call | `Insights` |
| Headers | the texts of headers, the account's header list | splitting and joining push and call headers | separators inside values, any order of lines | what is relayed is what was given, once | `Headers`, `Texts` |
| Network receiver | `isConnected` | a broadcast | cached value | -- | `Registration`, `Media` |
| WebSocket client | ready state | connect, send, close | reader and writer threads | -- | inside `Insights` |

## The modules

### Registration

`Registration.tla` models logging in and out.  A variable has the name of the
field it stands for.  pjsua's accounts (`acc`, `retry`) are external: modelled
from what the SDK relies on in pjsua 2.7.2, the version the README names.

* *The application's thread* (`app`) is in at most one SDK method.  `Login` is
  `Endpoint.login` up to the native call, `LoginSip` that call's test of
  `is_logged_in`, without the lock, and `LoginSipAdds` the rest of it; `Logout`,
  `SendUnregister` and `LogoutReturns` cut `Endpoint.logout` where the worker
  can come between: before the request goes out, and before the assignment
  after it.  A REGISTER that cannot be sent counts as one answered by an error.
  `RelayVoipPushNotification` may change nothing, when the registrar is no URI or
  `pjsua_acc_modify` fails; called with an account that is not there it walks a
  list of whatever the stack holds, and may never come back (`app = "lost"`).
* *The pjsua worker* (`cb`) runs `on_reg_state2` with the pjsua lock held
  (`RegResponse`) and then the Java callback, cut into the assignments another
  thread can see: `OnLogin` and `OnLogout` set what `getRegistered()` returns,
  `OnLoginTell` and `OnLogoutFlags` go on to the listener.  While `cb` is not
  idle, actions that take the pjsua lock wait; `LoginSip` does not.
* *Environment*: the refresh and retry timers of pjsua, a lost connection, the
  network receiver.
* `latest`, `previous` and `asked` are history: the listener's last two events
  and whether a login waits for its answer.

`AllowRelogin` says whether the application may log in while an earlier account
is still alive; `AllowReset` whether it may call `resetEndpoint`.

### Calls

`Calls.tla` models calls, from the objects of the application down to the slots.
A SIP Call-ID names a call; `inv`, `slot`, `cause` and `leaving` are pjsua's
view of it, external as above.

* The application's thread (`op`, `obj`) runs the Java method, the native call
  (`MakeCall`, `NativeAnswer`, `NativeReject`, `NativeHangup`), and what the
  method does after it (`CallReturns`, `AnswerReturns`).
* The worker takes each step of a call with its callbacks as one action, for
  pjsip holds the dialog lock meanwhile; except the end of a call, which is two:
  `Disconnect` up to the listener, `BookEnd` for what the handler does after it.
  A reject or hangup of a ringing call runs the same handlers on the
  application's thread, so `ending` is kept per thread.
* `NativeAnswer` has no result in the source (the function has no `return`), so
  `AnswerReturns` takes any.
* `onIncomingCall` and `onOutgoingCall` are one step with the native function
  that triggers them: pjsua holds its lock across.
* `Careful` says whether the application keeps to one call at a time and calls
  on the object it created last.

Not in `Calls`: SDK calls made from inside a listener method, an endpoint with
no listener, offline refusals, and media.  FailCodes are the final codes the
runs distinguish, one for each branch of `on_call_state`.

### Session and CallLine

The two abstract specifications say what an application may rely on, in terms
of nothing but what it sees: `Session` of `getRegistered()` and the events of a
login, `CallLine` of the events of the calls.  `Registration` implements
`Session` with `registered <- isRegistered, event <- latest` (`IsSession`, with
fairness `IsFairSession`).  `getRegistered()` and the listener are not brought up to
date in one: `LogIn` and `LogOut` change the one, `TellLogin` and `TellLogout` the
other, and between them the session does not go on; `Calls` implements `CallLine` with its own history
variable `heard` (`IsCallLine`).  The guard of `CallLine!Offer` is the strong
part: no incoming call is offered while the end of another call is still to be
heard, although the lists behind it may hold calls under the wrong objects.

### Media

`Media.tla` models the sound of a call.  `IO.java` keeps `isOnMute` and
`isOnHold` per object; the native functions turn them into connections of
pjsua's conference and a choice of the sound device.  The two are parted here:
`mic` is the set of ports the microphone is connected to, `device` the one
selected, `snd_dev` the pair of identifiers `Hold` saves.

* Each operation is cut between the calls of pjsua it makes, for no lock spans
  two of them: `Hold`, `HoldDevice`; `UnHold`, `UnHoldConnect`, and `Mute` again
  when the call was muted.  Meanwhile the worker, at the end of a negotiation,
  goes through the three steps of `on_call_media_state`.
* Media is negotiated with the answer, on the other side's wish and by
  `handleIPChange`; the port may be the old one or a new one.  That function's
  test of `is_logged_in` is taken to hold while there is a call.  `port` is the
  one the operation's call has now, looked up again in each native function;
  `TypeOK` says that no port is connected that does not exist.
* `conf_slot` is 0, the sound device itself, for a slot that lost its call.
* `reopened` and `failed` are history: which of the application's wishes the
  last negotiation undid (`on_call_media_state` connects and selects the device
  whatever the flags say), and whether a call of pjsua failed.
* `OneAtATime` says whether the application keeps to one active call.
* Calls come and go as in `Calls`, reduced to what the sound depends on.

### RtpStats

`RtpStats.tla` models the timer task of a call, on a thread of its own: an audio
level each second, and each fifth time the native figures, the report and the
alerts.  The native side keeps one current call and one set of bases (`pre`) for
all calls; `Answered` clears them, `CallState` moves the current call, and
`getRemoteStats` brings the bases up to date after both reports.

* A task works on the `RtpStats` that is in use when it begins, to its end, though
  the next call's may have replaced it meanwhile: what it tells the listener then
  is an alert like any other.  Each `RtpStats` keeps its own windows, alert and
  level, and as history what it told last.
* No field is synchronised, and two timers run when the first was not stopped.  A
  task is therefore cut where it reads what another may write: `count`, which is
  static, is compared (`getRTPStats`) and written later (`Tick`), from where it can
  pass `Period` for good; the level is read (`fetchAudioLevels`) and written
  (`AddLevel`); a sample turns it into decibels (`Sample`) long before it is reset
  (`printMediaMetric`).  Of the lists of values two tasks may be in at once
  (`shared`, from when the second one comes), after which the model lets their
  alert be anything, for good, as the size of a list that passed 3 is for good.
* The values of a metric are good or bad; a window is the sequence of the last
  two.  Loss is fed to `packectloss_local` from both sides, as in the code.
* The audio level is a sign, or what its logarithm is: `silence` (-100),
  `negative` or no number.
* `watched` picks the one aspect a behaviour follows, out of `Watched`: the
  figures, the level, or the alert of one key.  None depends on another, so nothing
  is lost by looking at them one at a time.  What one aspect decides for another
  (whether a level is no number and ends the sample) is left open there.
* `mixed` is history: the calls for which figures of another call, or of no
  call, were reported; a sum is followed as long as its call is none of them.  `late`
  is history of the level: a sum was written over what another task had made of it.
* Left out: the formulas of MOS and jitter, null figures, the alert of a silent
  microphone (its rule is the one of the audio level), the type of the network,
  and a listener that throws.

### Insights

`Insights.tla` models the way of an event from its callback to the socket.

* *Threads*: the one the callbacks of calls come on (`Main`), a timer's for each
  answered call, the reader's of each `WebSocketClient`, and the HTTP answer's.
  Each is in at most one of `sendStats`, the sending loop, or `onOpen`.
* *The buffer* is an `ArrayList` nothing synchronises, so its operations are cut:
  `Add` reads the size, `WriteSize` writes it, `Store` writes the slot; `Clear`
  empties the slots, `ClearSize` writes the size.  Two adds can take one slot, a
  slot be left empty, a size be written that is no longer right.  The loop's
  iterator keeps the size it found and is stale after any change by another
  thread, as Android's `ArrayList` has it.  An exception kills the process on the
  first two kinds of threads (`crashed`); the others catch it.
* Each read and write is taken to be seen by the other threads at once and in
  order, which Java does not promise of fields without `volatile`.  When the list
  grows, a store into the array it had before is lost; the model lets any store be
  lost that raced, grown list or not.
* An event carries as history whether it was `sent`, and whether another thread
  was at the buffer, adding, in its loop or clearing, at any time of its add
  (`raced`).  The properties of the buffer are about those added alone: of two adds
  that overlap either can be lost, and nothing can be said of them.  But alone means
  while the event is added; who comes to the buffer afterwards is left open.
* *Clients*: made, connecting, open, closed; `mWebSocketClient` is the one made
  last, and the reader of an earlier one sends over that field.  Closed clients
  stand for new ones.
* *The calls* begin, are answered and end, each callback in the steps another
  thread can come between; `stopTimer`, `Summary` and `KeepLast` are the handler
  after the listener was told.  A call may begin there: `crowded` remembers it.
* *Feedback* is filed when its request is answered; `copied` says whether the
  application gave a copy of the string, which the code compares with `==`.
* Left out: a login that replaces the `CallInsights`, `enableTracking` (always
  true), two calls at once (`Calls` has them; here they overlap only in the end
  bookkeeping), and the contents of events.

### Headers

`Headers.tla` models the conversions between maps and text as functions on
sequences of tokens: words, and the characters one of them looks for.  `Texts.tla`
has those of Java's `String` and C++'s `getline` it is built from.  They say by
the positions of the delimiter what a cut yields (`Cuts`, the n-th of them by
`Nth`), not by a fold over the text, because that can be proved about.

* `callH` validates and joins, the native `CallH` cuts at `,` and `:`; the lines
  reach the other side in any order and among others; `on_incoming_call` finds
  those about X-PH and joins them, `getHeaderDict` cuts them again.
* `getXCallUUID` is a pointer into the message, at the value of the line that
  begins with the header's name; `setXCallUUID` cuts it at the line's end.
* A notification has the keys the SDK asks for; further ones, which the native loop
  passes over, are left out.  When `pjsua_acc_modify` fails the account stays as it is.
* A piece that is read although there is none ends what the model follows:
  `outOfRange` keeps the map whose text it was, and no text is converted after it.
* `relayVoipPushNotification` replaces `X-Label` and `X-Index` of the account and
  its proxy.  The port of a registrar given as `host:port` is lost on the way,
  for the text is cut at each `:`, and the model loses it too.
* `follows` picks a call or the account, which share nothing.

### Instances and proofs

The `MC` modules give the constants their values; the `Proofs` modules hold the
theorems.  The definitions marked *Mutant* repeat a definition with a plausible
mistake; no specification uses them, and each breaks the property it is listed
with, which shows that the property depends on the code it is about.

## The runs

| run | bounds | shows |
|---|---|---|
| `reg_any` | 2 accounts, codes 200, 403 (final) and 503 (retried), any application | `TypeOK`, `LayersAgree`, `SessionEventsAlternate`, `ListenerKnowsSession`; that `Session` is implemented (`IsSession`) |
| `reg_single` | the same, no login over a live account, no reset | `LogoutRequestHasSession`, `SessionHasAccount`, `OneLiveAccount`, `LoginSuccessMeansRegistered`; with fairness `LoginAnswered`, `LogoutSettled`, `IsFairSession` |
| `reg_logout` | 1 account | violated: `LogoutInProgressEnds` |
| `calls_any` | 1 outgoing and 2 incoming calls, 2 objects, 2 slots, any application | `TypeOK`, `IncomingListIsLive`, `OneIncoming` |
| `calls_line` | 2 outgoing and 1 incoming call, 2 objects, 2 slots, any application | that `CallLine` is implemented (`IsCallLine`) |
| `calls_careful` | 2 outgoing and 1 incoming call, 2 objects, 2 slots, careful application | `OutgoingListIsLive`; with fairness `HangupEnds` |
| `calls_crash` | 1 of each, 2 slots | violated: `NeverCrashes` |
| `media_one` | an outgoing and an incoming object, 2 slots, one active call at a time | `TypeOK`, `MuteSilences`, `HoldSilences`, `SoundFlows` |
| `stats_figures` | 2 calls, 3 packets, a report each second level; the figures | `TypeOK`, `ReceivedAddUp`, `SentNeverTwice` |
| `stats_level` | 2 calls, a report each third level; the level | `LevelIsNumber` |
| `stats_alerts` | 2 calls, a report each second level; the alert of either kind of key | `AlertStands` |
| `insights_flush` | 1 outgoing call, 2 connections, 1 CALL_STATS event, a network that fails | `TypeOK`, `InOrder`, `LossOnlyByRace` |
| `insights_delivered` | the same with a network that works | with fairness `Delivered` |
| `insights_calls` | an outgoing and an incoming call, 1 connection, 1 CALL_STATS event | `HangupStopsTimer`, `EventsAreOwn` |
| `insights_feedback` | 2 incoming calls, 1 connection, 1 feedback | `EventsAreOwn` |
| `headers_any` | 3 names, 5 values, 2 other lines, 5 values of a notification | `TypeOK`, `HeadersArrive`, `XCallUUIDIsOwn`, `OutOfRangeByComma`, `NotificationApplied`; that `OthersUnambiguous` holds of these lines |

Why the bounds are enough: two accounts are the fewest with which an old and a
new one can be confused, and the flags do not count; two slots and three calls
are the fewest with which a slot is used again while another is taken, and two
objects the fewest for a call booked under the wrong one.  In `Media` a slot can
be taken while another call rings, and an `Outgoing` is used again without end.
In `RtpStats` two calls are what it takes for one to disturb the other's figures,
to replace the other's timer and `RtpStats`, and for two tasks to meet in one; three
packets let one fall before, between and after the two reports; the period (1 or 2)
only has to tell a level from a report, and is 2 where levels are added up.  In
`Insights` one event of the answer, one of the timer and one of the end give
every pair of threads a meeting at the buffer, and the second client is the one
that replaces the first; two calls give an identifier to confuse.  The values of
`Headers` are one of each kind the conversions tell apart: valid, empty, with
`,`, with `:`, a name without capitals, a line that speaks of X-PH in its value;
those of a notification also one with a `,` at its end.

`CHECK_DEADLOCK FALSE` stands where a system may stop: the call ids of `Calls`
and `Insights` and the calls and packets of `RtpStats` are used up in the end.
The other configurations ask for the absence of deadlock.  `calls_any`,
`calls_line`, `media_one`, the three runs of `RtpStats` and `insights_feedback` use
the symmetry of call ids, objects, slots and calls; the runs with liveness use none.

The two violated runs state what a comment or a message of the code says; the
`findings` of `PROJECT.json` quote it and tell the story of the counterexample.

## Known deviations

More statements of the code that do not hold are kept as configurations without
a run of their own, each checked by hand against its module:

| configuration | property | what happens |
|---|---|---|
| `MCRegistration_ghost.cfg` | `LoginSuccessMeansRegistered` | with a login over a live account, the 200 of an un-REGISTER that comes first is told as a login.  `reg_single` and `LoginSuccessCorrect` show that it takes such a login |
| `MCCalls_placed.cfg` | `CallPlacedMeansCall` | the native `Call` returns 0 although no call was made |
| `MCCalls_rejected.cfg` | `RejectedBeforeAnswering` | the end is classified by the greatest status met, so an answered call can end as rejected |
| `MCCalls_wrong.cfg` | `HangupEndsOwnCall` | the slot of an old object is another call's by now, or was 0 all along |
| `MCMedia_device.cfg` | `UnholdRestoresSound` | a second `hold` saves the null device; `unhold` then succeeds in silence |
| `MCMedia_mute.cfg` | `UnholdKeepsMute` | `unhold` mutes again through `mute()`, which refuses without a network |
| none (`RtpStats`) | `StatsAreOwn` | an event of another call moves the current call, and the timer reports that call's figures |

Seen while modelling, and outside every property: the loss of the remote side is
fed to the alert of the local one (RtpStats.java:303); an incoming call that ends
as invalid puts its X-CallUUID in the field of the Call-ID
(BackendListener.java:348); a call that ends as rejected or invalid leaves its
timer running; `stopTimer` can close the socket under the timer's loop, whose
exception nobody catches.

## Fairness

`Registration`: a native call once made runs on, a callback once begun runs on,
pjsip ends each REGISTER transaction (with 408 when the registrar is silent) and
an armed retry timer fires; all weak.  Nothing obliges the application to call,
the network to change or the refresh to come.

`Calls`: the same for native calls, returns and bookkeeping; and pjsip settles
what was sent (`Settles`): a cancelled INVITE fails or is accepted, a 200 is
acknowledged or given up after the transaction's timeout, a BYE is answered or
times out.  Neither the other side nor the application has to do anything else.

`Insights`: a thread in `sendStats` or in its loop runs on, and so does a
callback once begun; a connection attempt is answered, for the library's
reader thread ends in `onOpen` or `onClose`.  No timer has to tick, no key has to
come, no connection has to be lost.  `Delivered` is stated for a network that
works: with another, an event waits for the next one, and that is the code's
design (nothing retries).

## What is proved

By TLAPS, for every value of the constants allowed by the named assumptions
(`MaxAccAssumption`, `CodesAssumption`, `PolicyAssumption`, `CallsAssumption`,
`MediaAssumption`, `RtpStatsAssumption`, `InsightsAssumption`, `HeadersAssumption`):

* `TypeCorrect` of `RegistrationProofs`, `CallsProofs`, `MediaProofs`, `RtpStatsProofs`,
  `InsightsProofs` and `HeadersProofs`.  That of `RtpStats` needs `AlertInv`, which
  keeps an alert's window short, and `PacketBound`, a count: a stream with all the
  packets the bound allows leaves none for another.
* `SessionCorrect`: `LayersAgree`, `ListenerKnowsSession` and
  `SessionEventsAlternate` together.  They are inductive beside `TypeOK`, but
  none is alone: that the listener's events alternate needs that it knows of the
  session, which needs that the layers agree about it, including in the middle
  of a callback, which is why `LayersAgree` speaks of `cb`.  The lemma
  `SessionSteps` says that only the answers and the callbacks touch any of this.
  `LayersAgreeCorrect` and `ListenerKnowsSessionCorrect` state two of them apart.
* `SingleAccountCorrect`: when `AllowRelogin` is false, `LogoutRequestHasSession`,
  `SessionHasAccount` and `OneLiveAccount`.  The last carries the others: an
  answer is only ever about `acc_id`.  It speaks of `app = "login"` because a
  login in progress must not find a live account either.  `LogoutRequestCorrect`
  and `SessionAccountCorrect` state the first two apart.
* `LoginSuccessCorrect`: for such an application `LoginSuccessMeansRegistered`, an
  action property.  Beside `SingleAccountCorrect` it needs `RegisteredHasSession`:
  an account that is registered or being unregistered has a session, so that a
  200 without one answers a REGISTER.
* `SessionImplemented`: `Registration` implements `Session`.  `LogIn` and `Fail`
  need `SessionCorrect`: that `onLogin` reaches the listener only when the last
  session was closed rests on the agreement of the layers.
* `IncomingCorrect`: `IncomingListIsLive` and `OneIncoming`.  A call enters the
  list only when `isCallAvailable` found it empty, a refused call is over in the
  same step, and only `BookEnd` ends a call's life, with the step that takes it
  off the list.  `NetworkSteps` sorts what the network does into the few kinds
  the proof needs.  `OneIncomingCorrect` states the second apart.
* `OutgoingCorrect`: `OutgoingListIsLive`, when `Careful` is true.  `Once` says that
  an object is called on once and is then the one created last; `Known`, that an
  object has at most one call, knows its Call-ID and slot, and is listed exactly
  while that call lives; `Found`, that the two threads work off the ends of
  different calls and have found each call's own object.  The lemma `Books` sorts
  every step of `Calls` into the six kinds that matter to the lists (`Still`,
  `Placed`, `Offered`, `Accepted`, `Dropped` and `BookEnd`).
* `CallLineImplemented`: `Calls` implements `CallLine`, for every application.  Here
  an object may be called on anew before its last call is over; it then loses the
  Call-ID but stays listed, so the list cannot be read call by call and the proof
  counts.  `Counted` says that there is a function from calls to the objects they
  were made for with which each object is listed as often as it has calls whose end
  the listener has not heard (or that are still to be taken off).  An empty list
  therefore means that every end was heard, which is the guard of `CallLine!Offer`.
  `LineInv` relates what the listener heard of a call to the call's state.
* `MuteSilencesCorrect`: `MuteSilences`, for any number of calls at once: its
  argument does not use `OneAtATime`.  The invariant is `TypeOK` with `SlotsAgree`
  (an active object and its slot name each other, and while a method is in an
  object no other active call has its slot), `PortsAgree` (only a call that has,
  or just had, an active object has media and a connected port) and `MutedIsOff`,
  which is `MuteSilences` with the object a method is in.
* `HoldSilencesCorrect` and `SoundFlowsCorrect`, when `OneAtATime` is true, from the
  same invariant and `OneInv`.  There is one device, so no other call may move it:
  `OneActive`.  `Held` is `HoldSilences` with the object whose `unhold` has put the
  device back but not connected the call yet; `Heard`, `Spoken` and `Selected` are
  the three parts of `SoundFlows`, each with the place in `on_call_media_state` from
  which on it holds again; `Midway` says how a method that is cut in two finds the
  call and the device, and `Fresh` that an `Incoming` is untouched until answered.
* `InOrderCorrect` and `LossOnlyByRaceCorrect`, from one invariant of `Insights`.
  For each thread in its loop, `Covered` says that an event of the buffer was
  raced or is among those the thread set out to send, and sent if it has come past
  it; `Fresh`, that with an iterator that is not stale the buffer is still the one
  it set out with.  A cleared buffer is a covered one, whatever other threads did.
* `HangupStopsTimerCorrect`: the timer of a call that lasts is the one made last,
  because calls come one after the other and a timer is only made for a call that
  was answered; `TimerInv` says so phase by phase.
* `EventsAreOwnCorrect`: `EventsAreOwn`, beside `TimerInv`.  `signallingStats` is the
  call's own while it lasts, or gone; an end that is worked off finds its own or that
  of the call begun meanwhile (`Current`).  Only such a call can be given another's
  identifier (`Borrowed`), at a time when it has no timer and fetches nothing
  (`Fetching`), and `signallingStats` is gone before the call's first event.  A
  feedback that nothing disturbed is still found by its identifier (`Quiet`).
* `FiguresCorrect`: `ReceivedAddUp` and `SentNeverTwice` of `RtpStats`.  From a
  call's answer on, as long as it is the current call and nothing was mixed, the
  bases are its own (`Received`), and what was reported of the packets sent is not
  ahead of them except between the two reports (`Sent`).  `SentNeverTwiceCorrect`
  states the second apart.
* `AlertCorrect`: `AlertStands`.  A window is always the last two of the last three
  values, for both ways the code moves it on (`FeedAlert`).
* `LevelCorrect`: `LevelIsNumber`.  Nothing keeps a second timer off the sum while a
  task has turned it into decibels, so the invariant is a disjunction: figures were
  mixed already; or a task is `Doomed`, about to report on another call than its own,
  which no step can avert; or each task works on its own call's `RtpStats` and only
  the one at work on the `RtpStats` in use has made its sum a number of decibels
  (`OwnLevel`).  The middle case is why the property by itself is far from inductive.

* `HeadersArriveCorrect`, `XCallUUIDCorrect`, `OutOfRangeByCommaCorrect` and
  `NotificationCorrect`: the properties of `Headers`, for any names, values and
  lines and in any order of a map or a message.  The invariant `IInv` is modest:
  what `callH` sent is one line for each validated header in some order (`CallInv`),
  the account's list is empty or one label and one index (`AccountInv`).  The work
  is in what the steps compute, and each has a lemma: `CallHSends` (what was joined
  and cut is what was given), `UuidOfMessage`, `FoundInMessage` and `FoundArrived`
  (of a message's lines those that mention X-PH, and of their text the map), summed
  up in `Received`; `NoEmptyPart` and `PlainValue`, summed up in `PushStep`.
  `HeadersAssumption` says what a word and a line are: no name or identifier is a
  separator, no line has an end within it, none but the one looked for has the
  name `X-CallUUID`.  `ArrivedInv` and with it `HeadersArriveCorrect` also need
  `OthersUnambiguous`.

`TextsProofs` has the lemmas about texts of any length that these rest on.  The
library's induction theorems take a predicate, which no installed prover can
instantiate; here induction is about a set instead (`Inductive`, `SeqInductive`),
and that rests on `Least`, by the library's `WFMin` for the numbers.  `Pieces` and
`Selected` are not recursive: that a finite set of numbers has an n-th member is
proved once (`NthProperties`), and what a longer text is cut into follows from its
cuts (`PiecesAdded`).  `Joined` and the message's lines use `FlattenSeq`, which the
library defines by a recursive function; `FlatExists` and `FlattenIs` show that this
definition is well founded.  In `HeadersProofs`, `Token` stands for the strings: the
provers do not know of a string they see written that it is in `STRING`.

The proofs changed the model in two places.  `OutOfRangeByComma` replaced a
property by which nothing was ever read past its end: no proof of it came through
for a notification, rightly, for one whose value has a `,` at its end gives an
empty piece, of which the first part is read; `headers_any` had no such value, and
has one now.  And `HeadersArrive` does not hold for any other lines: a line of
another header that mentions X-PH, in its value, is passed to the application with
the call's own, and if it has a `,` what follows is taken for a header, and counts
instead of the call's own if it has the name of one and comes later.
`OthersUnambiguous` excludes that; in the code nothing does.

The theorems that assume a policy (`AllowRelogin = FALSE`, `Careful = TRUE`,
`OneAtATime = TRUE`) speak of the applications the runs of these properties speak of;
the policy is a constant of the model, and the other theorems hold for either value.

Every safety property of the passing runs is proved.  Only model-checked are the
liveness properties (`LoginAnswered`, `LogoutSettled`, `IsFairSession`, `HangupEnds`,
`Delivered`), which are out of the prover's reach.

## Not modelled

* *DTMF*: `sendDigits` and `on_dtmf_digit` pass a digit through and keep nothing.
* *Start-up*: `initPjsua` is a sequence of calls of pjsua; `LoginAgain` and
  `registerToken` have no caller in Java.
* *Feedback's validation and the upload of the log*: tests of arguments and HTTP.
* *In `Calls`*: SDK calls made from inside a listener method, an endpoint with no
  listener and offline refusals.
* *The WebSocket library*, client and server, is a copy of a third party's; the
  ready states `Insights` relies on are external definitions.  The server and the
  SSL channels are never started.
* *Logging*, the copied `slf4j`, and `Log`: wording only.
* *SWIG bindings*: generated forwarding code.
* *pjsip, openssl and opus*: third party.  Nearly all lines of C in the
  repository are six copies of the opus headers; the SDK's own native code is
  `plivo_app_callback.cpp` and its header, and what of it changes state is mapped.
  The rest of it is log lines, its copies of pjsua's configuration and functions
  without a caller.

## Plan

1. *Insights* composed with *Calls*: calls that truly overlap, with their
   summaries.
2. A listener that calls the SDK from inside a callback, in *Calls*.
