------------------------------- MODULE Insights -------------------------------
(***************************************************************************)
(* The events of CallInsights.java: CALL_ANSWERED, CALL_SUMMARY,           *)
(* CALL_STATS and FEEDBACK, from the calls' callbacks (BackendListener),   *)
(* the timer and the application's feedback, by way of a buffer to         *)
(* whichever WebSocketClient was made last.                                *)
(*                                                                         *)
(* Nothing here takes a lock.  Four kinds of threads add to the buffer,    *)
(* walk through it sending, and clear it: the one the callbacks of calls   *)
(* come on, a timer's for each answered call, the reader's of each client, *)
(* in onOpen, and the one an HTTP answer comes on.  An exception kills the *)
(* process on the first two and is caught on the others.                   *)
(*                                                                         *)
(* The buffer is an ArrayList, and each of its operations is cut where     *)
(* other threads can come between: an array that only grows (statBuffer,   *)
(* its empty slots None) and how much of it counts (size).  A slot beyond  *)
(* the size may still hold what was there.                                 *)
(***************************************************************************)
EXTENDS Integers, Sequences, FiniteSets

CONSTANTS OutCalls, InCalls, \* calls, by their X-CallUUID
          Clients,           \* bound: WebSocketClients, the closed ones to be made anew
          MaxReports,        \* bound: CALL_STATS events and feedbacks, together
          MaxFeedbacks,      \* bound: feedbacks among them
          Networks,          \* may a connection fail or be lost: {TRUE}, {FALSE} or either
          RtpFlags,          \* may is_rtp_enabled be true: likewise
          Ends,              \* the ends calls come to
          Main, Http,        \* the threads of the callbacks and of the HTTP answers
          None

Calls == OutCalls \cup InCalls
Threads == {Main, Http} \cup Calls \cup Clients  \* a call's: its timer's; a client's: its reader

ASSUME InsightsAssumption ==
  /\ OutCalls \cap InCalls = {} /\ Clients \cap Calls = {} /\ Networks \subseteq BOOLEAN
  /\ RtpFlags \subseteq BOOLEAN /\ Ends \subseteq {"Hangup", "Rejected", "Invalid"}
  /\ {Main, Http, None} \cap (Calls \cup Clients) = {} /\ Main # Http /\ None \notin {Main, Http}
  /\ MaxReports \in Nat /\ MaxFeedbacks \in Nat

VARIABLES
  callInsightsKey,   \* CallInsights.java: "key" without rtpFlagEnabled, "rtp" with it
  statBuffer, size,  \* the slots of the list and how many count; as history of each event
                     \* whether it was sent, and whether another thread was at the buffer
                     \* while it was added
  mWebSocketClient,  \* the client made last
  timer, running,    \* the timer made last, and those not cancelled, by their call
  client,            \* readyState of each WebSocketClient
  signallingStats,   \* BackendListener.java: the call it was made for
  xcallUUID,         \* SignallingStats.java: per object
  lastXCallUUID,     \* BackendListener.java
  phase,             \* the calls, as Calls has them
  handler,           \* what is left to do of the callback Main is in
  thread,            \* per thread: where it is in statBuffer.add, sendStats or onOpen
  feedback,          \* Endpoint.java: the feedback submitted and not answered
  lossy,             \* the network, one of Networks
  crashed,           \* an exception left a thread, and the process is gone
  ticks, fed,        \* history: how many CALL_STATS and feedbacks there were
  crowded            \* history: calls begun while another's end was worked off, and that other

insights == <<callInsightsKey, timer, running>>
signalling == <<signallingStats, xcallUUID, lastXCallUUID>>
books == <<feedback, lossy, ticks, fed, crowded>>
buffer == <<statBuffer, size>>
vars == <<insights, buffer, mWebSocketClient, client, signalling, phase, handler, thread,
          crashed, books>>

Event == [by : Calls, x : Calls \cup {None}, sure : BOOLEAN, sent : BOOLEAN, raced : BOOLEAN]

(* A thread that walks has sent the slots up to next of those up to limit; *)
(* one that adds has read next as the size.  It is raced if another came   *)
(* to the buffer, or was there, since it began to add.                     *)
Idle == [at |-> "idle", next |-> 0, limit |-> 0, stale |-> FALSE, event |-> None, raced |-> FALSE]
Places == {"idle", "fetch", "size", "store", "send", "onOpen", "flush", "clear"}
NoHandler == [at |-> "none", call |-> None, end |-> None]

TypeOK ==
  /\ callInsightsKey \in {"none", "key", "rtp"}
  /\ statBuffer \in Seq(Event \cup {None}) /\ size \in 0 .. Len(statBuffer)
  /\ mWebSocketClient \in Clients \cup {None}
  /\ timer \in Calls \cup {None} /\ running \subseteq Calls
  /\ client \in [Clients -> {"closed", "connecting", "open"}]
  /\ signallingStats \in Calls \cup {None} /\ lastXCallUUID \in Calls \cup {None}
  /\ xcallUUID \in [Calls -> Calls \cup {None}]
  /\ phase \in [Calls -> {"none", "begun", "answered", "over"}]
  /\ handler \in [at : {"none", "startTimer", "stopTimer", "summary", "summarised"},
                  call : Calls \cup {None}, end : Ends \cup {None}]
  /\ thread \in [Threads -> [at : Places, next : Nat, limit : Nat, stale : BOOLEAN,
                             event : Event \cup {None}, raced : BOOLEAN]]
  /\ \A t \in Threads : thread[t].next <= thread[t].limit
  /\ feedback = None \/ feedback \in [of : Calls, copied : BOOLEAN, quiet : BOOLEAN]
  /\ lossy \in Networks /\ crashed \in BOOLEAN
  /\ ticks \in 0 .. MaxReports /\ fed \in 0 .. MaxFeedbacks /\ crowded \subseteq Calls

Init ==
  /\ callInsightsKey = "none" /\ statBuffer = <<>> /\ size = 0 /\ mWebSocketClient = None
  /\ timer = None /\ running = {} /\ client = [j \in Clients |-> "closed"]
  /\ signallingStats = None /\ xcallUUID = [c \in Calls |-> None] /\ lastXCallUUID = None
  /\ phase = [c \in Calls |-> "none"] /\ handler = NoHandler
  /\ thread = [t \in Threads |-> Idle] /\ feedback = None
  /\ lossy \in Networks /\ crashed = FALSE
  /\ ticks = 0 /\ fed = 0 /\ crowded = {}

-----------------------------------------------------------------------------
(* The buffer.                                                             *)

Adding == {"size", "store"}
AtBuffer == {t \in Threads : thread[t].at \in Adding \cup {"flush", "clear"}}
isOpen == mWebSocketClient # None /\ client[mWebSocketClient] = "open"

(* t comes to the buffer, after which its state is th: whoever is adding   *)
(* is no longer alone.  If t counts as a modification (modCount), whoever  *)
(* else walks through the buffer has a stale iterator.                     *)
Comes(t, th, counts) ==
  thread' = [u \in Threads |->
    IF u = t THEN th
    ELSE [thread[u] EXCEPT !.stale = @ \/ (counts /\ thread[u].at = "flush"),
                           !.raced = @ \/ thread[u].at \in Adding]]

(* getBasicStatsInfo, and statBuffer.add: elementData[size++] = event, up  *)
(* to the reading of the size.                                             *)
Add(t, by, x, sure) ==
  Comes(t, [at |-> "size", next |-> size, limit |-> size, stale |-> FALSE,
            event |-> [by |-> by, x |-> x, sure |-> sure, sent |-> FALSE, raced |-> FALSE],
            raced |-> AtBuffer # {}], TRUE)

(* The size is written, whatever it has become since it was read ... *)
WriteSize(t) ==
  /\ thread[t].at = "size"
  /\ size' = thread[t].next + 1
  /\ statBuffer' = IF thread[t].next = Len(statBuffer) THEN Append(statBuffer, None)
                   ELSE statBuffer
  /\ thread' = [thread EXCEPT ![t].at = "store"]
  /\ UNCHANGED <<insights, mWebSocketClient, client, signalling, phase, handler, crashed, books>>

(* ... and the event is stored, over another's if that read the same size, *)
(* or into an array that another's growing of the list has replaced.  Then *)
(* sendStats is called, which leaves an event without X-CallUUID for a     *)
(* later one to take along.                                                *)
Store(t) ==
  LET f == thread[t]
  IN /\ f.at = "store"
     /\ \/ statBuffer' = [statBuffer EXCEPT ![f.next + 1] = [f.event EXCEPT !.raced = f.raced]]
        \/ f.raced /\ UNCHANGED statBuffer
     /\ thread' = [thread EXCEPT ![t] =
          [Idle EXCEPT !.at = IF f.event.x = None THEN "idle" ELSE "send"]]
     /\ UNCHANGED <<insights, size, mWebSocketClient, client, signalling, phase, handler, crashed,
                    books>>

(* Mutant: the loop begins with the second event. *)
BeginFlushSecond(t) ==
  Comes(t, [Idle EXCEPT !.at = "flush", !.next = 1, !.limit = size], FALSE)

BeginFlush(t) ==  \* the loop's iterator keeps the size it finds
  Comes(t, [Idle EXCEPT !.at = "flush", !.limit = size], FALSE)

(* new WebSocketClient, connect: whatever client there is is forgotten. *)
Connect(j) ==
  /\ client[j] = "closed" /\ thread[j] = Idle
  /\ client' = [client EXCEPT ![j] = "connecting"] /\ mWebSocketClient' = j

Unneeded(t) == t \in Calls /\ size = 0  \* CALL_STATS wait for rtpBatchSize = 1

(* Mutant: the connection is tested for being made, not for being open. *)
sendStatsMade(t) ==
  /\ thread[t].at = "send"
  /\ \/ /\ Unneeded(t) \/ mWebSocketClient # None
        /\ thread' = [thread EXCEPT ![t] = Idle] /\ UNCHANGED <<client, mWebSocketClient>>
     \/ /\ ~Unneeded(t) /\ mWebSocketClient = None
        /\ \E j \in Clients : Connect(j)
        /\ thread' = [thread EXCEPT ![t] = Idle]
  /\ UNCHANGED <<insights, buffer, signalling, phase, handler, crashed, books>>

(* The rest of sendStats: send, or have a new client send once it is open. *)
sendStats(t) ==
  /\ thread[t].at = "send"
  /\ \/ /\ Unneeded(t)
        /\ thread' = [thread EXCEPT ![t] = Idle] /\ UNCHANGED <<client, mWebSocketClient>>
     \/ /\ ~Unneeded(t) /\ isOpen
        /\ BeginFlush(t) /\ UNCHANGED <<client, mWebSocketClient>>
     \/ /\ ~Unneeded(t) /\ ~isOpen
        /\ \E j \in Clients : Connect(j)
        /\ thread' = [thread EXCEPT ![t] = Idle]
  /\ UNCHANGED <<insights, buffer, signalling, phase, handler, crashed, books>>

(* The next event: a stale iterator, an empty slot and a client that is    *)
(* not open throw.                                                         *)
SendNext(t) ==
  LET f == thread[t]
      ok == ~f.stale /\ statBuffer[f.next + 1] # None /\ isOpen
  IN /\ f.at = "flush" /\ f.next < f.limit
     /\ \/ /\ ok
           /\ statBuffer' = [statBuffer EXCEPT ![f.next + 1].sent = TRUE]
           /\ thread' = [thread EXCEPT ![t].next = @ + 1]
           /\ UNCHANGED crashed
        \/ /\ ~ok
           /\ thread' = [thread EXCEPT ![t] = Idle]
           /\ crashed' = (t \in {Main} \cup Calls)
           /\ UNCHANGED statBuffer
     /\ UNCHANGED <<insights, size, mWebSocketClient, client, signalling, phase, handler,
                    books>>

Emptied == [i \in DOMAIN statBuffer |-> IF i <= size THEN None ELSE statBuffer[i]]

(* Mutant: the buffer is cleared at the first failure, too. *)
ClearAlways(t) ==
  /\ thread[t].at = "flush" /\ (thread[t].next = thread[t].limit \/ thread[t].stale)
  /\ statBuffer' = Emptied /\ Comes(t, [Idle EXCEPT !.at = "clear"], TRUE)
  /\ UNCHANGED <<insights, size, mWebSocketClient, client, signalling, phase, handler, crashed,
                 books>>

(* The loop is over: statBuffer.clear() empties the slots, those of events *)
(* added since the loop began, too ...                                     *)
Clear(t) ==
  /\ thread[t].at = "flush" /\ thread[t].next = thread[t].limit
  /\ statBuffer' = Emptied /\ Comes(t, [Idle EXCEPT !.at = "clear"], TRUE)
  /\ UNCHANGED <<insights, size, mWebSocketClient, client, signalling, phase, handler, crashed,
                 books>>

(* ... and sets the size. *)
ClearSize(t) ==
  /\ thread[t].at = "clear"
  /\ size' = 0
  /\ thread' = [thread EXCEPT ![t] = Idle]
  /\ UNCHANGED <<insights, statBuffer, mWebSocketClient, client, signalling, phase, handler,
                 crashed, books>>

-----------------------------------------------------------------------------
(* The clients.                                                            *)

Opened(j) ==
  /\ client[j] = "connecting" /\ thread[j] = Idle
  /\ client' = [client EXCEPT ![j] = "open"]
  /\ thread' = [thread EXCEPT ![j].at = "onOpen"]
  /\ UNCHANGED <<insights, buffer, mWebSocketClient, signalling, phase, handler, crashed,
                 books>>

(* onOpen sends over the field's client, which need not be the one opened. *)
onOpen(j) ==
  /\ thread[j].at = "onOpen" /\ BeginFlush(j)
  /\ UNCHANGED <<insights, buffer, mWebSocketClient, client, signalling, phase, handler,
                 crashed, books>>

(* No connection, or none any more, by the network or the server. *)
Lost(j) ==
  /\ lossy /\ client[j] # "closed" /\ client' = [client EXCEPT ![j] = "closed"]
  /\ UNCHANGED <<insights, buffer, mWebSocketClient, signalling, phase, handler, thread,
                 crashed, books>>

(* The answer of getCallStatsKey's request, on its own thread. *)
GotKey ==
  /\ callInsightsKey = "none"
  /\ \E flag \in RtpFlags : callInsightsKey' = IF flag THEN "rtp" ELSE "key"
  /\ UNCHANGED <<timer, running, buffer, mWebSocketClient, client, signalling, phase,
                 handler, thread, crashed, books>>

-----------------------------------------------------------------------------
(* The callbacks of calls, one at a time, each in the steps other threads  *)
(* can come between.                                                       *)

MainIdle == thread[Main] = Idle
Disturb == IF feedback = None THEN None ELSE [feedback EXCEPT !.quiet = FALSE]

(* onIncomingCall, with its header or without; and onOutgoingCall, on the  *)
(* application's thread, as soon as the listener heard of the last end.    *)
(* The application has one call at a time: no second one is begun or comes *)
(* in while a call stands, so that no two answered calls overlap.          *)
Begin(c) ==
  /\ phase[c] = "none" /\ \A d \in Calls : phase[d] \in {"none", "over"}
  /\ c \in InCalls => handler = NoHandler /\ MainIdle
  /\ phase' = [phase EXCEPT ![c] = "begun"]
  /\ signallingStats' = c
  /\ \E x \in {None} \cup ({c} \cap InCalls) : xcallUUID' = [xcallUUID EXCEPT ![c] = x]
  /\ crowded' = IF handler = NoHandler THEN crowded ELSE crowded \cup {c, handler.call}
  /\ feedback' = Disturb
  /\ UNCHANGED <<insights, buffer, mWebSocketClient, client, lastXCallUUID, handler, thread,
                 crashed, lossy, ticks, fed>>

(* setXCallUUID: the first that a message carries stays. *)
setXCallUUID(s, c) ==
  \E x \in {None, c} : xcallUUID' = [xcallUUID EXCEPT ![s] = IF @ = None THEN x ELSE @]

(* onOutgoingCallConnecting; onOutgoingCallRinging does nothing of the     *)
(* kind without signallingStats.                                           *)
Progress(c) ==
  /\ c \in OutCalls /\ phase[c] = "begun" /\ handler = NoHandler /\ MainIdle
  /\ IF signallingStats = None
     THEN crashed' = TRUE /\ UNCHANGED xcallUUID
     ELSE setXCallUUID(signallingStats, c) /\ UNCHANGED crashed
  /\ UNCHANGED <<insights, buffer, mWebSocketClient, client, signallingStats, lastXCallUUID,
                 phase, handler, thread, books>>

(* onOutgoingCallAnswered, onIncomingCallAnswered: sendAnswerEvent ... *)
Answered(c) ==
  /\ phase[c] = "begun" /\ handler = NoHandler /\ MainIdle
  /\ phase' = [phase EXCEPT ![c] = "answered"]
  /\ IF signallingStats = None
     THEN crashed' = (c \in OutCalls)
          /\ UNCHANGED <<handler, thread>>
     ELSE /\ handler' = [NoHandler EXCEPT !.at = "startTimer", !.call = c]
          /\ IF callInsightsKey = "none"
             THEN UNCHANGED thread
             ELSE Add(Main, c, xcallUUID[signallingStats], c \notin crowded)
          /\ UNCHANGED crashed
  /\ UNCHANGED <<insights, buffer, mWebSocketClient, client, signalling, books>>

(* ... and sendRtpStats. *)
StartTimer ==
  /\ handler.at = "startTimer" /\ MainIdle
  /\ timer' = signallingStats /\ running' = running \cup {signallingStats}
  /\ handler' = NoHandler
  /\ UNCHANGED <<callInsightsKey, buffer, mWebSocketClient, client, signalling, phase, thread,
                 crashed, books>>

(* The listener hears of the end.  Only a Hangup comes to stopTimer. *)
Ended(c, end) ==
  /\ phase[c] \in (IF end = "Hangup" THEN {"answered"} ELSE {"begun", "answered"})
  /\ handler = NoHandler /\ MainIdle
  /\ phase' = [phase EXCEPT ![c] = "over"]
  /\ handler' = [at |-> IF end = "Hangup" THEN "stopTimer" ELSE "summary", call |-> c, end |-> end]
  /\ feedback' = Disturb
  /\ UNCHANGED <<insights, buffer, mWebSocketClient, client, signalling, thread, crashed,
                 lossy, ticks, fed, crowded>>

(* Mutant: the timer goes on when there is no open connection to close. *)
stopTimerOpen ==
  /\ handler.at = "stopTimer" /\ handler' = [handler EXCEPT !.at = "summary"]
  /\ client' = [j \in Clients |-> IF j = mWebSocketClient THEN "closed" ELSE client[j]]
  /\ running' = IF isOpen THEN running \ {timer} ELSE running
  /\ UNCHANGED <<callInsightsKey, timer, buffer, mWebSocketClient, signalling, phase, thread,
                 crashed, books>>

(* The connection is closed if it is open, and the last timer cancelled. *)
stopTimer ==
  /\ handler.at = "stopTimer" /\ handler' = [handler EXCEPT !.at = "summary"]
  /\ client' = IF isOpen THEN [client EXCEPT ![mWebSocketClient] = "closed"] ELSE client
  /\ running' = running \ {timer}
  /\ UNCHANGED <<callInsightsKey, timer, buffer, mWebSocketClient, signalling, phase, thread,
                 crashed, books>>

Summarised == [handler EXCEPT !.at = "summarised"]

(* sendSummaryEvent, of whatever call signallingStats was made for.  A     *)
(* rejection's message can bring the X-CallUUID.                           *)
Summary ==
  /\ handler.at = "summary" /\ MainIdle
  /\ IF signallingStats = None
     THEN handler' = NoHandler /\ UNCHANGED <<xcallUUID, thread>>
     ELSE LET c == handler.call
              s == signallingStats
          IN /\ handler' = Summarised
             /\ IF handler.end = "Rejected" /\ c \in OutCalls
                THEN setXCallUUID(s, c) ELSE UNCHANGED xcallUUID
             /\ IF callInsightsKey = "none"
                THEN UNCHANGED thread
                ELSE Add(Main, c, xcallUUID'[s], c \notin crowded)
  /\ UNCHANGED <<insights, buffer, mWebSocketClient, client, signallingStats, lastXCallUUID, phase,
                 crashed, books>>

(* The rest.  onIncomingCallInvalid puts the identifier elsewhere. *)
KeepLast ==
  /\ handler.at = "summarised" /\ MainIdle
  /\ handler' = NoHandler /\ signallingStats' = None
  /\ lastXCallUUID' = IF handler.end = "Invalid" /\ handler.call \in InCalls
                      THEN lastXCallUUID ELSE xcallUUID[signallingStats]
  /\ UNCHANGED <<insights, buffer, mWebSocketClient, client, xcallUUID, phase, thread, crashed,
                 books>>

-----------------------------------------------------------------------------
(* The timer of call c: a task that fetches statistics, which takes it     *)
(* time, and adds them to the buffer.                                      *)

Tick(c) ==
  /\ c \in running /\ thread[c] = Idle /\ ticks + fed < MaxReports
  /\ ticks' = ticks + 1
  /\ thread' = [thread EXCEPT ![c].at = "fetch"]
  /\ UNCHANGED <<insights, buffer, mWebSocketClient, client, signalling, phase, handler,
                 crashed, feedback, lossy, fed, crowded>>

(* Mutant: the statistics go out for whatever call there is by now. *)
FetchedCurrent(c) ==
  /\ thread[c].at = "fetch"
  /\ IF callInsightsKey = "rtp"
     THEN Add(c, c, IF signallingStats = None THEN None ELSE xcallUUID[signallingStats], TRUE)
     ELSE thread' = [thread EXCEPT ![c] = Idle]
  /\ UNCHANGED <<insights, buffer, mWebSocketClient, client, signalling, phase, handler, crashed,
                 books>>

Fetched(c) ==
  /\ thread[c].at = "fetch"
  /\ IF callInsightsKey = "rtp"
     THEN Add(c, c, xcallUUID[c], TRUE)
     ELSE thread' = [thread EXCEPT ![c] = Idle]
  /\ UNCHANGED <<insights, buffer, mWebSocketClient, client, signalling, phase, handler, crashed,
                 books>>

-----------------------------------------------------------------------------
(* Feedback.                                                               *)

(* submitCallQualityFeedback for the last call or the current one, by the  *)
(* string the SDK returned or by a copy of it.                             *)
SubmitFeedback(c, copied) ==
  /\ feedback = None /\ thread[Http] = Idle
  /\ fed < MaxFeedbacks /\ ticks + fed < MaxReports
  /\ c = lastXCallUUID \/ (signallingStats # None /\ c = xcallUUID[signallingStats])
  /\ feedback' = [of |-> c, copied |-> copied, quiet |-> TRUE] /\ fed' = fed + 1
  /\ UNCHANGED <<insights, buffer, mWebSocketClient, client, signalling, phase, handler, thread,
                 crashed, lossy, ticks, crowded>>

(* The answer: sendFeedbackStats finds the call's identifiers, comparing   *)
(* references; a failure: no event.                                        *)
sendFeedbackStats ==
  LET f == feedback
      last == f.of = lastXCallUUID /\ ~f.copied
      x == IF last THEN lastXCallUUID
           ELSE IF signallingStats = None THEN None ELSE xcallUUID[signallingStats]
  IN /\ feedback # None /\ thread[Http] = Idle /\ feedback' = None
     /\ \/ callInsightsKey # "none"
           /\ Add(Http, f.of, x, f.quiet /\ ~f.copied)
        \/ UNCHANGED thread
     /\ UNCHANGED <<insights, buffer, mWebSocketClient, client, signalling, phase, handler, crashed,
                    lossy, ticks, fed, crowded>>

-----------------------------------------------------------------------------
AtWork(t) ==
  WriteSize(t) \/ Store(t) \/ sendStats(t) \/ SendNext(t) \/ Clear(t) \/ ClearSize(t)
Buffer == \E t \in Threads : AtWork(t)
Reader == \E j \in Clients : Opened(j) \/ onOpen(j)
Callback ==
  \E c \in Calls : Progress(c) \/ Answered(c) \/ \E end \in Ends : Ended(c, end)
RestOfCallback == StartTimer \/ stopTimer \/ Summary \/ KeepLast
Timer == \E c \in Calls : Tick(c) \/ Fetched(c)
Feedback == sendFeedbackStats \/ \E c \in Calls, copied \in BOOLEAN : SubmitFeedback(c, copied)
Environment == GotKey \/ (\E c \in Calls : Begin(c)) \/ \E j \in Clients : Lost(j)

Next == ~crashed /\ (Buffer \/ Reader \/ Callback \/ RestOfCallback \/ Timer \/ Feedback
                    \/ Environment)

Spec == Init /\ [][Next]_vars

(* The threads run, and what was asked of the network has an answer. *)
Fairness ==
  /\ \A t \in Threads : WF_vars(~crashed /\ AtWork(t))
  /\ WF_vars(~crashed /\ RestOfCallback)
  /\ \A j \in Clients : WF_vars(~crashed /\ (Opened(j) \/ onOpen(j)))

FairSpec == Spec /\ Fairness

-----------------------------------------------------------------------------
(* Properties.                                                             *)

(* Slot i holds an event that was added while no other thread was at the   *)
(* buffer, adding, walking through it or clearing it.                      *)
Alone(i) == statBuffer[i] # None /\ ~statBuffer[i].raced

(* Whatever connections fail, close or are forgotten, and whichever        *)
(* threads are at the buffer later, such an event keeps its place in it    *)
(* until it was sent: no other's add, none already under way either, takes *)
(* its slot, no size written late cuts it off, and no clear meets it       *)
(* unsent.  (Of two adds that overlap either can be lost.)                 *)
LossOnlyByRace ==
  [][\A i \in 1 .. size :
       LET e == statBuffer[i]
       IN Alone(i) /\ ~e.sent =>
            i <= size' /\ statBuffer'[i] \in {e, [e EXCEPT !.sent = TRUE]}]_vars

(* Such events are sent for the first time in the order they were added,   *)
(* over however many connections and by however many threads.              *)
InOrder ==
  \A i, j \in DOMAIN statBuffer :
    Alone(i) /\ Alone(j) /\ i < j /\ statBuffer[j].sent => statBuffer[i].sent

(* A call that was hung up has no timer left, though a call begins while   *)
(* the end of the last is being worked off.                                *)
HangupStopsTimer ==
  handler.end = "Hangup" /\ handler.at # "stopTimer" => handler.call \notin running

(* An event goes out under its own call's X-CallUUID or under none: of an  *)
(* answer or a summary as long as no call was begun while another's end    *)
(* was worked off, of a feedback by the SDK's own string as long as no     *)
(* call began or ended before the answer.                                  *)
EventsAreOwn ==
  \A i \in DOMAIN statBuffer :
    LET e == statBuffer[i] IN e # None /\ e.sure => e.x \in {e.by, None}

(* Every loop throws at an empty slot, which adds that overlap another or  *)
(* a clear can leave, and which nothing takes away.                        *)
Torn == \E i \in 1 .. size : statBuffer[i] = None

(* With a network that works, such an event does not wait in the buffer    *)
(* for another to take it along if it has an X-CallUUID: the client it was *)
(* added with, or one made since, sends it, although onOpen may find the   *)
(* field's client not open.  Unless the process is gone, killed by what a  *)
(* loop threw, or a race left the buffer with an empty slot, in which case *)
(* nothing behind it is sent any more.                                     *)
Delivered ==
  ~lossy => []<>(\/ crashed \/ Torn
                 \/ \A i \in 1 .. size :
                      Alone(i) => statBuffer[i].sent \/ statBuffer[i].x = None)
=============================================================================
