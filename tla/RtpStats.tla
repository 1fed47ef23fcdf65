------------------------------- MODULE RtpStats -------------------------------
(***************************************************************************)
(* The statistics of a call's media: the figures RtpStats.java fetches     *)
(* from plivo_app_callback.cpp, and the alerts it raises from them.        *)
(*                                                                         *)
(* One timer task a second, on a thread of the call's own, samples the     *)
(* audio level and each fifth time the whole of the statistics.  The       *)
(* native side keeps neither call nor figures apart: it reports on the     *)
(* call that had an event last (currrent_call_id), relative to the figures *)
(* it saw last (pre...), and only the answer of a call clears those.       *)
(*                                                                         *)
(* A timer that was not cancelled goes on, over the RtpStats of the call   *)
(* after, and a task that is at work when its RtpStats is replaced ends    *)
(* its work there.  No field of an RtpStats is synchronised, so that tasks *)
(* are cut wherever they read what another may write.                      *)
(***************************************************************************)
EXTENDS Integers, Sequences, FiniteSets

CONSTANTS Calls,      \* calls, as they come to be
          Period,     \* audio levels to a report: 5 in the code
          MaxPackets, \* bound: packets of any kind, over all calls
          Watched,    \* what behaviours follow: some of Aspects
          None

LocalKinds == {"sent", "localLoss"}          \* rtcp.tx.pkt and tx.loss
RemoteKinds == {"received", "remoteLoss"}    \* rtcp.rx.pkt and rx.loss
Kinds == LocalKinds \cup RemoteKinds

\* What a behaviour follows, since none depends on another: the figures, the
\* audio level, or the alert of a key: of "packectloss_local", or of one of the
\* others, which differ in what is a bad value alone.
Aspects == {"figures", "level", "packectloss_local", "metric"}

ASSUME RtpStatsAssumption == 
  /\ None \notin Calls /\ IsFiniteSet(Calls)
  /\ Period \in Nat \ {0} /\ MaxPackets \in Nat /\ Watched \subseteq Aspects

VARIABLES
  currrent_call_id, pre,  \* plivo_app_callback.cpp
  count,                  \* RtpStats.java: static, the audio levels fetched
  rtpStat,                \* CallInsights.java: the RtpStats in use, by the call it was made for
  localAudioLevels,       \* of each RtpStats: the sum of levels, by sign, or the mean in decibels
  mediaMetric,            \* of each: the last values of the watched key and its alert
  timer,                  \* CallInsights.java: the timer made last, by its call
  running,                \* the timers not cancelled
  task,                   \* each timer's task: where it is, on which RtpStats, and what it read
  state, total,           \* pjsua: the calls, and their streams' figures
  watched,   \* what the behaviour follows
  shared,    \* history: the RtpStats two tasks gave values to at once
  late,      \* history: those whose sum changed between being read and written
  reported,  \* history: the sum of the figures reported for a call
  mixed      \* history: the calls whose figures were reported with another's

native == <<currrent_call_id, pre>>
alerts == <<mediaMetric, shared>>
levels == <<localAudioLevels, late>>
timers == <<timer, running>>
pjsua == <<state, total>>
figures == <<reported, mixed>>
vars == <<native, count, rtpStat, alerts, levels, timers, task, pjsua, watched, figures>>

Zero == [k \in Kinds |-> 0]
Garbage == [k \in Kinds |-> -1]  \* what a failed call leaves in a local variable
Packets == Cardinality({p \in Calls \X Kinds \X (1 .. MaxPackets) : p[3] <= total[p[1]][p[2]]})

Levels == {"zero", "positive", "silence", "negative", "NaN"}
Tasks == [at : {"idle", "tick", "fetch", "add", "sample", "local", "remote", "evaluate", "print"},
          on : Calls \cup {None}, seen : 0 .. Period + 1, heard : Levels]
NoTask == [at |-> "idle", on |-> None, seen |-> 0, heard |-> "zero"]
At(c) == task[c].at
On(c) == task[c].on

(* new RtpStats: no values, no alert; and as history whether each of the   *)
(* last three values was bad, and what was told the listener last.         *)
NewRtpStat == [window |-> <<>>, warning |-> FALSE, samples |-> <<>>, told |-> "nothing"]

TypeOK ==
  /\ currrent_call_id \in Calls \cup {None}
  /\ pre \in [Kinds -> Nat] \cup {Garbage}
  /\ count \in 0 .. Period + 1 /\ rtpStat \in Calls \cup {None}
  /\ localAudioLevels \in [Calls -> Levels]
  /\ \A o \in Calls :
       LET m == mediaMetric[o]
       IN /\ m.window \in Seq(BOOLEAN) /\ Len(m.window) <= 2 /\ m.warning \in BOOLEAN
          /\ m.samples \in Seq(BOOLEAN) /\ Len(m.samples) <= 3
          /\ m.told \in {"nothing", "raised", "cleared"}
  /\ timer \in Calls \cup {None} /\ running \subseteq Calls
  /\ task \in [Calls -> Tasks]
  /\ state \in [Calls -> {"none", "calling", "confirmed", "over"}]
  /\ total \in [Calls -> [Kinds -> 0 .. MaxPackets]]
  /\ watched \in Aspects
  /\ shared \subseteq Calls /\ late \subseteq Calls
  /\ reported \in [Calls -> [Kinds -> Int]] /\ mixed \subseteq Calls

Init ==
  /\ currrent_call_id = None /\ pre = Zero
  /\ count = 0 /\ rtpStat = None
  /\ localAudioLevels = [o \in Calls |-> "zero"] /\ mediaMetric = [o \in Calls |-> NewRtpStat]
  /\ timer = None /\ running = {} /\ task = [c \in Calls |-> NoTask]
  /\ state = [c \in Calls |-> "none"] /\ total = [c \in Calls |-> Zero]
  /\ watched \in Watched
  /\ shared = {} /\ late = {}
  /\ reported = [c \in Calls |-> Zero] /\ mixed = {}

-----------------------------------------------------------------------------
(* The pjsua worker.                                                       *)

(* A new call, and any event of a call that is neither its answer nor its  *)
(* end: on_call_state of an incoming call that is refused is one.          *)
CallState(c) ==
  /\ state[c] \in {"none", "calling"}
  /\ state' = [state EXCEPT ![c] = "calling"]
  /\ currrent_call_id' = c
  /\ UNCHANGED <<pre, count, rtpStat, alerts, levels, timers, task, total, watched, figures>>

(* Mutant: the figures of the call before are left in place. *)
AnsweredUncleared(c) ==
  /\ state[c] = "calling"
  /\ state' = [state EXCEPT ![c] = "confirmed"]
  /\ currrent_call_id' = c
  /\ rtpStat' = c
  /\ timer' = c /\ running' = running \cup {c}
  /\ UNCHANGED <<pre, count, alerts, levels, task, total, watched, figures>>

(* The answer: the bases are cleared, and the Java side makes an RtpStats  *)
(* and a timer, whatever timer there is.                                   *)
Answered(c) ==
  /\ state[c] = "calling"
  /\ state' = [state EXCEPT ![c] = "confirmed"]
  /\ currrent_call_id' = c /\ pre' = Zero
  /\ rtpStat' = c
  /\ timer' = c /\ running' = running \cup {c}
  /\ UNCHANGED <<count, alerts, levels, task, total, watched, figures>>

(* The end: only a hangup cancels a timer, and that is the last one made.  *)
Ended(c) ==
  /\ state[c] \in {"calling", "confirmed"}
  /\ state' = [state EXCEPT ![c] = "over"]
  /\ currrent_call_id' = c
  /\ \E hangup \in BOOLEAN : running' = IF hangup THEN running \ {timer} ELSE running
  /\ UNCHANGED <<pre, count, rtpStat, alerts, levels, timer, task, total, watched, figures>>

Packet(c, k) ==  \* RTP and RTCP go on
  /\ watched = "figures" /\ state[c] = "confirmed" /\ Packets < MaxPackets
  /\ total' = [total EXCEPT ![c][k] = @ + 1]
  /\ UNCHANGED <<native, count, rtpStat, alerts, levels, timers, task, state, watched, figures>>

-----------------------------------------------------------------------------
(* The task of the timer made for call c.                                  *)

(* The timer runs getRTPStats of the RtpStats in use.  All but one time of *)
(* Period it only fetches one more audio level.                            *)
getRTPStats(c) ==
  /\ c \in running /\ At(c) = "idle"
  /\ task' = [task EXCEPT ![c] = [NoTask EXCEPT
       !.at = IF count # Period THEN "tick" ELSE "sample", !.on = rtpStat, !.seen = count]]
  /\ UNCHANGED <<native, count, rtpStat, alerts, levels, timers, pjsua, watched, figures>>

FollowsLevel == watched = "level"

(* The count of a behaviour that passed Period is never Period again. *)
Counted(n) == IF n > Period THEN n ELSE n + 1

(* count = count + 1: of the count that was compared, or read anew. *)
Tick(c) ==
  /\ At(c) = "tick" /\ count' \in {Counted(task[c].seen), Counted(count)}
  /\ task' = [task EXCEPT ![c] = IF FollowsLevel THEN [@ EXCEPT !.at = "fetch", !.seen = 0]
                                ELSE NoTask]
  /\ UNCHANGED <<native, rtpStat, alerts, levels, timers, pjsua, watched, figures>>

(* One more audio level, added to what is there: after a failed sample     *)
(* that is a number of decibels.                                           *)
Sum(level) ==
  CASE level = "zero" -> {"zero", "positive"}
    [] level \in {"silence", "negative"} -> {"zero", "positive", "negative"}
    [] OTHER -> {level}

(* localAudioLevels = localAudioLevels + localTemp: the sum is read ... *)
fetchAudioLevels(c) ==
  /\ At(c) = "fetch"
  /\ task' = [task EXCEPT ![c].at = "add", ![c].heard = localAudioLevels[On(c)]]
  /\ UNCHANGED <<native, count, rtpStat, alerts, levels, timers, pjsua, watched, figures>>

(* ... and written, whatever it has become. *)
AddLevel(c) ==
  LET o == On(c)
  IN /\ At(c) = "add"
     /\ \E sum \in Sum(task[c].heard) :
          localAudioLevels' = [localAudioLevels EXCEPT ![o] = sum]
     /\ late' = IF localAudioLevels[o] = task[c].heard THEN late ELSE late \cup {o}
     /\ task' = [task EXCEPT ![c] = NoTask]
     /\ UNCHANGED <<native, count, rtpStat, alerts, timers, pjsua, watched, figures>>

(* The mean in decibels: -100 of silence, and no number of a negative sum. *)
Decibels(level) ==
  CASE level = "zero" -> "silence"
    [] level = "positive" -> "negative"
    [] OTHER -> "NaN"

Sample(c) ==
  /\ At(c) = "sample" /\ count' = 1
  /\ localAudioLevels' = IF FollowsLevel THEN [localAudioLevels EXCEPT ![On(c)] = Decibels(@)]
                         ELSE localAudioLevels
  /\ task' = [task EXCEPT ![c].at = "local", ![c].seen = 0]
  /\ UNCHANGED <<native, rtpStat, alerts, late, timers, pjsua, watched, figures>>

(* pjsua_call_get_stream_stat, whose result nobody looks at. *)
streamStats ==
  IF currrent_call_id \in Calls /\ state[currrent_call_id] = "confirmed"
  THEN total[currrent_call_id] ELSE Garbage

(* The figures since the last report, in the name of the timer's call; the *)
(* sum is followed as long as they are the call's own.                     *)
Report(c, kinds) ==
  IF streamStats = Garbage \/ pre = Garbage \/ currrent_call_id # c \/ c \in mixed
  THEN mixed' = mixed \cup ({c, currrent_call_id} \ {None}) /\ UNCHANGED reported
  ELSE /\ reported' = [reported EXCEPT ![c] = [k \in Kinds |->
                         IF k \in kinds THEN @[k] + streamStats[k] - pre[k] ELSE @[k]]]
       /\ UNCHANGED mixed

(* JSON without sense, which another call's figures may give, is the end. *)
getLocalStats(c) ==
  /\ At(c) = "local" /\ Report(c, LocalKinds)
  /\ \/ task' = [task EXCEPT ![c].at = "remote"]
     \/ c \in mixed' /\ task' = [task EXCEPT ![c] = NoTask]
  /\ UNCHANGED <<native, count, rtpStat, alerts, levels, timers, pjsua, watched>>

(* Mutant: the losses are compared with those of the start of the call. *)
updateBasePacketsHalf ==
  pre' = [pre EXCEPT !["sent"] = streamStats["sent"], !["received"] = streamStats["received"]]

(* Mutant: only the remote side's figures are brought up to date. *)
updateBasePacketsRemote ==
  pre' = [k \in Kinds |-> IF k \in RemoteKinds THEN streamStats[k] ELSE pre[k]]

updateBasePackets == pre' = streamStats

(* The bases are brought up to date with the second report, for both. *)
getRemoteStats(c) ==
  /\ At(c) = "remote"
  /\ task' = [task EXCEPT ![c] = IF watched = "figures" THEN NoTask
                                ELSE [@ EXCEPT !.at = "evaluate"]]
  /\ Report(c, RemoteKinds)
  /\ updateBasePackets
  /\ UNCHANGED <<currrent_call_id, count, rtpStat, alerts, levels, timers, pjsua, watched>>

-----------------------------------------------------------------------------
(* The alerts.                                                             *)

TwoBad(s) == Cardinality({i \in DOMAIN s : s[i]}) >= 2

Newest(values, bad) == Append(IF Len(values) < 3 THEN values ELSE Tail(values), bad)

(* Mutant: the window is not moved on. *)
FeedStuck(a, bad) ==
  LET w == Append(a.window, bad)
      s == Newest(a.samples, bad)
  IN IF Len(w) # 3
     THEN [window |-> w, warning |-> a.warning, samples |-> s, told |-> a.told]
     ELSE [window |-> w, warning |-> TwoBad(w), samples |-> s,
           told |-> IF TwoBad(w) THEN "raised" ELSE IF a.warning THEN "cleared" ELSE a.told]

(* callMediaMatrices and processAudioLevels: with three values the alert   *)
(* is raised, again and again, or cleared if it was raised.                *)
Feed(a, bad) ==
  LET w == Append(a.window, bad)
      s == Newest(a.samples, bad)
  IN IF Len(w) < 3
     THEN [window |-> w, warning |-> a.warning, samples |-> s, told |-> a.told]
     ELSE [window |-> Tail(w), warning |-> TwoBad(w), samples |-> s,
           told |-> IF TwoBad(w) THEN "raised" ELSE IF a.warning THEN "cleared" ELSE a.told]

(* "packectloss_local" gets the loss of both sides, one after the other. *)
Fed(m, bad, bad2) ==
  CASE watched = "metric" -> Feed(m, bad)
    [] watched = "packectloss_local" -> Feed(Feed(m, bad), bad2)
    [] OTHER -> m

(* A level that is no number ends getRTPStats; else the values are given   *)
(* to printMediaMetric.                                                    *)
Evaluate(c) ==
  LET o == On(c)
  IN /\ At(c) = "evaluate"
     /\ \/ /\ ~FollowsLevel \/ localAudioLevels[o] # "NaN"
           /\ task' = [task EXCEPT ![c].at = "print"]
           /\ shared' = IF \E d \in Calls : At(d) = "print" /\ On(d) = o
                        THEN shared \cup {o} ELSE shared
        \/ /\ ~FollowsLevel \/ localAudioLevels[o] = "NaN"
           /\ task' = [task EXCEPT ![c] = NoTask]
           /\ UNCHANGED shared
     /\ UNCHANGED <<native, count, rtpStat, mediaMetric, levels, timers, pjsua, watched, figures>>

Rest(c) ==  \* of getRTPStats, or none
  task' = [task EXCEPT ![c] = IF FollowsLevel THEN [@ EXCEPT !.at = "fetch"] ELSE NoTask]

(* Mutant: the level is left as it is for the next five. *)
printMediaMetricUnreset(c) ==
  LET o == On(c)
  IN /\ At(c) = "print" /\ o \notin shared
     /\ \E bad, bad2 \in BOOLEAN :
          mediaMetric' = [mediaMetric EXCEPT ![o] = Fed(@, bad, bad2)]
     /\ Rest(c)
     /\ UNCHANGED <<native, count, rtpStat, shared, levels, timers, pjsua, watched, figures>>

(* Each key gets its values, and the listener is told of its alert, of an  *)
(* RtpStats that was replaced, too; then the level is reset and fetched    *)
(* anew.  Two tasks that do so at once spoil the lists, whose sizes may    *)
(* come out wrong for good, and may throw: from then on the RtpStats tells *)
(* anything.                                                               *)
printMediaMetric(c) ==
  LET o == On(c)
  IN /\ At(c) = "print"
     /\ \/ /\ o \notin shared
           /\ \E bad, bad2 \in BOOLEAN :
                mediaMetric' = [mediaMetric EXCEPT ![o] = Fed(@, bad, bad2)]
        \/ /\ o \in shared
           /\ \E told \in {"nothing", "raised", "cleared"} :
                mediaMetric' = [mediaMetric EXCEPT ![o].told = told]
     /\ \/ localAudioLevels' = [localAudioLevels EXCEPT ![o] = "zero"] /\ Rest(c)
        \/ /\ o \in shared
           /\ task' = [task EXCEPT ![c] = NoTask] /\ UNCHANGED localAudioLevels
     /\ UNCHANGED <<native, count, rtpStat, shared, late, timers, pjsua, watched, figures>>

-----------------------------------------------------------------------------
Worker ==
  \E c \in Calls :
    CallState(c) \/ Answered(c) \/ Ended(c) \/ \E k \in Kinds : Packet(c, k)
TimerTask ==
  \E c \in Calls :
    \/ getRTPStats(c) \/ Tick(c) \/ fetchAudioLevels(c) \/ AddLevel(c) \/ Sample(c)
    \/ getLocalStats(c) \/ getRemoteStats(c) \/ Evaluate(c) \/ printMediaMetric(c)

Next == Worker \/ TimerTask

Spec == Init /\ [][Next]_vars

-----------------------------------------------------------------------------
(* Properties.                                                             *)

Own(c) == c = currrent_call_id /\ state[c] = "confirmed" /\ c \notin mixed

(* As long as a call's figures are its own, whatever other calls and other *)
(* timers there are, the packets received and lost that were reported add  *)
(* up to those there were at the last report: none twice and none left     *)
(* out.                                                                    *)
ReceivedAddUp ==
  \A c \in Calls : Own(c) =>
    \A k \in RemoteKinds : reported[c][k] = pre[k] /\ pre[k] <= total[c][k]

(* The packets sent are not reported twice.  Some may be left out: those   *)
(* sent between the two reports, since the second one updates both bases.  *)
SentNeverTwice ==
  \A c \in Calls : c \notin mixed => \A k \in LocalKinds : reported[c][k] <= total[c][k]

(* With no task at work the sum of the audio levels is one of levels, so   *)
(* that its logarithm will be a number, whichever timers added to it;      *)
(* unless figures were mixed, or a level was added to a sum that another   *)
(* task had changed since it was read.                                     *)
LevelIsNumber ==
  /\ FollowsLevel /\ rtpStat # None /\ rtpStat \notin late /\ mixed = {}
  /\ \A c \in Calls : At(c) = "idle"
  => localAudioLevels[rtpStat] \in {"zero", "positive"}

(* What the listener was told last by an RtpStats, replaced or not, is     *)
(* that there is an alert exactly when two of the last three values it got *)
(* were bad; unless two tasks gave it values at once.  Whose alert it was  *)
(* the listener is not told.                                               *)
AlertStands ==
  \A o \in Calls \ shared :
    LET m == mediaMetric[o]
    IN IF Len(m.samples) < 3 THEN m.told = "nothing" ELSE (m.told = "raised") <=> TwoBad(m.samples)

(* "successfully collected remote stats": those reported for a call are    *)
(* the call's.                                                             *)
StatsAreOwn == mixed = {}
=============================================================================
