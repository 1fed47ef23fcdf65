---------------------------- MODULE RtpStatsProofs ----------------------------
(***************************************************************************)
(* What is proved of RtpStats for all calls, however their events and the  *)
(* tasks of their timers interleave: the types, the figures, the alerts    *)
(* and the sum of the audio levels.                                        *)
(***************************************************************************)
EXTENDS RtpStats, FiniteSetTheorems, SequenceTheorems, TLAPS

-----------------------------------------------------------------------------
(* The types.                                                              *)

(* The types the figures rest on; the bases may be garbage. *)
FigureTypes ==
  /\ pre \in [Kinds -> Int]
  /\ state \in [Calls -> {"none", "calling", "confirmed", "over"}]
  /\ total \in [Calls -> [Kinds -> Nat]]
  /\ reported \in [Calls -> [Kinds -> Int]]

(* A timer has an RtpStats to run on, and a task at work has its own. *)
Working ==
  /\ running # {} => rtpStat \in Calls
  /\ \A c \in Calls : At(c) # "idle" => On(c) \in Calls

(* All but the alerts, whose windows are short by AlertInv. *)
RestOK ==
  /\ currrent_call_id \in Calls \cup {None}
  /\ pre \in [Kinds -> Nat] \cup {Garbage}
  /\ count \in 0 .. Period + 1 /\ rtpStat \in Calls \cup {None}
  /\ localAudioLevels \in [Calls -> Levels]
  /\ timer \in Calls \cup {None} /\ running \subseteq Calls
  /\ task \in [Calls -> Tasks]
  /\ state \in [Calls -> {"none", "calling", "confirmed", "over"}]
  /\ total \in [Calls -> [Kinds -> 0 .. MaxPackets]]
  /\ watched \in Aspects
  /\ shared \subseteq Calls /\ late \subseteq Calls
  /\ reported \in [Calls -> [Kinds -> Int]] /\ mixed \subseteq Calls
  /\ Working

LEMMA KindTypes ==
  /\ LocalKinds \subseteq Kinds /\ RemoteKinds \subseteq Kinds
  /\ LocalKinds \cap RemoteKinds = {}
  /\ Zero \in [Kinds -> Int] /\ Garbage \in [Kinds -> Int]
  /\ \A k \in Kinds : Zero[k] = 0
  BY DEF LocalKinds, RemoteKinds, Kinds, Zero, Garbage

LEMMA StreamStats ==
  ASSUME FigureTypes
  PROVE  /\ streamStats \in [Kinds -> Int]
         /\ \A c \in Calls : currrent_call_id = c /\ state[c] = "confirmed" => streamStats = total[c]
         /\ streamStats = Garbage \/
              (currrent_call_id \in Calls /\ state[currrent_call_id] = "confirmed")
  BY KindTypes DEF FigureTypes, streamStats

LEMMA RestFigures == RestOK => FigureTypes
  BY KindTypes DEF RestOK, FigureTypes

(* A report in the name of d. *)
LEMMA Reports ==
  ASSUME FigureTypes, NEW d \in Calls, NEW kinds \in SUBSET Kinds, Report(d, kinds)
  PROVE  /\ reported' \in [Calls -> [Kinds -> Int]]
         /\ mixed \subseteq mixed'
         /\ \A c \in Calls : c # d => reported'[c] = reported[c]
         /\ \A c \in Calls : c # d /\ currrent_call_id = c => c \in mixed'
         /\ d \notin mixed' =>
              /\ currrent_call_id = d /\ state[d] = "confirmed"
              /\ \A k \in kinds : reported'[d][k] = reported[d][k] + total[d][k] - pre[k]
              /\ \A k \in Kinds \ kinds : reported'[d][k] = reported[d][k]
         /\ reported' # reported => currrent_call_id = d /\ state[d] = "confirmed"
<1>1. CASE streamStats = Garbage \/ pre = Garbage \/ currrent_call_id # d \/ d \in mixed
  <2>1. mixed' = mixed \cup ({d, currrent_call_id} \ {None}) /\ reported' = reported
    BY <1>1 DEF Report
  <2>2. QED
    BY <2>1, RtpStatsAssumption DEF FigureTypes
<1>2. CASE ~(streamStats = Garbage \/ pre = Garbage \/ currrent_call_id # d \/ d \in mixed)
  <2>1. /\ mixed' = mixed
        /\ reported' = [reported EXCEPT ![d] = [k \in Kinds |->
             IF k \in kinds THEN reported[d][k] + streamStats[k] - pre[k] ELSE reported[d][k]]]
    BY <1>2 DEF Report
  <2>2. currrent_call_id = d /\ state[d] = "confirmed" /\ streamStats = total[d]
    BY <1>2, StreamStats
  <2>3. QED
    BY <2>1, <2>2 DEF FigureTypes
<1>3. QED
  BY <1>1, <1>2

(* The bound holds: with MaxPackets of a kind in one stream there are as   *)
(* many packets over all.                                                  *)
LEMMA PacketBound ==
  ASSUME NEW c \in Calls, NEW k \in Kinds, total[c][k] = MaxPackets,
         MaxPackets \in Nat, IsFiniteSet(Calls)
  PROVE  Packets \in Nat /\ MaxPackets <= Packets
<1> DEFINE Sizes == 1 .. MaxPackets
           All == (Calls \X Kinds) \X Sizes
           There == {p \in Calls \X Kinds \X Sizes : p[3] <= total[p[1]][p[2]]}
           paired == [p \in There |-> <<<<p[1], p[2]>>, p[3]>>]
           own == [i \in Sizes |-> <<c, k, i>>]
<1>1. IsFiniteSet(Sizes) /\ Cardinality(Sizes) = MaxPackets
  BY FS_Interval
<1>2. IsFiniteSet(All)
  <2>1. IsFiniteSet(Kinds)
    <3>1. Kinds = ((({} \cup {"sent"}) \cup {"localLoss"}) \cup {"received"}) \cup {"remoteLoss"}
      BY DEF Kinds, LocalKinds, RemoteKinds
    <3>2. QED
      BY <3>1, FS_EmptySet, FS_AddElement
  <2>2. IsFiniteSet(Calls \X Kinds)
    BY <2>1, FS_Product
  <2>3. QED
    BY <1>1, <2>2, FS_Product
<1>3. paired \in Injection(There, All)
  <2>1. paired \in [There -> All]
    OBVIOUS
  <2>2. ASSUME NEW p \in There, NEW q \in There, paired[p] = paired[q]  PROVE p = q
    BY <2>2
  <2>3. QED
    BY <2>1, <2>2 DEF Injection, IsInjective
<1>4. own \in Injection(Sizes, There)
  <2>1. own \in [Sizes -> There]
    OBVIOUS
  <2>2. QED
    BY <2>1 DEF Injection, IsInjective
<1>5. IsFiniteSet(There)
  <2> HIDE DEF All, There, paired
  <2> QED  BY <1>2, <1>3, FS_Injection
<1>6. Cardinality(There) \in Nat /\ MaxPackets <= Cardinality(There)
  <2> HIDE DEF Sizes, There, own
  <2> QED  BY <1>1, <1>4, <1>5, FS_Injection, FS_CardinalityType
<1>7. Packets = Cardinality(There)
  BY DEF Packets
<1> QED  BY <1>6, <1>7

(* A task goes from one place to another, with what it read. *)
LEMMA TaskMoves ==
  ASSUME task \in [Calls -> Tasks], NEW c \in Calls, NEW t \in Tasks,
         task' = [task EXCEPT ![c] = t]
  PROVE  task' \in [Calls -> Tasks]
OBVIOUS

LEMMA TaskValues ==
  /\ NoTask \in Tasks
  /\ \A t \in Tasks :
       /\ [t EXCEPT !.at = "fetch"] \in Tasks
       /\ [t EXCEPT !.at = "remote"] \in Tasks
       /\ [t EXCEPT !.at = "evaluate"] \in Tasks
       /\ [t EXCEPT !.at = "print"] \in Tasks
       /\ [t EXCEPT !.at = "fetch", !.seen = 0] \in Tasks
       /\ [t EXCEPT !.at = "local", !.seen = 0] \in Tasks
       /\ \A level \in Levels : [t EXCEPT !.at = "add", !.heard = level] \in Tasks
<1>1. 0 \in 0 .. Period + 1
  BY RtpStatsAssumption
<1> QED  BY <1>1 DEF NoTask, Tasks, Levels

LEMMA LevelTypes ==
  ASSUME NEW level \in Levels
  PROVE  Sum(level) \subseteq Levels /\ Decibels(level) \in Levels
  BY DEF Sum, Decibels, Levels

LEMMA WorkerTypes ==
  ASSUME RestOK, NEW c \in Calls,
         CallState(c) \/ Answered(c) \/ Ended(c) \/ \E k \in Kinds : Packet(c, k)
  PROVE  RestOK'
<1> USE DEF RestOK, native, alerts, levels, timers, pjsua, figures
<1>1. CASE CallState(c)
  BY <1>1 DEF CallState, Working, At, On
<1>2. CASE Answered(c)
  BY <1>2 DEF Answered, Zero, Working, At, On
<1>3. CASE Ended(c)
  BY <1>3 DEF Ended, Working, At, On
<1>4. ASSUME NEW k \in Kinds, Packet(c, k)  PROVE RestOK'
  <2>1. total[c][k] \in 0 .. MaxPackets /\ total[c][k] + 1 \in 0 .. MaxPackets
    <3>1. MaxPackets \in Nat /\ IsFiniteSet(Calls)
      BY RtpStatsAssumption
    <3>2. total[c][k] \in 0 .. MaxPackets /\ Packets < MaxPackets
      BY <1>4 DEF Packet
    <3>3. total[c][k] # MaxPackets
      BY <3>1, <3>2, PacketBound
    <3>4. \A m \in Nat : \A n \in 0 .. m : n # m => n + 1 \in 0 .. m
      OBVIOUS
    <3>5. QED
      BY <3>1, <3>2, <3>3, <3>4
  <2>2. total' \in [Calls -> [Kinds -> 0 .. MaxPackets]]
    BY <1>4, <2>1 DEF Packet
  <2>3. QED
    BY <1>4, <2>2 DEF Packet, Working, At, On
<1>5. QED
  BY <1>1, <1>2, <1>3, <1>4

(* The tasks that fetch a level. *)
LEMMA LevelTaskTypes ==
  ASSUME RestOK, NEW c \in Calls,
         getRTPStats(c) \/ Tick(c) \/ fetchAudioLevels(c) \/ AddLevel(c) \/ Sample(c)
  PROVE  RestOK'
<1> DEFINE Others == /\ UNCHANGED <<currrent_call_id, pre, rtpStat, timers, pjsua, watched>>
                     /\ UNCHANGED <<shared, figures>>
<1>1. Others
  BY DEF getRTPStats, Tick, fetchAudioLevels, AddLevel, Sample, native, alerts
<1>2. count' \in 0 .. Period + 1
  <2>1. \A n \in 0 .. Period + 1 : Counted(n) \in 0 .. Period + 1
    BY RtpStatsAssumption DEF Counted
  <2>2. task[c].seen \in 0 .. Period + 1 /\ count \in 0 .. Period + 1
    BY DEF RestOK, Tasks
  <2>3. 1 \in 0 .. Period + 1
    BY RtpStatsAssumption
  <2>4. QED
    BY <2>1, <2>2, <2>3 DEF getRTPStats, Tick, fetchAudioLevels, AddLevel, Sample
<1>3. task' \in [Calls -> Tasks]
  <2>1. task \in [Calls -> Tasks] /\ task[c] \in Tasks /\ count \in 0 .. Period + 1
        /\ rtpStat \in Calls \cup {None} /\ localAudioLevels \in [Calls -> Levels]
    BY DEF RestOK
  <2>2. CASE getRTPStats(c)
    <3> DEFINE t == [NoTask EXCEPT !.at = IF count # Period THEN "tick" ELSE "sample",
                                   !.on = rtpStat, !.seen = count]
    <3>1. t \in Tasks
      BY <2>1 DEF NoTask, Tasks, Levels
    <3>2. task' = [task EXCEPT ![c] = t]
      BY <2>2 DEF getRTPStats
    <3> HIDE DEF t
    <3> QED  BY <2>1, <3>1, <3>2, TaskMoves
  <2>3. CASE Tick(c)
    BY <2>1, <2>3, TaskValues DEF Tick
  <2>4. CASE fetchAudioLevels(c)
    <3>1. localAudioLevels[On(c)] \in Levels
      BY <2>1, <2>4 DEF fetchAudioLevels, RestOK, Working
    <3>2. QED
      BY <2>1, <2>4, <3>1, TaskValues DEF fetchAudioLevels
  <2>5. CASE AddLevel(c)
    BY <2>1, <2>5, TaskValues DEF AddLevel
  <2>6. CASE Sample(c)
    BY <2>1, <2>6, TaskValues DEF Sample
  <2>7. QED
    BY <2>2, <2>3, <2>4, <2>5, <2>6
<1>4. At(c) # "idle" => On(c) \in Calls
  BY DEF RestOK, Working
<1>5. localAudioLevels' \in [Calls -> Levels] /\ late' \subseteq Calls
  <2>1. CASE AddLevel(c)
    <3>1. On(c) \in Calls /\ task[c].heard \in Levels
      BY <1>4, <2>1 DEF AddLevel, RestOK, Tasks
    <3>2. QED
      BY <2>1, <3>1, LevelTypes DEF AddLevel, RestOK
  <2>2. CASE Sample(c)
    <3>1. On(c) \in Calls
      BY <1>4, <2>2 DEF Sample
    <3>2. QED
      BY <2>2, <3>1, LevelTypes DEF Sample, RestOK
  <2>3. QED
    BY <2>1, <2>2 DEF getRTPStats, Tick, fetchAudioLevels, levels, RestOK
<1>6. Working'
  <2>1. UNCHANGED <<running, rtpStat>> /\ \A d \in Calls \ {c} : task'[d] = task[d]
    BY <1>1 DEF timers, getRTPStats, Tick, fetchAudioLevels, AddLevel, Sample, RestOK
  <2>2. task'[c].at # "idle" => task'[c].on \in Calls
    <3>1. CASE getRTPStats(c)
      <4>1. task'[c].on = rtpStat
        BY <3>1 DEF getRTPStats, RestOK, NoTask
      <4>2. rtpStat \in Calls
        BY <3>1 DEF getRTPStats, RestOK, Working
      <4>3. QED
        BY <4>1, <4>2
    <3>2. CASE Tick(c)
      BY <1>4, <3>2 DEF Tick, RestOK, NoTask, At, On, Tasks
    <3>3. CASE fetchAudioLevels(c) \/ Sample(c)
      <4>1. task'[c].on = On(c)
        <5>1. CASE fetchAudioLevels(c)
          BY <5>1 DEF fetchAudioLevels, RestOK, On, Tasks
        <5>2. CASE Sample(c)
          BY <5>2 DEF Sample, RestOK, On, Tasks
        <5>3. QED
          BY <3>3, <5>1, <5>2
      <4>2. At(c) # "idle"
        BY <3>3 DEF fetchAudioLevels, Sample
      <4>3. QED
        BY <1>4, <4>1, <4>2
    <3>4. CASE AddLevel(c)
      BY <3>4 DEF AddLevel, RestOK, NoTask
    <3>5. QED
      BY <3>1, <3>2, <3>3, <3>4
  <2>3. QED
    BY <2>1, <2>2 DEF RestOK, Working, At, On
<1>7. QED
  BY <1>1, <1>2, <1>3, <1>5, <1>6 DEF RestOK, timers, pjsua, figures

(* The tasks that sample. *)
LEMMA StatsTaskTypes ==
  ASSUME RestOK, NEW c \in Calls,
         getLocalStats(c) \/ getRemoteStats(c) \/ Evaluate(c) \/ printMediaMetric(c)
  PROVE  RestOK'
<1>1. UNCHANGED <<currrent_call_id, count, rtpStat, timers, pjsua, watched, late>>
  BY DEF getLocalStats, getRemoteStats, Evaluate, printMediaMetric, native, levels
<1>2. At(c) # "idle" /\ On(c) \in Calls
  BY DEF getLocalStats, getRemoteStats, Evaluate, printMediaMetric, RestOK, Working
<1>3. task \in [Calls -> Tasks] /\ task[c] \in Tasks
  BY DEF RestOK
<1>4. \/ task' = [task EXCEPT ![c] = NoTask]
      \/ \E place \in {"fetch", "remote", "evaluate", "print"} :
           task' = [task EXCEPT ![c] = [@ EXCEPT !.at = place]]
  BY DEF getLocalStats, getRemoteStats, Evaluate, printMediaMetric, Rest
<1>5. task' \in [Calls -> Tasks]
  BY <1>3, <1>4, TaskValues
<1>6. Working'
  <2>1. UNCHANGED <<running, rtpStat>> /\ \A d \in Calls \ {c} : task'[d] = task[d]
    BY <1>1, <1>3, <1>4 DEF timers
  <2>2. task'[c].at # "idle" => task'[c].on = On(c)
    BY <1>3, <1>4 DEF Tasks, NoTask, On
  <2>3. QED
    BY <1>2, <2>1, <2>2 DEF RestOK, Working, At, On
<1>7. ASSUME NEW kinds \in SUBSET Kinds, Report(c, kinds)
      PROVE  reported' \in [Calls -> [Kinds -> Int]] /\ mixed' \subseteq Calls
  <2>1. mixed' \subseteq Calls
    BY <1>7 DEF Report, RestOK
  <2>2. QED
    BY <1>7, <2>1, RestFigures, Reports
<1>8. CASE getLocalStats(c)
  <2>1. UNCHANGED <<pre, shared, localAudioLevels>> /\ Report(c, LocalKinds)
    BY <1>8 DEF getLocalStats, native, alerts, levels
  <2>2. QED
    BY <1>1, <1>5, <1>6, <1>7, <2>1, KindTypes DEF RestOK, timers, pjsua
<1>9. CASE getRemoteStats(c)
  <2>1. UNCHANGED <<shared, localAudioLevels>> /\ Report(c, RemoteKinds)
    BY <1>9 DEF getRemoteStats, alerts, levels
  <2>2. pre' \in [Kinds -> Nat] \cup {Garbage}
    BY <1>9 DEF getRemoteStats, updateBasePackets, streamStats, RestOK
  <2>3. QED
    BY <1>1, <1>5, <1>6, <1>7, <2>1, <2>2, KindTypes DEF RestOK, timers, pjsua
<1>10. CASE Evaluate(c)
  <2>1. UNCHANGED <<pre, localAudioLevels, figures>> /\ shared' \subseteq Calls
    BY <1>2, <1>10 DEF Evaluate, native, levels, RestOK
  <2>2. QED
    BY <1>1, <1>5, <1>6, <2>1 DEF RestOK, timers, pjsua, figures
<1>11. CASE printMediaMetric(c)
  <2>1. UNCHANGED <<pre, shared, figures>> /\ localAudioLevels' \in [Calls -> Levels]
    BY <1>2, <1>11 DEF printMediaMetric, native, RestOK, Levels
  <2>2. QED
    BY <1>1, <1>5, <1>6, <2>1 DEF RestOK, timers, pjsua, figures
<1>12. QED
  BY <1>8, <1>9, <1>10, <1>11

LEMMA RestInvariance == Spec => []RestOK
<1>1. Init => RestOK
  <2> SUFFICES ASSUME Init PROVE RestOK
    OBVIOUS
  <2>1. Working
    BY DEF Init, Working, At, NoTask
  <2>2. 0 \in 0 .. Period + 1 /\ 0 \in 0 .. MaxPackets /\ Watched \subseteq Aspects
    BY RtpStatsAssumption
  <2>3. task \in [Calls -> Tasks]
    BY TaskValues DEF Init
  <2>4. QED
    BY <2>1, <2>2, <2>3 DEF Init, RestOK, Zero, Levels
<1>2. RestOK /\ [Next]_vars => RestOK'
  <2>1. ASSUME RestOK, UNCHANGED vars  PROVE RestOK'
    BY <2>1 DEF vars, native, alerts, levels, timers, pjsua, figures, RestOK, Working, At, On
  <2>2. QED
    BY <2>1, WorkerTypes, LevelTaskTypes, StatsTaskTypes DEF Next, Worker, TimerTask
<1>3. QED
  BY <1>1, <1>2, PTL DEF Spec
-----------------------------------------------------------------------------
(* The figures.                                                            *)

(* A call that was not answered has no figures. *)
Unanswered(c) ==
  state[c] \in {"none", "calling"} =>
    \A k \in Kinds : reported[c][k] = 0 /\ total[c][k] = 0

(* The bases are those of the current call, from its answer on. *)
Received(c) ==
  Own(c) => \A k \in RemoteKinds : reported[c][k] = pre[k] /\ pre[k] <= total[c][k]

(* Between the two reports those of the packets sent are behind. *)
Sent(c) ==
  /\ c \notin mixed => \A k \in LocalKinds : reported[c][k] <= total[c][k]
  /\ Own(c) /\ At(c) # "remote" => \A k \in LocalKinds : reported[c][k] <= pre[k]

FiguresOK == \A c \in Calls : Unanswered(c) /\ Received(c) /\ Sent(c)

IInv == FigureTypes /\ FiguresOK

(* The steps that leave the figures alone: what they do to a task does not *)
(* bring it between the two reports, nor out of there.                     *)
Apart ==
  /\ UNCHANGED <<native, state, total, figures>>
  /\ \A c \in Calls : At(c)' = "remote" <=> At(c) = "remote"

LEMMA Steps ==
  ASSUME RestOK, [Next]_vars
  PROVE  \/ Apart
         \/ \E c \in Calls :
              \/ CallState(c) \/ Answered(c) \/ Ended(c) \/ (\E k \in Kinds : Packet(c, k))
              \/ getLocalStats(c) \/ getRemoteStats(c)
<1>2. ASSUME NEW c \in Calls,
             \/ getRTPStats(c) \/ Tick(c) \/ fetchAudioLevels(c) \/ AddLevel(c) \/ Sample(c)
             \/ Evaluate(c) \/ printMediaMetric(c)
      PROVE  Apart
  <2>1. UNCHANGED <<native, pjsua, figures>>
    BY <1>2 DEF getRTPStats, Tick, fetchAudioLevels, AddLevel, Sample, Evaluate, printMediaMetric
  <2>2. At(c) # "remote"
    BY <1>2 DEF getRTPStats, Tick, fetchAudioLevels, AddLevel, Sample, Evaluate, printMediaMetric
  <2>3. \A d \in Calls \ {c} : At(d)' = At(d)
    BY <1>2 DEF getRTPStats, Tick, fetchAudioLevels, AddLevel, Sample, Evaluate, printMediaMetric,
                Rest, RestOK, At
  <2>4. At(c)' # "remote"
    <3>1. task \in [Calls -> Tasks]
      BY DEF RestOK
    <3>2. CASE getRTPStats(c)
      BY <3>1, <3>2 DEF getRTPStats, At, NoTask
    <3>3. CASE Tick(c)
      BY <3>1, <3>3 DEF Tick, At, NoTask, Tasks
    <3>4. CASE fetchAudioLevels(c)
      BY <3>1, <3>4 DEF fetchAudioLevels, At, Tasks
    <3>5. CASE AddLevel(c)
      BY <3>1, <3>5 DEF AddLevel, At, NoTask
    <3>6. CASE Sample(c)
      BY <3>1, <3>6 DEF Sample, At, Tasks
    <3>7. CASE Evaluate(c)
      BY <3>1, <3>7 DEF Evaluate, At, NoTask, Tasks
    <3>8. CASE printMediaMetric(c)
      BY <3>1, <3>8 DEF printMediaMetric, Rest, At, NoTask, Tasks
    <3>9. QED
      BY <1>2, <3>2, <3>3, <3>4, <3>5, <3>6, <3>7, <3>8
  <2>5. QED
    BY <2>1, <2>2, <2>3, <2>4 DEF Apart, pjsua
<1>3. CASE UNCHANGED vars
  BY <1>3 DEF vars, Apart, At, pjsua
<1>4. QED
  BY <1>2, <1>3 DEF Next, Worker, TimerTask

LEMMA ApartFigures ==
  ASSUME IInv, Apart
  PROVE  IInv'
  BY DEF IInv, FigureTypes, FiguresOK, Unanswered, Received, Sent, Own, Apart, native, figures

(* What the worker does. *)
LEMMA WorkerFigures ==
  ASSUME IInv, NEW d \in Calls,
         CallState(d) \/ Answered(d) \/ Ended(d) \/ \E k \in Kinds : Packet(d, k)
  PROVE  IInv'
<1> USE KindTypes DEF IInv, FigureTypes, figures, levels, alerts, timers
<1>1. CASE CallState(d)
  <2>1. FigureTypes'
    BY <1>1 DEF CallState
  <2>2. ASSUME NEW c \in Calls PROVE (Unanswered(c) /\ Received(c) /\ Sent(c))'
    BY <1>1, <2>2 DEF CallState, At, FiguresOK, Unanswered, Received, Sent, Own
  <2>3. QED
    BY <2>1, <2>2 DEF FiguresOK
<1>2. CASE Answered(d)
  <2>1. FigureTypes'
    BY <1>2 DEF Answered
  <2>2. ASSUME NEW c \in Calls PROVE (Unanswered(c) /\ Received(c) /\ Sent(c))'
    BY <1>2, <2>2 DEF Answered, At, FiguresOK, Unanswered, Received, Sent, Own
  <2>3. QED
    BY <2>1, <2>2 DEF FiguresOK
<1>3. CASE Ended(d)
  <2>1. FigureTypes'
    BY <1>3 DEF Ended
  <2>2. ASSUME NEW c \in Calls PROVE (Unanswered(c) /\ Received(c) /\ Sent(c))'
    BY <1>3, <2>2 DEF Ended, At, FiguresOK, Unanswered, Received, Sent, Own
  <2>3. QED
    BY <2>1, <2>2 DEF FiguresOK
<1>4. ASSUME NEW k \in Kinds, Packet(d, k) PROVE IInv'
  <2>1. FigureTypes'
    BY <1>4 DEF Packet, native
  <2>2. ASSUME NEW c \in Calls PROVE (Unanswered(c) /\ Received(c) /\ Sent(c))'
    BY <1>4, <2>2 DEF Packet, native, At, FiguresOK, Unanswered, Received, Sent, Own
  <2>3. QED
    BY <2>1, <2>2 DEF FiguresOK
<1>5. QED
  BY <1>1, <1>2, <1>3, <1>4

(* The two reports of a task. *)
LEMMA LocalFigures ==
  ASSUME RestOK, IInv, NEW d \in Calls, getLocalStats(d)
  PROVE  IInv'
<1>1. /\ \A c \in Calls \ {d} : At(c)' = At(c)
      /\ At(d) = "local" /\ (At(d)' = "remote" \/ d \in mixed')
      /\ UNCHANGED <<currrent_call_id, pre, state, total>>
  BY DEF getLocalStats, native, pjsua, At, RestOK, Tasks
<1>2. Report(d, LocalKinds) /\ LocalKinds \in SUBSET Kinds
  BY KindTypes DEF getLocalStats
<1>3. FigureTypes'
  BY <1>1, <1>2, Reports DEF IInv, FigureTypes
<1>4. ASSUME NEW c \in Calls, c # d PROVE (Unanswered(c) /\ Received(c) /\ Sent(c))'
  BY <1>1, <1>2, <1>4, Reports
  DEF IInv, FigureTypes, FiguresOK, Unanswered, Received, Sent, Own
<1>5. Unanswered(d)'
  BY <1>1, <1>2, Reports DEF IInv, FiguresOK, Unanswered
<1>6. Received(d)'
  BY <1>1, <1>2, Reports, KindTypes DEF IInv, FiguresOK, Received, Own
<1>7. Sent(d)'
  BY <1>1, <1>2, Reports, KindTypes DEF IInv, FigureTypes, FiguresOK, Sent, Own
<1>8. QED
  BY <1>3, <1>4, <1>5, <1>6, <1>7 DEF IInv, FiguresOK

LEMMA RemoteFigures ==
  ASSUME RestOK, IInv, NEW d \in Calls, getRemoteStats(d)
  PROVE  IInv'
<1>1. /\ \A c \in Calls \ {d} : At(c)' = At(c)
      /\ UNCHANGED <<currrent_call_id, state, total>>
      /\ pre' = streamStats
  BY DEF getRemoteStats, updateBasePackets, pjsua, At, RestOK
<1>2. Report(d, RemoteKinds) /\ RemoteKinds \in SUBSET Kinds
  BY KindTypes DEF getRemoteStats
<1>3. FigureTypes'
  BY <1>1, <1>2, Reports, StreamStats DEF IInv, FigureTypes
<1>4. ASSUME NEW c \in Calls, c # d PROVE (Unanswered(c) /\ Received(c) /\ Sent(c))'
  BY <1>1, <1>2, <1>4, Reports
  DEF IInv, FigureTypes, FiguresOK, Unanswered, Received, Sent, Own
<1>5. Unanswered(d)'
  BY <1>1, <1>2, Reports DEF IInv, FiguresOK, Unanswered
<1>6. d \notin mixed' => pre' = total[d]
  BY <1>1, <1>2, Reports, StreamStats DEF IInv
<1>7. Received(d)'
  BY <1>1, <1>2, <1>6, Reports, KindTypes DEF IInv, FigureTypes, FiguresOK, Received, Own
<1>8. Sent(d)'
  BY <1>1, <1>2, <1>6, Reports, KindTypes DEF IInv, FigureTypes, FiguresOK, Sent, Own
<1>9. QED
  BY <1>3, <1>4, <1>5, <1>7, <1>8 DEF IInv, FiguresOK

(* The packets received and lost are reported once each, and the packets   *)
(* sent never twice, as long as a call's figures are its own: for any      *)
(* number of calls and timers over the one set of bases.                   *)
THEOREM FiguresCorrect == Spec => [](ReceivedAddUp /\ SentNeverTwice)
<1>1. Init => IInv
  BY KindTypes DEF Init, IInv, FigureTypes, FiguresOK, Unanswered, Received, Sent, Own, Zero
<1>2. RestOK /\ IInv /\ [Next]_vars => IInv'
  <2> SUFFICES ASSUME RestOK, IInv, [Next]_vars PROVE IInv'
    OBVIOUS
  <2>1. QED
    BY Steps, ApartFigures, WorkerFigures, LocalFigures, RemoteFigures DEF IInv
<1>3. IInv => ReceivedAddUp /\ SentNeverTwice
  BY DEF IInv, FiguresOK, Received, Sent, ReceivedAddUp, SentNeverTwice
<1>4. QED
  BY <1>1, <1>2, <1>3, RestInvariance, PTL DEF Spec

(* Of these: what is reported of the packets sent is never more than was   *)
(* sent, not even between the two reports of a task.                       *)
COROLLARY SentNeverTwiceCorrect == Spec => []SentNeverTwice
BY FiguresCorrect, PTL

-----------------------------------------------------------------------------
(* The alerts.                                                             *)

(* What a value is: good or bad. *)
Values == BOOLEAN

(* The length of a sequence, by a name of its own: the solver does its      *)
(* arithmetic without what it knows of sequences.                          *)
Size(s) == Len(s)

(* An alert: its window is the last two values, and it stands by the rule. *)
AlertOK(w, raised, s, event) ==
  /\ s \in Seq(Values) /\ Size(s) \in 0 .. 3
  /\ w = IF Size(s) < 3 THEN s ELSE Tail(s)
  /\ raised \in BOOLEAN /\ (raised <=> event = "raised")
  /\ event \in {"nothing", "raised", "cleared"}
  /\ IF Size(s) < 3 THEN event = "nothing" ELSE (event = "raised") <=> TwoBad(s)

Alerts(w, raised, s, event) ==
  [window |-> w, warning |-> raised, samples |-> s, told |-> event]

Stands(m) ==
  \E w, raised, s, event : m = Alerts(w, raised, s, event) /\ AlertOK(w, raised, s, event)

(* Of one that two tasks gave values to at once only what was told goes on. *)
Spoiled(m) ==
  \E w, raised, s, event, event2 :
    /\ m = Alerts(w, raised, s, event2) /\ AlertOK(w, raised, s, event)
    /\ event2 \in {"nothing", "raised", "cleared"}

AlertInv ==
  /\ DOMAIN mediaMetric = Calls
  /\ \A o \in Calls : Spoiled(mediaMetric[o]) /\ (o \notin shared => Stands(mediaMetric[o]))

(* Sequences of two or three values. *)
LEMMA Appended ==
  ASSUME NEW s \in Seq(Values), NEW bad \in Values
  PROVE  Append(s, bad) \in Seq(Values) /\ Size(Append(s, bad)) = Size(s) + 1
  BY AppendProperties DEF Size

LEMMA Moved ==
  ASSUME NEW s \in Seq(Values), Size(s) = 3, NEW bad \in Values
  PROVE  Append(Tail(s), bad) \in Seq(Values) /\ Size(Append(Tail(s), bad)) = 3
<1>1. s # <<>>
  <2>1. Size(<<>>) = 0
    BY EmptySeq DEF Size
  <2>2. QED
    BY <2>1
<1>2. Tail(s) \in Seq(Values) /\ Size(Tail(s)) = Size(s) - 1
  BY <1>1, HeadTailProperties DEF Size
<1>3. Append(Tail(s), bad) \in Seq(Values) /\ Size(Append(Tail(s), bad)) = Size(Tail(s)) + 1
  BY <1>2, Appended
<1>4. QED
  BY <1>2, <1>3

(* Feed keeps the alert, its window and the last three values in step. *)
LEMMA FeedAlert ==
  ASSUME NEW w, NEW raised, NEW s, NEW event, NEW bad \in Values,
         AlertOK(w, raised, s, event)
  PROVE  \E w2, raised2, s2, event2 :
           /\ Feed(Alerts(w, raised, s, event), bad) = Alerts(w2, raised2, s2, event2)
           /\ AlertOK(w2, raised2, s2, event2)
<1> DEFINE next == Append(w, bad)
           feed == Feed(Alerts(w, raised, s, event), bad)
<1>1. /\ s \in Seq(Values) /\ Size(s) \in 0 .. 3
      /\ w = IF Size(s) < 3 THEN s ELSE Tail(s)
      /\ raised \in BOOLEAN /\ (raised <=> event = "raised")
      /\ event \in {"nothing", "raised", "cleared"}
      /\ IF Size(s) < 3 THEN event = "nothing" ELSE (event = "raised") <=> TwoBad(s)
  BY DEF AlertOK
<1>2. next = Newest(s, bad)
  BY <1>1 DEF Newest, Size
<1>3. feed = IF Size(next) < 3
             THEN Alerts(next, raised, next, event)
             ELSE Alerts(Tail(next), TwoBad(next), next,
                         IF TwoBad(next) THEN "raised" ELSE IF raised THEN "cleared" ELSE event)
  BY <1>2 DEF Feed, Alerts, Size
<1>4. CASE Size(s) < 2
  <2>1. w = s /\ next \in Seq(Values) /\ Size(next) = Size(s) + 1
    BY <1>1, <1>4, Appended
  <2>2. AlertOK(next, raised, next, event)
    BY <1>1, <1>4, <2>1 DEF AlertOK
  <2>3. Size(next) < 3
    BY <1>1, <1>4, <2>1
  <2>4. QED
    BY <1>3, <2>2, <2>3
<1>5. CASE Size(s) \in {2, 3}
  <2> DEFINE event2 == IF TwoBad(next) THEN "raised" ELSE IF raised THEN "cleared" ELSE event
  <2>1. next \in Seq(Values) /\ Size(next) = 3
    <3>1. CASE Size(s) = 2
      <4>1. w = s
        BY <1>1, <3>1
      <4>2. QED
        BY <1>1, <3>1, <4>1, Appended
    <3>2. CASE Size(s) = 3
      <4>1. w = Tail(s)
        BY <1>1, <3>2
      <4>2. QED
        BY <1>1, <3>2, <4>1, Moved
    <3>3. QED
      BY <1>5, <3>1, <3>2
  <2>2. TwoBad(next) \in BOOLEAN /\ (TwoBad(next) <=> event2 = "raised")
    <3>1. TwoBad(next) \in BOOLEAN
      BY DEF TwoBad
    <3>2. CASE TwoBad(next)
      BY <3>1, <3>2
    <3>3. CASE ~TwoBad(next)
      <4>1. event2 # "raised"
        BY <1>1, <3>3
      <4>2. QED
        BY <3>1, <3>3, <4>1
    <3>4. QED
      BY <3>1, <3>2, <3>3
  <2>3. AlertOK(Tail(next), TwoBad(next), next, event2)
    <3>1. event2 \in {"nothing", "raised", "cleared"}
      BY <1>1
    <3> HIDE DEF next, event2
    <3> QED  BY <2>1, <2>2, <3>1 DEF AlertOK
  <2>4. feed = Alerts(Tail(next), TwoBad(next), next, event2)
    BY <1>3, <2>1
  <2>5. QED
    BY <2>3, <2>4
<1>6. Size(s) < 2 \/ Size(s) \in {2, 3}
  BY <1>1
<1>7. QED
  BY <1>4, <1>5, <1>6

LEMMA FeedStands ==
  ASSUME NEW m, Stands(m), NEW bad \in Values
  PROVE  Stands(Feed(m, bad))
  BY FeedAlert DEF Stands

LEMMA FedStands ==
  ASSUME NEW m, Stands(m), NEW bad \in Values, NEW bad2 \in Values
  PROVE  Stands(Fed(m, bad, bad2))
<1>1. Stands(Feed(m, bad)) /\ Stands(Feed(Feed(m, bad), bad2))
  BY FeedStands
<1>2. QED
  BY <1>1 DEF Fed

LEMMA StandsSpoiled ==
  ASSUME NEW m, Stands(m)
  PROVE  Spoiled(m)
  BY DEF Stands, Spoiled, AlertOK

LEMMA ToldSpoiled ==
  ASSUME NEW m, Spoiled(m), NEW event \in {"nothing", "raised", "cleared"}
  PROVE  Spoiled([m EXCEPT !.told = event])
<1>1. PICK w, raised, s, event1, event2 :
        m = Alerts(w, raised, s, event2) /\ AlertOK(w, raised, s, event1)
  BY DEF Spoiled
<1>2. [m EXCEPT !.told = event] = Alerts(w, raised, s, event)
  BY <1>1 DEF Alerts
<1>3. QED
  BY <1>1, <1>2 DEF Spoiled

LEMMA NewStands == Stands(NewRtpStat)
<1> DEFINE s == <<>>
<1>1. s \in Seq(Values) /\ Size(s) = 0
  BY EmptySeq DEF Size
<1>2. NewRtpStat = Alerts(s, FALSE, s, "nothing")
  BY DEF NewRtpStat, Alerts
<1>3. AlertOK(s, FALSE, s, "nothing")
  <2> HIDE DEF s
  <2> QED  BY <1>1 DEF AlertOK
<1>4. QED
  BY <1>2, <1>3 DEF Stands

(* Every step keeps each alert, its window and the last values in step, but *)
(* where two tasks meet.                                                    *)
LEMMA AlertInvariance == Spec => []AlertInv
<1>1. Init => AlertInv
  BY NewStands, StandsSpoiled DEF Init, AlertInv
<1>2. AlertInv /\ [Next]_vars => AlertInv'
  <2> SUFFICES ASSUME AlertInv, [Next]_vars PROVE AlertInv'
    OBVIOUS
  <2>1. CASE UNCHANGED alerts
    BY <2>1 DEF alerts, AlertInv
  <2>2. ASSUME NEW c \in Calls, Evaluate(c) PROVE AlertInv'
    <3>1. mediaMetric' = mediaMetric /\ shared \subseteq shared'
      BY <2>2 DEF Evaluate
    <3>2. QED
      BY <3>1 DEF AlertInv
  <2>3. ASSUME NEW c \in Calls, printMediaMetric(c) PROVE AlertInv'
    <3>1. ASSUME NEW o \in Calls, o # On(c)  PROVE mediaMetric'[o] = mediaMetric[o]
      BY <2>3, <3>1 DEF printMediaMetric, AlertInv
    <3>2. DOMAIN mediaMetric' = Calls /\ shared' = shared
      BY <2>3 DEF printMediaMetric, AlertInv
    <3>3. ASSUME On(c) \in Calls
          PROVE  /\ Spoiled(mediaMetric'[On(c)])
                 /\ On(c) \notin shared => Stands(mediaMetric'[On(c)])
      <4>1. ASSUME NEW bad \in Values, NEW bad2 \in Values, On(c) \notin shared,
                   mediaMetric'[On(c)] = Fed(mediaMetric[On(c)], bad, bad2)
            PROVE  Stands(mediaMetric'[On(c)])
        BY <3>3, <4>1, FedStands DEF AlertInv
      <4>2. ASSUME NEW event \in {"nothing", "raised", "cleared"}, On(c) \in shared,
                   mediaMetric'[On(c)] = [mediaMetric[On(c)] EXCEPT !.told = event]
            PROVE  Spoiled(mediaMetric'[On(c)])
        <5> DEFINE m == mediaMetric[On(c)]
        <5>1. Spoiled(m)
          BY <3>3 DEF AlertInv
        <5> HIDE DEF m
        <5>2. Spoiled([m EXCEPT !.told = event])
          BY <5>1, ToldSpoiled
        <5>3. QED
          BY <4>2, <5>2 DEF m
      <4>3. \/ /\ On(c) \notin shared
               /\ \E bad, bad2 \in Values :
                    mediaMetric'[On(c)] = Fed(mediaMetric[On(c)], bad, bad2)
            \/ /\ On(c) \in shared
               /\ \E event \in {"nothing", "raised", "cleared"} :
                    mediaMetric'[On(c)] = [mediaMetric[On(c)] EXCEPT !.told = event]
        BY <2>3, <3>3 DEF printMediaMetric, AlertInv, Values
      <4>4. QED
        BY <4>1, <4>2, <4>3, StandsSpoiled
    <3>4. QED
      BY <3>1, <3>2, <3>3 DEF AlertInv
  <2>4. ASSUME NEW c \in Calls,
               \/ CallState(c) \/ Answered(c) \/ Ended(c) \/ (\E k \in Kinds : Packet(c, k))
               \/ getRTPStats(c) \/ Tick(c) \/ fetchAudioLevels(c) \/ AddLevel(c) \/ Sample(c)
               \/ getLocalStats(c) \/ getRemoteStats(c)
        PROVE  UNCHANGED alerts
    BY <2>4 DEF CallState, Answered, Ended, Packet, getRTPStats, Tick, fetchAudioLevels, AddLevel,
                Sample, getLocalStats, getRemoteStats, alerts
  <2>5. CASE UNCHANGED vars
    BY <2>1, <2>5 DEF vars
  <2>6. QED
    BY <2>1, <2>2, <2>3, <2>4, <2>5 DEF Next, Worker, TimerTask
<1>3. QED
  BY <1>1, <1>2, PTL DEF Spec

(* What each RtpStats, in use or replaced, told the listener last is that  *)
(* there is an alert exactly when two of the last three values it got were *)
(* bad: for any number of calls and timers, but of an RtpStats that two    *)
(* tasks gave values to at once.                                           *)
THEOREM AlertCorrect == Spec => []AlertStands
<1>1. AlertInv => AlertStands
  <2> SUFFICES ASSUME AlertInv, NEW o \in Calls \ shared
               PROVE  LET m == mediaMetric[o]
                      IN IF Len(m.samples) < 3 THEN m.told = "nothing"
                         ELSE (m.told = "raised") <=> TwoBad(m.samples)
    BY DEF AlertStands
  <2>1. PICK w, raised, s, event :
          mediaMetric[o] = Alerts(w, raised, s, event) /\ AlertOK(w, raised, s, event)
    BY DEF AlertInv, Stands
  <2>2. mediaMetric[o].samples = s /\ mediaMetric[o].told = event
    BY <2>1 DEF Alerts
  <2>3. QED
    BY <2>1, <2>2 DEF AlertOK, Size
<1>2. QED
  BY <1>1, AlertInvariance, PTL

LEMMA MetricTypes ==
  ASSUME NEW m, Spoiled(m)
  PROVE  /\ m.window \in Seq(BOOLEAN) /\ Len(m.window) <= 2 /\ m.warning \in BOOLEAN
         /\ m.samples \in Seq(BOOLEAN) /\ Len(m.samples) <= 3
         /\ m.told \in {"nothing", "raised", "cleared"}
<1>1. PICK w, raised, s, event, event2 :
        /\ m = Alerts(w, raised, s, event2) /\ AlertOK(w, raised, s, event)
        /\ event2 \in {"nothing", "raised", "cleared"}
  BY DEF Spoiled
<1>2. m.window = w /\ m.warning = raised /\ m.samples = s /\ m.told = event2
  BY <1>1 DEF Alerts
<1>3. /\ s \in Seq(BOOLEAN) /\ Len(s) \in 0 .. 3 /\ raised \in BOOLEAN
      /\ w = IF Len(s) < 3 THEN s ELSE Tail(s)
  BY <1>1 DEF AlertOK, Size, Values
<1>4. CASE Len(s) < 3
  BY <1>1, <1>2, <1>3, <1>4
<1>5. CASE ~(Len(s) < 3)
  <2>1. s # <<>>
    BY <1>3, <1>5, EmptySeq
  <2>2. Tail(s) \in Seq(BOOLEAN) /\ Len(Tail(s)) = Len(s) - 1
    BY <1>3, <2>1, HeadTailProperties
  <2>3. w = Tail(s) /\ Len(Tail(s)) <= 2 /\ Len(s) <= 3
    BY <1>3, <1>5, <2>2
  <2>4. QED
    BY <1>1, <1>2, <1>3, <2>2, <2>3
<1>6. QED
  BY <1>4, <1>5

(* Every variable keeps to its values: the count to its period and the one *)
(* that passed it, the alerts' windows to two values, and the bases to     *)
(* figures or to garbage.                                                  *)
THEOREM TypeCorrect == Spec => []TypeOK
<1>1. RestOK /\ AlertInv => TypeOK
  BY MetricTypes DEF RestOK, AlertInv, TypeOK
<1>2. QED
  BY <1>1, RestInvariance, AlertInvariance, PTL

-----------------------------------------------------------------------------
(* The sum of the audio levels.                                            *)

(* The RtpStats in use is the current call's while that call lasts. *)
InUse ==
  \A c \in Calls : currrent_call_id = c /\ state[c] = "confirmed" => rtpStat = c

(* Timers, their tasks and all RtpStats are those of answered calls. *)
AnsweredOnly ==
  /\ rtpStat \in Calls => state[rtpStat] \in {"confirmed", "over"}
  /\ \A c \in Calls :
       /\ c \in running \/ At(c) # "idle" => state[c] \in {"confirmed", "over"}
       /\ At(c) # "idle" => state[On(c)] \in {"confirmed", "over"}
       /\ state[c] \in {"none", "calling"} => localAudioLevels[c] = "zero"

(* A task that comes to report on another call than its own will mix the   *)
(* two: no step before its reports makes its call the current one again.   *)
Doomed(c) ==
  At(c) \in {"sample", "local", "remote"} /\ ~(currrent_call_id = c /\ state[c] = "confirmed")

(* Else each task that samples does so on its own call's RtpStats, ...     *)
OwnTasks ==
  /\ \A c \in Calls : At(c) \in {"sample", "local", "remote", "evaluate", "print"} => On(c) = c
  /\ shared = {}

(* ... and while it does its sum is one of decibels; but for a late level. *)
OwnLevel(o) ==
  o \notin late =>
    \/ localAudioLevels[o] \in {"zero", "positive"}
    \/ /\ At(o) \in {"local", "remote", "evaluate", "print"}
       /\ localAudioLevels[o] \in {"silence", "negative"}

Sampled == OwnTasks /\ \A o \in Calls : OwnLevel(o)

LevelInv ==
  /\ InUse /\ AnsweredOnly
  /\ FollowsLevel => mixed # {} \/ (\E c \in Calls : Doomed(c)) \/ Sampled

LEMMA WorkerLevel ==
  ASSUME RestOK, LevelInv, NEW d \in Calls,
         CallState(d) \/ Answered(d) \/ Ended(d) \/ \E k \in Kinds : Packet(d, k)
  PROVE  LevelInv'
<1> USE RtpStatsAssumption
<1>1. UNCHANGED <<alerts, levels, task, watched, figures>>
  BY DEF CallState, Answered, Ended, Packet
<1>2. InUse'
  BY DEF CallState, Answered, Ended, Packet, InUse, RestOK, LevelInv, pjsua, native
<1>3. AnsweredOnly'
  <2>1. UNCHANGED <<task, localAudioLevels>>
    BY <1>1 DEF levels
  <2>2. RestOK /\ AnsweredOnly
    BY DEF LevelInv
  <2>3. CASE CallState(d)
    BY <2>1, <2>2, <2>3 DEF CallState, AnsweredOnly, RestOK, Working, timers, At, On
  <2>4. CASE Answered(d)
    BY <2>1, <2>2, <2>4 DEF Answered, AnsweredOnly, RestOK, Working, At, On
  <2>5. CASE Ended(d)
    BY <2>1, <2>2, <2>5 DEF Ended, AnsweredOnly, RestOK, Working, At, On
  <2>6. CASE \E k \in Kinds : Packet(d, k)
    BY <2>1, <2>2, <2>6 DEF Packet, AnsweredOnly, timers, At, On
  <2>7. QED
    BY <2>3, <2>4, <2>5, <2>6
<1>4. ASSUME NEW c \in Calls, Doomed(c)  PROVE Doomed(c)'
  <2>1. At(c) \in {"sample", "local", "remote"} /\ state[c] \in {"confirmed", "over"}
    BY <1>4 DEF Doomed, LevelInv, AnsweredOnly
  <2>2. At(c)' = At(c)
    BY <1>1 DEF At
  <2>3. QED
    BY <1>4, <2>1, <2>2 DEF CallState, Answered, Ended, Packet, Doomed, RestOK, native
<1>5. Sampled => Sampled'
  BY <1>1 DEF Sampled, OwnTasks, OwnLevel, At, On, alerts, levels
<1>6. QED
  BY <1>1, <1>2, <1>3, <1>4, <1>5 DEF LevelInv, FollowsLevel, figures

(* A report of a doomed task mixes. *)
LEMMA DoomedReport ==
  ASSUME NEW c \in Calls, Doomed(c), NEW kinds \in SUBSET Kinds, Report(c, kinds)
  PROVE  mixed' # {}
<1>1. CASE streamStats = Garbage \/ pre = Garbage \/ currrent_call_id # c
  BY <1>1, RtpStatsAssumption DEF Report
<1>2. CASE currrent_call_id = c /\ state[c] # "confirmed"
  <2>1. streamStats = Garbage
    BY <1>2 DEF streamStats
  <2>2. QED
    BY <1>1, <2>1
<1>3. QED
  BY <1>1, <1>2 DEF Doomed

TaskStep(d) ==
  \/ getRTPStats(d) \/ Tick(d) \/ fetchAudioLevels(d) \/ AddLevel(d) \/ Sample(d)
  \/ getLocalStats(d) \/ getRemoteStats(d) \/ Evaluate(d) \/ printMediaMetric(d)

(* What every step of a task leaves alone, and where its own goes. *)
LEMMA TaskSteps ==
  ASSUME RestOK, NEW d \in Calls, TaskStep(d)
  PROVE  /\ UNCHANGED <<currrent_call_id, state, rtpStat, running, watched>>
         /\ \A c \in Calls \ {d} : At(c)' = At(c) /\ On(c)' = On(c)
         /\ At(d)' # "idle" =>
              \/ getRTPStats(d) /\ On(d)' = rtpStat
              \/ At(d) # "idle" /\ On(d)' = On(d)
         /\ \A o \in Calls : o # On(d) => localAudioLevels'[o] = localAudioLevels[o]
         /\ late \subseteq late' /\ mixed \subseteq mixed'
<1>1. UNCHANGED <<currrent_call_id, state, rtpStat, running, watched>>
  BY DEF TaskStep, getRTPStats, Tick, fetchAudioLevels, AddLevel, Sample, getLocalStats,
         getRemoteStats, Evaluate, printMediaMetric, native, timers, pjsua
<1>2. \A c \in Calls \ {d} : At(c)' = At(c) /\ On(c)' = On(c)
  BY DEF TaskStep, getRTPStats, Tick, fetchAudioLevels, AddLevel, Sample, getLocalStats,
         getRemoteStats, Evaluate, printMediaMetric, Rest, RestOK, At, On
<1>3. \A o \in Calls : o # On(d) => localAudioLevels'[o] = localAudioLevels[o]
  BY DEF TaskStep, getRTPStats, Tick, fetchAudioLevels, AddLevel, Sample, getLocalStats,
         getRemoteStats, Evaluate, printMediaMetric, RestOK, levels
<1>4. late \subseteq late' /\ mixed \subseteq mixed'
  BY DEF TaskStep, getRTPStats, Tick, fetchAudioLevels, AddLevel, Sample, getLocalStats,
         getRemoteStats, Evaluate, printMediaMetric, Report, levels, figures
<1>5. At(d)' # "idle" =>
        \/ getRTPStats(d) /\ On(d)' = rtpStat
        \/ At(d) # "idle" /\ On(d)' = On(d)
  <2>1. task \in [Calls -> Tasks] /\ NoTask.at = "idle"
    BY DEF RestOK, NoTask
  <2>2. CASE getRTPStats(d)
    BY <2>1, <2>2 DEF getRTPStats, On, NoTask
  <2>3. CASE Tick(d)
    BY <2>1, <2>3 DEF Tick, At, On, Tasks
  <2>4. CASE fetchAudioLevels(d)
    BY <2>1, <2>4 DEF fetchAudioLevels, At, On, Tasks
  <2>5. CASE AddLevel(d)
    BY <2>1, <2>5 DEF AddLevel, At
  <2>6. CASE Sample(d)
    BY <2>1, <2>6 DEF Sample, At, On, Tasks
  <2>7. CASE getLocalStats(d)
    BY <2>1, <2>7 DEF getLocalStats, At, On, Tasks
  <2>8. CASE getRemoteStats(d)
    BY <2>1, <2>8 DEF getRemoteStats, At, On, Tasks
  <2>9. CASE Evaluate(d)
    BY <2>1, <2>9 DEF Evaluate, At, On, Tasks
  <2>10. CASE printMediaMetric(d)
    BY <2>1, <2>10 DEF printMediaMetric, Rest, At, On, Tasks
  <2>11. QED
    BY <2>2, <2>3, <2>4, <2>5, <2>6, <2>7, <2>8, <2>9, <2>10 DEF TaskStep
<1>6. QED
  BY <1>1, <1>2, <1>3, <1>4, <1>5

(* The places a task that samples goes through. *)
LEMMA SamplePlaces ==
  ASSUME RestOK, FollowsLevel, NEW d \in Calls
  PROVE  /\ getRTPStats(d) => At(d)' \in {"tick", "sample"}
         /\ Tick(d) => At(d)' = "fetch"
         /\ fetchAudioLevels(d) => At(d)' = "add"
         /\ AddLevel(d) => At(d)' = "idle"
         /\ Sample(d) => At(d)' = "local"
         /\ getLocalStats(d) => At(d)' = "remote" \/ mixed' # {}
         /\ getRemoteStats(d) => At(d)' = "evaluate"
         /\ Evaluate(d) =>
              (At(d)' = "print" \/ (At(d)' = "idle" /\ localAudioLevels[On(d)] = "NaN"))
         /\ printMediaMetric(d) => At(d)' \in {"fetch", "idle"}
<1>1. task \in [Calls -> Tasks] /\ NoTask.at = "idle"
  BY DEF RestOK, NoTask
<1>2. getRTPStats(d) => At(d)' \in {"tick", "sample"}
  BY <1>1 DEF getRTPStats, At, NoTask
<1>3. Tick(d) => At(d)' = "fetch"
  BY <1>1 DEF Tick, At, Tasks
<1>4. fetchAudioLevels(d) => At(d)' = "add"
  BY <1>1 DEF fetchAudioLevels, At, Tasks
<1>5. AddLevel(d) => At(d)' = "idle"
  BY <1>1 DEF AddLevel, At
<1>6. Sample(d) => At(d)' = "local"
  BY <1>1 DEF Sample, At, Tasks
<1>7. getLocalStats(d) => At(d)' = "remote" \/ mixed' # {}
  BY <1>1 DEF getLocalStats, At, Tasks
<1>8. getRemoteStats(d) => At(d)' = "evaluate"
  BY <1>1 DEF getRemoteStats, At, Tasks, FollowsLevel
<1>9. Evaluate(d) =>
              (At(d)' = "print" \/ (At(d)' = "idle" /\ localAudioLevels[On(d)] = "NaN"))
  BY <1>1 DEF Evaluate, At, Tasks, FollowsLevel
<1>10. printMediaMetric(d) => At(d)' \in {"fetch", "idle"}
  BY <1>1 DEF printMediaMetric, Rest, At, Tasks
<1>11. QED
  BY <1>2, <1>3, <1>4, <1>5, <1>6, <1>7, <1>8, <1>9, <1>10

(* A task that starts to sample does so on its own call's RtpStats, or is doomed. *)
LEMMA OwnTasksKept ==
  ASSUME RestOK, InUse, FollowsLevel, Sampled, NEW d \in Calls, TaskStep(d), mixed' = {}
  PROVE  Doomed(d)' \/ OwnTasks'
<1> DEFINE sampling == {"sample", "local", "remote", "evaluate", "print"}
<1>1. \A c \in Calls : At(c) \in sampling => On(c) = c
  BY DEF Sampled, OwnTasks
<1>2. shared' = {}
  <2>1. CASE Evaluate(d)
    <3>1. On(d) = d
      BY <1>1, <2>1 DEF Evaluate
    <3>2. \A c \in Calls : At(c) = "print" => On(c) # d
      BY <1>1, <2>1 DEF Evaluate
    <3>3. QED
      BY <2>1, <3>1, <3>2 DEF Evaluate, Sampled, OwnTasks
  <2>2. CASE ~Evaluate(d)
    BY <2>2 DEF TaskStep, getRTPStats, Tick, fetchAudioLevels, AddLevel, Sample, getLocalStats,
                getRemoteStats, printMediaMetric, alerts, Sampled, OwnTasks
  <2>3. QED
    BY <2>1, <2>2
<1>3. CASE getRTPStats(d)
  <2>1. CASE currrent_call_id = d /\ state[d] = "confirmed"
    <3>1. rtpStat = d /\ d # None
      BY <2>1, RtpStatsAssumption DEF InUse
    <3>2. On(d)' = d
      <4>1. At(d) = "idle" /\ At(d)' # "idle"
        BY <1>3, SamplePlaces DEF getRTPStats
      <4>2. QED
        BY <3>1, <4>1, TaskSteps
    <3>3. QED
      BY <1>1, <1>2, <3>2, TaskSteps DEF OwnTasks
  <2>2. CASE ~(currrent_call_id = d /\ state[d] = "confirmed")
    <3>1. At(d)' = "sample" => Doomed(d)'
      BY <2>2, TaskSteps DEF Doomed
    <3>2. At(d)' # "sample" => At(d)' \notin sampling
      BY <1>3, SamplePlaces
    <3>3. QED
      BY <1>1, <1>2, <3>1, <3>2, TaskSteps DEF OwnTasks
  <2>3. QED
    BY <2>1, <2>2
<1>4. CASE ~getRTPStats(d)
  <2>1. At(d)' \in sampling => At(d) \in sampling /\ On(d)' = On(d)
    <3>1. CASE Tick(d) \/ fetchAudioLevels(d) \/ AddLevel(d) \/ printMediaMetric(d)
      BY <3>1, SamplePlaces
    <3>2. CASE Sample(d) \/ getLocalStats(d) \/ getRemoteStats(d) \/ Evaluate(d)
      BY <1>4, <3>2, TaskSteps DEF Sample, getLocalStats, getRemoteStats, Evaluate
    <3>3. QED
      BY <1>4, <3>1, <3>2 DEF TaskStep
  <2>2. QED
    BY <1>1, <1>2, <2>1, TaskSteps DEF OwnTasks
<1>5. QED
  BY <1>3, <1>4

LEMMA OwnLevelKept ==
  ASSUME RestOK, FollowsLevel, Sampled, NEW d \in Calls, TaskStep(d), mixed' = {},
         NEW o \in Calls
  PROVE  OwnLevel(o)'
<1> SUFFICES ASSUME o \notin late'
             PROVE  OwnLevel(o)'
  BY DEF OwnLevel
<1> DEFINE level == localAudioLevels[o]
           level2 == localAudioLevels'[o]
           Positive(x) == x \in {"zero", "positive"}
           Sampling == At(o) \in {"local", "remote", "evaluate", "print"}
           Sampling2 == At(o)' \in {"local", "remote", "evaluate", "print"}
<1>1. Positive(level) \/ (Sampling /\ level \in {"silence", "negative"})
  <2>1. o \notin late
    BY TaskSteps
  <2>2. QED
    BY <2>1 DEF Sampled, OwnLevel
<1>2. SUFFICES Positive(level2) \/ (Sampling2 /\ level2 \in {"silence", "negative"})
  BY DEF OwnLevel
<1>3. o # d => (Sampling2 <=> Sampling)
  BY TaskSteps
<1>4. CASE level2 = level /\ (o # d \/ ~Sampling)
  BY <1>1, <1>3, <1>4
<1>5. CASE getRTPStats(d) \/ Tick(d) \/ fetchAudioLevels(d)
  <2>1. level2 = level /\ (o = d => ~Sampling)
    BY <1>5 DEF getRTPStats, Tick, fetchAudioLevels, levels
  <2>2. QED
    BY <1>4, <2>1
<1>6. CASE AddLevel(d)
  <2>1. o = d => ~Sampling
    BY <1>6 DEF AddLevel
  <2>2. CASE o # On(d)
    BY <1>4, <2>1, <2>2, TaskSteps
  <2>3. CASE o = On(d)
    <3>1. task[d].heard = level
      BY <1>6, <2>3 DEF AddLevel
    <3>2. level2 \in Sum(level)
      BY <1>6, <2>3, <3>1 DEF AddLevel, RestOK
    <3>3. CASE Positive(level)
      BY <3>2, <3>3 DEF Sum
    <3>4. CASE Sampling /\ level \in {"silence", "negative"}
      <4>1. o # d
        BY <2>1, <3>4
      <4>2. level2 \in {"zero", "positive", "negative"}
        BY <3>2, <3>4 DEF Sum
      <4>3. QED
        BY <1>3, <3>4, <4>1, <4>2
    <3>5. QED
      BY <1>1, <3>3, <3>4
  <2>4. QED
    BY <2>2, <2>3
<1>7. ASSUME At(d) \in {"sample", "local", "remote", "evaluate", "print"}, o # d
      PROVE  level2 = level
  BY <1>7, TaskSteps DEF Sampled, OwnTasks
<1>8. CASE Sample(d)
  <2>1. CASE o # d
    BY <1>4, <1>7, <1>8, <2>1 DEF Sample
  <2>2. CASE o = d
    <3>1. On(d) = d /\ ~Sampling
      BY <1>8, <2>2 DEF Sample, Sampled, OwnTasks
    <3>2. level2 = Decibels(level)
      BY <1>8, <2>2, <3>1 DEF Sample, RestOK
    <3>3. level2 \in {"silence", "negative"}
      BY <1>1, <3>1, <3>2 DEF Decibels
    <3>4. QED
      BY <1>8, <2>2, <3>3, SamplePlaces
  <2>3. QED
    BY <2>1, <2>2
<1>9. CASE getLocalStats(d) \/ getRemoteStats(d)
  <2>1. level2 = level
    BY <1>9 DEF getLocalStats, getRemoteStats, levels
  <2>2. At(d)' \in {"remote", "evaluate"}
    BY <1>9, SamplePlaces
  <2>3. QED
    BY <1>1, <1>3, <2>1, <2>2
<1>10. CASE Evaluate(d)
  <2>1. level2 = level
    BY <1>10 DEF Evaluate, levels
  <2>2. CASE o # d
    BY <1>4, <2>1, <2>2
  <2>3. CASE o = d
    <3>1. On(d) = d
      BY <1>10 DEF Evaluate, Sampled, OwnTasks
    <3>2. At(d)' = "print"
      BY <1>1, <1>10, <2>3, <3>1, SamplePlaces
    <3>3. QED
      BY <1>1, <2>1, <2>3, <3>2
  <2>4. QED
    BY <2>2, <2>3
<1>11. CASE printMediaMetric(d)
  <2>1. CASE o # d
    BY <1>4, <1>7, <1>11, <2>1 DEF printMediaMetric
  <2>2. CASE o = d
    <3>1. On(d) = d /\ shared = {}
      BY <1>11 DEF printMediaMetric, Sampled, OwnTasks
    <3>2. level2 = "zero"
      BY <1>11, <2>2, <3>1 DEF printMediaMetric, RestOK
    <3>3. QED
      BY <3>2
  <2>3. QED
    BY <2>1, <2>2
<1>12. QED
  BY <1>5, <1>6, <1>8, <1>9, <1>10, <1>11 DEF TaskStep

LEMMA TaskLevel ==
  ASSUME RestOK, LevelInv, NEW d \in Calls, TaskStep(d)
  PROVE  LevelInv'
<1>1. InUse'
  BY TaskSteps DEF LevelInv, InUse
<1>2. AnsweredOnly'
  <2>1. AnsweredOnly
    BY DEF LevelInv
  <2>2. At(d)' # "idle" => /\ state[d] \in {"confirmed", "over"}
                          /\ state[On(d)'] \in {"confirmed", "over"}
    <3>1. CASE getRTPStats(d)
      <4>1. d \in running /\ rtpStat \in Calls
        BY <3>1 DEF getRTPStats, RestOK, Working
      <4>2. At(d) = "idle"
        BY <3>1 DEF getRTPStats
      <4>3. QED
        BY <2>1, <4>1, <4>2, TaskSteps DEF AnsweredOnly
    <3>2. CASE ~getRTPStats(d)
      BY <2>1, <3>2, TaskSteps DEF AnsweredOnly
    <3>3. QED
      BY <3>1, <3>2
  <2>3. ASSUME NEW o \in Calls, state[o] \in {"none", "calling"}
        PROVE  localAudioLevels'[o] = localAudioLevels[o]
    <3>1. CASE At(d) = "idle"
      BY <3>1 DEF TaskStep, getRTPStats, Tick, fetchAudioLevels, AddLevel, Sample, getLocalStats,
                  getRemoteStats, Evaluate, printMediaMetric, levels
    <3>2. CASE At(d) # "idle"
      <4>1. o # On(d)
        BY <2>1, <2>3, <3>2 DEF AnsweredOnly
      <4>2. QED
        BY <4>1, TaskSteps
    <3>3. QED
      BY <3>1, <3>2
  <2>4. QED
    BY <2>1, <2>2, <2>3, TaskSteps DEF AnsweredOnly
<1>3. ASSUME NEW c \in Calls, Doomed(c), FollowsLevel  PROVE mixed' # {} \/ Doomed(c)'
  <2>1. CASE c # d
    BY <1>3, <2>1, TaskSteps DEF Doomed
  <2>2. CASE c = d
    <3>1. CASE getLocalStats(d) \/ getRemoteStats(d)
      BY <1>3, <2>2, <3>1, DoomedReport, KindTypes DEF getLocalStats, getRemoteStats
    <3>2. CASE Sample(d)
      BY <1>3, <2>2, <3>2, TaskSteps, SamplePlaces DEF Doomed
    <3>3. CASE ~(getLocalStats(d) \/ getRemoteStats(d) \/ Sample(d))
      BY <1>3, <2>2, <3>3
      DEF TaskStep, getRTPStats, Tick, fetchAudioLevels, AddLevel, Evaluate, printMediaMetric,
          Doomed
    <3>4. QED
      BY <3>1, <3>2, <3>3
  <2>3. QED
    BY <2>1, <2>2
<1>4. ASSUME Sampled, FollowsLevel  PROVE mixed' # {} \/ Doomed(d)' \/ Sampled'
  <2>1. CASE mixed' = {}
    BY <1>4, <2>1, OwnTasksKept, OwnLevelKept DEF Sampled, LevelInv
  <2>2. QED
    BY <2>1
<1>5. FollowsLevel' = FollowsLevel /\ mixed \subseteq mixed'
  BY TaskSteps DEF FollowsLevel
<1>6. QED
  BY <1>1, <1>2, <1>3, <1>4, <1>5 DEF LevelInv

(* With nothing mixed and no task at work the sum is one of levels, for    *)
(* any number of calls and timers that add to it, each having added to     *)
(* what it had read.                                                       *)
THEOREM LevelCorrect == Spec => []LevelIsNumber
<1>1. Init => LevelInv
  BY RtpStatsAssumption
  DEF Init, LevelInv, InUse, AnsweredOnly, Sampled, OwnTasks, OwnLevel, At, NoTask
<1>2. RestOK /\ LevelInv /\ [Next]_vars => LevelInv'
  <2>1. ASSUME LevelInv, UNCHANGED vars  PROVE LevelInv'
    BY <2>1 DEF vars, native, alerts, levels, timers, pjsua, figures, LevelInv, InUse, AnsweredOnly,
                Doomed, Sampled, OwnTasks, OwnLevel, FollowsLevel, At, On
  <2>2. QED
    BY <2>1, WorkerLevel, TaskLevel DEF Next, Worker, TimerTask, TaskStep
<1>3. RestOK /\ LevelInv => LevelIsNumber
  <2> SUFFICES ASSUME RestOK, LevelInv, FollowsLevel, rtpStat # None, rtpStat \notin late,
                      mixed = {}, \A c \in Calls : At(c) = "idle"
               PROVE  localAudioLevels[rtpStat] \in {"zero", "positive"}
    BY DEF LevelIsNumber
  <2>1. rtpStat \in Calls
    BY DEF RestOK
  <2>2. \A c \in Calls : ~Doomed(c)
    BY DEF Doomed
  <2>3. OwnLevel(rtpStat)
    BY <2>1, <2>2 DEF LevelInv, Sampled
  <2>4. QED
    BY <2>1, <2>3 DEF OwnLevel
<1>4. QED
  BY <1>1, <1>2, <1>3, RestInvariance, PTL DEF Spec

===============================================================================
