---------------------------- MODULE InsightsProofs ----------------------------
(***************************************************************************)
(* Proofs about Insights, for any calls, clients and networks: its types,  *)
(* that no event is lost or overtaken at the buffer but by another thread  *)
(* there while it was added, that a hangup stops its call's timer, and     *)
(* that an event carries its own call's identifier.                        *)
(***************************************************************************)
EXTENDS Insights, TLAPS

ThreadType == [at : Places, next : Nat, limit : Nat, stale : BOOLEAN,
               event : Event \cup {None}, raced : BOOLEAN]

(* A thread's place in the array, which only grows, and what it adds. *)
Within(t) ==
  /\ thread[t].next <= thread[t].limit /\ thread[t].limit <= Len(statBuffer)
  /\ thread[t].at \in Adding => thread[t].event \in Event /\ ~thread[t].event.sent
  /\ thread[t].at = "store" => thread[t].next < Len(statBuffer)

(* What any step leaves of the buffer and the threads well typed. *)
BufferOK ==
  /\ statBuffer \in Seq(Event \cup {None}) /\ size \in 0 .. Len(statBuffer)
  /\ thread \in [Threads -> ThreadType]
  /\ \A t \in Threads : Within(t)

(* An event that was added alone counts ... *)
Counted == \A i \in DOMAIN statBuffer : Alone(i) => i <= size

(* ... and whatever threads are at the buffer, one that adds will neither  *)
(* take its slot nor write a size below it, one that walks has it before   *)
(* it or has seen it sent, and none is about to clear it away. *)
Spares(t) ==
  \A i \in DOMAIN statBuffer : Alone(i) =>
    /\ thread[t].at \in Adding => i <= thread[t].next
    /\ thread[t].at = "flush" =>
         i <= thread[t].limit /\ (i <= thread[t].next => statBuffer[i].sent)
    /\ thread[t].at # "clear"

(* A thread that adds, and is not raced, is the only one at the buffer. *)
Sole(t) ==
  thread[t].at \in Adding /\ ~thread[t].raced =>
    /\ AtBuffer = {t}
    /\ size = IF thread[t].at = "size" THEN thread[t].next ELSE thread[t].next + 1

(* The inductive invariant. *)
IInv == BufferOK /\ Counted /\ (\A t \in Threads : Spares(t) /\ Sole(t)) /\ InOrder

-----------------------------------------------------------------------------
LEMMA IdleType ==
  /\ Idle \in ThreadType
  /\ Idle.at = "idle" /\ Idle.next = 0 /\ Idle.limit = 0 /\ Idle.stale = FALSE
  BY DEF Idle, ThreadType, Places

(* What a step of another thread leaves of a thread. *)
Kept(u) ==
  /\ thread'[u] \in ThreadType
  /\ thread'[u].at = thread[u].at /\ thread'[u].next = thread[u].next
  /\ thread'[u].limit = thread[u].limit /\ thread'[u].event = thread[u].event
  /\ thread[u].raced => thread'[u].raced

LEMMA Comers ==
  ASSUME BufferOK, NEW t \in Threads, NEW th, NEW counts \in BOOLEAN, Comes(t, th, counts)
  PROVE  /\ thread' = [u \in Threads |-> thread'[u]] /\ thread'[t] = th
         /\ \A u \in Threads : u # t => Kept(u) /\ (thread[u].at \in Adding => thread'[u].raced)
<1>1. thread'[t] = th /\ thread' = [u \in Threads |-> thread'[u]]
  BY DEF Comes
<1>2. ASSUME NEW u \in Threads, u # t
      PROVE  Kept(u) /\ (thread[u].at \in Adding => thread'[u].raced)
  <2> DEFINE s == thread[u].stale \/ (counts /\ thread[u].at = "flush")
             r == thread[u].raced \/ thread[u].at \in Adding
  <2>1. thread'[u] = [thread[u] EXCEPT !.stale = s, !.raced = r]
    BY <1>2 DEF Comes
  <2>2. thread[u] \in ThreadType
    BY DEF BufferOK
  <2>3. s \in BOOLEAN /\ r \in BOOLEAN
    BY <2>2 DEF ThreadType
  <2>4. (thread[u].raced => r) /\ (thread[u].at \in Adding => r)
    OBVIOUS
  <2> HIDE DEF s, r
  <2> QED  BY <2>1, <2>2, <2>3, <2>4 DEF Kept, ThreadType
<1> QED  BY <1>1, <1>2

LEMMA Movers ==
  ASSUME BufferOK, NEW t \in Threads, NEW th, thread' = [thread EXCEPT ![t] = th]
  PROVE  /\ thread' = [u \in Threads |-> thread'[u]] /\ thread'[t] = th
         /\ \A u \in Threads : u # t => thread'[u] = thread[u] /\ Kept(u)
BY DEF BufferOK, Kept

(* A thread moves and the buffer stays as it is. *)
LEMMA Moves ==
  ASSUME IInv, NEW t \in Threads, UNCHANGED buffer,
         thread' = [u \in Threads |-> thread'[u]],
         \A u \in Threads : u # t => Kept(u),
         thread'[t].at \in Adding \cup {"flush", "clear"} =>
           \A u \in Threads : u # t => (thread[u].at \in Adding => thread'[u].raced),
         thread'[t] \in ThreadType, Within(t)', Spares(t)', Sole(t)'
  PROVE  IInv'
<1> USE DEF buffer
<1>1. BufferOK'
  <2>1. ASSUME NEW u \in Threads  PROVE thread'[u] \in ThreadType /\ Within(u)'
    BY <2>1 DEF IInv, BufferOK, Within, Kept
  <2>2. thread' \in [Threads -> ThreadType]
    BY <2>1
  <2> QED  BY <2>1, <2>2 DEF IInv, BufferOK
<1>2. Counted' /\ InOrder'
  BY DEF IInv, Counted, InOrder, Alone
<1>3. ASSUME NEW u \in Threads, u # t  PROVE Spares(u)'
  BY <1>3 DEF IInv, Spares, Alone, Kept
<1>4. ASSUME NEW u \in Threads, u # t  PROVE Sole(u)'
  <2> SUFFICES ASSUME thread'[u].at \in Adding, ~thread'[u].raced
               PROVE  /\ AtBuffer' = {u}
                      /\ size = IF thread'[u].at = "size" THEN thread'[u].next
                                ELSE thread'[u].next + 1
    BY DEF Sole
  <2>1. thread[u].at \in Adding /\ ~thread[u].raced
    BY <1>4 DEF Kept
  <2>2. /\ AtBuffer = {u}
        /\ size = IF thread[u].at = "size" THEN thread[u].next ELSE thread[u].next + 1
    BY <2>1 DEF IInv, Sole
  <2>3. thread'[t].at \notin Adding \cup {"flush", "clear"}
    BY <1>4, <2>1
  <2>4. AtBuffer' = {u}
    BY <1>4, <2>2, <2>3 DEF AtBuffer, Kept
  <2> QED  BY <1>4, <2>2, <2>4 DEF Kept
<1> QED  BY <1>1, <1>2, <1>3, <1>4 DEF IInv

(* A step that only moves a thread that is not at the buffer to somewhere  *)
(* that is not at the buffer. *)
LEMMA Elsewhere ==
  ASSUME IInv, NEW t \in Threads, UNCHANGED buffer,
         NEW a \in {"idle", "fetch", "send", "onOpen"},
         thread' = [thread EXCEPT ![t].at = a]
  PROVE  IInv'
<1> DEFINE th == [thread[t] EXCEPT !.at = a]
<1>1. thread[t] \in ThreadType /\ Within(t)
  BY DEF IInv, BufferOK
<1>2. th \in ThreadType /\ th.at = a /\ th.next = thread[t].next /\ th.limit = thread[t].limit
  BY <1>1 DEF ThreadType, Places
<1>3. thread' = [thread EXCEPT ![t] = th]
  OBVIOUS
<1> HIDE DEF th
<1>4. /\ thread' = [u \in Threads |-> thread'[u]] /\ thread'[t] = th
      /\ \A u \in Threads : u # t => Kept(u)
  BY <1>3, Movers DEF IInv
<1>5. Within(t)' /\ Spares(t)' /\ Sole(t)'
  BY <1>1, <1>2, <1>4 DEF Within, Spares, Sole, Adding, buffer
<1> QED  BY <1>2, <1>4, <1>5, Moves DEF Adding

(* A thread is done with the buffer, which stays as it is. *)
LEMMA Leaves ==
  ASSUME IInv, NEW t \in Threads, UNCHANGED buffer,
         thread' = [thread EXCEPT ![t] = Idle]
  PROVE  IInv'
<1>1. /\ thread' = [u \in Threads |-> thread'[u]] /\ thread'[t] = Idle
      /\ \A u \in Threads : u # t => Kept(u)
  BY Movers DEF IInv
<1>2. Within(t)' /\ Spares(t)' /\ Sole(t)'
  BY <1>1, IdleType DEF IInv, BufferOK, Within, Spares, Sole, Adding, buffer
<1> QED  BY <1>1, <1>2, IdleType, Moves DEF Adding

(* A thread comes to walk through the buffer. *)
LEMMA Begins ==
  ASSUME IInv, NEW t \in Threads, UNCHANGED buffer, BeginFlush(t)
  PROVE  IInv'
<1> DEFINE th == [Idle EXCEPT !.at = "flush", !.limit = size]
<1>a. size \in Nat /\ size <= Len(statBuffer) /\ Len(statBuffer) \in Nat
  BY DEF IInv, BufferOK
<1>1. th \in ThreadType /\ th.at = "flush" /\ th.next = 0 /\ th.limit = size
  BY <1>a DEF Idle, ThreadType, Places
<1>2. Comes(t, th, FALSE)
  BY DEF BeginFlush
<1> HIDE DEF th
<1>3. /\ thread' = [u \in Threads |-> thread'[u]] /\ thread'[t] = th
      /\ \A u \in Threads : u # t => Kept(u) /\ (thread[u].at \in Adding => thread'[u].raced)
  BY <1>2, Comers DEF IInv
<1>4. Within(t)' /\ Sole(t)'
  BY <1>a, <1>1, <1>3 DEF Within, Sole, Adding, buffer
<1>5. Spares(t)'
  BY <1>a, <1>1, <1>3 DEF IInv, Counted, Spares, Alone, Adding, buffer
<1> QED  BY <1>1, <1>3, <1>4, <1>5, Moves

(* A thread comes to add an event. *)
LEMMA Adds ==
  ASSUME IInv, NEW t \in Threads, thread[t].at \notin Adding \cup {"flush", "clear"},
         NEW by \in Calls, NEW x \in Calls \cup {None}, NEW sure \in BOOLEAN,
         UNCHANGED buffer, Add(t, by, x, sure)
  PROVE  IInv'
<1> DEFINE e == [by |-> by, x |-> x, sure |-> sure, sent |-> FALSE, raced |-> FALSE]
           r == AtBuffer # {}
           th == [at |-> "size", next |-> size, limit |-> size, stale |-> FALSE, event |-> e,
                  raced |-> r]
<1>a. size \in Nat /\ size <= Len(statBuffer) /\ Len(statBuffer) \in Nat
  BY DEF IInv, BufferOK
<1>b. e \in Event /\ ~e.sent
  BY DEF Event
<1>c. r \in BOOLEAN /\ (~r => AtBuffer = {})
  OBVIOUS
<1>d. Comes(t, th, TRUE)
  BY DEF Add
<1> HIDE DEF e, r
<1>1. /\ th \in ThreadType /\ th.at = "size" /\ th.next = size /\ th.limit = size
      /\ th.event = e /\ th.raced = r
  BY <1>a, <1>b, <1>c DEF ThreadType, Places
<1> HIDE DEF th
<1>3. /\ thread' = [u \in Threads |-> thread'[u]] /\ thread'[t] = th
      /\ \A u \in Threads : u # t => Kept(u) /\ (thread[u].at \in Adding => thread'[u].raced)
  BY <1>d, Comers DEF IInv
<1>4. Within(t)'
  BY <1>a, <1>b, <1>1, <1>3 DEF Within, Adding, buffer
<1>5. Spares(t)'
  BY <1>a, <1>1, <1>3 DEF IInv, Counted, Spares, Alone, Adding, buffer
<1>6. Sole(t)'
  <2>1. ~r => AtBuffer' = {t}
    BY <1>c, <1>1, <1>3 DEF AtBuffer, Adding, Kept
  <2> QED  BY <2>1, <1>1, <1>3 DEF Sole, buffer
<1> QED  BY <1>1, <1>3, <1>4, <1>5, <1>6, Moves

-----------------------------------------------------------------------------
(* The steps that change the array or its size.                            *)

(* A size is written: every event added alone is within it. *)
LEMMA WritesSize ==
  ASSUME IInv, NEW t \in Threads, WriteSize(t)
  PROVE  IInv'
<1> DEFINE n == thread[t].next
<1> USE DEF Adding
<1>1. /\ thread[t].at = "size" /\ size' = n + 1
      /\ thread' = [thread EXCEPT ![t].at = "store"]
  BY DEF WriteSize
<1>2. /\ thread[t] \in ThreadType /\ n \in Nat /\ n <= Len(statBuffer) /\ Len(statBuffer) \in Nat
      /\ thread[t].limit <= Len(statBuffer) /\ n <= thread[t].limit /\ thread[t].limit \in Nat
      /\ thread[t].event \in Event /\ ~thread[t].event.sent
  BY <1>1 DEF IInv, BufferOK, Within, ThreadType
<1>3. /\ statBuffer' \in Seq(Event \cup {None}) /\ Len(statBuffer') >= Len(statBuffer)
      /\ Len(statBuffer') \in Nat /\ n + 1 <= Len(statBuffer')
      /\ DOMAIN statBuffer = 1 .. Len(statBuffer) /\ DOMAIN statBuffer' = 1 .. Len(statBuffer')
      /\ \A i \in DOMAIN statBuffer : statBuffer'[i] = statBuffer[i]
      /\ \A i \in DOMAIN statBuffer' : i \in DOMAIN statBuffer \/ statBuffer'[i] = None
  <2>1. CASE n = Len(statBuffer)
    <3>1. statBuffer' = Append(statBuffer, None)
      BY <2>1 DEF WriteSize
    <3> HIDE DEF n
    <3> QED  BY <1>2, <2>1, <3>1 DEF IInv, BufferOK
  <2>2. CASE n # Len(statBuffer)
    <3>1. statBuffer' = statBuffer
      BY <2>2 DEF WriteSize
    <3> HIDE DEF n
    <3> QED  BY <1>2, <2>2, <3>1 DEF IInv, BufferOK
  <2> QED  BY <2>1, <2>2
<1> DEFINE th == [thread[t] EXCEPT !.at = "store"]
<1>4. /\ th \in ThreadType /\ th.at = "store" /\ th.next = n /\ th.limit = thread[t].limit
      /\ th.event = thread[t].event /\ th.raced = thread[t].raced
  BY <1>2 DEF ThreadType, Places
<1>5. thread' = [thread EXCEPT ![t] = th]
  BY <1>1
<1> HIDE DEF th, n
<1>6. /\ thread' = [u \in Threads |-> thread'[u]] /\ thread'[t] = th
      /\ \A u \in Threads : u # t => thread'[u] = thread[u] /\ Kept(u)
  BY <1>5, Movers DEF IInv
<1>7. \A i \in DOMAIN statBuffer' : Alone(i)' => i \in DOMAIN statBuffer /\ Alone(i)
  BY <1>3 DEF Alone
<1>8. BufferOK'
  <2>1. ASSUME NEW u \in Threads  PROVE thread'[u] \in ThreadType /\ Within(u)'
    <3>1. CASE u = t
      BY <1>2, <1>3, <1>4, <1>6, <3>1 DEF Within
    <3>2. CASE u # t
      <4>1. thread'[u] = thread[u] /\ thread[u] \in ThreadType /\ Within(u)
        BY <1>6, <3>2 DEF IInv, BufferOK
      <4> QED  BY <1>3, <4>1 DEF Within, ThreadType
    <3> QED  BY <3>1, <3>2
  <2>2. thread' \in [Threads -> ThreadType]
    BY <1>6, <2>1
  <2> QED  BY <1>1, <1>2, <1>3, <2>1, <2>2 DEF BufferOK
<1>9. Counted'
  <2>1. \A i \in DOMAIN statBuffer : Alone(i) => i <= n
    BY <1>1 DEF IInv, Spares, n
  <2> QED  BY <1>1, <1>2, <1>3, <1>7, <2>1 DEF Counted
<1>10. ASSUME NEW u \in Threads  PROVE Spares(u)'
  <2>1. Spares(u)
    BY DEF IInv
  <2>2. CASE u = t
    BY <1>1, <1>3, <1>4, <1>6, <1>7, <2>1, <2>2 DEF Spares, n
  <2>3. CASE u # t
    BY <1>3, <1>6, <1>7, <2>1, <2>3 DEF Spares
  <2> QED  BY <2>2, <2>3
<1>11. ASSUME NEW u \in Threads  PROVE Sole(u)'
  <2>1. Sole(u) /\ t \in AtBuffer
    BY <1>1 DEF IInv, AtBuffer
  <2>2. AtBuffer' = AtBuffer
    BY <1>1, <1>4, <1>6 DEF AtBuffer
  <2>3. CASE u = t
    BY <1>1, <1>4, <1>6, <2>1, <2>2, <2>3 DEF Sole, n
  <2>4. CASE u # t
    BY <1>6, <2>1, <2>2, <2>4 DEF Sole
  <2> QED  BY <2>3, <2>4
<1>12. InOrder'
  BY <1>3, <1>7 DEF IInv, InOrder
<1> QED  BY <1>8, <1>9, <1>10, <1>11, <1>12 DEF IInv

(* An event is stored: if it was added alone, nobody else is at the buffer. *)
LEMMA Stores ==
  ASSUME IInv, NEW t \in Threads, Store(t)
  PROVE  IInv'
<1> USE DEF Adding
<1> DEFINE n == thread[t].next + 1
           r == thread[t].raced
           e == [thread[t].event EXCEPT !.raced = r]
           th == [Idle EXCEPT !.at = IF thread[t].event.x = None THEN "idle" ELSE "send"]
<1>1. /\ thread[t].at = "store" /\ UNCHANGED size /\ thread' = [thread EXCEPT ![t] = th]
      /\ statBuffer' = [statBuffer EXCEPT ![n] = e] \/ (r /\ UNCHANGED statBuffer)
  BY DEF Store
<1>2. /\ thread[t] \in ThreadType /\ thread[t].event \in Event /\ ~thread[t].event.sent
      /\ r \in BOOLEAN
      /\ Len(statBuffer) \in Nat /\ n \in 1 .. Len(statBuffer)
  BY <1>1 DEF IInv, BufferOK, Within, ThreadType
<1>3. e \in Event /\ e.raced = r /\ ~e.sent
  BY <1>2 DEF Event
<1>4. th \in ThreadType /\ th.at \in {"idle", "send"} /\ th.next = 0 /\ th.limit = 0
  BY DEF Idle, ThreadType, Places
<1>5. Sole(t) /\ Spares(t)
  BY DEF IInv
<1>6. ~r => AtBuffer = {t} /\ size = n
  BY <1>1, <1>5 DEF Sole
<1>14. \A i \in DOMAIN statBuffer : Alone(i) => i < n
  BY <1>1, <1>2, <1>5 DEF Spares, ThreadType

<1> HIDE DEF e, th, r, n
<1>7. /\ statBuffer' \in Seq(Event \cup {None}) /\ Len(statBuffer') = Len(statBuffer)
      /\ DOMAIN statBuffer = 1 .. Len(statBuffer) /\ DOMAIN statBuffer' = DOMAIN statBuffer
      /\ \A i \in DOMAIN statBuffer : i # n => statBuffer'[i] = statBuffer[i]
      /\ statBuffer'[n] = e \/ (r /\ UNCHANGED statBuffer)
  BY <1>1, <1>2, <1>3 DEF IInv, BufferOK
<1>8. /\ thread' = [u \in Threads |-> thread'[u]] /\ thread'[t] = th
      /\ \A u \in Threads : u # t => thread'[u] = thread[u] /\ Kept(u)
  BY <1>1, Movers DEF IInv
<1>9. \A i \in DOMAIN statBuffer' : Alone(i)' =>
        \/ i < n /\ Alone(i) /\ statBuffer'[i] = statBuffer[i]
        \/ i = n /\ ~r /\ statBuffer'[i] = e
  <2> TAKE i \in DOMAIN statBuffer'
  <2> HAVE Alone(i)'
  <2>1. CASE statBuffer'[i] = statBuffer[i]
    BY <1>7, <1>14, <2>1 DEF Alone
  <2>2. CASE statBuffer'[i] # statBuffer[i]
    BY <1>3, <1>7, <2>2 DEF Alone
  <2> QED  BY <2>1, <2>2
<1>10. BufferOK'
  <2>1. ASSUME NEW u \in Threads  PROVE thread'[u] \in ThreadType /\ Within(u)'
    <3>1. CASE u = t
      BY <1>2, <1>4, <1>7, <1>8, <3>1 DEF Within
    <3>2. CASE u # t
      <4>1. thread'[u] = thread[u] /\ thread[u] \in ThreadType /\ Within(u)
        BY <1>8, <3>2 DEF IInv, BufferOK
      <4> QED  BY <1>7, <4>1 DEF Within
    <3> QED  BY <3>1, <3>2
  <2>2. thread' \in [Threads -> ThreadType]
    BY <1>8, <2>1
  <2> QED  BY <1>1, <1>7, <2>1, <2>2 DEF IInv, BufferOK
<1>11. Counted'
  BY <1>1, <1>6, <1>7, <1>9 DEF IInv, Counted
<1>12. ASSUME NEW u \in Threads  PROVE Spares(u)' /\ Sole(u)'
  <2>1. CASE u = t
    BY <1>4, <1>8, <2>1 DEF Spares, Sole
  <2>2. CASE u # t
    <3>1. Spares(u) /\ Sole(u) /\ thread'[u] = thread[u]
      BY <1>8, <2>2 DEF IInv
    <3>2. ~r => thread[u].at \notin Adding \cup {"flush", "clear"}
      BY <1>6, <2>2 DEF AtBuffer
    <3>3. Spares(u)'
      BY <1>7, <1>9, <3>1, <3>2 DEF Spares
    <3>4. Sole(u)'
      <4>1. t \in AtBuffer
        BY <1>1 DEF AtBuffer
      <4> QED  BY <2>2, <3>1, <4>1 DEF Sole
    <3> QED  BY <3>3, <3>4
  <2> QED  BY <2>1, <2>2
<1>13. InOrder'
  <2> SUFFICES ASSUME NEW i \in DOMAIN statBuffer', NEW j \in DOMAIN statBuffer',
                      Alone(i)', Alone(j)', i < j, statBuffer'[j].sent
               PROVE  statBuffer'[i].sent
    BY DEF InOrder
  <2>1. j < n /\ Alone(j) /\ statBuffer'[j] = statBuffer[j]
    BY <1>3, <1>9
  <2>2. i < n /\ Alone(i) /\ statBuffer'[i] = statBuffer[i]
    BY <1>2, <1>7, <1>9, <2>1
  <2> QED  BY <1>7, <2>1, <2>2 DEF IInv, InOrder
<1> QED  BY <1>10, <1>11, <1>12, <1>13 DEF IInv

(* The slots are emptied: every event added alone was sent. *)
LEMMA Clears ==
  ASSUME IInv, NEW t \in Threads, Clear(t)
  PROVE  IInv'
<1> USE DEF Adding
<1> DEFINE th == [Idle EXCEPT !.at = "clear"]
<1>1. statBuffer' = Emptied /\ Comes(t, th, TRUE) /\ UNCHANGED size
  BY DEF Clear
<1>2. th \in ThreadType /\ th.at = "clear" /\ th.next = 0 /\ th.limit = 0
  BY DEF Idle, ThreadType, Places
<1> HIDE DEF th
<1>3. /\ thread' = [u \in Threads |-> thread'[u]] /\ thread'[t] = th
      /\ \A u \in Threads : u # t => Kept(u) /\ (thread[u].at \in Adding => thread'[u].raced)
  BY <1>1, Comers DEF IInv
<1>4. /\ statBuffer' \in Seq(Event \cup {None}) /\ Len(statBuffer') = Len(statBuffer)
      /\ Len(statBuffer) \in Nat /\ DOMAIN statBuffer' = DOMAIN statBuffer
      /\ \A i \in DOMAIN statBuffer :
           statBuffer'[i] = IF i <= size THEN None ELSE statBuffer[i]
  <2>1. statBuffer' = [i \in 1 .. Len(statBuffer) |-> IF i <= size THEN None ELSE statBuffer[i]]
    BY <1>1 DEF IInv, BufferOK, Emptied
  <2>2. ASSUME NEW i \in 1 .. Len(statBuffer)
        PROVE  (IF i <= size THEN None ELSE statBuffer[i]) \in Event \cup {None}
    BY DEF IInv, BufferOK
  <2> QED  BY <2>1, <2>2 DEF IInv, BufferOK
<1>5. \A i \in DOMAIN statBuffer' : ~Alone(i)'
  BY <1>4 DEF IInv, Counted, Alone
<1>6. BufferOK'
  <2>1. ASSUME NEW u \in Threads  PROVE thread'[u] \in ThreadType /\ Within(u)'
    <3>1. CASE u = t
      BY <1>2, <1>3, <1>4, <3>1 DEF Within
    <3>2. CASE u # t
      <4>1. Within(u)
        BY DEF IInv, BufferOK
      <4> QED  BY <1>3, <1>4, <3>2, <4>1 DEF Within, Kept
    <3> QED  BY <3>1, <3>2
  <2>2. thread' \in [Threads -> ThreadType]
    BY <1>3, <2>1
  <2> QED  BY <1>1, <1>4, <2>1, <2>2 DEF IInv, BufferOK
<1>7. Counted' /\ InOrder'
  BY <1>5 DEF Counted, InOrder
<1>8. ASSUME NEW u \in Threads  PROVE Spares(u)' /\ Sole(u)'
  <2>1. Spares(u)'
    BY <1>5 DEF Spares
  <2>2. Sole(u)'
    <3>1. CASE u = t
      BY <1>2, <1>3, <3>1 DEF Sole
    <3>2. CASE u # t
      BY <1>3, <3>2 DEF Sole, Kept
    <3> QED  BY <3>1, <3>2
  <2> QED  BY <2>1, <2>2
<1> QED  BY <1>6, <1>7, <1>8 DEF IInv

(* The size is set: nothing that was added alone is left. *)
LEMMA ClearsSize ==
  ASSUME IInv, NEW t \in Threads, ClearSize(t)
  PROVE  IInv'
<1> USE DEF Adding
<1>1. /\ thread[t].at = "clear" /\ size' = 0 /\ UNCHANGED statBuffer
      /\ thread' = [thread EXCEPT ![t] = Idle]
  BY DEF ClearSize
<1>2. /\ thread' = [u \in Threads |-> thread'[u]] /\ thread'[t] = Idle
      /\ \A u \in Threads : u # t => thread'[u] = thread[u] /\ Kept(u)
  BY <1>1, Movers DEF IInv
<1>3. \A i \in DOMAIN statBuffer' : ~Alone(i)'
  BY <1>1 DEF IInv, Spares, Alone
<1>4. BufferOK'
  <2>1. ASSUME NEW u \in Threads  PROVE thread'[u] \in ThreadType /\ Within(u)'
    BY <1>1, <1>2, IdleType DEF IInv, BufferOK, Within
  <2>2. thread' \in [Threads -> ThreadType]
    BY <1>2, <2>1
  <2> QED  BY <1>1, <2>1, <2>2 DEF IInv, BufferOK
<1>5. Counted' /\ InOrder'
  BY <1>3 DEF Counted, InOrder
<1>6. ASSUME NEW u \in Threads  PROVE Spares(u)' /\ Sole(u)'
  <2>1. Spares(u)'
    BY <1>3 DEF Spares
  <2>2. Sole(u)'
    <3>1. CASE u = t
      BY <1>2, <3>1, IdleType DEF Sole
    <3>2. CASE u # t
      <4>1. Sole(u) /\ thread'[u] = thread[u] /\ t \in AtBuffer
        BY <1>1, <1>2, <3>2 DEF IInv, AtBuffer
      <4> QED  BY <3>2, <4>1 DEF Sole
    <3> QED  BY <3>1, <3>2
  <2> QED  BY <2>1, <2>2
<1> QED  BY <1>4, <1>5, <1>6 DEF IInv

(* An event is sent, all before it that were added alone having been. *)
LEMMA Sends ==
  ASSUME IInv, NEW t \in Threads, SendNext(t)
  PROVE  IInv'
<1> USE DEF Adding
<1> DEFINE n == thread[t].next + 1
<1>1. CASE ~thread[t].stale /\ statBuffer[n] # None /\ isOpen
  <2>1. /\ thread[t].at = "flush" /\ thread[t].next < thread[t].limit /\ UNCHANGED size
        /\ statBuffer' = [statBuffer EXCEPT ![n].sent = TRUE]
        /\ thread' = [thread EXCEPT ![t].next = @ + 1]
    BY <1>1 DEF SendNext
  <2>2. /\ n \in 1 .. Len(statBuffer) /\ n <= thread[t].limit /\ thread[t] \in ThreadType
        /\ thread[t].limit <= Len(statBuffer)
        /\ thread[t].next \in Nat /\ thread[t].limit \in Nat
        /\ DOMAIN statBuffer = 1 .. Len(statBuffer) /\ Len(statBuffer) \in Nat
    BY <2>1 DEF IInv, BufferOK, Within, ThreadType
  <2>3. \A i \in DOMAIN statBuffer : Alone(i) /\ i < n => statBuffer[i].sent
    BY <2>1, <2>2 DEF IInv, Spares
  <2> DEFINE e == [statBuffer[n] EXCEPT !.sent = TRUE]
             th == [thread[t] EXCEPT !.next = n]
  <2>a. statBuffer[n] \in Event
    BY <1>1, <2>2 DEF IInv, BufferOK
  <2>b. e \in Event
    BY <2>a DEF Event
  <2>c. e.sent
    BY <2>a DEF Event
  <2>d. e.raced = statBuffer[n].raced
    BY <2>a DEF Event
  <2>e. statBuffer' = [statBuffer EXCEPT ![n] = e] /\ thread' = [thread EXCEPT ![t] = th]
    BY <2>1
  <2>f. /\ th \in ThreadType /\ th.at = "flush" /\ th.next = n /\ th.limit = thread[t].limit
    BY <2>1, <2>2 DEF ThreadType
  <2> HIDE DEF e, th, n
  <2>4. /\ statBuffer' \in Seq(Event \cup {None}) /\ Len(statBuffer') = Len(statBuffer)
        /\ DOMAIN statBuffer' = DOMAIN statBuffer /\ statBuffer'[n] = e
        /\ \A i \in DOMAIN statBuffer : i # n => statBuffer'[i] = statBuffer[i]
    BY <2>2, <2>b, <2>e DEF IInv, BufferOK
  <2>5. \A i \in DOMAIN statBuffer' : Alone(i)' => Alone(i)
    BY <1>1, <2>4, <2>d DEF Alone, n
  <2>6. \A i \in DOMAIN statBuffer : statBuffer[i].sent => statBuffer'[i].sent
    BY <2>4, <2>c
  <2>7. /\ thread' = [u \in Threads |-> thread'[u]] /\ thread'[t] = th
        /\ \A u \in Threads : u # t => thread'[u] = thread[u] /\ Kept(u)
    BY <2>e, Movers DEF IInv
  <2>8. BufferOK'
    <3>1. ASSUME NEW u \in Threads  PROVE thread'[u] \in ThreadType /\ Within(u)'
      <4>1. CASE u = t
        BY <2>2, <2>4, <2>7, <2>f, <4>1 DEF Within
      <4>2. CASE u # t
        <5>1. thread'[u] = thread[u] /\ thread[u] \in ThreadType /\ Within(u)
          BY <2>7, <4>2 DEF IInv, BufferOK
        <5> QED  BY <2>4, <5>1 DEF Within
      <4> QED  BY <4>1, <4>2
    <3>2. thread' \in [Threads -> ThreadType]
      BY <2>7, <3>1
    <3> QED  BY <2>1, <2>4, <3>1, <3>2 DEF IInv, BufferOK
  <2>9. Counted'
    BY <2>1, <2>4, <2>5 DEF IInv, Counted
  <2>10. ASSUME NEW u \in Threads  PROVE Spares(u)' /\ Sole(u)'
    <3>1. Spares(u) /\ Sole(u)
      BY DEF IInv
    <3>2. CASE u = t
      <4>1. ASSUME NEW i \in DOMAIN statBuffer', Alone(i)', i <= n  PROVE statBuffer'[i].sent
        BY <4>1, <2>2, <2>3, <2>4, <2>5, <2>6, <2>c
      <4>2. Spares(u)'
        BY <4>1, <2>1, <2>4, <2>5, <2>7, <2>f, <3>1, <3>2 DEF Spares
      <4>3. Sole(u)'
        BY <2>7, <2>f, <3>2 DEF Sole
      <4> QED  BY <4>2, <4>3
    <3>3. CASE u # t
      <4>1. Spares(u)'
        BY <2>4, <2>5, <2>6, <2>7, <3>1, <3>3 DEF Spares
      <4>2. Sole(u)'
        <5>1. t \in AtBuffer
          BY <2>1 DEF AtBuffer
        <5> QED  BY <2>7, <3>1, <3>3, <5>1 DEF Sole
      <4> QED  BY <4>1, <4>2
    <3> QED  BY <3>2, <3>3
  <2>11. InOrder'
    <3> SUFFICES ASSUME NEW i \in DOMAIN statBuffer', NEW j \in DOMAIN statBuffer',
                        Alone(i)', Alone(j)', i < j, statBuffer'[j].sent
                 PROVE  statBuffer'[i].sent
      BY DEF InOrder
    <3>1. Alone(i) /\ Alone(j) /\ i \in DOMAIN statBuffer /\ j \in DOMAIN statBuffer
      BY <2>4, <2>5
    <3>2. statBuffer[i].sent
      <4>1. CASE j = n
        BY <2>3, <3>1, <4>1
      <4>2. CASE j # n
        BY <2>4, <3>1, <4>2 DEF IInv, InOrder
      <4> QED  BY <4>1, <4>2
    <3> QED  BY <2>6, <3>1, <3>2
  <2> QED  BY <2>8, <2>9, <2>10, <2>11 DEF IInv
<1>2. CASE ~(~thread[t].stale /\ statBuffer[n] # None /\ isOpen)
  <2>1. thread' = [thread EXCEPT ![t] = Idle] /\ UNCHANGED buffer
    BY <1>2 DEF SendNext, buffer
  <2> QED  BY <2>1, Leaves
<1> QED  BY <1>1, <1>2

-----------------------------------------------------------------------------
(* The rest of the types, and what a callback relies on. *)
RestOK ==
  /\ callInsightsKey \in {"none", "key", "rtp"}
  /\ mWebSocketClient \in Clients \cup {None}
  /\ timer \in Calls \cup {None} /\ running \subseteq Calls
  /\ client \in [Clients -> {"closed", "connecting", "open"}]
  /\ signallingStats \in Calls \cup {None} /\ lastXCallUUID \in Calls \cup {None}
  /\ xcallUUID \in [Calls -> Calls \cup {None}]
  /\ phase \in [Calls -> {"none", "begun", "answered", "over"}]
  /\ handler \in [at : {"none", "startTimer", "stopTimer", "summary", "summarised"},
                  call : Calls \cup {None}, end : Ends \cup {None}]
  /\ feedback = None \/ feedback \in [of : Calls, copied : BOOLEAN, quiet : BOOLEAN]
  /\ lossy \in Networks /\ crashed \in BOOLEAN
  /\ ticks \in 0 .. MaxReports /\ fed \in 0 .. MaxFeedbacks /\ crowded \subseteq Calls

HandlerOK ==
  /\ handler = NoHandler \/ handler.call \in Calls
  /\ handler.at \in {"startTimer", "summarised"} => signallingStats \in Calls

LEMMA Types == RestOK /\ BufferOK => TypeOK
  BY DEF RestOK, BufferOK, Within, TypeOK, ThreadType

LEMMA Distinct ==
  /\ None \notin Calls /\ None \notin Clients
  /\ Main \in Threads /\ Http \in Threads /\ Calls \subseteq Threads /\ Clients \subseteq Threads
  BY InsightsAssumption DEF Threads

LEMMA HandlerType ==
  /\ NoHandler \in [at : {"none", "startTimer", "stopTimer", "summary", "summarised"},
                   call : Calls \cup {None}, end : Ends \cup {None}]
  /\ NoHandler.at = "none"
  BY DEF NoHandler

LEMMA DisturbType ==
  ASSUME RestOK
  PROVE  Disturb = None \/ Disturb \in [of : Calls, copied : BOOLEAN, quiet : BOOLEAN]
  BY DEF RestOK, Disturb

(* The callbacks of calls. *)
LEMMA CallbackRest ==
  ASSUME RestOK, HandlerOK, NEW c \in Calls,
         Begin(c) \/ Progress(c) \/ Answered(c) \/ \E end \in Ends : Ended(c, end)
  PROVE  RestOK' /\ HandlerOK'
<1> USE Distinct, HandlerType, DisturbType
<1>1. CASE Begin(c)
  <2>1. crowded' \subseteq Calls
    BY <1>1 DEF Begin, RestOK, HandlerOK
  <2>2. xcallUUID' \in [Calls -> Calls \cup {None}]
    BY <1>1 DEF Begin, RestOK
  <2>3. feedback' = None \/ feedback' \in [of : Calls, copied : BOOLEAN, quiet : BOOLEAN]
    BY <1>1 DEF Begin
  <2> QED  BY <1>1, <2>1, <2>2, <2>3 DEF Begin, insights, RestOK, HandlerOK
<1>2. CASE Progress(c)
  <2>1. xcallUUID' \in [Calls -> Calls \cup {None}]
    BY <1>2 DEF Progress, setXCallUUID, RestOK
  <2>2. crashed' = TRUE \/ crashed' = crashed
    BY <1>2 DEF Progress
  <2>3. UNCHANGED <<insights, mWebSocketClient, client, signallingStats, lastXCallUUID, phase,
                    handler, books>>
    BY <1>2 DEF Progress
  <2>4. HandlerOK'
    BY <2>3 DEF HandlerOK
  <2>5. crashed' \in BOOLEAN
    BY <2>2 DEF RestOK
  <2>6. RestOK'
    BY <2>1, <2>3, <2>5 DEF insights, books, RestOK
  <2> QED  BY <2>4, <2>6
<1>3. CASE Answered(c)
  <2>1. handler' = handler \/ handler' = [NoHandler EXCEPT !.at = "startTimer", !.call = c]
    BY <1>3 DEF Answered
  <2>2. signallingStats # None \/ handler' = handler
    BY <1>3 DEF Answered
  <2>3. crashed' \in BOOLEAN
    <3>1. crashed' = (c \in OutCalls) \/ crashed' = crashed
      BY <1>3 DEF Answered
    <3>2. (c \in OutCalls) \in BOOLEAN
      OBVIOUS
    <3> QED  BY <3>1, <3>2 DEF RestOK
  <2>4. HandlerOK'
    BY <1>3, <2>1, <2>2 DEF Answered, signalling, RestOK, HandlerOK, NoHandler
  <2>5. handler' \in [at : {"none", "startTimer", "stopTimer", "summary", "summarised"},
                     call : Calls \cup {None}, end : Ends \cup {None}]
    <3>1. NoHandler \in [at : {"none", "startTimer", "stopTimer", "summary", "summarised"},
                         call : Calls \cup {None}, end : Ends \cup {None}]
      BY DEF NoHandler
    <3>2. QED
      BY ZenonT(30), <2>1, <3>1 DEF RestOK, NoHandler
  <2>6. phase' \in [Calls -> {"none", "begun", "answered", "over"}]
    BY <1>3 DEF Answered, RestOK
  <2>7. UNCHANGED <<insights, mWebSocketClient, client, signalling, books>>
    BY <1>3 DEF Answered
  <2> QED  BY <2>3, <2>4, <2>5, <2>6, <2>7 DEF insights, signalling, books, RestOK
<1>4. ASSUME NEW end \in Ends, Ended(c, end)
      PROVE  RestOK' /\ HandlerOK'
  <2>1. handler' \in [at : {"none", "startTimer", "stopTimer", "summary", "summarised"},
                     call : Calls \cup {None}, end : Ends \cup {None}]
        /\ handler'.call \in Calls /\ handler'.at \in {"stopTimer", "summary"}
    BY <1>4 DEF Ended
  <2>2. feedback' = None \/ feedback' \in [of : Calls, copied : BOOLEAN, quiet : BOOLEAN]
    BY <1>4 DEF Ended
  <2> QED  BY <1>4, <2>1, <2>2 DEF Ended, insights, signalling, RestOK, HandlerOK
<1> QED  BY <1>1, <1>2, <1>3, <1>4

(* What is left to do of a callback. *)
LEMMA RestOfCallbackRest ==
  ASSUME RestOK, HandlerOK, RestOfCallback
  PROVE  RestOK' /\ HandlerOK'
<1> USE Distinct, HandlerType
<1>1. CASE StartTimer
  BY <1>1 DEF StartTimer, signalling, books, RestOK, HandlerOK
<1>2. CASE stopTimer
  <2>1. client' \in [Clients -> {"closed", "connecting", "open"}]
    BY <1>2 DEF stopTimer, RestOK
  <2>2. /\ handler' \in [at : {"none", "startTimer", "stopTimer", "summary", "summarised"},
                        call : Calls \cup {None}, end : Ends \cup {None}]
        /\ handler'.at = "summary" /\ handler'.call \in Calls
    BY <1>2 DEF stopTimer, RestOK, HandlerOK
  <2> QED  BY <1>2, <2>1, <2>2 DEF stopTimer, signalling, books, RestOK, HandlerOK
<1>3. CASE Summary
  <2>1. xcallUUID' \in [Calls -> Calls \cup {None}]
    BY <1>3 DEF Summary, setXCallUUID, RestOK
  <2>2. handler' = NoHandler \/ (signallingStats # None /\ handler' = Summarised)
    BY <1>3 DEF Summary
  <2>3. handler.call \in Calls
    BY <1>3 DEF Summary, HandlerOK
  <2>4. Summarised \in [at : {"none", "startTimer", "stopTimer", "summary", "summarised"},
                        call : Calls \cup {None}, end : Ends \cup {None}]
        /\ Summarised.call \in Calls
    BY <2>3 DEF Summarised, RestOK
  <2> QED  BY <1>3, <2>1, <2>2, <2>4 DEF Summary, insights, books, RestOK, HandlerOK
<1>4. CASE KeepLast
  BY <1>4 DEF KeepLast, insights, books, RestOK, HandlerOK
<1> QED  BY <1>1, <1>2, <1>3, <1>4 DEF RestOfCallback

(* Everything else. *)
LEMMA OthersRest ==
  ASSUME RestOK, HandlerOK,
         Buffer \/ Reader \/ Timer \/ Feedback \/ GotKey \/ \E j \in Clients : Lost(j)
  PROVE  RestOK' /\ HandlerOK'
<1> USE Distinct, InsightsAssumption
<1>1. ASSUME NEW t \in Threads, sendStats(t)  PROVE RestOK' /\ HandlerOK'
  BY <1>1 DEF sendStats, Connect, insights, signalling, books, RestOK, HandlerOK
<1>2. ASSUME NEW t \in Threads, SendNext(t)  PROVE RestOK' /\ HandlerOK'
  <2>1. crashed' = crashed \/ crashed' = (t \in {Main} \cup Calls)
    BY <1>2 DEF SendNext
  <2>2. (t \in {Main} \cup Calls) \in BOOLEAN
    OBVIOUS
  <2>3. crashed' \in BOOLEAN
    BY <2>1, <2>2 DEF RestOK
  <2>4. UNCHANGED <<insights, mWebSocketClient, client, signalling, phase, handler, books>>
    BY <1>2 DEF SendNext
  <2> QED  BY <2>3, <2>4 DEF insights, signalling, books, RestOK, HandlerOK
<1>3. ASSUME NEW t \in Threads, WriteSize(t) \/ Store(t) \/ Clear(t) \/ ClearSize(t)
      PROVE  RestOK' /\ HandlerOK'
  <2>1. UNCHANGED <<insights, mWebSocketClient, client, signalling, phase, handler, crashed, books>>
    BY <1>3 DEF WriteSize, Store, Clear, ClearSize
  <2> QED  BY <2>1 DEF insights, signalling, books, RestOK, HandlerOK
<1>4. ASSUME NEW j \in Clients, Opened(j) \/ onOpen(j) \/ Lost(j)  PROVE RestOK' /\ HandlerOK'
  BY <1>4 DEF Opened, onOpen, Lost, insights, signalling, books, RestOK, HandlerOK
<1>5. ASSUME NEW c \in Calls, Tick(c)  PROVE RestOK' /\ HandlerOK'
  <2>1. ticks' \in 0 .. MaxReports
    BY <1>5 DEF Tick, RestOK
  <2> QED  BY <1>5, <2>1 DEF Tick, insights, signalling, RestOK, HandlerOK
<1>9. ASSUME NEW c \in Calls, Fetched(c)  PROVE RestOK' /\ HandlerOK'
  BY <1>9 DEF Fetched, insights, signalling, books, RestOK, HandlerOK
<1>6. CASE sendFeedbackStats
  BY <1>6 DEF sendFeedbackStats, insights, signalling, books, RestOK, HandlerOK
<1>7. ASSUME NEW c \in Calls, NEW copied \in BOOLEAN, SubmitFeedback(c, copied)
      PROVE  RestOK' /\ HandlerOK'
  BY <1>7 DEF SubmitFeedback, insights, signalling, books, RestOK, HandlerOK
<1>8. CASE GotKey
  BY <1>8 DEF GotKey, insights, signalling, books, RestOK, HandlerOK
<1> QED  BY <1>1, <1>2, <1>3, <1>4, <1>5, <1>6, <1>7, <1>8, <1>9
         DEF Buffer, AtWork, Reader, Timer, Feedback

(* Every step, at the buffer. *)
LEMMA BufferStep ==
  ASSUME IInv, RestOK, HandlerOK, Next
  PROVE  IInv'
<1> USE Distinct, IdleType
<1>1. ASSUME NEW t \in Threads, sendStats(t)  PROVE IInv'
  BY <1>1, Leaves, Begins DEF sendStats
<1>2. ASSUME NEW t \in Threads, AtWork(t)  PROVE IInv'
  BY <1>1, <1>2, WritesSize, Stores, Sends, Clears, ClearsSize DEF AtWork
<1>3. ASSUME UNCHANGED <<buffer, thread>>  PROVE IInv'
  BY <1>3 DEF buffer, IInv, BufferOK, Within, Counted, Spares, Sole, AtBuffer, InOrder, Alone
<1>4. ASSUME NEW c \in Calls, Begin(c) \/ Progress(c)  PROVE IInv'
  BY <1>3, <1>4 DEF Begin, Progress
<1>18. ASSUME NEW c \in Calls, NEW end \in Ends, Ended(c, end)  PROVE IInv'
  BY <1>3, <1>18 DEF Ended
<1>13. CASE StartTimer \/ stopTimer \/ KeepLast \/ GotKey
  BY <1>3, <1>13 DEF StartTimer, stopTimer, KeepLast, GotKey
<1>5. ASSUME NEW c \in Calls, Answered(c)  PROVE IInv'
  <2>1. thread[Main].at \notin Adding \cup {"flush", "clear"}
    BY <1>5 DEF Answered, MainIdle, Adding
  <2>2. UNCHANGED <<buffer, thread>>
        \/ (/\ signallingStats # None /\ UNCHANGED buffer
            /\ Add(Main, c, xcallUUID[signallingStats], c \notin crowded))
    BY <1>5 DEF Answered
  <2> QED  BY <1>3, <2>1, <2>2, Adds DEF RestOK
<1>6. CASE Summary
  <2>1. xcallUUID' \in [Calls -> Calls \cup {None}]
    BY <1>6 DEF Summary, setXCallUUID, RestOK
  <2>2. handler.call \in Calls
    BY <1>6, HandlerType DEF Summary, HandlerOK
  <2>3. thread[Main].at \notin Adding \cup {"flush", "clear"}
    BY <1>6 DEF Summary, MainIdle, Adding
  <2>4. UNCHANGED <<buffer, thread>>
        \/ (/\ signallingStats # None /\ UNCHANGED buffer
            /\ Add(Main, handler.call, xcallUUID'[signallingStats], handler.call \notin crowded))
    BY <1>6 DEF Summary
  <2> QED  BY <1>3, <2>1, <2>2, <2>3, <2>4, Adds DEF RestOK
<1>7. ASSUME NEW j \in Clients, Opened(j)  PROVE IInv'
  BY <1>7, Elsewhere DEF Opened
<1>8. ASSUME NEW j \in Clients, onOpen(j) \/ Lost(j)  PROVE IInv'
  BY <1>3, <1>8, Begins DEF onOpen, Lost
<1>9. ASSUME NEW c \in Calls, Tick(c)  PROVE IInv'
  BY <1>9, Elsewhere DEF Tick
<1>10. ASSUME NEW c \in Calls, Fetched(c)  PROVE IInv'
  <2>1. thread[c].at \notin Adding \cup {"flush", "clear"} /\ xcallUUID[c] \in Calls \cup {None}
    BY <1>10 DEF Fetched, Adding, RestOK
  <2> QED  BY <1>10, <2>1, Leaves, Adds DEF Fetched
<1>11. CASE sendFeedbackStats
  <2> DEFINE f == feedback
             last == f.of = lastXCallUUID /\ ~f.copied
             x == IF last THEN lastXCallUUID
                  ELSE IF signallingStats = None THEN None ELSE xcallUUID[signallingStats]
             sure == f.quiet /\ ~f.copied
  <2>1. /\ thread[Http].at \notin Adding \cup {"flush", "clear"} /\ UNCHANGED buffer
        /\ UNCHANGED thread \/ Add(Http, f.of, x, sure)
    BY <1>11 DEF sendFeedbackStats, Adding
  <2>2. f.of \in Calls /\ x \in Calls \cup {None} /\ sure \in BOOLEAN
    BY <1>11 DEF sendFeedbackStats, RestOK
  <2> HIDE DEF f, x, sure
  <2> QED  BY <1>3, <2>1, <2>2, Adds
<1>12. ASSUME NEW c \in Calls, NEW copied \in BOOLEAN, SubmitFeedback(c, copied)  PROVE IInv'
  BY <1>3, <1>12 DEF SubmitFeedback
<1>14. CASE Callback
  BY <1>4, <1>5, <1>14, <1>18 DEF Callback
<1>15. CASE RestOfCallback
  BY <1>6, <1>13, <1>15 DEF RestOfCallback
<1>16. CASE Buffer \/ Reader
  BY <1>2, <1>7, <1>8, <1>16 DEF Buffer, Reader
<1>17. CASE Timer \/ Feedback
  BY <1>9, <1>10, <1>11, <1>12, <1>17 DEF Timer, Feedback
<1>19. CASE Environment
  BY <1>4, <1>8, <1>13, <1>19 DEF Environment
<1> QED  BY <1>14, <1>15, <1>16, <1>17, <1>19 DEF Next

-----------------------------------------------------------------------------
(* All of it together. *)
LEMMA Invariance == Spec => [](IInv /\ RestOK /\ HandlerOK)
<1>1. Init => IInv /\ RestOK /\ HandlerOK
  <2> SUFFICES ASSUME Init  PROVE IInv /\ RestOK /\ HandlerOK
    OBVIOUS
  <2>1. BufferOK
    BY IdleType DEF Init, BufferOK, Within, Adding
  <2>2. Counted /\ (\A t \in Threads : Spares(t) /\ Sole(t)) /\ InOrder
    BY IdleType DEF Init, Counted, Spares, Sole, Adding, InOrder
  <2>3. RestOK /\ HandlerOK
    <3>1. 0 \in 0 .. MaxReports /\ 0 \in 0 .. MaxFeedbacks
      BY InsightsAssumption
    <3>2. HandlerOK
      BY HandlerType DEF Init, HandlerOK
    <3>3. RestOK
      BY <3>1, HandlerType DEF Init, RestOK
    <3> QED  BY <3>2, <3>3
  <2> QED  BY <2>1, <2>2, <2>3 DEF IInv
<1>2. IInv /\ RestOK /\ HandlerOK /\ [Next]_vars => (IInv /\ RestOK /\ HandlerOK)'
  <2> SUFFICES ASSUME IInv, RestOK, HandlerOK, [Next]_vars
               PROVE  (IInv /\ RestOK /\ HandlerOK)'
    OBVIOUS
  <2>1. CASE Next
    <3>1. RestOK' /\ HandlerOK'
      BY <2>1, CallbackRest, RestOfCallbackRest, OthersRest DEF Next, Callback, Environment
    <3> QED  BY <2>1, <3>1, BufferStep
  <2>2. CASE UNCHANGED vars
    BY <2>2 DEF vars, insights, signalling, books, buffer, IInv, BufferOK, Within, Counted, Spares,
                Sole, AtBuffer, InOrder, Alone, RestOK, HandlerOK
  <2> QED  BY <2>1, <2>2
<1> QED  BY <1>1, <1>2, PTL DEF Spec

(* Every variable of the events' pipeline keeps to its values; in          *)
(* particular no thread runs past the size its iterator found.             *)
THEOREM TypeCorrect == Spec => []TypeOK
<1>1. IInv /\ RestOK => TypeOK
  BY Types DEF IInv
<1> QED  BY <1>1, Invariance, PTL

(* However many threads, clients and lost connections there are, events    *)
(* added alone are sent for the first time in the order they were added.   *)
THEOREM InOrderCorrect == Spec => []InOrder
<1>1. IInv => InOrder
  BY DEF IInv
<1> QED  BY <1>1, Invariance, PTL

(* No event added alone loses its slot, is cut off or is cleared away. *)
KeepsAlone ==
  \A i \in 1 .. size :
    LET e == statBuffer[i]
    IN Alone(i) /\ ~e.sent => i <= size' /\ statBuffer'[i] \in {e, [e EXCEPT !.sent = TRUE]}

LEMMA KeepsAtWork ==
  ASSUME IInv, NEW t \in Threads, AtWork(t)
  PROVE  KeepsAlone
<1> SUFFICES ASSUME NEW i \in 1 .. size, Alone(i), ~statBuffer[i].sent
             PROVE  /\ i <= size'
                    /\ statBuffer'[i] \in {statBuffer[i], [statBuffer[i] EXCEPT !.sent = TRUE]}
  BY DEF KeepsAlone
<1>1. /\ i \in DOMAIN statBuffer /\ DOMAIN statBuffer = 1 .. Len(statBuffer)
      /\ Len(statBuffer) \in Nat /\ size \in Nat /\ i \in Nat /\ i <= size
  BY DEF IInv, BufferOK
<1>2. Spares(t) /\ thread[t].next \in Nat /\ thread[t].limit \in Nat
  BY DEF IInv, BufferOK, ThreadType
<1>3. CASE WriteSize(t)
  <2>1. i <= thread[t].next /\ size' = thread[t].next + 1
    BY <1>1, <1>2, <1>3 DEF WriteSize, Spares, Adding
  <2>2. statBuffer' = Append(statBuffer, None) \/ statBuffer' = statBuffer
    BY <1>3 DEF WriteSize
  <2>3. statBuffer'[i] = statBuffer[i]
    BY <1>1, <2>2 DEF IInv, BufferOK
  <2> QED  BY <1>1, <1>2, <2>1, <2>3
<1>4. CASE Store(t)
  <2>1. i <= thread[t].next /\ size' = size
    BY <1>1, <1>2, <1>4 DEF Store, Spares, Adding
  <2>2. statBuffer'[i] = statBuffer[i]
    BY <1>1, <1>2, <1>4, <2>1 DEF Store
  <2> QED  BY <1>1, <2>1, <2>2
<1>5. CASE sendStats(t)
  BY <1>1, <1>5 DEF sendStats, buffer
<1>6. CASE SendNext(t)
  BY <1>1, <1>6 DEF SendNext
<1>7. CASE Clear(t)
  BY <1>1, <1>2, <1>7 DEF Clear, Spares
<1>8. CASE ClearSize(t)
  BY <1>1, <1>2, <1>8 DEF ClearSize, Spares
<1> QED  BY <1>3, <1>4, <1>5, <1>6, <1>7, <1>8 DEF AtWork

(* No step but of a thread at the buffer changes it. *)
LEMMA OnlyAtWork ==
  ASSUME Next, ~UNCHANGED buffer
  PROVE  \E t \in Threads : AtWork(t)
<1>1. CASE Reader \/ Timer \/ RestOfCallback
  BY <1>1 DEF Reader, Opened, onOpen, Timer, Tick, Fetched, RestOfCallback, StartTimer, stopTimer,
              Summary, KeepLast
<1>2. CASE Callback
  BY <1>2 DEF Callback, Progress, Answered, Ended
<1>3. CASE Feedback \/ Environment
  BY <1>3 DEF Feedback, sendFeedbackStats, SubmitFeedback, Environment, GotKey, Begin, Lost
<1> QED  BY <1>1, <1>2, <1>3 DEF Next, Buffer

(* However many threads, clients and lost connections there are, and       *)
(* however their steps at the buffer interleave, an event that was added   *)
(* while no other thread was there keeps its place until it was sent.      *)
THEOREM LossOnlyByRaceCorrect == Spec => LossOnlyByRace
<1>1. IInv /\ [Next]_vars => [KeepsAlone]_vars
  <2> SUFFICES ASSUME IInv, Next  PROVE KeepsAlone
    OBVIOUS
  <2>1. CASE UNCHANGED buffer
    BY <2>1 DEF KeepsAlone, buffer
  <2>2. CASE ~UNCHANGED buffer
    BY <2>2, OnlyAtWork, KeepsAtWork
  <2> QED  BY <2>1, <2>2
<1> QED  BY <1>1, Invariance, PTL DEF Spec, LossOnlyByRace, KeepsAlone

-----------------------------------------------------------------------------
(* The timer.                                                              *)

(* The timer of a call that lasts is the one made last, because calls come *)
(* one after the other and a timer is only made for one that was answered. *)
TimerInv ==
  /\ \A c \in Calls : phase[c] \in {"none", "begun"} => c \notin running
  /\ \A c \in Calls : phase[c] = "answered" /\ c \in running => timer = c
  /\ \A c, d \in Calls :
       phase[c] \in {"begun", "answered"} /\ phase[d] \in {"begun", "answered"} => c = d
  /\ signallingStats # None => phase[signallingStats] # "none"
  /\ handler.at = "startTimer" =>
       handler.call \in Calls /\ phase[handler.call] = "answered" /\ handler.call \notin running
  /\ handler.at = "stopTimer" /\ handler.call \in running => timer = handler.call
  /\ HangupStopsTimer

TimerVars == <<timer, running, phase, signallingStats, handler>>

(* The steps it is about. *)
LEMMA TimerSteps ==
  ASSUME [Next]_vars
  PROVE  \/ UNCHANGED TimerVars
         \/ \E c \in Calls : Begin(c) \/ Answered(c) \/ \E end \in Ends : Ended(c, end)
         \/ StartTimer \/ stopTimer \/ Summary \/ KeepLast
<1> USE DEF TimerVars, insights, signalling
<1>1. CASE Buffer \/ Reader
  BY <1>1 DEF Buffer, AtWork, Reader, WriteSize, Store, sendStats, SendNext, Clear, ClearSize,
              Opened, onOpen
<1>2. CASE Timer \/ Feedback
  BY <1>2 DEF Timer, Feedback, Tick, Fetched, sendFeedbackStats, SubmitFeedback
<1>3. CASE Callback \/ RestOfCallback
  BY <1>3 DEF Callback, Progress, RestOfCallback
<1>4. CASE Environment
  BY <1>4 DEF Environment, GotKey, Lost
<1>5. CASE UNCHANGED vars
  BY <1>5 DEF vars
<1> QED  BY <1>1, <1>2, <1>3, <1>4, <1>5 DEF Next

LEMMA TimerInvariance == Spec => []TimerInv
<1>1. Init => TimerInv
  BY DEF Init, TimerInv, HangupStopsTimer, NoHandler
<1>2. RestOK /\ HandlerOK /\ TimerInv /\ [Next]_vars => TimerInv'
  <2> SUFFICES ASSUME RestOK, HandlerOK, TimerInv, [Next]_vars PROVE TimerInv'
    OBVIOUS
  <2> USE Distinct DEF RestOK, HandlerOK, TimerInv, HangupStopsTimer
  <2>1. CASE UNCHANGED TimerVars
    BY <2>1 DEF TimerVars
  <2>2. ASSUME NEW c \in Calls, Begin(c) PROVE TimerInv'
    BY <2>2 DEF Begin, insights
  <2>3. ASSUME NEW c \in Calls, Answered(c) PROVE TimerInv'
    <3>1. /\ phase[c] = "begun" /\ phase' = [phase EXCEPT ![c] = "answered"]
          /\ UNCHANGED <<timer, running, signallingStats>>
          /\ handler' = handler \/ handler' = [NoHandler EXCEPT !.at = "startTimer", !.call = c]
          /\ handler = NoHandler
      BY <2>3 DEF Answered, insights, signalling
    <3>2. CASE handler' = handler
      BY <3>1, <3>2, HandlerType
    <3>3. ASSUME handler' = [NoHandler EXCEPT !.at = "startTimer", !.call = c] PROVE TimerInv'
      <4>1. handler'.at = "startTimer" /\ handler'.call = c
        BY <3>3 DEF NoHandler
      <4>2. c \notin running /\ phase'[c] = "answered"
        BY <3>1
      <4>3. \A d \in Calls : d # c => phase'[d] = phase[d] /\ phase[d] \notin {"begun", "answered"}
        BY <3>1
      <4>4. QED
        BY <3>1, <4>1, <4>2, <4>3
    <3>4. QED
      BY <3>1, <3>2, <3>3
  <2>4. ASSUME NEW c \in Calls, NEW end \in Ends, Ended(c, end) PROVE TimerInv'
    BY <2>4 DEF Ended, insights, signalling
  <2>5. CASE StartTimer
    <3>1. /\ handler.at = "startTimer" /\ handler' = NoHandler
          /\ timer' = signallingStats /\ running' = running \cup {signallingStats}
          /\ UNCHANGED <<phase, signallingStats>>
      BY <2>5 DEF StartTimer, signalling
    <3>2. phase[signallingStats] = "over" \/ signallingStats = handler.call
      BY <3>1
    <3>3. handler'.at = "none" /\ handler'.call = None
      BY <3>1 DEF NoHandler
    <3>4. \A c \in Calls : phase[c] = "answered" => c = handler.call
      BY <3>1
    <3>5. \A c \in Calls : phase[c] = "begun" => c \notin running'
      BY <3>1, <3>2
    <3>6. QED
      BY <3>1, <3>2, <3>3, <3>4, <3>5
  <2>6. CASE stopTimer
    <3>1. /\ handler.at = "stopTimer" /\ handler' = [handler EXCEPT !.at = "summary"]
          /\ running' = running \ {timer} /\ UNCHANGED <<timer, phase, signallingStats>>
      BY <2>6 DEF stopTimer, signalling
    <3>2. handler'.at = "summary" /\ handler'.call = handler.call /\ handler'.end = handler.end
      BY <3>1
    <3>3. handler.call \notin running'
      BY <3>1
    <3>4. QED
      BY <3>1, <3>2, <3>3
  <2>7. CASE Summary
    <3>1. /\ handler.at = "summary" /\ (handler' = NoHandler \/ handler' = Summarised)
          /\ UNCHANGED <<timer, running, phase, signallingStats>>
      BY <2>7 DEF Summary, insights
    <3>2. QED
      BY <3>1 DEF NoHandler, Summarised
  <2>8. CASE KeepLast
    BY <2>8 DEF KeepLast, insights, NoHandler
  <2> QED  BY <2>1, <2>2, <2>3, <2>4, <2>5, <2>6, <2>7, <2>8, TimerSteps
<1> QED  BY <1>1, <1>2, Invariance, PTL DEF Spec

(* A hangup stops its own call's timer, for any number of calls whose      *)
(* beginnings and ends overlap, and whatever signallingStats is by then.   *)
THEOREM HangupStopsTimerCorrect == Spec => []HangupStopsTimer
<1>1. TimerInv => HangupStopsTimer
  BY DEF TimerInv
<1> QED  BY <1>1, TimerInvariance, PTL

-----------------------------------------------------------------------------
(* Whose identifier an event carries.                                      *)

(* While a call lasts signallingStats is its own, or was taken away by the *)
(* end of the one before; and the end that is worked off finds its own, or *)
(* that of the call begun meanwhile. *)
Current ==
  /\ \A c \in Calls : phase[c] \in {"begun", "answered"} => signallingStats \in {c, None}
  /\ handler.at = "startTimer" => signallingStats = handler.call
  /\ handler # NoHandler =>
       \/ signallingStats \in {handler.call, None}
       \/ /\ signallingStats \in crowded /\ handler.call \in crowded
          /\ phase[signallingStats] = "begun"

(* Statistics are fetched for calls that were answered. *)
Fetching ==
  \A c \in Calls : c \in running \/ thread[c].at = "fetch" => phase[c] \in {"answered", "over"}

(* Another call's identifier is only ever given to a call that was begun   *)
(* while that other's end was worked off; it is given up before any event  *)
(* of the call is made.                                                    *)
Borrowed ==
  \A d \in Calls : xcallUUID[d] \notin {d, None} =>
    /\ d \in crowded /\ d \notin running /\ thread[d].at # "fetch"
    /\ signallingStats = d => handler.at = "summarised"

(* A feedback that nothing disturbed is still found by its identifier. *)
Quiet ==
  feedback # None /\ feedback.quiet =>
    \/ feedback.of = lastXCallUUID \/ signallingStats = None
    \/ xcallUUID[signallingStats] = feedback.of

OwnInv == Current /\ Fetching /\ Borrowed /\ Quiet

Tracked == <<running, signalling, phase, handler, feedback, crowded>>

(* No thread comes to fetch. *)
NoFetch == \A c \in Calls : thread'[c].at = "fetch" => thread[c].at = "fetch"

LEMMA ComersNoFetch ==
  ASSUME BufferOK, NEW t \in Threads, NEW th, th.at # "fetch", NEW counts \in BOOLEAN,
         Comes(t, th, counts)
  PROVE  NoFetch
BY Comers, Distinct DEF NoFetch, Kept

LEMMA AddNoFetch ==
  ASSUME BufferOK, NEW t \in Threads, NEW by, NEW x, NEW sure, Add(t, by, x, sure)
  PROVE  NoFetch
BY ComersNoFetch DEF Add

LEMMA ThreadNoFetch ==
  ASSUME BufferOK, NEW t \in Threads, NEW th, th.at # "fetch", thread' = [thread EXCEPT ![t] = th]
  PROVE  NoFetch
BY Distinct DEF BufferOK, NoFetch

LEMMA BeginNoFetch ==
  ASSUME BufferOK, NEW t \in Threads, BeginFlush(t)
  PROVE  NoFetch
<1>1. [Idle EXCEPT !.at = "flush", !.limit = size].at # "fetch"
  BY DEF Idle
<1> QED  BY <1>1, ComersNoFetch DEF BeginFlush

(* The steps that touch none of it. *)
Calm == UNCHANGED Tracked /\ NoFetch

LEMMA CalmSteps ==
  ASSUME BufferOK,
         \/ Buffer \/ Reader \/ GotKey \/ (\E j \in Clients : Lost(j))
         \/ (\E c \in Calls : Fetched(c))
  PROVE  Calm
<1> USE Distinct, IdleType DEF Tracked, insights, signalling, books
<1>1. ASSUME NEW t \in Threads, sendStats(t)  PROVE Calm
  <2>1. CASE thread' = [thread EXCEPT ![t] = Idle]
    BY <1>1, <2>1, ThreadNoFetch DEF sendStats, Calm
  <2>2. CASE BeginFlush(t)
    <3>1. NoFetch
      BY <2>2, BeginNoFetch
    <3> QED  BY <1>1, <3>1 DEF sendStats, Calm
  <2> QED  BY <1>1, <2>1, <2>2 DEF sendStats
<1>2. ASSUME NEW t \in Threads, SendNext(t)  PROVE Calm
  <2>1. CASE thread' = [thread EXCEPT ![t].next = @ + 1]
    <3>1. \A u \in Threads : thread'[u].at = thread[u].at
      BY <2>1 DEF BufferOK, ThreadType
    <3> QED  BY <1>2, <3>1 DEF SendNext, Calm, NoFetch
  <2>2. CASE thread' = [thread EXCEPT ![t] = Idle]
    BY <1>2, <2>2, ThreadNoFetch DEF SendNext, Calm
  <2> QED  BY <1>2, <2>1, <2>2 DEF SendNext
<1>3. ASSUME NEW t \in Threads, Clear(t)  PROVE Calm
  <2>1. [Idle EXCEPT !.at = "clear"].at # "fetch"
    BY DEF Idle
  <2>2. NoFetch
    BY <1>3, <2>1, ComersNoFetch DEF Clear
  <2> QED  BY <1>3, <2>2 DEF Clear, Calm
<1>9. ASSUME NEW t \in Threads, WriteSize(t) \/ Store(t) \/ ClearSize(t)  PROVE Calm
  <2>1. PICK th : th.at # "fetch" /\ thread' = [thread EXCEPT ![t] = th]
    <3>1. CASE WriteSize(t)
      <4>1. [thread[t] EXCEPT !.at = "store"].at = "store"
        BY DEF BufferOK, ThreadType
      <4>2. thread' = [thread EXCEPT ![t] = [thread[t] EXCEPT !.at = "store"]]
        BY <3>1 DEF WriteSize
      <4> QED  BY <4>1, <4>2
    <3>2. CASE Store(t)
      <4> DEFINE a == IF thread[t].event.x = None THEN "idle" ELSE "send"
      <4>1. [Idle EXCEPT !.at = a].at # "fetch"
        BY DEF Idle
      <4>2. thread' = [thread EXCEPT ![t] = [Idle EXCEPT !.at = a]]
        BY <3>2 DEF Store
      <4> QED  BY <4>1, <4>2
    <3>3. CASE ClearSize(t)
      BY <3>3 DEF ClearSize
    <3> QED  BY <1>9, <3>1, <3>2, <3>3
  <2>2. NoFetch
    BY <2>1, ThreadNoFetch
  <2> QED  BY <1>9, <2>2 DEF WriteSize, Store, ClearSize, Calm
<1>4. ASSUME NEW j \in Clients, Opened(j)  PROVE Calm
  <2>1. thread' = [thread EXCEPT ![j].at = "onOpen"]
    BY <1>4 DEF Opened
  <2>2. NoFetch
    BY <2>1 DEF BufferOK, ThreadType, NoFetch
  <2> QED  BY <1>4, <2>2 DEF Opened, Calm
<1>5. ASSUME NEW j \in Clients, onOpen(j)  PROVE Calm
  <2>1. NoFetch
    BY <1>5, BeginNoFetch DEF onOpen
  <2> QED  BY <1>5, <2>1 DEF onOpen, Calm
<1>6. ASSUME NEW j \in Clients, Lost(j)  PROVE Calm
  BY <1>6 DEF Lost, Calm, NoFetch
<1>7. CASE GotKey
  BY <1>7 DEF GotKey, Calm, NoFetch
<1>8. ASSUME NEW c \in Calls, Fetched(c)  PROVE Calm
  <2>1. NoFetch
    <3>1. CASE Add(c, c, xcallUUID[c], TRUE)
      BY <3>1, AddNoFetch
    <3>2. CASE thread' = [thread EXCEPT ![c] = Idle]
      BY <3>2, ThreadNoFetch
    <3> QED  BY <1>8, <3>1, <3>2 DEF Fetched
  <2> QED  BY <1>8, <2>1 DEF Fetched, Calm
<1> QED  BY <1>1, <1>2, <1>3, <1>4, <1>5, <1>6, <1>7, <1>8, <1>9 DEF Buffer, AtWork, Reader

LEMMA CalmOwn ==
  ASSUME RestOK, TimerInv, OwnInv, Calm
  PROVE  OwnInv'
BY DEF OwnInv, Current, Fetching, Borrowed, Quiet, Calm, NoFetch, Tracked, signalling

(* What a call can bring is its own identifier, and none that is there     *)
(* already is changed by it. *)
LEMMA Identifiers ==
  ASSUME RestOK, NEW s \in Calls, NEW c \in Calls, setXCallUUID(s, c)
  PROVE  /\ \A d \in Calls : d # s => xcallUUID'[d] = xcallUUID[d]
         /\ xcallUUID[s] # None => xcallUUID'[s] = xcallUUID[s]
         /\ xcallUUID'[s] \in {xcallUUID[s], None, c}
BY DEF RestOK, setXCallUUID

(* A call begins, and another's end may be worked off meanwhile. *)
LEMMA BeginOwn ==
  ASSUME RestOK, HandlerOK, TimerInv, OwnInv, NEW c \in Calls, Begin(c)
  PROVE  OwnInv'
<1> USE Distinct
<1>1. /\ phase[c] = "none" /\ \A d \in Calls : phase[d] \in {"none", "over"}
      /\ phase' = [phase EXCEPT ![c] = "begun"] /\ signallingStats' = c
      /\ crowded' = IF handler = NoHandler THEN crowded ELSE crowded \cup {c, handler.call}
      /\ feedback' = Disturb
      /\ UNCHANGED <<running, lastXCallUUID, handler, thread>>
  BY DEF Begin, insights
<1>2. /\ xcallUUID'[c] \in {c, None}
      /\ \A d \in Calls : d # c => xcallUUID'[d] = xcallUUID[d]
  BY DEF Begin, RestOK
<1>3. Current'
  <2>1. handler.at # "startTimer"
    BY <1>1 DEF TimerInv
  <2>2. handler # NoHandler => handler.call \in Calls
    BY DEF HandlerOK
  <2>3. phase'[c] = "begun" /\ \A d \in Calls : d # c => phase'[d] \in {"none", "over"}
    BY <1>1 DEF RestOK
  <2> QED  BY <1>1, <2>1, <2>2, <2>3 DEF Current
<1>4. Fetching'
  BY <1>1 DEF RestOK, OwnInv, Fetching
<1>5. Borrowed'
  BY <1>1, <1>2 DEF OwnInv, Borrowed
<1>6. Quiet'
  <2>1. feedback' # None => ~feedback'.quiet
    BY <1>1 DEF Disturb, RestOK
  <2> QED  BY <2>1 DEF Quiet
<1> QED  BY <1>3, <1>4, <1>5, <1>6 DEF OwnInv

(* The callbacks. *)
LEMMA CallbackOwn ==
  ASSUME BufferOK, RestOK, HandlerOK, TimerInv, OwnInv, NEW c \in Calls,
         Progress(c) \/ Answered(c) \/ \E end \in Ends : Ended(c, end)
  PROVE  OwnInv'
<1> USE Distinct, HandlerType
<1>1. CASE Progress(c)
  <2>1. /\ phase[c] = "begun" /\ handler = NoHandler
        /\ UNCHANGED <<running, signallingStats, lastXCallUUID, phase, handler, thread, feedback,
                       crowded>>
    BY <1>1 DEF Progress, insights, books
  <2>2. CASE UNCHANGED xcallUUID
    BY <2>1, <2>2 DEF OwnInv, Current, Fetching, Borrowed, Quiet
  <2>3. CASE signallingStats # None /\ setXCallUUID(signallingStats, c)
    <3>1. signallingStats = c
      BY <2>1, <2>3 DEF OwnInv, Current
    <3>2. /\ \A d \in Calls : d # c => xcallUUID'[d] = xcallUUID[d]
          /\ xcallUUID[c] # None => xcallUUID'[c] = xcallUUID[c]
          /\ xcallUUID'[c] \in {xcallUUID[c], None, c}
      BY <2>3, <3>1, Identifiers
    <3>3. Borrowed'
      BY <2>1, <3>2 DEF OwnInv, Borrowed
    <3>4. Quiet'
      BY <2>1, <3>1, <3>2 DEF RestOK, OwnInv, Quiet
    <3> QED  BY <2>1, <3>3, <3>4 DEF OwnInv, Current, Fetching
  <2> QED  BY <1>1, <2>2, <2>3 DEF Progress
<1>2. CASE Answered(c)
  <2>1. /\ phase[c] = "begun" /\ handler = NoHandler
        /\ phase' = [phase EXCEPT ![c] = "answered"]
        /\ UNCHANGED <<running, signalling, feedback, crowded>>
    BY <1>2 DEF Answered, insights, books
  <2>2. NoFetch
    BY <1>2, AddNoFetch DEF Answered, NoFetch
  <2>3. \A d \in Calls : phase'[d] \in {"begun", "answered"} => phase[d] \in {"begun", "answered"}
    BY <2>1 DEF RestOK
  <2>4. \/ handler' = NoHandler
        \/ /\ signallingStats = c /\ handler'.at = "startTimer" /\ handler'.call = c
    <3>1. signallingStats \in {c, None}
      BY <2>1 DEF OwnInv, Current
    <3> QED  BY <1>2, <2>1, <3>1 DEF Answered, NoHandler
  <2>5. Current'
    BY <2>1, <2>3, <2>4 DEF OwnInv, Current, signalling
  <2>6. Fetching'
    BY <2>1, <2>2 DEF RestOK, OwnInv, Fetching, NoFetch
  <2>7. Borrowed' /\ Quiet'
    BY <2>1, <2>2 DEF OwnInv, Borrowed, Quiet, NoFetch, signalling
  <2> QED  BY <2>5, <2>6, <2>7 DEF OwnInv
<1>3. ASSUME NEW end \in Ends, Ended(c, end)  PROVE OwnInv'
  <2>1. /\ phase[c] \in {"begun", "answered"} /\ handler = NoHandler
        /\ phase' = [phase EXCEPT ![c] = "over"]
        /\ handler'.at \in {"stopTimer", "summary"} /\ handler'.call = c
        /\ feedback' = Disturb
        /\ UNCHANGED <<running, signalling, thread, crowded>>
    BY <1>3 DEF Ended, insights
  <2>2. signallingStats \in {c, None}
    BY <2>1 DEF OwnInv, Current
  <2>3. Current'
    BY <2>1, <2>2 DEF RestOK, OwnInv, Current, signalling
  <2>4. Fetching'
    BY <2>1 DEF RestOK, OwnInv, Fetching
  <2>5. Borrowed'
    BY <2>1 DEF OwnInv, Borrowed, signalling
  <2>6. Quiet'
    <3>1. feedback' # None => ~feedback'.quiet
      BY <2>1 DEF Disturb, RestOK
    <3> QED  BY <3>1 DEF Quiet
  <2> QED  BY <2>3, <2>4, <2>5, <2>6 DEF OwnInv
<1> QED  BY <1>1, <1>2, <1>3

(* The rest of a callback. *)
LEMMA RestOfCallbackOwn ==
  ASSUME BufferOK, RestOK, HandlerOK, TimerInv, OwnInv, RestOfCallback
  PROVE  OwnInv'
<1> USE Distinct, HandlerType
<1>1. CASE StartTimer
  <2>1. /\ handler.at = "startTimer" /\ handler' = NoHandler
        /\ running' = running \cup {signallingStats}
        /\ UNCHANGED <<signalling, phase, thread, feedback, crowded>>
    BY <1>1 DEF StartTimer, books
  <2>2. signallingStats = handler.call /\ signallingStats \in Calls
        /\ phase[signallingStats] = "answered"
    BY <2>1 DEF OwnInv, Current, TimerInv
  <2>3. Current' /\ Fetching' /\ Quiet'
    BY <2>1, <2>2 DEF OwnInv, Current, Fetching, Quiet, signalling
  <2>4. Borrowed'
    BY <2>1, <2>2 DEF OwnInv, Borrowed, signalling
  <2> QED  BY <2>3, <2>4 DEF OwnInv
<1>2. CASE stopTimer
  <2>1. /\ handler.at = "stopTimer" /\ handler' = [handler EXCEPT !.at = "summary"]
        /\ running' = running \ {timer}
        /\ UNCHANGED <<signalling, phase, thread, feedback, crowded>>
    BY <1>2 DEF stopTimer, books
  <2>2. handler'.at = "summary" /\ handler'.call = handler.call
    BY <2>1 DEF RestOK
  <2>3. handler # NoHandler
    BY <2>1
  <2> QED  BY <2>1, <2>2, <2>3 DEF OwnInv, Current, Fetching, Borrowed, Quiet, signalling
<1>3. CASE Summary
  <2>1. /\ handler.at = "summary"
        /\ UNCHANGED <<running, signallingStats, lastXCallUUID, phase, feedback, crowded>>
    BY <1>3 DEF Summary, insights, books
  <2>2. handler # NoHandler /\ handler.call \in Calls
    BY <2>1 DEF HandlerOK
  <2>3. NoFetch
    BY <1>3, AddNoFetch DEF Summary, NoFetch
  <2>4. CASE signallingStats = None
    <3>1. handler' = NoHandler /\ UNCHANGED xcallUUID
      BY <1>3, <2>4 DEF Summary
    <3> QED  BY <2>1, <2>3, <2>4, <3>1
             DEF OwnInv, Current, Fetching, Borrowed, Quiet, NoFetch
  <2>5. CASE signallingStats # None
    <3> DEFINE c == handler.call
               s == signallingStats
    <3>1. s \in Calls /\ handler'.at = "summarised" /\ handler'.call = c
      BY <1>3, <2>5 DEF Summary, Summarised, RestOK
    <3>2. /\ \A d \in Calls : d # s => xcallUUID'[d] = xcallUUID[d]
          /\ xcallUUID[s] # None => xcallUUID'[s] = xcallUUID[s]
          /\ xcallUUID'[s] \in {xcallUUID[s], None, c}
      BY <1>3, <2>2, <2>5, <3>1, Identifiers DEF Summary
    <3>3. s = c \/ (s \in crowded /\ c \in crowded /\ phase[s] = "begun")
      BY <2>2, <2>5 DEF OwnInv, Current
    <3>4. Current'
      BY <2>1, <2>2, <3>1, <3>3 DEF OwnInv, Current
    <3>5. Fetching'
      BY <2>1, <2>3 DEF OwnInv, Fetching, NoFetch
    <3>6. Borrowed'
      <4>1. ASSUME NEW d \in Calls, xcallUUID'[d] \notin {d, None}
            PROVE  /\ d \in crowded /\ d \notin running /\ thread'[d].at # "fetch"
        <5>1. CASE xcallUUID[d] \notin {d, None}
          BY <2>3, <5>1 DEF OwnInv, Borrowed, NoFetch
        <5>2. CASE xcallUUID[d] \in {d, None}
          <6>1. d = s /\ s # c
            BY <3>2, <4>1, <5>2
          <6>2. s \in crowded /\ phase[s] = "begun"
            BY <3>3, <6>1
          <6> QED  BY <2>3, <6>1, <6>2 DEF OwnInv, Fetching, NoFetch
        <5> QED  BY <5>1, <5>2
      <4> QED  BY <2>1, <3>1, <4>1 DEF Borrowed
    <3>7. Quiet'
      BY <2>1, <3>1, <3>2 DEF RestOK, OwnInv, Quiet
    <3> QED  BY <3>4, <3>5, <3>6, <3>7 DEF OwnInv
  <2> QED  BY <2>4, <2>5
<1>4. CASE KeepLast
  <2>1. /\ handler' = NoHandler /\ signallingStats' = None
        /\ UNCHANGED <<running, xcallUUID, phase, thread, feedback, crowded>>
    BY <1>4 DEF KeepLast, insights, books
  <2> QED  BY <2>1 DEF OwnInv, Current, Fetching, Borrowed, Quiet
<1> QED  BY <1>1, <1>2, <1>3, <1>4 DEF RestOfCallback

(* The timer's ticks and the feedback. *)
LEMMA TickOwn ==
  ASSUME BufferOK, RestOK, TimerInv, OwnInv, NEW c \in Calls, Tick(c)
  PROVE  OwnInv'
<1>1. /\ c \in running /\ thread' = [thread EXCEPT ![c].at = "fetch"]
      /\ UNCHANGED <<running, signalling, phase, handler, feedback, crowded>>
  BY DEF Tick, insights
<1>2. \A d \in Calls : d # c => thread'[d] = thread[d]
  BY <1>1, Distinct DEF BufferOK
<1>3. Current' /\ Quiet'
  BY <1>1 DEF OwnInv, Current, Quiet, signalling
<1>4. Fetching' /\ Borrowed'
  BY <1>1, <1>2 DEF OwnInv, Fetching, Borrowed, signalling
<1> QED  BY <1>3, <1>4 DEF OwnInv

LEMMA FeedbackOwn ==
  ASSUME BufferOK, RestOK, OwnInv, Feedback
  PROVE  OwnInv'
<1>1. CASE sendFeedbackStats
  <2>1. NoFetch
    BY <1>1, AddNoFetch, Distinct DEF sendFeedbackStats, NoFetch
  <2>2. feedback' = None /\ UNCHANGED <<running, signalling, phase, handler, crowded>>
    BY <1>1 DEF sendFeedbackStats, insights
  <2> QED  BY <2>1, <2>2 DEF OwnInv, Current, Fetching, Borrowed, Quiet, NoFetch, signalling
<1>2. ASSUME NEW c \in Calls, NEW copied \in BOOLEAN, SubmitFeedback(c, copied)
      PROVE  OwnInv'
  <2>1. /\ c = lastXCallUUID \/ (signallingStats # None /\ c = xcallUUID[signallingStats])
        /\ feedback'.of = c
        /\ UNCHANGED <<running, signalling, phase, handler, thread, crowded>>
    BY <1>2 DEF SubmitFeedback, insights
  <2> QED  BY <2>1 DEF OwnInv, Current, Fetching, Borrowed, Quiet, signalling
<1> QED  BY <1>1, <1>2 DEF Feedback

-----------------------------------------------------------------------------
(* The events.                                                             *)

(* So is that of an event that a thread is about to store. *)
OwnAdder(t) ==
  LET e == thread[t].event IN thread[t].at \in Adding /\ e.sure => e.x \in {e.by, None}

OwnEvents == EventsAreOwn /\ \A t \in Threads : OwnAdder(t)

(* No thread comes to add. *)
NoAdd ==
  \A u \in Threads :
    thread'[u].at \in Adding => thread[u].at \in Adding /\ thread'[u].event = thread[u].event

LEMMA NoAddOwn ==
  ASSUME OwnEvents, UNCHANGED statBuffer, NoAdd
  PROVE  OwnEvents'
BY DEF OwnEvents, EventsAreOwn, OwnAdder, NoAdd

LEMMA ComersNoAdd ==
  ASSUME BufferOK, NEW t \in Threads, NEW th, th.at \notin Adding, NEW counts \in BOOLEAN,
         Comes(t, th, counts)
  PROVE  NoAdd
BY Comers DEF NoAdd, Kept

LEMMA ThreadNoAdd ==
  ASSUME BufferOK, NEW t \in Threads, NEW th, th.at \notin Adding,
         thread' = [thread EXCEPT ![t] = th]
  PROVE  NoAdd
BY Movers DEF NoAdd

LEMMA BeginNoAdd ==
  ASSUME BufferOK, NEW t \in Threads, BeginFlush(t)
  PROVE  NoAdd
<1>1. [Idle EXCEPT !.at = "flush", !.limit = size].at \notin Adding
  BY DEF Idle, Adding
<1> QED  BY <1>1, ComersNoAdd DEF BeginFlush

LEMMA AtNoAdd ==
  ASSUME BufferOK, NEW t \in Threads, NEW a \in {"fetch", "onOpen"},
         thread' = [thread EXCEPT ![t].at = a]
  PROVE  NoAdd
<1>1. [thread[t] EXCEPT !.at = a].at = a
  BY DEF BufferOK, ThreadType
<1>2. thread' = [thread EXCEPT ![t] = [thread[t] EXCEPT !.at = a]]
  OBVIOUS
<1> QED  BY <1>1, <1>2, ThreadNoAdd DEF Adding

(* An event is added whose identifier is its call's own. *)
LEMMA AddsOwn ==
  ASSUME BufferOK, OwnEvents, NEW t \in Threads, NEW by, NEW x, NEW sure,
         sure => x \in {by, None}, UNCHANGED statBuffer, Add(t, by, x, sure)
  PROVE  OwnEvents'
<1> DEFINE e == [by |-> by, x |-> x, sure |-> sure, sent |-> FALSE, raced |-> FALSE]
           th == [at |-> "size", next |-> size, limit |-> size, stale |-> FALSE, event |-> e,
                  raced |-> AtBuffer # {}]
<1>1. th.event = e /\ e.by = by /\ e.x = x /\ e.sure = sure /\ Comes(t, th, TRUE)
  BY DEF Add
<1> HIDE DEF e, th
<1>2. thread'[t] = th /\ \A u \in Threads : u # t => Kept(u)
  BY <1>1, Comers
<1>3. ASSUME NEW u \in Threads  PROVE OwnAdder(u)'
  BY <1>1, <1>2 DEF OwnEvents, OwnAdder, Kept
<1> QED  BY <1>3 DEF OwnEvents, EventsAreOwn

(* It is stored, and the buffer is walked through or cleared. *)
LEMMA BufferOwn ==
  ASSUME BufferOK, OwnEvents, NEW t \in Threads, AtWork(t)
  PROVE  OwnEvents'
<1>1. CASE WriteSize(t)
  <2> DEFINE th == [thread[t] EXCEPT !.at = "store"]
  <2>1. thread[t].at = "size" /\ thread' = [thread EXCEPT ![t] = th]
    BY <1>1 DEF WriteSize
  <2>2. th.event = thread[t].event
    BY DEF BufferOK, ThreadType
  <2> HIDE DEF th
  <2>3. thread'[t] = th /\ \A u \in Threads : u # t => thread'[u] = thread[u]
    BY <2>1, Movers
  <2>4. ASSUME NEW u \in Threads  PROVE OwnAdder(u)'
    BY <2>1, <2>2, <2>3 DEF OwnEvents, OwnAdder, Adding
  <2>5. statBuffer' = statBuffer \/ statBuffer' = Append(statBuffer, None)
    BY <1>1 DEF WriteSize
  <2>6. \A i \in DOMAIN statBuffer' :
          (i \in DOMAIN statBuffer /\ statBuffer'[i] = statBuffer[i]) \/ statBuffer'[i] = None
    BY <2>5 DEF BufferOK
  <2>7. EventsAreOwn'
    BY <2>6 DEF OwnEvents, EventsAreOwn
  <2> QED  BY <2>4, <2>7 DEF OwnEvents
<1>2. CASE Store(t)
  <2> DEFINE e == [thread[t].event EXCEPT !.raced = thread[t].raced]
             a == IF thread[t].event.x = None THEN "idle" ELSE "send"
             th == [Idle EXCEPT !.at = a]
  <2>1. /\ thread[t].at = "store" /\ thread' = [thread EXCEPT ![t] = th]
        /\ statBuffer' = [statBuffer EXCEPT ![thread[t].next + 1] = e] \/ UNCHANGED statBuffer
    BY <1>2 DEF Store
  <2>2. th.at \notin Adding
    BY DEF Idle, Adding
  <2>3. thread[t].event \in Event
    BY <2>1 DEF BufferOK, Within, Adding
  <2>4. e.by = thread[t].event.by /\ e.x = thread[t].event.x /\ e.sure = thread[t].event.sure
    BY <2>3 DEF Event
  <2>5. OwnAdder(t)
    BY DEF OwnEvents
  <2>6. e.sure => e.x \in {e.by, None}
    BY <2>1, <2>4, <2>5 DEF OwnAdder, Adding
  <2> HIDE DEF e, a, th
  <2>7. NoAdd
    BY <2>1, <2>2, ThreadNoAdd
  <2>8. \A i \in DOMAIN statBuffer' :
          i \in DOMAIN statBuffer /\ statBuffer'[i] \in {statBuffer[i], e}
    BY <2>1 DEF BufferOK
  <2>9. EventsAreOwn'
    BY <2>6, <2>8 DEF OwnEvents, EventsAreOwn
  <2> QED  BY <2>7, <2>9 DEF OwnEvents, OwnAdder, NoAdd
<1>3. CASE sendStats(t)
  <2>1. UNCHANGED statBuffer
    BY <1>3 DEF sendStats, buffer
  <2>2. NoAdd
    <3>1. CASE thread' = [thread EXCEPT ![t] = Idle]
      BY <3>1, ThreadNoAdd, IdleType DEF Adding
    <3>2. CASE BeginFlush(t)
      BY <3>2, BeginNoAdd
    <3> QED  BY <1>3, <3>1, <3>2 DEF sendStats
  <2> QED  BY <2>1, <2>2, NoAddOwn
<1>4. CASE SendNext(t)
  <2> DEFINE n == thread[t].next + 1
  <2>1. CASE statBuffer[n] # None /\ statBuffer' = [statBuffer EXCEPT ![n].sent = TRUE]
             /\ thread' = [thread EXCEPT ![t].next = @ + 1]
    <3>1. \A i \in DOMAIN statBuffer' : i \in DOMAIN statBuffer
      BY <2>1
    <3>2. ASSUME NEW i \in DOMAIN statBuffer, statBuffer'[i] # statBuffer[i]
          PROVE  /\ statBuffer'[i].sure = statBuffer[i].sure
                 /\ statBuffer'[i].by = statBuffer[i].by /\ statBuffer'[i].x = statBuffer[i].x
                 /\ statBuffer[i] # None
      <4>1. i = n /\ statBuffer'[i] = [statBuffer[i] EXCEPT !.sent = TRUE]
        BY <2>1, <3>2 DEF BufferOK
      <4>2. statBuffer[i] \in Event
        BY <2>1, <4>1 DEF BufferOK
      <4> QED  BY <2>1, <4>1, <4>2 DEF Event
    <3>3. EventsAreOwn'
      BY <3>1, <3>2 DEF OwnEvents, EventsAreOwn
    <3>4. \A u \in Threads : thread'[u].at = thread[u].at /\ thread'[u].event = thread[u].event
      BY <2>1 DEF BufferOK, ThreadType
    <3> QED  BY <3>3, <3>4 DEF OwnEvents, OwnAdder
  <2>2. CASE UNCHANGED statBuffer /\ thread' = [thread EXCEPT ![t] = Idle]
    BY <2>2, ThreadNoAdd, NoAddOwn, IdleType DEF Adding
  <2> QED  BY <1>4, <2>1, <2>2 DEF SendNext
<1>5. CASE Clear(t)
  <2>1. [Idle EXCEPT !.at = "clear"].at \notin Adding
    BY DEF Idle, Adding
  <2>2. NoAdd
    BY <1>5, <2>1, ComersNoAdd DEF Clear
  <2>3. \A i \in DOMAIN statBuffer' :
          i \in DOMAIN statBuffer /\ statBuffer'[i] \in {statBuffer[i], None}
    BY <1>5 DEF Clear, Emptied
  <2>4. EventsAreOwn'
    BY <2>3 DEF OwnEvents, EventsAreOwn
  <2> QED  BY <2>2, <2>4 DEF OwnEvents, OwnAdder, NoAdd
<1>6. CASE ClearSize(t)
  BY <1>6, ThreadNoAdd, NoAddOwn, IdleType DEF ClearSize, Adding
<1> QED  BY <1>1, <1>2, <1>3, <1>4, <1>5, <1>6 DEF AtWork

(* Whatever adds an event finds the call's own identifier, or none. *)
LEMMA EventsStep ==
  ASSUME BufferOK, RestOK, HandlerOK, TimerInv, OwnInv, OwnEvents, [Next]_vars
  PROVE  OwnEvents'
<1> USE Distinct DEF buffer
<1>1. CASE UNCHANGED <<statBuffer, thread>>
  BY <1>1 DEF OwnEvents, EventsAreOwn, OwnAdder
<1>2. ASSUME NEW c \in Calls, Answered(c)  PROVE OwnEvents'
  <2>1. CASE signallingStats # None /\ Add(Main, c, xcallUUID[signallingStats], c \notin crowded)
    <3>1. signallingStats = c
      BY <1>2, <2>1 DEF Answered, OwnInv, Current
    <3>2. c \notin crowded => xcallUUID[signallingStats] \in {c, None}
      BY <3>1 DEF OwnInv, Borrowed
    <3> QED  BY <1>2, <2>1, <3>2, AddsOwn DEF Answered
  <2> QED  BY <1>1, <1>2, <2>1 DEF Answered
<1>3. CASE Summary
  <2> DEFINE c == handler.call
             s == signallingStats
  <2>1. CASE s # None /\ Add(Main, c, xcallUUID'[s], c \notin crowded)
    <3>1. s \in Calls /\ c \in Calls /\ handler.at = "summary" /\ handler # NoHandler
      BY <1>3, <2>1, HandlerType DEF Summary, RestOK, HandlerOK
    <3>2. s = c \/ c \in crowded
      BY <2>1, <3>1 DEF OwnInv, Current
    <3>3. xcallUUID'[s] \in {xcallUUID[s], None, c}
      BY <1>3, <2>1, <3>1, Identifiers DEF Summary
    <3>4. c \notin crowded => xcallUUID'[s] \in {c, None}
      BY <3>1, <3>2, <3>3 DEF OwnInv, Borrowed
    <3> QED  BY <1>3, <2>1, <3>4, AddsOwn DEF Summary
  <2> QED  BY <1>1, <1>3, <2>1 DEF Summary
<1>4. ASSUME NEW c \in Calls, Fetched(c)  PROVE OwnEvents'
  <2>1. xcallUUID[c] \in {c, None}
    BY <1>4 DEF Fetched, OwnInv, Borrowed
  <2>2. CASE thread' = [thread EXCEPT ![c] = Idle]
    <3>1. NoAdd
      BY <2>2, ThreadNoAdd, IdleType DEF Adding
    <3> QED  BY <1>4, <3>1, NoAddOwn DEF Fetched
  <2> QED  BY <1>4, <2>1, <2>2, AddsOwn DEF Fetched
<1>5. CASE sendFeedbackStats
  <2> DEFINE f == feedback
             last == f.of = lastXCallUUID /\ ~f.copied
             x == IF last THEN lastXCallUUID
                  ELSE IF signallingStats = None THEN None ELSE xcallUUID[signallingStats]
  <2>1. /\ feedback # None /\ UNCHANGED statBuffer
        /\ UNCHANGED thread \/ Add(Http, f.of, x, f.quiet /\ ~f.copied)
    BY <1>5 DEF sendFeedbackStats
  <2>2. f.quiet /\ ~f.copied => x \in {f.of, None}
    BY <2>1 DEF OwnInv, Quiet
  <2> HIDE DEF x
  <2> QED  BY <1>1, <2>1, <2>2, AddsOwn
<1>6. CASE Buffer
  BY <1>6, BufferOwn DEF Buffer
<1>7. CASE Environment
  BY <1>1, <1>7 DEF Environment, GotKey, Begin, Lost
<1>12. ASSUME NEW j \in Clients, Opened(j) \/ onOpen(j)  PROVE OwnEvents'
  <2>1. NoAdd
    BY <1>12, AtNoAdd, BeginNoAdd DEF Opened, onOpen
  <2>2. UNCHANGED statBuffer
    BY <1>12 DEF Opened, onOpen
  <2> QED  BY <2>1, <2>2, NoAddOwn
<1>8. ASSUME NEW c \in Calls, Progress(c)  PROVE OwnEvents'
  BY <1>1, <1>8 DEF Progress
<1>13. ASSUME NEW c \in Calls, NEW end \in Ends, Ended(c, end)  PROVE OwnEvents'
  BY <1>1, <1>13 DEF Ended
<1>9. CASE StartTimer \/ stopTimer \/ KeepLast
  BY <1>1, <1>9 DEF StartTimer, stopTimer, KeepLast
<1>10. ASSUME NEW c \in Calls, NEW copied \in BOOLEAN, SubmitFeedback(c, copied)
       PROVE  OwnEvents'
  BY <1>1, <1>10 DEF SubmitFeedback
<1>14. ASSUME NEW c \in Calls, Tick(c)  PROVE OwnEvents'
  <2>1. NoAdd
    BY <1>14, AtNoAdd DEF Tick
  <2> QED  BY <1>14, <2>1, NoAddOwn DEF Tick
<1>11. CASE UNCHANGED vars
  BY <1>1, <1>11 DEF vars
<1> QED  BY <1>2, <1>3, <1>4, <1>5, <1>6, <1>7, <1>8, <1>9, <1>10, <1>11, <1>12, <1>13, <1>14
         DEF Next, Callback, RestOfCallback, Reader, Timer, Feedback

(* However calls begin, end, are answered and are given feedback, and      *)
(* whichever timers fetch meanwhile, an event that nothing came between    *)
(* carries its own call's identifier or none.                              *)
THEOREM EventsAreOwnCorrect == Spec => []EventsAreOwn
<1>1. Init => OwnInv /\ OwnEvents
  BY HandlerType, IdleType, Distinct
  DEF Init, OwnInv, Current, Fetching, Borrowed, Quiet, OwnEvents, EventsAreOwn, OwnAdder, Adding
<1>2. BufferOK /\ RestOK /\ HandlerOK /\ TimerInv /\ OwnInv /\ [Next]_vars => OwnInv'
  <2> SUFFICES ASSUME BufferOK, RestOK, HandlerOK, TimerInv, OwnInv, [Next]_vars  PROVE OwnInv'
    OBVIOUS
  <2>1. CASE UNCHANGED vars
    <3>1. Calm
      BY <2>1 DEF vars, insights, signalling, books, Calm, Tracked, NoFetch
    <3> QED  BY <3>1, CalmOwn
  <2>2. CASE Next
    BY <2>2, CalmSteps, CalmOwn, BeginOwn, CallbackOwn, RestOfCallbackOwn, TickOwn, FeedbackOwn
    DEF Next, Callback, Timer, Environment
  <2> QED  BY <2>1, <2>2
<1>3. BufferOK /\ RestOK /\ HandlerOK /\ TimerInv /\ OwnInv /\ OwnEvents /\ [Next]_vars =>
        OwnEvents'
  BY EventsStep
<1>4. (IInv => BufferOK) /\ (OwnEvents => EventsAreOwn)
  BY DEF IInv, OwnEvents
<1> QED  BY <1>1, <1>2, <1>3, <1>4, Invariance, TimerInvariance, PTL DEF Spec

=============================================================================
