---------------------------- MODULE HeadersProofs ----------------------------
(***************************************************************************)
(* The headers arrive: what the conversions of module Headers do, for all  *)
(* names, values and lines, by the lemmas of module TextsProofs.           *)
(***************************************************************************)
EXTENDS Headers, TextsProofs

(* The provers do not know a string they see written to be in STRING: the  *)
(* set of tokens names those that the conversions write.                   *)
Token == STRING \cup Separators \cup Required \cup {"INVITE", "X-CallUUID"}

LEMMA TokensAre ==
  /\ "," \in Token /\ ":" \in Token /\ " " \in Token /\ "\r" \in Token /\ "\n" \in Token
  /\ "INVITE" \in Token /\ "X-CallUUID" \in Token
  /\ \A t \in Keys \cup Uuids \cup Required : t \in Token \ Separators
  /\ \A v \in Values \cup PushValues \cup OtherLines : v \in Seq(Token)
<1>1. /\ "," \in Token /\ ":" \in Token /\ " " \in Token /\ "\r" \in Token /\ "\n" \in Token
      /\ "INVITE" \in Token /\ "X-CallUUID" \in Token
  BY Zenon DEF Token, Separators
<1>2. \A t \in Keys \cup Uuids \cup Required : t \in Token \ Separators
  <2>1. \A t \in Keys \cup Uuids : t \in Token \ Separators
    BY HeadersAssumption, Zenon DEF Token
  <2>2. \A t \in Required : t \in Token
    BY Zenon DEF Token
  <2>3. \A t \in Required : t \notin Separators
    BY DEF Required, Separators
  <2>4. QED
    BY <2>1, <2>2, <2>3
<1>3. ASSUME NEW v \in Values \cup PushValues \cup OtherLines PROVE v \in Seq(Token)
  <2>1. v \in Seq(STRING)
    BY HeadersAssumption, Zenon
  <2>2. STRING \subseteq Token
    BY Zenon DEF Token
  <2>3. QED
    BY <2>1, <2>2, SeqMonotonic, Zenon
<1>4. QED
  BY <1>1, <1>2, <1>3

(* What is no separator.                                                   *)
LEMMA SeparatorsAre ==
  \A t : t \notin Separators => t # "," /\ t # ":" /\ t # "\n" /\ t # "\r" /\ Ink(t)
<1>1. ASSUME NEW t, t \notin Separators
      PROVE  t # "," /\ t # ":" /\ t # "\n" /\ t # "\r" /\ Ink(t)
  BY <1>1, Zenon DEF Separators, Ink
<1>2. QED
  BY <1>1

LEMMA PlainText ==
  ASSUME NEW v \in Seq(Token), Plain(v)
  PROVE  \A i \in 1 .. Len(v) : v[i] \notin Separators
<1>1. DOMAIN v = 1 .. Len(v)
  OBVIOUS
<1>2. \A i \in 1 .. Len(v) : v[i] \in Words(v)
  BY <1>1 DEF Plain
<1>3. QED
  BY <1>2 DEF Words

LEMMA ValidHeaders ==
  ASSUME NEW given \in Maps(Keys, Values)
  PROVE  validateCallHeaders(given) \in Maps(ValidKeys, {v \in Values : validValue(v)})
<1> DEFINE K == {k \in DOMAIN given : k \in ValidKeys /\ validValue(given[k])}
<1>1. PICK D \in SUBSET Keys : given \in [D -> Values]
  BY DEF Maps
<1>2. K \in SUBSET ValidKeys /\ \A k \in K : given[k] \in {v \in Values : validValue(v)}
  BY <1>1
<1> HIDE DEF K
<1>3. [k \in K |-> given[k]] \in [K -> {v \in Values : validValue(v)}]
  BY <1>2
<1>4. QED
  BY <1>2, <1>3 DEF validateCallHeaders, Maps, K

-----------------------------------------------------------------------------
(* The order in which a set's elements come.                               *)
LEMMA OrderProperties ==
  ASSUME NEW S, IsFiniteSet(S), NEW order \in SetToSeqs(S)
  PROVE  /\ order \in Seq(S) /\ Len(order) = Cardinality(S) /\ Cardinality(S) \in Nat
         /\ DOMAIN order = 1 .. Len(order)
         /\ \A x \in S : \E i \in 1 .. Len(order) : order[i] = x
<1> DEFINE n == Cardinality(S)
<1>1. n \in Nat
  BY FS_CardinalityType
<1>2. order \in [1 .. n -> S] /\ \A i, j \in 1 .. n : i # j => order[i] # order[j]
  BY DEF SetToSeqs
<1>3. order \in Injection(1 .. n, S)
  BY <1>2 DEF Injection, IsInjective
<1>4. IsFiniteSet(1 .. n) /\ Cardinality(1 .. n) = n
  <2>1. 1 \in Int /\ n \in Int /\ n - 1 + 1 = n /\ (IF 1 > n THEN 0 ELSE n - 1 + 1) = n
    BY <1>1
  <2>2. IsFiniteSet(1 .. n) /\ Cardinality(1 .. n) = IF 1 > n THEN 0 ELSE n - 1 + 1
    BY <2>1, FS_Interval
  <2>3. QED
    BY <2>1, <2>2
<1>5. order \in Surjection(1 .. n, S)
  <2> HIDE DEF n
  <2>1. Cardinality(1 .. n) = Cardinality(S)
    BY <1>4 DEF n
  <2>2. QED
    BY <1>3, <2>1, FS_Injection
<1>6. \A x \in S : \E i \in 1 .. n : order[i] = x
  BY <1>5 DEF Surjection
<1>7. order \in Seq(S) /\ Len(order) = n /\ DOMAIN order = 1 .. n
  <2> HIDE DEF n
  <2>1. QED
    BY <1>1, <1>2
<1>8. QED
  BY <1>1, <1>6, <1>7

-----------------------------------------------------------------------------
(* callH and CallH: the text a validated map becomes.                      *)
Part(k, v) == <<k, ":">> \o v

LEMMA PairConcat == ASSUME NEW k, NEW c PROVE <<k>> \o <<c>> = <<k, c>>
<1>1. <<c>> \in Seq({k, c}) /\ <<k>> \in Seq({k, c}) /\ <<k, c>> = Append(<<k>>, c)
  OBVIOUS
<1>2. Append(<<k>>, c) = <<k>> \o <<c>>
  BY <1>1, AppendIsConcat
<1>3. QED
  BY <1>1, <1>2, Zenon

LEMMA NameAndValue ==
  ASSUME NEW T, NEW k \in T, NEW c \in T, NEW v \in Seq(T)
  PROVE  /\ <<k, c>> \o v \in Seq(T) /\ Len(<<k, c>> \o v) = Len(v) + 2 /\ Len(v) \in Nat
         /\ (<<k, c>> \o v)[1] = k /\ (<<k, c>> \o v)[2] = c
         /\ \A i \in 1 .. Len(v) : (<<k, c>> \o v)[i + 2] = v[i]
         /\ <<k, c>> \o v = (<<k>> \o <<c>>) \o v
<1> DEFINE e == <<k, c>>
           n == Len(v)
<1>1. e \in Seq(T) /\ Len(e) = 2 /\ e[1] = k /\ e[2] = c /\ n \in Nat
  OBVIOUS
<1> HIDE DEF e
<1>2. e \o v \in Seq(T) /\ Len(e \o v) = 2 + n
      /\ \A i \in 1 .. 2 + n : (e \o v)[i] = IF i <= 2 THEN e[i] ELSE v[i - 2]
  <2>1. e \o v \in Seq(T) /\ Len(e \o v) = Len(e) + n
        /\ \A i \in 1 .. Len(e) + n : (e \o v)[i] = IF i <= Len(e) THEN e[i] ELSE v[i - Len(e)]
    BY <1>1, ConcatProperties
  <2>2. QED
    BY <1>1, <2>1
<1> DEFINE p == e \o v
<1>3. p \in Seq(T) /\ Len(p) = 2 + n
      /\ \A i \in 1 .. 2 + n : p[i] = IF i <= 2 THEN e[i] ELSE v[i - 2]
  BY <1>2
<1> HIDE DEF p
<1>4. /\ 1 \in 1 .. 2 + n /\ 2 \in 1 .. 2 + n
      /\ \A i \in 1 .. n : i + 2 \in 1 .. 2 + n /\ ~(i + 2 <= 2) /\ (i + 2) - 2 = i
  BY <1>1
<1>5. p[1] = k /\ p[2] = c
  BY <1>1, <1>3, <1>4
<1>6. \A i \in 1 .. n : p[i + 2] = v[i]
  BY <1>3, <1>4
<1>7. p = (<<k>> \o <<c>>) \o v
  BY PairConcat, Zenon DEF p, e
<1>8. p \in Seq(T) /\ Len(p) = n + 2
  BY <1>1, <1>3
<1>9. QED
  BY <1>1, <1>5, <1>6, <1>7, <1>8, Zenon DEF p, e

LEMMA PartProperties ==
  ASSUME NEW k \in Token, NEW v \in Seq(Token)
  PROVE  /\ Part(k, v) \in Seq(Token) /\ Len(Part(k, v)) = Len(v) + 2 /\ Len(v) \in Nat
         /\ Part(k, v)[1] = k /\ Part(k, v)[2] = ":"
         /\ \A i \in 1 .. Len(v) : Part(k, v)[i + 2] = v[i]
         /\ Part(k, v) = (<<k>> \o <<":">>) \o v
<1> DEFINE c == ":"
<1>1. c \in Token
  BY TokensAre
<1> HIDE DEF c
<1>2. /\ <<k, c>> \o v \in Seq(Token) /\ Len(<<k, c>> \o v) = Len(v) + 2 /\ Len(v) \in Nat
      /\ (<<k, c>> \o v)[1] = k /\ (<<k, c>> \o v)[2] = c
      /\ \A i \in 1 .. Len(v) : (<<k, c>> \o v)[i + 2] = v[i]
      /\ <<k, c>> \o v = (<<k>> \o <<c>>) \o v
  <2>1. /\ <<k, c>> \o v \in Seq(Token) /\ Len(<<k, c>> \o v) = Len(v) + 2 /\ Len(v) \in Nat
    BY <1>1, NameAndValue
  <2>2. (<<k, c>> \o v)[1] = k /\ (<<k, c>> \o v)[2] = c
    BY <1>1, NameAndValue
  <2>3. \A i \in 1 .. Len(v) : (<<k, c>> \o v)[i + 2] = v[i]
    BY <1>1, NameAndValue
  <2>4. <<k, c>> \o v = (<<k>> \o <<c>>) \o v
    BY PairConcat, Zenon
  <2>5. QED
    BY <2>1, <2>2, <2>3, <2>4, Zenon
<1>3. QED
  BY <1>2, Zenon DEF c, Part

(* A part is cut into the name and the value at its first ":".             *)
LEMMA PartSplit ==
  ASSUME NEW k \in Token \ Separators, NEW v \in Seq(Token),
         \A i \in 1 .. Len(v) : v[i] \notin Separators
  PROVE  /\ v = <<>> => split(Part(k, v), ":") = <<<<k>>>>
         /\ v # <<>> => split(Part(k, v), ":") = <<<<k>>, v>>
<1> DEFINE q == <<k>>
<1>0. k # ":"
  BY SeparatorsAre
<1>1. q \in Seq(Token) /\ \A i \in 1 .. Len(q) : q[i] = k
  OBVIOUS
<1> HIDE DEF q
<1>2. \A i \in 1 .. Len(v) : v[i] # ":"
  BY SeparatorsAre
<1>3. /\ v = <<>> => split((q \o <<":">>) \o v, ":") = <<q>>
      /\ v # <<>> => split((q \o <<":">>) \o v, ":") = <<q, v>>
  <2>1. \A i \in 1 .. Len(q) : q[i] # ":"
    BY <1>0, <1>1
  <2>2. QED
    BY <1>1, <1>2, <2>1, TokensAre, SplitTwo
<1>4. Part(k, v) = (<<k>> \o <<":">>) \o v
  BY PartProperties
<1>5. QED
  BY <1>3, <1>4, Zenon DEF q

LEMMA PartNoComma ==
  ASSUME NEW k \in Token \ Separators, NEW v \in Seq(Token),
         \A i \in 1 .. Len(v) : v[i] \notin Separators
  PROVE  \A i \in DOMAIN Part(k, v) : Part(k, v)[i] # ","
<1> DEFINE p == Part(k, v)
<1>1. /\ p \in Seq(Token) /\ Len(p) = Len(v) + 2 /\ Len(v) \in Nat
      /\ p[1] = k /\ p[2] = ":" /\ \A i \in 1 .. Len(v) : p[i + 2] = v[i]
  BY PartProperties
<1> HIDE DEF p
<1>2. ASSUME NEW i \in DOMAIN p PROVE p[i] # ","
  <2>1. i \in 1 .. Len(v) + 2
    BY <1>1
  <2>2. CASE i = 1
    BY <1>1, <2>2, SeparatorsAre
  <2>3. CASE i = 2
    BY <1>1, <2>3
  <2>4. CASE i > 2
    <3>1. i - 2 \in 1 .. Len(v) /\ (i - 2) + 2 = i
      BY <1>1, <2>1, <2>4
    <3>2. p[i] = v[i - 2]
      BY <1>1, <3>1
    <3>3. QED
      BY <3>1, <3>2, SeparatorsAre
  <2>5. i = 1 \/ i = 2 \/ i > 2
    BY <1>1, <2>1
  <2>6. QED
    BY <2>2, <2>3, <2>4, <2>5
<1>3. QED
  BY <1>2 DEF p

(* The parts of a map's text, in the order of its keys.                    *)
Parts(map, order) == [i \in DOMAIN order |-> Part(order[i], map[order[i]])]

LEMMA PartsProperties ==
  ASSUME NEW map, NEW order \in Seq(Token), \A i \in 1 .. Len(order) : map[order[i]] \in Seq(Token)
  PROVE  /\ Parts(map, order) \in Seq(Seq(Token)) /\ Len(Parts(map, order)) = Len(order)
         /\ \A i \in 1 .. Len(order) : Parts(map, order)[i] = Part(order[i], map[order[i]])
         /\ mapToString(map, order) = Joined(Parts(map, order), ",")
         /\ mapToString(map, order) \in Seq(Token)
<1> DEFINE part(i) == Part(order[i], map[order[i]])
<1>1. Len(order) \in Nat /\ DOMAIN order = 1 .. Len(order)
      /\ \A i \in 1 .. Len(order) : order[i] \in Token /\ map[order[i]] \in Seq(Token)
  OBVIOUS
<1>2. \A i \in 1 .. Len(order) : part(i) \in Seq(Token)
  BY <1>1, PartProperties
<1>3. Parts(map, order) = [i \in 1 .. Len(order) |-> part(i)]
  BY <1>1 DEF Parts
<1>4. mapToString(map, order) = Joined(Parts(map, order), ",")
  BY DEF mapToString, Parts, Part
<1> HIDE DEF part
<1>5. /\ Parts(map, order) \in Seq(Seq(Token)) /\ Len(Parts(map, order)) = Len(order)
      /\ \A i \in 1 .. Len(order) : Parts(map, order)[i] = part(i)
  BY <1>1, <1>2, <1>3
<1>6. Joined(Parts(map, order), ",") \in Seq(Token)
  BY <1>5, TokensAre, JoinedType
<1>7. QED
  BY <1>1, <1>4, <1>5, <1>6 DEF part

(* Without separators in the names and values, the pieces are the parts.   *)
LEMMA PlainMap ==
  ASSUME NEW map, NEW order \in Seq(Token \ Separators),
         \A i \in 1 .. Len(order) :
           /\ map[order[i]] \in Seq(Token)
           /\ \A j \in 1 .. Len(map[order[i]]) : map[order[i]][j] \notin Separators
  PROVE  split(mapToString(map, order), ",") = Parts(map, order)
<1> DEFINE ps == Parts(map, order)
           n == Len(order)
<1>1. order \in Seq(Token) /\ \A i \in 1 .. n : order[i] \in Token \ Separators
  OBVIOUS
<1>2. /\ ps \in Seq(Seq(Token)) /\ Len(ps) = n
      /\ \A i \in 1 .. n : ps[i] = Part(order[i], map[order[i]])
      /\ mapToString(map, order) = Joined(ps, ",")
  <2>1. ps \in Seq(Seq(Token)) /\ Len(ps) = n
    BY <1>1, PartsProperties
  <2>4. mapToString(map, order) = Joined(ps, ",")
    BY <1>1, PartsProperties
  <2>2. \A i \in 1 .. n : ps[i] = Part(order[i], map[order[i]])
    BY <1>1, PartsProperties
  <2>3. QED
    BY <2>1, <2>2, <2>4
<1> HIDE DEF ps
<1>3. CASE ps = <<>>
  <2>1. <<>> \in Seq(Token) /\ \A i \in 1 .. Len(<<>>) : <<>>[i] # ","
    BY EmptySeq
  <2>2. split(<<>>, ",") = <<>>
    BY <2>1, SplitOne
  <2>3. Joined(ps, ",") = <<>>
    BY <1>3, JoinedEmpty
  <2>4. QED
    BY <1>2, <1>3, <2>2, <2>3 DEF ps
<1>4. CASE ps # <<>>
  <2>1. \A i \in 1 .. Len(ps) : \A j \in DOMAIN ps[i] : ps[i][j] # ","
    <3> SUFFICES ASSUME NEW i \in 1 .. n PROVE \A j \in DOMAIN ps[i] : ps[i][j] # ","
      BY <1>2
    <3>1. order[i] \in Token \ Separators /\ map[order[i]] \in Seq(Token)
          /\ \A j \in 1 .. Len(map[order[i]]) : map[order[i]][j] \notin Separators
      BY <1>1
    <3>2. \A j \in DOMAIN Part(order[i], map[order[i]]) : Part(order[i], map[order[i]])[j] # ","
      BY <3>1, PartNoComma
    <3>3. QED
      BY <1>2, <3>2
  <2>2. n \in 1 .. n
    <3>1. Len(ps) \in Nat \ {0}
      BY <1>2, <1>4, EmptySeq
    <3>2. Len(ps) = n
      BY <1>2
    <3>3. \A x \in Nat \ {0} : x \in 1 .. x
      OBVIOUS
    <3>4. QED
      BY <3>1, <3>2, <3>3
  <2>3. ps[Len(ps)] # <<>>
    <3> DEFINE k == order[n]
               v == map[k]
    <3>1. ps[n] = Part(k, v) /\ k \in Token /\ v \in Seq(Token)
      BY <1>1, <1>2, <2>2
    <3> HIDE DEF k, v
    <3>2. Len(Part(k, v)) = Len(v) + 2 /\ Len(v) \in Nat /\ Part(k, v) \in Seq(Token)
      BY <3>1, PartProperties
    <3>3. Part(k, v) # <<>>
      BY <3>2
    <3>4. QED
      BY <1>2, <3>1, <3>3
  <2>4. split(Joined(ps, ","), ",") = ps
    BY <1>2, <1>4, <2>1, <2>3, TokensAre, SplitJoined
  <2>5. QED
    BY <1>2, <2>4 DEF ps
<1>5. QED
  BY <1>3, <1>4

ValidMaps == Maps(ValidKeys, {v \in Values : validValue(v)})

LEMMA ValidMap ==
  ASSUME NEW map \in ValidMaps
  PROVE  /\ IsFiniteSet(DOMAIN map)
         /\ \A k \in DOMAIN map :
              /\ k \in ValidKeys /\ k \in Token \ Separators
              /\ map[k] \in Seq(Token) /\ map[k] # <<>>
              /\ \A i \in 1 .. Len(map[k]) : map[k][i] \notin Separators
<1>1. PICK D \in SUBSET ValidKeys : map \in [D -> {v \in Values : validValue(v)}]
  BY Zenon DEF ValidMaps, Maps
<1>2. DOMAIN map = D /\ \A k \in D : map[k] \in Values /\ validValue(map[k])
  BY <1>1
<1>3. D \subseteq Keys /\ IsFiniteSet(Keys)
  BY HeadersAssumption
<1>4. IsFiniteSet(D)
  BY <1>3, FS_Subset
<1>5. ASSUME NEW k \in D
      PROVE  /\ k \in ValidKeys /\ k \in Token \ Separators
             /\ map[k] \in Seq(Token) /\ map[k] # <<>>
             /\ \A i \in 1 .. Len(map[k]) : map[k][i] \notin Separators
  <2> DEFINE v == map[k]
  <2>1. v \in Values /\ v # <<>> /\ Plain(v)
    BY <1>2 DEF validValue
  <2>2. k \in ValidKeys /\ k \in Keys
    BY <1>3
  <2> HIDE DEF v
  <2>3. v \in Seq(Token) /\ k \in Token \ Separators
    BY <2>1, <2>2, TokensAre
  <2>4. \A i \in 1 .. Len(v) : v[i] \notin Separators
    BY <2>1, <2>3, PlainText
  <2>5. QED
    BY <2>1, <2>2, <2>3, <2>4 DEF v
<1>6. QED
  BY <1>2, <1>4, <1>5

LEMMA ValidOrder ==
  ASSUME NEW map \in ValidMaps, NEW order \in SetToSeqs(DOMAIN map)
  PROVE  /\ order \in Seq(Token \ Separators) /\ Len(order) = Cardinality(DOMAIN map)
         /\ Len(order) \in Nat /\ DOMAIN order = 1 .. Len(order)
         /\ \A k \in DOMAIN map : \E i \in 1 .. Len(order) : order[i] = k
         /\ \A i \in 1 .. Len(order) :
              /\ order[i] \in DOMAIN map /\ map[order[i]] \in Seq(Token) /\ map[order[i]] # <<>>
              /\ \A j \in 1 .. Len(map[order[i]]) : map[order[i]][j] \notin Separators
<1> DEFINE K == DOMAIN map
<1>1. /\ IsFiniteSet(K)
      /\ \A k \in K : /\ k \in Token \ Separators /\ map[k] \in Seq(Token) /\ map[k] # <<>>
                      /\ \A i \in 1 .. Len(map[k]) : map[k][i] \notin Separators
  BY ValidMap
<1> HIDE DEF K
<1>2. /\ order \in Seq(K) /\ Len(order) = Cardinality(K) /\ Len(order) \in Nat
      /\ DOMAIN order = 1 .. Len(order)
      /\ \A x \in K : \E i \in 1 .. Len(order) : order[i] = x
  BY <1>1, OrderProperties DEF K
<1>3. K \subseteq Token \ Separators
  BY <1>1
<1>4. order \in Seq(Token \ Separators)
  BY <1>2, <1>3, SeqMonotonic
<1>5. \A i \in 1 .. Len(order) : order[i] \in K
  BY <1>2
<1>6. QED
  BY <1>1, <1>2, <1>4, <1>5 DEF K

(* The lines sent are the names and values, in the map's order.            *)
SentFor(map, order) == [i \in 1 .. Len(order) |-> <<<<order[i]>>, map[order[i]]>>]

LEMMA CallHSends ==
  ASSUME NEW map \in ValidMaps, NEW order \in SetToSeqs(DOMAIN map), CallH(map, order)
  PROVE  sent' = SentFor(map, order) /\ UNCHANGED outOfRange
<1> DEFINE pieces == split(mapToString(map, order), ",")
           pairs == [i \in DOMAIN pieces |-> split(pieces[i], ":")]
           n == Len(order)
<1>1. /\ order \in Seq(Token \ Separators) /\ n \in Nat /\ DOMAIN order = 1 .. n
      /\ \A i \in 1 .. n :
           /\ order[i] \in Token \ Separators
           /\ map[order[i]] \in Seq(Token) /\ map[order[i]] # <<>>
           /\ \A j \in 1 .. Len(map[order[i]]) : map[order[i]][j] \notin Separators
  <2>1. order \in Seq(Token \ Separators) /\ n \in Nat /\ DOMAIN order = 1 .. n
    BY ValidOrder
  <2>2. \A i \in 1 .. n :
          /\ map[order[i]] \in Seq(Token) /\ map[order[i]] # <<>>
          /\ \A j \in 1 .. Len(map[order[i]]) : map[order[i]][j] \notin Separators
    BY ValidOrder
  <2>3. \A i \in 1 .. n : order[i] \in Token \ Separators
    BY <2>1
  <2>4. QED
    BY <2>1, <2>2, <2>3
<1>2. pieces = Parts(map, order)
  BY <1>1, PlainMap
<1>3. DOMAIN pieces = 1 .. n /\ \A i \in 1 .. n : pieces[i] = Part(order[i], map[order[i]])
  BY <1>1, <1>2 DEF Parts
<1> HIDE DEF pieces
<1>4. \A i \in 1 .. n : split(pieces[i], ":") = <<<<order[i]>>, map[order[i]]>>
  <2> SUFFICES ASSUME NEW i \in 1 .. n
               PROVE  split(pieces[i], ":") = <<<<order[i]>>, map[order[i]]>>
    OBVIOUS
  <2> DEFINE k == order[i]
             v == map[k]
  <2>1. /\ k \in Token \ Separators /\ v \in Seq(Token) /\ v # <<>>
        /\ \A j \in 1 .. Len(v) : v[j] \notin Separators
        /\ pieces[i] = Part(k, v)
    BY <1>1, <1>3
  <2> HIDE DEF k, v
  <2>2. split(Part(k, v), ":") = <<<<k>>, v>>
    BY <2>1, PartSplit
  <2>3. QED
    BY <2>1, <2>2 DEF k, v
<1>5. pairs = SentFor(map, order)
  BY <1>3, <1>4 DEF SentFor
<1>6. \A i \in DOMAIN pairs : Len(pairs[i]) >= 2
  BY <1>3, <1>4
<1>7. [i \in DOMAIN pairs |-> <<pairs[i][1], pairs[i][2]>>] = SentFor(map, order)
  BY <1>3, <1>4 DEF SentFor
<1>8. /\ sent' = [i \in DOMAIN pairs |-> <<pairs[i][1], pairs[i][2]>>]
      /\ UNCHANGED outOfRange
  <2>1. IF \A i \in DOMAIN pairs : Len(pairs[i]) >= 2
        THEN /\ sent' = [i \in DOMAIN pairs |-> <<pairs[i][1], pairs[i][2]>>]
             /\ UNCHANGED outOfRange
        ELSE /\ outOfRange' = map
             /\ sent' = <<>>
    BY Zenon DEF CallH, pieces
  <2> HIDE DEF pairs
  <2>2. QED
    BY <1>6, <2>1, Zenon
<1>9. QED
  BY <1>7, <1>8

-----------------------------------------------------------------------------
(* A line: a name, ":", a blank and a value.                               *)
LEMMA TripleConcat ==
  ASSUME NEW T, NEW k \in T, NEW c \in T, NEW b \in T, NEW v \in Seq(T)
  PROVE  LET l == <<k>> \o <<c, b>> \o v
         IN  /\ l \in Seq(T) /\ Len(l) = Len(v) + 3 /\ Len(v) \in Nat
             /\ l[1] = k /\ l[2] = c /\ l[3] = b
             /\ \A i \in 1 .. Len(v) : l[i + 3] = v[i]
<1> DEFINE a == <<k>>
           e == <<c, b>>
           w == a \o e
           l == w \o v
           n == Len(v)
<1>1. a \in Seq(T) /\ Len(a) = 1 /\ a[1] = k /\ e \in Seq(T) /\ Len(e) = 2 /\ e[1] = c /\ e[2] = b
      /\ n \in Nat
  OBVIOUS
<1> HIDE DEF a, e
<1>2. /\ w \in Seq(T) /\ Len(w) = Len(a) + Len(e)
      /\ \A i \in 1 .. Len(a) + Len(e) : w[i] = IF i <= Len(a) THEN a[i] ELSE e[i - Len(a)]
  BY <1>1, ConcatProperties
<1> HIDE DEF w
<1>3. w \in Seq(T) /\ Len(w) = 3 /\ w[1] = k /\ w[2] = c /\ w[3] = b
  BY <1>1, <1>2
<1>4. /\ l \in Seq(T) /\ Len(l) = Len(w) + n
      /\ \A i \in 1 .. Len(w) + n : l[i] = IF i <= Len(w) THEN w[i] ELSE v[i - Len(w)]
  BY <1>3, ConcatProperties
<1> HIDE DEF l
<1>5. l \in Seq(T) /\ Len(l) = n + 3
  BY <1>1, <1>3, <1>4
<1>6. l[1] = k /\ l[2] = c /\ l[3] = b
  BY <1>1, <1>3, <1>4
<1>7. \A i \in 1 .. n : l[i + 3] = v[i]
  <2>1. \A i \in 1 .. n : i + 3 \in 1 .. 3 + n /\ ~(i + 3 <= 3) /\ (i + 3) - 3 = i
    BY <1>1
  <2>2. \A i \in 1 .. 3 + n : l[i] = IF i <= 3 THEN w[i] ELSE v[i - 3]
    BY <1>3, <1>4
  <2>3. QED
    BY <2>1, <2>2
<1>8. QED
  BY <1>1, <1>5, <1>6, <1>7 DEF l, w, a, e

Written(l, k, v) ==
  /\ l \in Seq(Token) /\ Len(l) = Len(v) + 3 /\ Len(v) \in Nat
  /\ l[1] = k /\ l[2] = ":" /\ l[3] = " "
  /\ \A i \in 1 .. Len(v) : l[i + 3] = v[i]

LEMMA LineProperties ==
  ASSUME NEW k \in Token, NEW v \in Seq(Token)
  PROVE  Written(Line(<<k>>, v), k, v)
<1> DEFINE c == ":"
           b == " "
           l == <<k>> \o <<c, b>> \o v
<1>1. c \in Token /\ b \in Token
  BY TokensAre
<1>2. Line(<<k>>, v) = l
  BY Zenon DEF Line
<1> HIDE DEF c, b
<1>3. /\ l \in Seq(Token) /\ Len(l) = Len(v) + 3 /\ Len(v) \in Nat
      /\ l[1] = k /\ l[2] = c /\ l[3] = b
      /\ \A i \in 1 .. Len(v) : l[i + 3] = v[i]
  BY <1>1, TripleConcat
<1> HIDE DEF l
<1>4. Written(l, k, v)
  BY <1>3, Zenon DEF Written, c, b
<1>5. QED
  BY <1>2, <1>4, Zenon

(* The lines of a message: the request line and the headers, in any order. *)
LEMMA MessageLines ==
  ASSUME NEW S, IsFiniteSet(S), \A l \in S : l \in Seq(Token), NEW order \in SetToSeqs(S)
  PROVE  LET ls == <<RequestLine>> \o order
         IN  /\ ls \in Seq(Seq(Token)) /\ Len(ls) \in Nat /\ Len(ls) >= 1
             /\ ls[1] = RequestLine
             /\ \A j \in 2 .. Len(ls) : ls[j] \in S
             /\ \A l \in S : \E j \in 2 .. Len(ls) : ls[j] = l
<1> DEFINE a == <<RequestLine>>
           ls == a \o order
           n == Len(order)
<1>1. a \in Seq(Seq(Token)) /\ Len(a) = 1 /\ a[1] = RequestLine
  <2>1. RequestLine \in Seq(Token)
    <3> DEFINE t == "INVITE"
    <3>1. t \in Token
      BY TokensAre
    <3> HIDE DEF t
    <3>2. <<t>> \in Seq(Token)
      BY <3>1
    <3>3. QED
      BY <3>2, Zenon DEF RequestLine, t
  <2>2. QED
    BY <2>1
<1> HIDE DEF a
<1>2. order \in Seq(S) /\ n \in Nat /\ DOMAIN order = 1 .. n
      /\ \A x \in S : \E i \in 1 .. n : order[i] = x
  BY OrderProperties
<1>3. order \in Seq(Seq(Token))
  <2>1. S \subseteq Seq(Token)
    OBVIOUS
  <2>2. QED
    BY <1>2, <2>1, SeqMonotonic
<1>4. /\ ls \in Seq(Seq(Token)) /\ Len(ls) = Len(a) + n
      /\ \A i \in 1 .. Len(a) + n : ls[i] = IF i <= Len(a) THEN a[i] ELSE order[i - Len(a)]
  BY <1>1, <1>3, ConcatProperties
<1> HIDE DEF ls
<1>5. ls \in Seq(Seq(Token)) /\ Len(ls) = 1 + n
      /\ \A i \in 1 .. 1 + n : ls[i] = IF i <= 1 THEN a[i] ELSE order[i - 1]
  BY <1>1, <1>4
<1>6. ls[1] = RequestLine
  BY <1>1, <1>2, <1>5
<1>7. \A j \in 2 .. 1 + n : ls[j] = order[j - 1] /\ j - 1 \in 1 .. n
  BY <1>2, <1>5
<1>8. \A j \in 2 .. Len(ls) : ls[j] \in S
  BY <1>2, <1>5, <1>7
<1>9. ASSUME NEW l \in S PROVE \E j \in 2 .. Len(ls) : ls[j] = l
  <2>1. PICK i \in 1 .. n : order[i] = l
    BY <1>2
  <2>2. i + 1 \in 2 .. 1 + n /\ (i + 1) - 1 = i
    BY <1>2
  <2>3. ls[i + 1] = l
    BY <1>7, <2>1, <2>2
  <2>4. QED
    BY <1>5, <2>2, <2>3
<1>10. QED
  BY <1>2, <1>5, <1>6, <1>8, <1>9 DEF ls, a

-----------------------------------------------------------------------------
(* X-CallUUID.  A line's beginning is found where the line before it ends. *)
HeaderLines(ls) ==
  /\ ls \in Seq(Seq(Token)) /\ Len(ls) >= 1
  /\ \A i \in 1 .. Len(ls) :
       ls[i] # <<>> /\ \A j \in 1 .. Len(ls[i]) : ls[i][j] # "\n" /\ ls[i][j] # "\r"

LEMMA Beginnings ==
  ASSUME NEW ls, HeaderLines(ls)
  PROVE  LET text == Lines(ls, EndOfLine)
         IN  /\ text \in Seq(Token)
             /\ \A k \in 1 .. Len(text) - 1 :
                  text[k] = "\n" => \E j \in 2 .. Len(ls) : At(text, k, ls[j] \o EndOfLine)
             /\ \A j \in 2 .. Len(ls) :
                  \E k \in 1 .. Len(text) - 1 : text[k] = "\n" /\ At(text, k, ls[j] \o EndOfLine)
<1> DEFINE c == "\r"
           d == "\n"
           text == Lines(ls, <<c, d>>)
<1>1. c \in Token /\ d \in Token /\ c # d
  BY TokensAre
<1>2. EndOfLine = <<c, d>>
  BY Zenon DEF EndOfLine
<1>3. ls \in Seq(Seq(Token)) /\ \A i \in 1 .. Len(ls) : \A j \in 1 .. Len(ls[i]) : ls[i][j] # d
  BY DEF HeaderLines
<1> HIDE DEF c, d
<1>4. text \in Seq(Token)
  <2>1. <<c, d>> \in Seq(Token)
    BY <1>1
  <2>2. QED
    BY <1>3, <2>1, LinesType
<1>5. \A k \in 1 .. Len(text) - 1 :
        text[k] = d => \E j \in 2 .. Len(ls) : At(text, k, ls[j] \o <<c, d>>)
  BY <1>1, <1>3, LineStarts
<1>6. \A j \in 2 .. Len(ls) :
        \E k \in 1 .. Len(text) - 1 : text[k] = d /\ At(text, k, ls[j] \o <<c, d>>)
  BY <1>1, <1>3, LineStarts
<1> HIDE DEF text
<1>7. /\ \A k \in 1 .. Len(text) - 1 :
           text[k] = d => \E j \in 2 .. Len(ls) : At(text, k, ls[j] \o EndOfLine)
      /\ \A j \in 2 .. Len(ls) :
           \E k \in 1 .. Len(text) - 1 : text[k] = d /\ At(text, k, ls[j] \o EndOfLine)
  BY <1>2, <1>5, <1>6, Zenon
<1>8. text = Lines(ls, EndOfLine)
  BY <1>2, Zenon DEF text
<1>9. QED
  BY <1>4, <1>7, <1>8, Zenon DEF d

LEMMA LineEnds ==
  ASSUME NEW l \in Seq(Token)
  PROVE  /\ Len(l \o EndOfLine) = Len(l) + 2 /\ Len(l) \in Nat
         /\ \A x \in 1 .. Len(l) : (l \o EndOfLine)[x] = l[x]
         /\ (l \o EndOfLine)[Len(l) + 1] = "\r"
<1> DEFINE c == "\r"
           d == "\n"
<1>1. c \in Token /\ d \in Token
  BY TokensAre
<1>2. EndOfLine = <<c, d>>
  BY Zenon DEF EndOfLine
<1> HIDE DEF c, d
<1>3. /\ Len(l \o <<c, d>>) = Len(l) + 2
      /\ \A x \in 1 .. Len(l) : (l \o <<c, d>>)[x] = l[x]
      /\ (l \o <<c, d>>)[Len(l) + 1] = c
  BY <1>1, LineWithEnd
<1>4. Len(l) \in Nat
  OBVIOUS
<1>5. QED
  BY <1>2, <1>3, <1>4, Zenon DEF c

(* Where the name of the header begins a line, that line stands.           *)
NamesIn(text) == {i \in 2 .. Len(text) : text[i - 1] = "\n" /\ text[i] = "X-CallUUID"}

LEMMA NameOfLine ==
  ASSUME NEW ls, HeaderLines(ls), NEW i \in NamesIn(Lines(ls, EndOfLine))
  PROVE  \E j \in 2 .. Len(ls) :
           ls[j][1] = "X-CallUUID" /\ At(Lines(ls, EndOfLine), i - 1, ls[j] \o EndOfLine)
<1> DEFINE text == Lines(ls, EndOfLine)
<1>1. text \in Seq(Token) /\ Len(text) \in Nat
      /\ \A k \in 1 .. Len(text) - 1 :
           text[k] = "\n" => \E j \in 2 .. Len(ls) : At(text, k, ls[j] \o EndOfLine)
  <2>1. text \in Seq(Token)
    BY Beginnings
  <2>2. \A k \in 1 .. Len(text) - 1 :
           text[k] = "\n" => \E j \in 2 .. Len(ls) : At(text, k, ls[j] \o EndOfLine)
    BY Beginnings
  <2> HIDE DEF text
  <2>3. QED
    BY <2>1, <2>2
<1> HIDE DEF text
<1>2. i \in 2 .. Len(text) /\ text[i - 1] = "\n" /\ text[i] = "X-CallUUID"
  BY DEF NamesIn, text
<1> DEFINE k == i - 1
<1>3. k \in 1 .. Len(text) - 1 /\ k + 1 = i /\ text[k] = "\n"
  BY <1>1, <1>2
<1> HIDE DEF k
<1>4. PICK j \in 2 .. Len(ls) : At(text, k, ls[j] \o EndOfLine)
  BY <1>1, <1>3
<1> DEFINE l == ls[j]
           w == l \o EndOfLine
<1>5. l \in Seq(Token) /\ Len(l) \in Nat /\ Len(l) >= 1
  <2>1. j \in 1 .. Len(ls) /\ ls \in Seq(Seq(Token))
    BY DEF HeaderLines
  <2>2. l \in Seq(Token) /\ l # <<>>
    BY <2>1 DEF HeaderLines
  <2>3. QED
    BY <2>2
<1> HIDE DEF l
<1>6. Len(w) = Len(l) + 2 /\ \A x \in 1 .. Len(l) : w[x] = l[x]
  BY <1>5, LineEnds
<1>7. At(text, k, w)
  BY <1>4 DEF l
<1> HIDE DEF w
<1>8. text[k + 1] = w[1] /\ w[1] = l[1]
  BY <1>5, <1>6, <1>7 DEF At
<1>9. l[1] = "X-CallUUID"
  BY <1>2, <1>3, <1>8
<1>10. QED
  BY <1>7, <1>9 DEF l, w, k, text

LEMMA NoUUID ==
  ASSUME NEW ls, HeaderLines(ls), \A j \in 2 .. Len(ls) : ls[j][1] # "X-CallUUID"
  PROVE  setXCallUUID(getXCallUUID(Lines(ls, EndOfLine))) = <<>>
<1> DEFINE text == Lines(ls, EndOfLine)
<1>1. NamesIn(text) = {}
  BY NameOfLine
<1>2. getXCallUUID(text) = <<>>
  BY <1>1, Zenon DEF getXCallUUID, NamesIn
<1>3. <<>> \in Seq(Token) /\ \A i \in 1 .. Len(<<>>) : <<>>[i] # "\r"
  BY EmptySeq
<1>4. Pieces(<<>>, "\r") = <<<<>>>>
  BY <1>3, PiecesOne
<1>5. QED
  BY <1>2, <1>4 DEF setXCallUUID

UuidLine(u) == Line(<<"X-CallUUID">>, <<u>>)

LEMMA HasUUID ==
  ASSUME NEW ls, HeaderLines(ls), NEW u \in Token \ Separators,
         \E j \in 2 .. Len(ls) : ls[j] = UuidLine(u),
         \A j \in 2 .. Len(ls) : ls[j][1] = "X-CallUUID" => ls[j] = UuidLine(u)
  PROVE  setXCallUUID(getXCallUUID(Lines(ls, EndOfLine))) = <<u>>
<1> DEFINE text == Lines(ls, EndOfLine)
           names == NamesIn(text)
           m == Min(names)
           l == UuidLine(u)
           w == l \o EndOfLine
<1>1. l \in Seq(Token) /\ Len(l) = 4 /\ l[1] = "X-CallUUID" /\ l[4] = u
  <2> DEFINE x == "X-CallUUID"
             v == <<u>>
  <2>1. x \in Token /\ v \in Seq(Token) /\ Len(v) = 1 /\ v[1] = u
    <3>1. x \in Token
      BY TokensAre, Zenon
    <3>2. v \in Seq(Token) /\ Len(v) = 1 /\ v[1] = u
      OBVIOUS
    <3>3. QED
      BY <3>1, <3>2
  <2>2. l = Line(<<x>>, v)
    BY Zenon DEF UuidLine
  <2> HIDE DEF x, v
  <2> HIDE DEF l
  <2>3. Written(l, x, v)
    BY <2>1, <2>2, LineProperties, Zenon
  <2>4. l \in Seq(Token) /\ Len(l) = 4 /\ l[1] = x /\ \A i \in 1 .. 1 : l[i + 3] = v[i]
    <3>1. /\ l \in Seq(Token) /\ Len(l) = Len(v) + 3 /\ l[1] = x
          /\ \A i \in 1 .. Len(v) : l[i + 3] = v[i]
      BY <2>3, Zenon DEF Written
    <3>2. QED
      BY <2>1, <3>1
  <2>5. l[1 + 3] = v[1]
    BY <2>4
  <2>6. QED
    BY <2>1, <2>4, <2>5 DEF x
<1> HIDE DEF l
<1>2. Len(w) = 6 /\ w[1] = "X-CallUUID" /\ w[4] = u /\ w[5] = "\r"
  <2>1. /\ Len(w) = Len(l) + 2 /\ \A x \in 1 .. Len(l) : w[x] = l[x]
        /\ w[Len(l) + 1] = "\r"
    BY <1>1, LineEnds
  <2> HIDE DEF w
  <2>2. QED
    BY <1>1, <2>1
<1> HIDE DEF w
<1>3. text \in Seq(Token) /\ Len(text) \in Nat
  <2>1. text \in Seq(Token)
    BY Beginnings
  <2> HIDE DEF text
  <2>2. QED
    BY <2>1
<1>4. names # {}
  <2>1. PICK j \in 2 .. Len(ls) : ls[j] = l
    BY DEF l
  <2>2. \E k \in 1 .. Len(text) - 1 : text[k] = "\n" /\ At(text, k, ls[j] \o EndOfLine)
    BY Beginnings
  <2> HIDE DEF text
  <2>3. PICK k \in 1 .. Len(text) - 1 : text[k] = "\n" /\ At(text, k, w)
    BY <2>1, <2>2 DEF w
  <2>4. text[k + 1] = "X-CallUUID"
    BY <1>2, <2>3 DEF At
  <2>5. k + 1 \in 2 .. Len(text) /\ (k + 1) - 1 = k
    BY <1>3
  <2>6. k + 1 \in names
    BY <2>3, <2>4, <2>5 DEF NamesIn
  <2>7. QED
    BY <2>6
<1>5. m \in names /\ m \in Nat /\ m >= 2
  <2>1. \A i \in names : i \in Nat /\ i >= 2
    BY <1>3 DEF NamesIn
  <2> HIDE DEF names
  <2>2. QED
    BY <1>4, <2>1, MinIs
<1>6. At(text, m - 1, w)
  <2>1. \E j \in 2 .. Len(ls) : ls[j][1] = "X-CallUUID" /\ At(text, m - 1, ls[j] \o EndOfLine)
    BY <1>5, NameOfLine
  <2>2. QED
    BY <2>1 DEF w, l
<1>7. getXCallUUID(text) = SubSeq(text, m + 3, Len(text))
  <2>1. getXCallUUID(text) = IF names = {} THEN <<>> ELSE SubSeq(text, m + 3, Len(text))
    BY Zenon DEF getXCallUUID, NamesIn
  <2>2. QED
    BY <1>4, <2>1
<1> HIDE DEF text, m
<1>8. m + 5 <= Len(text) /\ text[m + 3] = u /\ text[m + 4] = "\r"
  <2>1. (m - 1) + 6 <= Len(text) /\ \A x \in 1 .. 6 : text[(m - 1) + x] = w[x]
    BY <1>2, <1>6 DEF At
  <2>2. (m - 1) + 6 = m + 5 /\ (m - 1) + 4 = m + 3 /\ (m - 1) + 5 = m + 4
    BY <1>5
  <2>3. QED
    BY <1>2, <2>1, <2>2
<1> DEFINE rest == SubSeq(text, m + 3, Len(text))
<1>9. rest \in Seq(Token) /\ Len(rest) \in Nat /\ Len(rest) >= 2 /\ rest[1] = u /\ rest[2] = "\r"
  <2> DEFINE a == m + 3
             b == Len(text)
  <2>1. a \in Nat /\ b \in Nat /\ a + 2 <= b /\ a >= 5 /\ m + 4 = a + 1
    BY <1>3, <1>5, <1>8
  <2>2. \A i \in a .. b : text[i] \in Token
    <3>1. \A i \in a .. b : i \in 1 .. Len(text)
      BY <2>1
    <3>2. QED
      BY <1>3, <3>1
  <2>3. text[a] = u /\ text[a + 1] = "\r"
    BY <1>8, <2>1
  <2> HIDE DEF a, b
  <2>4. /\ SubSeq(text, a, b) \in Seq(Token)
        /\ Len(SubSeq(text, a, b)) = IF a <= b THEN b - a + 1 ELSE 0
        /\ \A i \in 1 .. b - a + 1 : SubSeq(text, a, b)[i] = text[a + i - 1]
    <3>1. a \in Int /\ b \in Int
      BY <2>1
    <3>2. QED
      BY <2>2, <3>1, SubSeqProperties
  <2>5. /\ (IF a <= b THEN b - a + 1 ELSE 0) = b - a + 1 /\ b - a + 1 >= 2
        /\ 1 \in 1 .. b - a + 1 /\ 2 \in 1 .. b - a + 1
        /\ a + 1 - 1 = a /\ a + 2 - 1 = a + 1 /\ b - a + 1 \in Nat
    BY <2>1
  <2>6. rest = SubSeq(text, a, b)
    BY DEF a, b
  <2> HIDE DEF rest
  <2>7. Len(rest) = b - a + 1 /\ rest \in Seq(Token)
    BY <2>4, <2>5, <2>6
  <2>8. rest[1] = text[a + 1 - 1] /\ rest[2] = text[a + 2 - 1]
    BY <2>4, <2>5, <2>6
  <2>9. QED
    BY <2>3, <2>5, <2>7, <2>8
<1> HIDE DEF rest
<1>10. Pieces(rest, "\r")[1] = SubSeq(rest, 1, 1)
  <2>1. 2 \in 1 .. Len(rest) /\ 2 - 1 = 1
    BY <1>9
  <2>2. u # "\r"
    BY SeparatorsAre
  <2>3. \A i \in 1 .. 2 - 1 : rest[i] # "\r"
    BY <1>9, <2>2
  <2>4. Pieces(rest, "\r")[1] = SubSeq(rest, 1, 2 - 1)
    BY <1>9, <2>1, <2>3, FirstPiece
  <2>5. QED
    BY <2>1, <2>4
<1>11. SubSeq(rest, 1, 1) = <<u>>
  <2> DEFINE p == SubSeq(rest, 1, 1)
             q == <<u>>
  <2>1. \A i \in 1 .. 1 : rest[i] \in Token
    BY <1>9
  <2>2. p \in Seq(Token) /\ Len(p) = (IF 1 <= 1 THEN 1 - 1 + 1 ELSE 0)
        /\ \A i \in 1 .. 1 - 1 + 1 : p[i] = rest[1 + i - 1]
    BY <2>1, SubSeqProperties
  <2>3. q \in Seq(Token) /\ Len(q) = 1 /\ q[1] = u
    OBVIOUS
  <2> HIDE DEF p, q
  <2>4. p[1] = rest[1]
    BY <2>2
  <2>5. p \in Seq(Token) /\ Len(p) = 1 /\ \A i \in 1 .. 1 : p[i] = q[i]
    BY <1>9, <2>2, <2>3, <2>4
  <2>6. p = q
    BY <2>3, <2>5, SeqEqual
  <2>7. QED
    BY <2>6 DEF p, q
<1>12. QED
  BY <1>7, <1>10, <1>11 DEF setXCallUUID, rest, text

-----------------------------------------------------------------------------
(* getHeaderDict.  A piece with the ":" in the second place is a name and  *)
(* what stands after it.                                                   *)
Pair(kv) == kv \in Seq(Token) /\ Len(kv) >= 2 /\ kv[1] \notin Separators /\ kv[2] = ":"
After(kv) == trim(SubSeq(kv, 3, Len(kv)))

ColonIn(kv) == SelectInSeq(kv, LAMBDA t : t = ":")

LEMMA PairColon == ASSUME NEW kv, Pair(kv) PROVE ColonIn(kv) = 2
<1> DEFINE I == {i \in 1 .. Len(kv) : kv[i] = ":"}
<1>1. ColonIn(kv) = IF I # {} THEN Min(I) ELSE 0
  BY Zenon DEF ColonIn, SelectInSeq
<1>2. kv[1] # ":"
  BY SeparatorsAre DEF Pair
<1>3. kv[2] = ":" /\ Len(kv) >= 2 /\ Len(kv) \in Nat
  BY DEF Pair
<1>4. 2 \in I /\ \A x \in I : x \in Nat /\ 2 <= x
  BY <1>2, <1>3
<1> HIDE DEF I
<1>5. Min(I) = 2
  BY <1>4, MinUnique
<1>6. QED
  BY <1>1, <1>4, <1>5

LEMMA PairKey ==
  ASSUME NEW kv, Pair(kv)
  PROVE  trim(SubSeq(kv, 1, ColonIn(kv) - 1)) = <<kv[1]>>
<1> DEFINE p == SubSeq(kv, 1, 1)
           q == <<kv[1]>>
<1>1. SubSeq(kv, 1, ColonIn(kv) - 1) = p
  BY PairColon
<1>2. kv \in Seq(Token) /\ 1 \in 1 .. Len(kv)
  BY DEF Pair
<1>3. p \in Seq(Token) /\ Len(p) = 1 /\ p[1] = kv[1]
  BY <1>2, BeginningProperties
<1>4. q \in Seq(Token) /\ Len(q) = 1 /\ q[1] = kv[1]
  BY <1>2
<1> HIDE DEF p, q
<1>5. Ink(p[1])
  BY <1>3, SeparatorsAre DEF Pair
<1>6. trim(p) = SubSeq(p, 1, 1)
  <2>1. 1 \in 1 .. Len(p) /\ \A i \in 1 .. Len(p) : 1 <= i /\ i <= 1
    BY <1>3
  <2>2. QED
    BY <1>3, <1>5, <2>1, TrimIs
<1>7. SubSeq(p, 1, 1) = p
  BY <1>3, SubSeqFull
<1>8. p = q
  <2>1. \A i \in 1 .. 1 : p[i] = q[i]
    BY <1>3, <1>4
  <2>2. QED
    BY <1>3, <1>4, <2>1, SeqEqual
<1>9. QED
  BY <1>1, <1>6, <1>7, <1>8 DEF q

LEMMA PairValue ==
  ASSUME NEW kv, Pair(kv)
  PROVE  trim(SubSeq(kv, ColonIn(kv) + 1, Len(kv))) = After(kv)
<1>1. ColonIn(kv) + 1 = 3
  BY PairColon
<1>2. QED
  BY <1>1 DEF After

KeyIn(kv) == trim(SubSeq(kv, 1, ColonIn(kv) - 1))
ValueIn(kv) == trim(SubSeq(kv, ColonIn(kv) + 1, Len(kv)))
PairsIn(ps) == Selected(ps, {n \in DOMAIN ps : \E i \in DOMAIN ps[n] : ps[n][i] = ":"})
LastPair(ps, k) == SelectLastInSeq(ps, LAMBDA kv : KeyIn(kv) = k)

MapOf(pairs) ==
  [k \in {KeyIn(pairs[i]) : i \in DOMAIN pairs} |-> ValueIn(pairs[LastPair(pairs, k)])]

LEMMA StringToMapIs ==
  ASSUME NEW s, s # <<>>
  PROVE  stringToMap(s) = MapOf(PairsIn(Pieces(trim(s), ",")))
<1>1. QED
  BY Zenon DEF stringToMap, MapOf, PairsIn, KeyIn, ValueIn, LastPair, ColonIn

LEMMA PairsInAll ==
  ASSUME NEW ps \in Seq(Seq(Token)), \A n \in 1 .. Len(ps) : Pair(ps[n])
  PROVE  /\ PairsIn(ps) \in Seq(Seq(Token))
         /\ \A i \in 1 .. Len(PairsIn(ps)) : \E n \in 1 .. Len(ps) : PairsIn(ps)[i] = ps[n]
         /\ \A n \in 1 .. Len(ps) : \E i \in 1 .. Len(PairsIn(ps)) : PairsIn(ps)[i] = ps[n]
<1> DEFINE S == {n \in DOMAIN ps : \E i \in DOMAIN ps[n] : ps[n][i] = ":"}
<1>1. DOMAIN ps = 1 .. Len(ps)
  OBVIOUS
<1>2. \A n \in S : n \in 1 .. Len(ps)
  BY <1>1
<1>3. ASSUME NEW n \in 1 .. Len(ps) PROVE n \in S
  <2> DEFINE kv == ps[n]
  <2>1. Pair(kv)
    OBVIOUS
  <2> HIDE DEF kv
  <2>2. kv \in Seq(Token) /\ Len(kv) >= 2 /\ kv[2] = ":"
    BY <2>1 DEF Pair
  <2>3. 2 \in DOMAIN kv
    BY <2>2
  <2>4. QED
    BY <1>1, <2>2, <2>3 DEF kv
<1>4. PairsIn(ps) = Selected(ps, S)
  BY Zenon DEF PairsIn
<1> HIDE DEF S
<1>5. Selected(ps, S) \in Seq(Seq(Token))
  BY <1>2, SelectedProperties
<1>6. \A i \in 1 .. Len(Selected(ps, S)) : \E n \in S : Selected(ps, S)[i] = ps[n]
  BY <1>2, SelectedProperties
<1>7. \A n \in S : \E i \in 1 .. Len(Selected(ps, S)) : Selected(ps, S)[i] = ps[n]
  <2> DEFINE A == Seq(Token)
  <2>1. ps \in Seq(A)
    OBVIOUS
  <2> HIDE DEF A
  <2>2. QED
    BY <1>2, <2>1, SelectedHas
<1> DEFINE q == Selected(ps, S)
<1>8. /\ q \in Seq(Seq(Token))
      /\ \A i \in 1 .. Len(q) : \E n \in 1 .. Len(ps) : q[i] = ps[n]
      /\ \A n \in 1 .. Len(ps) : \E i \in 1 .. Len(q) : q[i] = ps[n]
  <2> HIDE DEF q
  <2>1. QED
    BY <1>2, <1>3, <1>5, <1>6, <1>7 DEF q
<1>9. QED
  BY <1>4, <1>8, Zenon

LEMMA MapOfPairs ==
  ASSUME NEW pairs \in Seq(Seq(Token)), \A i \in 1 .. Len(pairs) : Pair(pairs[i])
  PROVE  /\ \A i \in 1 .. Len(pairs) : <<pairs[i][1]>> \in DOMAIN MapOf(pairs)
         /\ \A k \in DOMAIN MapOf(pairs) : \E i \in 1 .. Len(pairs) :
              k = <<pairs[i][1]>> /\ MapOf(pairs)[k] = After(pairs[i])
<1> DEFINE K == {KeyIn(pairs[i]) : i \in DOMAIN pairs}
<1>1. MapOf(pairs) = [k \in K |-> ValueIn(pairs[LastPair(pairs, k)])]
  BY Zenon DEF MapOf
<1>2. Len(pairs) \in Nat /\ DOMAIN pairs = 1 .. Len(pairs)
  OBVIOUS
<1>3. \A i \in 1 .. Len(pairs) : KeyIn(pairs[i]) = <<pairs[i][1]>> /\ ValueIn(pairs[i]) = After(pairs[i])
  <2> SUFFICES ASSUME NEW i \in 1 .. Len(pairs)
               PROVE  KeyIn(pairs[i]) = <<pairs[i][1]>> /\ ValueIn(pairs[i]) = After(pairs[i])
    OBVIOUS
  <2> DEFINE kv == pairs[i]
  <2>1. Pair(kv)
    OBVIOUS
  <2> HIDE DEF kv
  <2>2. trim(SubSeq(kv, 1, ColonIn(kv) - 1)) = <<kv[1]>>
    BY <2>1, PairKey
  <2>3. trim(SubSeq(kv, ColonIn(kv) + 1, Len(kv))) = After(kv)
    BY <2>1, PairValue
  <2>4. QED
    BY <2>2, <2>3, Zenon DEF KeyIn, ValueIn, kv
<1>4. ASSUME NEW k \in K
      PROVE  /\ LastPair(pairs, k) \in 1 .. Len(pairs)
             /\ KeyIn(pairs[LastPair(pairs, k)]) = k
  <2> DEFINE I == {i \in 1 .. Len(pairs) : KeyIn(pairs[i]) = k}
  <2>1. LastPair(pairs, k) = IF I # {} THEN Max(I) ELSE 0
    BY Zenon DEF LastPair, SelectLastInSeq
  <2>2. PICK i \in DOMAIN pairs : k = KeyIn(pairs[i])
    OBVIOUS
  <2>3. I # {}
    BY <1>2, <2>2
  <2>4. \A x \in I : x \in Nat /\ x <= Len(pairs)
    BY <1>2
  <2>5. Max(I) \in I
    <3> HIDE DEF I
    <3>1. QED
      BY <1>2, <2>3, <2>4, MaxIs
  <2>6. LastPair(pairs, k) \in I
    BY <2>1, <2>3, <2>5
  <2>7. QED
    BY <2>6
<1>5. DOMAIN MapOf(pairs) = K
  BY <1>1
<1>6. ASSUME NEW i \in 1 .. Len(pairs) PROVE <<pairs[i][1]>> \in K
  BY <1>2, <1>3
<1>7. ASSUME NEW k \in K
      PROVE  \E i \in 1 .. Len(pairs) : k = <<pairs[i][1]>> /\ MapOf(pairs)[k] = After(pairs[i])
  <2> DEFINE i == LastPair(pairs, k)
  <2>1. i \in 1 .. Len(pairs) /\ KeyIn(pairs[i]) = k
    BY <1>4
  <2>2. MapOf(pairs)[k] = ValueIn(pairs[i])
    BY <1>1
  <2> HIDE DEF i
  <2>3. QED
    BY <1>3, <2>1, <2>2
<1>8. QED
  BY <1>5, <1>6, <1>7

LEMMA StringToMap ==
  ASSUME NEW s, s # <<>>, Pieces(trim(s), ",") \in Seq(Seq(Token)),
         \A n \in 1 .. Len(Pieces(trim(s), ",")) : Pair(Pieces(trim(s), ",")[n])
  PROVE  /\ \A n \in 1 .. Len(Pieces(trim(s), ",")) :
              <<Pieces(trim(s), ",")[n][1]>> \in DOMAIN stringToMap(s)
         /\ \A k \in DOMAIN stringToMap(s) : \E n \in 1 .. Len(Pieces(trim(s), ",")) :
              /\ k = <<Pieces(trim(s), ",")[n][1]>>
              /\ stringToMap(s)[k] = After(Pieces(trim(s), ",")[n])
<1> DEFINE ps == Pieces(trim(s), ",")
           pairs == PairsIn(ps)
           map == MapOf(pairs)
<1>1. stringToMap(s) = map
  BY StringToMapIs
<1> HIDE DEF ps
<1>2. ps \in Seq(Seq(Token)) /\ \A n \in 1 .. Len(ps) : Pair(ps[n])
  BY DEF ps
<1>3. /\ pairs \in Seq(Seq(Token))
      /\ \A i \in 1 .. Len(pairs) : \E n \in 1 .. Len(ps) : pairs[i] = ps[n]
      /\ \A n \in 1 .. Len(ps) : \E i \in 1 .. Len(pairs) : pairs[i] = ps[n]
  <2>1. pairs \in Seq(Seq(Token))
    BY <1>2, PairsInAll
  <2>2. \A i \in 1 .. Len(pairs) : \E n \in 1 .. Len(ps) : pairs[i] = ps[n]
    BY <1>2, PairsInAll
  <2>3. \A n \in 1 .. Len(ps) : \E i \in 1 .. Len(pairs) : pairs[i] = ps[n]
    BY <1>2, PairsInAll
  <2>4. QED
    BY <2>1, <2>2, <2>3
<1> HIDE DEF pairs
<1>4. \A i \in 1 .. Len(pairs) : Pair(pairs[i])
  BY <1>2, <1>3
<1>5. /\ \A i \in 1 .. Len(pairs) : <<pairs[i][1]>> \in DOMAIN map
      /\ \A k \in DOMAIN map : \E i \in 1 .. Len(pairs) :
           k = <<pairs[i][1]>> /\ map[k] = After(pairs[i])
  BY <1>3, <1>4, MapOfPairs
<1> HIDE DEF map
<1>6. \A n \in 1 .. Len(ps) : <<ps[n][1]>> \in DOMAIN map
  BY <1>3, <1>5
<1>7. ASSUME NEW k \in DOMAIN map
      PROVE  \E n \in 1 .. Len(ps) : k = <<ps[n][1]>> /\ map[k] = After(ps[n])
  <2>1. PICK i \in 1 .. Len(pairs) : k = <<pairs[i][1]>> /\ map[k] = After(pairs[i])
    BY <1>5
  <2>2. PICK n \in 1 .. Len(ps) : pairs[i] = ps[n]
    BY <1>3
  <2>3. QED
    BY <2>1, <2>2
<1>8. QED
  BY <1>1, <1>6, <1>7, Zenon DEF ps

(* The lines found, joined with "," and read as a map.                     *)
HeaderPiece(f) ==
  f \in Seq(Token) /\ Len(f) >= 2 /\ f[1] \notin Separators /\ f[2] = ":"
  /\ \A i \in 1 .. Len(f) : f[i] # ","

LEMMA BeginningPair ==
  ASSUME NEW f, HeaderPiece(f), NEW b \in 1 .. Len(f), \A j \in b + 1 .. Len(f) : ~Ink(f[j])
  PROVE  /\ b \in 2 .. Len(f) /\ Pair(SubSeq(f, 1, b)) /\ SubSeq(f, 1, b)[1] = f[1]
         /\ SubSeq(f, 1, b) \in Seq(Token)
<1>1. f \in Seq(Token) /\ Len(f) \in Nat /\ Len(f) >= 2 /\ f[1] \notin Separators /\ f[2] = ":"
  <2>1. f \in Seq(Token) /\ Len(f) >= 2 /\ f[1] \notin Separators /\ f[2] = ":"
    BY Zenon DEF HeaderPiece
  <2>2. QED
    BY <2>1
<1>2. Ink(f[2])
  BY <1>1, Zenon DEF Ink
<1>3. b >= 2
  BY <1>1, <1>2
<1> DEFINE p == SubSeq(f, 1, b)
<1>4. p \in Seq(Token) /\ Len(p) = b /\ \A i \in 1 .. b : p[i] = f[i]
  BY <1>1, BeginningProperties
<1> HIDE DEF p
<1>5. p[1] = f[1] /\ p[2] = f[2]
  BY <1>3, <1>4
<1>6. Pair(p)
  BY <1>1, <1>3, <1>4, <1>5 DEF Pair
<1>7. QED
  BY <1>1, <1>3, <1>4, <1>5, <1>6 DEF p

LEMMA DictOf ==
  ASSUME NEW found \in Seq(Seq(Token)), found # <<>>, \A i \in 1 .. Len(found) : HeaderPiece(found[i])
  PROVE  /\ Joined(found, ",") # <<>>
         /\ \A i \in 1 .. Len(found) : <<found[i][1]>> \in DOMAIN stringToMap(Joined(found, ","))
         /\ \A k \in DOMAIN stringToMap(Joined(found, ",")) : \E i \in 1 .. Len(found) :
              /\ k = <<found[i][1]>>
              /\ \E b \in 2 .. Len(found[i]) :
                   /\ \A j \in b + 1 .. Len(found[i]) : ~Ink(found[i][j])
                   /\ stringToMap(Joined(found, ","))[k] = After(SubSeq(found[i], 1, b))
<1> DEFINE d == ","
           s == Joined(found, d)
           ps == Pieces(trim(s), d)
           map == stringToMap(s)
<1>1. d \in Token
  BY TokensAre, Zenon
<1>2. \A i \in 1 .. Len(found) :
        /\ found[i] # <<>> /\ Ink(found[i][1])
        /\ \A j \in 1 .. Len(found[i]) : found[i][j] # d
  <2> SUFFICES ASSUME NEW i \in 1 .. Len(found)
               PROVE  /\ found[i] # <<>> /\ Ink(found[i][1])
                      /\ \A j \in 1 .. Len(found[i]) : found[i][j] # d
    OBVIOUS
  <2> DEFINE f == found[i]
  <2>1. HeaderPiece(f)
    OBVIOUS
  <2> HIDE DEF f
  <2>2. f \in Seq(Token) /\ Len(f) >= 2 /\ f[1] \notin Separators
        /\ \A j \in 1 .. Len(f) : f[j] # d
    BY <2>1, Zenon DEF HeaderPiece
  <2>3. f # <<>>
    <3>1. f \in Seq(Token) /\ Len(f) >= 2
      BY <2>2
    <3>2. QED
      BY <3>1
  <2>4. Ink(f[1])
    BY <2>2, SeparatorsAre
  <2>5. QED
    BY <2>2, <2>3, <2>4 DEF f
<1>3. 1 \in 1 .. Len(found)
  BY EmptySeq
<1> HIDE DEF d
<1>4. s # <<>>
  <2>1. found[1] # <<>>
    BY <1>2, <1>3
  <2>2. QED
    BY <1>1, <2>1, JoinedBegins
<1>5. /\ ps \in Seq(Seq(Token)) /\ Len(ps) = Len(found)
      /\ \A i \in 1 .. Len(found) : Shortened(ps[i], found[i])
  <2>1. ps \in Seq(Seq(Token)) /\ Len(ps) = Len(found)
    BY <1>1, <1>2, TrimJoined
  <2>2. \A i \in 1 .. Len(found) : Shortened(ps[i], found[i])
    BY <1>1, <1>2, TrimJoined
  <2> HIDE DEF ps
  <2>3. QED
    BY <2>1, <2>2
<1>6. ps = Pieces(trim(s), ",")
  BY DEF d
<1> HIDE DEF ps, s
<1>7. ASSUME NEW i \in 1 .. Len(found)
      PROVE  /\ Pair(ps[i]) /\ ps[i][1] = found[i][1]
             /\ \E b \in 2 .. Len(found[i]) :
                  ps[i] = SubSeq(found[i], 1, b) /\ \A j \in b + 1 .. Len(found[i]) : ~Ink(found[i][j])
  <2>1. PICK b \in 1 .. Len(found[i]) :
          ps[i] = SubSeq(found[i], 1, b) /\ \A j \in b + 1 .. Len(found[i]) : ~Ink(found[i][j])
    BY <1>5 DEF Shortened
  <2>2. HeaderPiece(found[i])
    OBVIOUS
  <2> DEFINE f == found[i]
  <2> HIDE DEF f
  <2>3. b \in 2 .. Len(f) /\ Pair(SubSeq(f, 1, b)) /\ SubSeq(f, 1, b)[1] = f[1]
    BY <2>1, <2>2, BeginningPair DEF f
  <2>4. QED
    BY <2>1, <2>3 DEF f
<1>8. /\ \A n \in 1 .. Len(ps) : <<ps[n][1]>> \in DOMAIN map
      /\ \A k \in DOMAIN map : \E n \in 1 .. Len(ps) : k = <<ps[n][1]>> /\ map[k] = After(ps[n])
  <2>1. \A n \in 1 .. Len(ps) : Pair(ps[n])
    BY <1>5, <1>7
  <2>2. \A n \in 1 .. Len(ps) : <<ps[n][1]>> \in DOMAIN map
    BY <1>4, <1>5, <1>6, <2>1, StringToMap
  <2>3. \A k \in DOMAIN map : \E n \in 1 .. Len(ps) : k = <<ps[n][1]>> /\ map[k] = After(ps[n])
    BY <1>4, <1>5, <1>6, <2>1, StringToMap
  <2>4. QED
    BY <2>2, <2>3
<1> HIDE DEF map
<1>9. \A i \in 1 .. Len(found) : <<found[i][1]>> \in DOMAIN map
  <2> SUFFICES ASSUME NEW i \in 1 .. Len(found) PROVE <<found[i][1]>> \in DOMAIN map
    OBVIOUS
  <2>1. <<ps[i][1]>> \in DOMAIN map /\ ps[i][1] = found[i][1]
    BY <1>5, <1>7, <1>8
  <2>2. QED
    BY <2>1
<1>10. ASSUME NEW k \in DOMAIN map
       PROVE  \E i \in 1 .. Len(found) :
                /\ k = <<found[i][1]>>
                /\ \E b \in 2 .. Len(found[i]) :
                     /\ \A j \in b + 1 .. Len(found[i]) : ~Ink(found[i][j])
                     /\ map[k] = After(SubSeq(found[i], 1, b))
  <2>1. PICK n \in 1 .. Len(ps) : k = <<ps[n][1]>> /\ map[k] = After(ps[n])
    BY <1>8
  <2>2. n \in 1 .. Len(found)
    BY <1>5
  <2>3. ps[n][1] = found[n][1]
        /\ \E b \in 2 .. Len(found[n]) :
             ps[n] = SubSeq(found[n], 1, b) /\ \A j \in b + 1 .. Len(found[n]) : ~Ink(found[n][j])
    BY <1>7, <2>2
  <2>4. QED
    BY <2>1, <2>2, <2>3
<1>11. QED
  BY <1>4, <1>9, <1>10, Zenon DEF map, s, d

(* The value of a line that was sent, whatever of its end is left.         *)
OwnPiece(f, k, v) ==
  /\ f \in Seq(Token) /\ Len(f) = Len(v) + 4
  /\ f[1] = k /\ f[2] = ":" /\ f[3] = " " /\ f[Len(v) + 4] = "\r"
  /\ \A i \in 1 .. Len(v) : f[i + 3] = v[i]

LEMMA OwnEnd ==
  ASSUME NEW n \in Nat \ {0}, NEW m \in Nat, m = n + 4, NEW f, Ink(f[n + 3]),
         NEW b \in 2 .. m, \A j \in b + 1 .. m : ~Ink(f[j])
  PROVE  b = n + 3 \/ b = n + 4
<1>1. ASSUME b < n + 3 PROVE FALSE
  <2>1. n + 3 \in b + 1 .. m
    BY <1>1
  <2>2. QED
    BY <2>1
<1>2. QED
  BY <1>1

LEMMA OwnValue ==
  ASSUME NEW k, NEW v \in Seq(Token), v # <<>>,
         \A i \in 1 .. Len(v) : v[i] \notin Separators,
         NEW f, OwnPiece(f, k, v),
         NEW b \in 2 .. Len(f), \A j \in b + 1 .. Len(f) : ~Ink(f[j])
  PROVE  After(SubSeq(f, 1, b)) = v
<1> DEFINE n == Len(v)
           p == SubSeq(f, 1, b)
           q == SubSeq(p, 3, b)
<1>1. n \in Nat \ {0} /\ \A i \in 1 .. n : Ink(v[i])
  BY EmptySeq, SeparatorsAre
<1>2. /\ f \in Seq(Token) /\ Len(f) = n + 4 /\ f[3] = " " /\ f[n + 4] = "\r"
      /\ \A i \in 1 .. n : f[i + 3] = v[i]
  BY Zenon DEF OwnPiece
<1> HIDE DEF n
<1>0. f \in Seq(Token) /\ Len(f) = n + 4
  BY <1>2, Zenon
<1>3. Ink(f[n + 3])
  <2>1. n \in 1 .. n
    BY <1>1
  <2>2. QED
    BY <1>1, <1>2, <2>1
<1>4. b = n + 3 \/ b = n + 4
  <2> DEFINE m == Len(f)
  <2>1. m \in Nat
    BY <1>0
  <2>2. m = n + 4
    BY <1>0
  <2>3. b \in 2 .. m /\ \A j \in b + 1 .. m : ~Ink(f[j])
    OBVIOUS
  <2> HIDE DEF m
  <2>4. QED
    BY <1>1, <1>3, <2>1, <2>2, <2>3, OwnEnd
<1>5. p \in Seq(Token) /\ Len(p) = b /\ \A i \in 1 .. b : p[i] = f[i]
  <2>1. b \in 1 .. Len(f)
    OBVIOUS
  <2>2. QED
    BY <1>0, <2>1, BeginningProperties
<1> HIDE DEF p
<1>6. b \in Nat /\ b >= 4
  BY <1>1, <1>4
<1>7. /\ q \in Seq(Token) /\ Len(q) = b - 2
      /\ \A i \in 1 .. b - 2 : q[i] = p[i + 2]
  <2>1. /\ 3 \in Int /\ b \in Int /\ b - 3 + 1 = b - 2 /\ (IF 3 <= b THEN b - 3 + 1 ELSE 0) = b - 2
        /\ \A i \in 1 .. b - 2 : 3 + i - 1 = i + 2
    BY <1>6
  <2>2. \A i \in 3 .. b : p[i] \in Token
    BY <1>5, <1>6
  <2>3. /\ q \in Seq(Token) /\ Len(q) = IF 3 <= b THEN b - 3 + 1 ELSE 0
        /\ \A i \in 1 .. b - 3 + 1 : q[i] = p[3 + i - 1]
    BY <2>1, <2>2, SubSeqProperties
  <2> HIDE DEF q
  <2>4. QED
    BY <2>1, <2>3
<1> HIDE DEF q
<1>8. \A i \in 1 .. b - 2 : q[i] = f[i + 2]
  <2>1. \A i \in 1 .. b - 2 : i + 2 \in 1 .. b
    BY <1>6
  <2>2. QED
    BY <1>5, <1>7, <2>1
<1>9. \A i \in 1 .. n : q[1 + i] = v[i] /\ Ink(v[i])
  <2> SUFFICES ASSUME NEW i \in 1 .. n PROVE q[1 + i] = v[i] /\ Ink(v[i])
    OBVIOUS
  <2>1. 1 + i \in 1 .. b - 2 /\ (1 + i) + 2 = i + 3
    BY <1>1, <1>4
  <2>2. q[1 + i] = f[i + 3]
    BY <1>8, <2>1
  <2>3. QED
    BY <1>1, <1>2, <2>2
<1>10. \A i \in 1 .. Len(q) : i <= 1 \/ 1 + n < i => ~Ink(q[i])
  <2> SUFFICES ASSUME NEW i \in 1 .. b - 2, i <= 1 \/ 1 + n < i PROVE ~Ink(q[i])
    BY <1>7
  <2>1. i + 2 = 3 \/ i + 2 = n + 4
    BY <1>1, <1>4
  <2>2. q[i] = f[i + 2]
    BY <1>8
  <2>3. q[i] = " " \/ q[i] = "\r"
    BY <1>2, <2>1, <2>2
  <2>4. QED
    BY <2>3, Zenon DEF Ink
<1>11. 1 + n <= Len(q)
  BY <1>1, <1>4, <1>7
<1>12. trim(q) = v
  BY <1>1, <1>7, <1>9, <1>10, <1>11, TrimBetween DEF n
<1>13. After(p) = trim(q)
  BY <1>5, Zenon DEF After, q
<1>14. QED
  BY <1>12, <1>13 DEF p

-----------------------------------------------------------------------------
(* on_incoming_call.  The lines of the message, cut apart again.           *)
LEMMA WithReturn ==
  ASSUME NEW l \in Seq(Token)
  PROVE  /\ l \o <<"\r">> \in Seq(Token) /\ Len(l \o <<"\r">>) = Len(l) + 1 /\ Len(l) \in Nat
         /\ \A i \in 1 .. Len(l) : (l \o <<"\r">>)[i] = l[i]
         /\ (l \o <<"\r">>)[Len(l) + 1] = "\r"
<1> DEFINE c == "\r"
           e == <<c>>
           n == Len(l)
           w == l \o e
<1>1. c \in Token
  BY TokensAre, Zenon
<1> HIDE DEF c
<1>2. e \in Seq(Token) /\ Len(e) = 1 /\ e[1] = c /\ n \in Nat
  BY <1>1
<1> HIDE DEF e
<1>3. /\ w \in Seq(Token) /\ Len(w) = n + Len(e)
      /\ \A i \in 1 .. n + Len(e) : w[i] = IF i <= n THEN l[i] ELSE e[i - n]
  BY <1>2, ConcatProperties
<1> HIDE DEF w, n
<1>4. /\ w \in Seq(Token) /\ Len(w) = n + 1 /\ \A i \in 1 .. n : w[i] = l[i]
      /\ w[n + 1] = c
  BY <1>2, <1>3
<1>5. QED
  BY <1>2, <1>4, Zenon DEF w, e, c, n

LEMMA MentionsWithReturn ==
  ASSUME NEW l \in Seq(Token)
  PROVE  Mentions(l \o <<"\r">>) <=> Mentions(l)
<1> DEFINE w == l \o <<"\r">>
           n == Len(l)
<1>1. w \in Seq(Token) /\ Len(w) = n + 1 /\ n \in Nat
  BY WithReturn
<1>2. \A i \in 1 .. n : w[i] = l[i]
  BY WithReturn
<1>3. w[n + 1] = "\r"
  BY WithReturn
<1>4. DOMAIN l = 1 .. n
  OBVIOUS
<1> HIDE DEF w, n
<1>5. DOMAIN w = 1 .. n + 1
  BY <1>1
<1>6. w[n + 1] \notin AnyCase
  <2>1. "\r" \notin AnyCase
    BY HeadersAssumption, Zenon DEF Separators
  <2>2. QED
    BY <1>3, <2>1
<1>7. ASSUME Mentions(w) PROVE Mentions(l)
  <2>1. PICK i \in 1 .. n + 1 : w[i] \in AnyCase
    BY <1>5, <1>7 DEF Mentions
  <2>2. i \in 1 .. n
    BY <1>1, <1>6, <2>1
  <2>3. QED
    BY <1>2, <1>4, <2>1, <2>2 DEF Mentions
<1>8. ASSUME Mentions(l) PROVE Mentions(w)
  <2>1. PICK i \in 1 .. n : l[i] \in AnyCase
    BY <1>4, <1>8 DEF Mentions
  <2>2. i \in DOMAIN w
    BY <1>1, <1>5, <2>1
  <2>3. QED
    BY <1>2, <2>1, <2>2 DEF Mentions
<1>9. QED
  BY <1>7, <1>8 DEF w

MessagePieces(ls) == split(Lines(ls, EndOfLine), "\n")
FoundIn(ls) ==
  Selected(MessagePieces(ls), {i \in DOMAIN MessagePieces(ls) : Mentions(MessagePieces(ls)[i])})
NoNewline == Token \ {"\n"}

LEMMA MessagePiecesAre ==
  ASSUME NEW ls, HeaderLines(ls)
  PROVE  /\ MessagePieces(ls) \in Seq(Seq(NoNewline)) /\ Len(MessagePieces(ls)) = Len(ls)
         /\ \A i \in 1 .. Len(ls) : ls[i] \in Seq(Token) /\ MessagePieces(ls)[i] = ls[i] \o <<"\r">>
<1> DEFINE c == "\r"
           d == "\n"
           ps == MessagePieces(ls)
           n == Len(ls)
<1>1. c \in Token /\ d \in Token /\ c # d
  BY TokensAre
<1>2. EndOfLine = <<c, d>>
  BY Zenon DEF EndOfLine
<1>3. ls \in Seq(Seq(Token)) /\ n \in Nat /\ n >= 1
      /\ \A i \in 1 .. n : ls[i] \in Seq(Token) /\ \A j \in 1 .. Len(ls[i]) : ls[i][j] # d
  BY DEF HeaderLines
<1>4. ls # <<>>
  BY <1>3
<1> HIDE DEF c, d
<1>5. split(Lines(ls, <<c, d>>), d) = Ended(ls, c)
  <2>1. ls \in Seq(Seq(Token)) /\ \A i \in 1 .. Len(ls) : \A j \in 1 .. Len(ls[i]) : ls[i][j] # d
    BY <1>3
  <2>2. QED
    BY <1>1, <1>4, <2>1, LinesPieces
<1>6. ps = [i \in DOMAIN ls |-> ls[i] \o <<c>>]
  BY <1>2, <1>5, Zenon DEF MessagePieces, Ended, d
<1>7. \A i \in 1 .. n : ls[i] \o <<c>> \in Seq(NoNewline)
  <2> SUFFICES ASSUME NEW i \in 1 .. n PROVE ls[i] \o <<c>> \in Seq(NoNewline)
    OBVIOUS
  <2> DEFINE l == ls[i]
  <2>1. l \in Seq(Token) /\ \A j \in 1 .. Len(l) : l[j] # d
    BY <1>3
  <2> HIDE DEF l
  <2>2. l \in Seq(NoNewline)
    <3>1. Len(l) \in Nat /\ l \in [1 .. Len(l) -> Token]
      BY <2>1
    <3>2. \A j \in 1 .. Len(l) : l[j] \in NoNewline
      BY <2>1, <3>1 DEF NoNewline, d
    <3>3. l = [j \in 1 .. Len(l) |-> l[j]]
      BY <3>1
    <3>4. l \in [1 .. Len(l) -> NoNewline]
      BY <3>2, <3>3
    <3>5. QED
      BY <3>1, <3>4
  <2>3. <<c>> \in Seq(NoNewline)
    <3>1. c \in NoNewline
      BY <1>1 DEF NoNewline, d
    <3>2. QED
      BY <3>1
  <2>4. QED
    BY <2>2, <2>3, ConcatProperties DEF l
<1> DEFINE piece(i) == ls[i] \o <<c>>
<1>8. ps = [i \in 1 .. n |-> piece(i)] /\ \A i \in 1 .. n : piece(i) \in Seq(NoNewline)
  <2>1. DOMAIN ls = 1 .. n
    BY <1>3
  <2>2. QED
    BY <1>6, <1>7, <2>1
<1> HIDE DEF piece, ps
<1>9. ps \in Seq(Seq(NoNewline)) /\ Len(ps) = n /\ \A i \in 1 .. n : ps[i] = piece(i)
  BY <1>3, <1>8
<1>10. QED
  BY <1>3, <1>9 DEF piece, ps, c

LEMMA FoundInProperties ==
  ASSUME NEW ls, HeaderLines(ls)
  PROVE  /\ FoundIn(ls) \in Seq(Seq(NoNewline))
         /\ \A i \in 1 .. Len(FoundIn(ls)) : \E j \in 1 .. Len(ls) :
              Mentions(ls[j]) /\ FoundIn(ls)[i] = ls[j] \o <<"\r">>
         /\ \A j \in 1 .. Len(ls) : Mentions(ls[j]) =>
              \E i \in 1 .. Len(FoundIn(ls)) : FoundIn(ls)[i] = ls[j] \o <<"\r">>
<1> DEFINE ps == MessagePieces(ls)
           S == {i \in DOMAIN ps : Mentions(ps[i])}
           q == FoundIn(ls)
           A == Seq(NoNewline)
<1>1. ps \in Seq(A) /\ Len(ps) = Len(ls)
  BY MessagePiecesAre
<1>2. \A i \in 1 .. Len(ls) : ls[i] \in Seq(Token) /\ ps[i] = ls[i] \o <<"\r">>
  BY MessagePiecesAre
<1>3. q = Selected(ps, S)
  BY Zenon DEF FoundIn
<1> HIDE DEF ps, A
<1>4. DOMAIN ps = 1 .. Len(ls)
  BY <1>1
<1>5. \A i \in S : i \in 1 .. Len(ps) /\ Mentions(ps[i])
  BY <1>1, <1>4
<1>6. \A j \in 1 .. Len(ls) : Mentions(ps[j]) <=> Mentions(ls[j])
  <2> SUFFICES ASSUME NEW j \in 1 .. Len(ls) PROVE Mentions(ps[j]) <=> Mentions(ls[j])
    OBVIOUS
  <2> DEFINE l == ls[j]
  <2>1. l \in Seq(Token) /\ ps[j] = l \o <<"\r">>
    BY <1>2
  <2> HIDE DEF l
  <2>2. Mentions(l \o <<"\r">>) <=> Mentions(l)
    BY <2>1, MentionsWithReturn
  <2>3. QED
    BY <2>1, <2>2, Zenon DEF l
<1>7. \A j \in 1 .. Len(ls) : Mentions(ls[j]) => j \in S
  BY <1>4, <1>6
<1> HIDE DEF S
<1>8. Selected(ps, S) \in Seq(A)
  BY <1>1, <1>5, SelectedProperties
<1>9. \A i \in 1 .. Len(Selected(ps, S)) : \E x \in S : Selected(ps, S)[i] = ps[x]
  BY <1>1, <1>5, SelectedProperties
<1>10. \A x \in S : \E i \in 1 .. Len(Selected(ps, S)) : Selected(ps, S)[i] = ps[x]
  BY <1>1, <1>5, SelectedHas
<1>11. \A i \in 1 .. Len(q) : \E x \in S : q[i] = ps[x]
  BY <1>3, <1>9, Zenon
<1>12. \A x \in S : \E i \in 1 .. Len(q) : q[i] = ps[x]
  BY <1>3, <1>10, Zenon
<1>13. q \in Seq(A)
  BY <1>3, <1>8, Zenon
<1> HIDE DEF q
<1>14. ASSUME NEW i \in 1 .. Len(q)
       PROVE  \E j \in 1 .. Len(ls) : Mentions(ls[j]) /\ q[i] = ls[j] \o <<"\r">>
  <2>1. PICK x \in S : q[i] = ps[x]
    BY <1>11
  <2>2. x \in 1 .. Len(ls) /\ Mentions(ps[x])
    BY <1>1, <1>5
  <2>3. Mentions(ls[x]) /\ ps[x] = ls[x] \o <<"\r">>
    BY <1>2, <1>6, <2>2
  <2>4. QED
    BY <2>1, <2>2, <2>3
<1>15. ASSUME NEW j \in 1 .. Len(ls), Mentions(ls[j])
       PROVE  \E i \in 1 .. Len(q) : q[i] = ls[j] \o <<"\r">>
  <2>1. PICK i \in 1 .. Len(q) : q[i] = ps[j]
    BY <1>7, <1>12, <1>15
  <2>2. ps[j] = ls[j] \o <<"\r">>
    BY <1>2
  <2>3. QED
    BY <2>1, <2>2, Zenon
<1>16. QED
  BY <1>13, <1>14, <1>15 DEF q, A

-----------------------------------------------------------------------------
(* The lines of an INVITE: those sent, its X-CallUUID, and others.         *)
OwnLines(map) == {Line(<<k>>, map[k]) : k \in DOMAIN map}
IdLines(u) == IF u = None THEN {} ELSE {Line(<<"X-CallUUID">>, <<u>>)}
MessageSet(map, u, other) == OwnLines(map) \cup IdLines(u) \cup other

(* No line ends within.                                                    *)
Unbroken(l) ==
  l \in Seq(Token) /\ l # <<>> /\ \A i \in 1 .. Len(l) : l[i] # "\n" /\ l[i] # "\r"

LEMMA LineText ==
  ASSUME NEW k \in Token \ Separators, NEW v \in Seq(Token),
         \A i \in 1 .. Len(v) : v[i] \notin Separators
  PROVE  /\ Unbroken(Line(<<k>>, v))
         /\ \A i \in 1 .. Len(Line(<<k>>, v)) : Line(<<k>>, v)[i] # ","
<1> DEFINE l == Line(<<k>>, v)
           n == Len(v)
<1>0. Written(l, k, v)
  BY LineProperties, Zenon
<1> HIDE DEF l
<1>1. l \in Seq(Token) /\ Len(l) = n + 3 /\ n \in Nat
  BY <1>0, Zenon DEF Written
<1>2. l[1] = k /\ l[2] = ":" /\ l[3] = " "
  BY <1>0, Zenon DEF Written
<1>3. \A i \in 1 .. n : l[i + 3] = v[i]
  BY <1>0, Zenon DEF Written
<1>4. l # <<>>
  <2>1. Len(l) # 0
    BY <1>1
  <2>2. QED
    BY <2>1
<1>5. ASSUME NEW i \in 1 .. Len(l) PROVE l[i] # "\n" /\ l[i] # "\r" /\ l[i] # ","
  <2>1. i \in 1 .. n + 3
    BY <1>1
  <2>2. CASE i = 1
    BY <1>2, <2>2, SeparatorsAre
  <2>3. CASE i = 2
    BY <1>2, <2>3
  <2>4. CASE i = 3
    BY <1>2, <2>4
  <2>5. CASE i > 3
    <3>1. i - 3 \in 1 .. n /\ (i - 3) + 3 = i
      BY <1>1, <2>1, <2>5
    <3>2. l[i] = v[i - 3] /\ v[i - 3] \notin Separators
      BY <1>3, <3>1
    <3>3. QED
      BY <3>2, SeparatorsAre
  <2>6. i = 1 \/ i = 2 \/ i = 3 \/ i > 3
    BY <1>1, <2>1
  <2>7. QED
    BY <2>2, <2>3, <2>4, <2>5, <2>6
<1>6. QED
  BY <1>1, <1>4, <1>5, Zenon DEF l, Unbroken

LEMMA OwnLinesFinite ==
  ASSUME NEW map, IsFiniteSet(DOMAIN map)
  PROVE  IsFiniteSet(OwnLines(map))
<1> DEFINE K == DOMAIN map
           line(k) == Line(<<k>>, map[k])
           L == {line(k) : k \in K}
           f == [k \in K |-> line(k)]
<1>1. OwnLines(map) = L
  BY Zenon DEF OwnLines
<1> HIDE DEF line
<1>2. f \in Surjection(K, L)
  <2>1. f \in [K -> L]
    OBVIOUS
  <2>2. \A l \in L : \E k \in K : f[k] = l
    OBVIOUS
  <2>3. QED
    BY <2>1, <2>2 DEF Surjection
<1> HIDE DEF f, L, K
<1>3. IsFiniteSet(K)
  BY DEF K
<1>4. IsFiniteSet(L)
  BY <1>2, <1>3, FS_Surjection
<1>5. QED
  BY <1>1, <1>4

LEMMA OwnLine ==
  ASSUME NEW map \in ValidMaps, NEW l \in OwnLines(map)
  PROVE  \E k \in DOMAIN map :
           /\ l = Line(<<k>>, map[k]) /\ Unbroken(l) /\ \A i \in 1 .. Len(l) : l[i] # ","
           /\ Len(l) >= 2 /\ l[1] = k /\ l[2] = ":" /\ k \in ValidKeys
<1>1. PICK k \in DOMAIN map : l = Line(<<k>>, map[k])
  BY Zenon DEF OwnLines
<1> DEFINE v == map[k]
<1>2. /\ k \in ValidKeys /\ k \in Token \ Separators /\ v \in Seq(Token)
      /\ \A i \in 1 .. Len(v) : v[i] \notin Separators
  BY ValidMap
<1>3. l = Line(<<k>>, v)
  BY <1>1
<1> HIDE DEF v
<1>4. Unbroken(Line(<<k>>, v)) /\ \A i \in 1 .. Len(Line(<<k>>, v)) : Line(<<k>>, v)[i] # ","
  BY <1>2, LineText
<1>5. Written(Line(<<k>>, v), k, v)
  BY <1>2, LineProperties, Zenon
<1>6. /\ Len(Line(<<k>>, v)) = Len(v) + 3 /\ Len(v) \in Nat
      /\ Line(<<k>>, v)[1] = k /\ Line(<<k>>, v)[2] = ":"
  BY <1>5, Zenon DEF Written
<1>7. Len(l) >= 2
  BY <1>3, <1>6
<1>8. QED
  BY <1>2, <1>3, <1>4, <1>6, <1>7, Zenon DEF v

LEMMA OtherLine == ASSUME NEW l \in OtherLines PROVE Unbroken(l) /\ l[1] # "X-CallUUID"
<1>1. l \in Seq(Token)
  BY TokensAre
<1>2. l # <<>> /\ l[1] # "X-CallUUID" /\ \A i \in DOMAIN l : l[i] \notin {"\r", "\n"}
  BY HeadersAssumption, Zenon
<1>3. DOMAIN l = 1 .. Len(l)
  BY <1>1
<1>4. QED
  BY <1>1, <1>2, <1>3 DEF Unbroken

LEMMA IdLine ==
  ASSUME NEW u \in Uuids
  PROVE  Unbroken(UuidLine(u)) /\ UuidLine(u)[1] = "X-CallUUID" /\ ~Mentions(UuidLine(u))
<1> DEFINE x == "X-CallUUID"
           v == <<u>>
           l == Line(<<x>>, v)
<1>1. x \in Token \ Separators
  <2>1. x \in Token
    BY TokensAre, Zenon
  <2>2. x \notin Separators
    BY DEF Separators
  <2>3. QED
    BY <2>1, <2>2
<1>2. u \in Token \ Separators
  BY TokensAre
<1>3. v \in Seq(Token) /\ Len(v) = 1 /\ v[1] = u
  BY <1>2
<1>4. UuidLine(u) = l
  BY Zenon DEF UuidLine
<1> HIDE DEF v
<1>5. \A i \in 1 .. Len(v) : v[i] \notin Separators
  BY <1>2, <1>3
<1>6. x \notin AnyCase /\ ":" \notin AnyCase /\ " " \notin AnyCase /\ u \notin AnyCase
  BY HeadersAssumption, Zenon DEF Separators
<1> HIDE DEF x
<1>7. Unbroken(l)
  BY <1>1, <1>3, <1>5, LineText
<1>8. x \in Token
  BY <1>1
<1>9. Written(l, x, v)
  BY <1>3, <1>8, LineProperties, Zenon
<1> HIDE DEF l
<1>10. l \in Seq(Token) /\ Len(l) = Len(v) + 3
  BY <1>9, Zenon DEF Written
<1>11. l[1] = x /\ l[2] = ":" /\ l[3] = " "
  BY <1>9, Zenon DEF Written
<1>12. \A i \in 1 .. Len(v) : l[i + 3] = v[i]
  BY <1>9, Zenon DEF Written
<1>13. l[4] = u
  <2>1. 1 \in 1 .. Len(v) /\ 1 + 3 = 4
    BY <1>3
  <2>2. QED
    BY <1>3, <1>12, <2>1
<1>14. ASSUME NEW i \in DOMAIN l PROVE l[i] \notin AnyCase
  <2>1. i = 1 \/ i = 2 \/ i = 3 \/ i = 4
    BY <1>3, <1>10
  <2>2. QED
    BY <1>6, <1>11, <1>13, <2>1
<1>15. QED
  BY <1>4, <1>7, <1>11, <1>14, Zenon DEF Mentions, x

LEMMA MessageSetProperties ==
  ASSUME NEW map \in ValidMaps, NEW u \in Uuids \cup {None}, NEW other \in SUBSET OtherLines
  PROVE  /\ IsFiniteSet(MessageSet(map, u, other))
         /\ \A l \in MessageSet(map, u, other) : Unbroken(l)
<1>1. IsFiniteSet(OwnLines(map))
  BY ValidMap, OwnLinesFinite
<1>2. IsFiniteSet(IdLines(u))
  BY FS_EmptySet, FS_Singleton DEF IdLines
<1>3. IsFiniteSet(other)
  BY HeadersAssumption, FS_Subset
<1>4. IsFiniteSet(MessageSet(map, u, other))
  BY <1>1, <1>2, <1>3, FS_Union DEF MessageSet
<1>5. \A l \in OwnLines(map) : Unbroken(l)
  BY OwnLine
<1>6. \A l \in other : Unbroken(l)
  BY OtherLine
<1>7. \A l \in IdLines(u) : Unbroken(l)
  <2>1. CASE u = None
    BY <2>1 DEF IdLines
  <2>2. CASE u # None
    <3>1. u \in Uuids /\ IdLines(u) = {UuidLine(u)}
      BY <2>2, Zenon DEF IdLines, UuidLine
    <3>2. QED
      BY <3>1, IdLine
  <2>3. QED
    BY <2>1, <2>2
<1>8. QED
  BY <1>4, <1>5, <1>6, <1>7 DEF MessageSet

Message(ls, map, u, other) ==
  /\ HeaderLines(ls)
  /\ ls[1] = RequestLine
  /\ \A j \in 2 .. Len(ls) : ls[j] \in MessageSet(map, u, other)
  /\ \A l \in MessageSet(map, u, other) : \E j \in 2 .. Len(ls) : ls[j] = l

LEMMA MessageIs ==
  ASSUME NEW map \in ValidMaps, NEW u \in Uuids \cup {None}, NEW other \in SUBSET OtherLines,
         NEW order \in SetToSeqs(MessageSet(map, u, other))
  PROVE  Message(<<RequestLine>> \o order, map, u, other)
<1> DEFINE S == MessageSet(map, u, other)
<1>1. IsFiniteSet(S) /\ \A l \in S : Unbroken(l)
  BY MessageSetProperties
<1> HIDE DEF S
<1>2. \A l \in S : l \in Seq(Token)
  BY <1>1, Zenon DEF Unbroken
<1>3. order \in SetToSeqs(S)
  BY DEF S
<1> DEFINE xs == <<RequestLine>> \o order
<1>4. xs \in Seq(Seq(Token)) /\ Len(xs) \in Nat /\ Len(xs) >= 1 /\ xs[1] = RequestLine
  BY <1>1, <1>2, <1>3, MessageLines
<1>5. \A j \in 2 .. Len(xs) : xs[j] \in S
  BY <1>1, <1>2, <1>3, MessageLines
<1>6. \A l \in S : \E j \in 2 .. Len(xs) : xs[j] = l
  BY <1>1, <1>2, <1>3, MessageLines
<1>7. Unbroken(RequestLine)
  <2> DEFINE t == "INVITE"
  <2>1. t \in Token /\ t # "\n" /\ t # "\r"
    BY TokensAre
  <2>2. RequestLine = <<t>>
    BY Zenon DEF RequestLine
  <2> HIDE DEF t
  <2> DEFINE r == <<t>>
  <2>3. r \in Seq(Token) /\ r # <<>> /\ \A i \in 1 .. Len(r) : r[i] = t
    BY <2>1
  <2> HIDE DEF r
  <2>4. Unbroken(r)
    BY <2>1, <2>3 DEF Unbroken
  <2>5. QED
    BY <2>2, <2>4, Zenon DEF r
<1> HIDE DEF xs
<1>8. \A i \in 1 .. Len(xs) : Unbroken(xs[i])
  <2> SUFFICES ASSUME NEW i \in 1 .. Len(xs) PROVE Unbroken(xs[i])
    OBVIOUS
  <2>1. CASE i = 1
    BY <1>4, <1>7, <2>1
  <2>2. CASE i # 1
    <3>1. i \in 2 .. Len(xs)
      BY <1>4, <2>2
    <3>2. QED
      BY <1>1, <1>5, <3>1
  <2>3. QED
    BY <2>1, <2>2
<1>9. HeaderLines(xs)
  BY <1>4, <1>8, Zenon DEF HeaderLines, Unbroken
<1>10. QED
  BY <1>4, <1>5, <1>6, <1>9, Zenon DEF xs, S, Message

(* XCallUUIDIsOwn, for one message.                                        *)
LEMMA UuidOfMessage ==
  ASSUME NEW map \in ValidMaps, NEW u \in Uuids \cup {None}, NEW other \in SUBSET OtherLines,
         NEW ls, Message(ls, map, u, other)
  PROVE  setXCallUUID(getXCallUUID(Lines(ls, EndOfLine))) = IF u = None THEN <<>> ELSE <<u>>
<1> DEFINE S == MessageSet(map, u, other)
<1>1. HeaderLines(ls) /\ \A j \in 2 .. Len(ls) : ls[j] \in S
  BY Zenon DEF Message
<1>2. \A l \in S : \E j \in 2 .. Len(ls) : ls[j] = l
  BY Zenon DEF Message
<1>3. \A l \in OwnLines(map) \cup other : l[1] # "X-CallUUID"
  <2>1. ASSUME NEW l \in OwnLines(map) PROVE l[1] # "X-CallUUID"
    <3>1. l[1] \in ValidKeys
      BY OwnLine
    <3>2. "X-CallUUID" \notin ValidKeys
      BY HeadersAssumption, Zenon
    <3>3. QED
      BY <3>1, <3>2
  <2>2. ASSUME NEW l \in other PROVE l[1] # "X-CallUUID"
    BY OtherLine
  <2>3. QED
    BY <2>1, <2>2
<1>4. CASE u = None
  <2>1. S = OwnLines(map) \cup other
    BY <1>4 DEF MessageSet, IdLines
  <2> HIDE DEF S
  <2>2. \A j \in 2 .. Len(ls) : ls[j][1] # "X-CallUUID"
    BY <1>1, <1>3, <2>1
  <2>3. setXCallUUID(getXCallUUID(Lines(ls, EndOfLine))) = <<>>
    BY <1>1, <2>2, NoUUID
  <2>4. QED
    BY <1>4, <2>3
<1>5. CASE u # None
  <2>1. u \in Uuids
    BY <1>5
  <2>2. u \in Token \ Separators
    BY <2>1, TokensAre
  <2>3. IdLines(u) = {UuidLine(u)}
    BY <1>5, Zenon DEF IdLines, UuidLine
  <2>4. S = OwnLines(map) \cup {UuidLine(u)} \cup other
    BY <2>3, Zenon DEF MessageSet
  <2> HIDE DEF S
  <2>5. \E j \in 2 .. Len(ls) : ls[j] = UuidLine(u)
    BY <1>2, <2>4
  <2>6. \A j \in 2 .. Len(ls) : ls[j][1] = "X-CallUUID" => ls[j] = UuidLine(u)
    BY <1>1, <1>3, <2>4
  <2>7. setXCallUUID(getXCallUUID(Lines(ls, EndOfLine))) = <<u>>
    BY <1>1, <2>2, <2>5, <2>6, HasUUID
  <2>8. QED
    BY <1>5, <2>7
<1>6. QED
  BY <1>4, <1>5

(* The lines about X-PH are those sent and others.                         *)
SentAndOthers(q, map, other) ==
  /\ \A i \in 1 .. Len(q) : \E l \in OwnLines(map) \cup {o \in other : Mentions(o)} :
       q[i] = l \o <<"\r">>
  /\ \A l \in OwnLines(map) : \E i \in 1 .. Len(q) : q[i] = l \o <<"\r">>

LEMMA FoundInMessage ==
  ASSUME NEW map \in ValidMaps, NEW u \in Uuids \cup {None}, NEW other \in SUBSET OtherLines,
         NEW ls, Message(ls, map, u, other)
  PROVE  SentAndOthers(FoundIn(ls), map, other)
<1> DEFINE S == MessageSet(map, u, other)
           q == FoundIn(ls)
<1>1. HeaderLines(ls) /\ ls[1] = RequestLine
  BY Zenon DEF Message
<1>2. \A j \in 2 .. Len(ls) : ls[j] \in S
  BY Zenon DEF Message
<1>3. \A l \in S : \E j \in 2 .. Len(ls) : ls[j] = l
  BY Zenon DEF Message
<1>4. \A i \in 1 .. Len(q) : \E j \in 1 .. Len(ls) : Mentions(ls[j]) /\ q[i] = ls[j] \o <<"\r">>
  BY <1>1, FoundInProperties
<1>5. \A j \in 1 .. Len(ls) : Mentions(ls[j]) => \E i \in 1 .. Len(q) : q[i] = ls[j] \o <<"\r">>
  BY <1>1, FoundInProperties
<1>6. ~Mentions(RequestLine)
  <2> DEFINE t == "INVITE"
  <2>1. t \notin AnyCase
    BY HeadersAssumption, Zenon
  <2>2. RequestLine = <<t>>
    BY Zenon DEF RequestLine
  <2> HIDE DEF t
  <2> DEFINE r == <<t>>
  <2>3. \A i \in DOMAIN r : r[i] = t
    OBVIOUS
  <2> HIDE DEF r
  <2>4. ~Mentions(r)
    BY <2>1, <2>3 DEF Mentions
  <2>5. QED
    BY <2>2, <2>4, Zenon DEF r
<1>7. \A l \in IdLines(u) : ~Mentions(l)
  <2>1. CASE u = None
    BY <2>1 DEF IdLines
  <2>2. CASE u # None
    <3>1. u \in Uuids /\ IdLines(u) = {UuidLine(u)}
      BY <2>2, Zenon DEF IdLines, UuidLine
    <3>2. QED
      BY <3>1, IdLine
  <2>3. QED
    BY <2>1, <2>2
<1>8. ASSUME NEW l \in OwnLines(map) PROVE Mentions(l)
  <2>1. Unbroken(l) /\ l[1] \in ValidKeys /\ Len(l) >= 2
    BY OwnLine
  <2>2. l[1] \in AnyCase
    BY <2>1, HeadersAssumption
  <2>3. l \in Seq(Token)
    BY <2>1, Zenon DEF Unbroken
  <2>4. 1 \in DOMAIN l
    BY <2>1, <2>3
  <2>5. QED
    BY <2>2, <2>4, Zenon DEF Mentions
<1> HIDE DEF q
<1>9. ASSUME NEW i \in 1 .. Len(q)
      PROVE  \E l \in OwnLines(map) \cup {o \in other : Mentions(o)} : q[i] = l \o <<"\r">>
  <2>1. PICK j \in 1 .. Len(ls) : Mentions(ls[j]) /\ q[i] = ls[j] \o <<"\r">>
    BY <1>4
  <2>2. j # 1
    BY <1>1, <1>6, <2>1
  <2>3. j \in 2 .. Len(ls)
    BY <2>2
  <2>4. ls[j] \in S
    BY <1>2, <2>3
  <2>5. ls[j] \notin IdLines(u)
    BY <1>7, <2>1
  <2>6. ls[j] \in OwnLines(map) \cup {o \in other : Mentions(o)}
    BY <2>1, <2>4, <2>5 DEF MessageSet
  <2>7. QED
    BY <2>1, <2>6, Zenon
<1>10. ASSUME NEW l \in OwnLines(map) PROVE \E i \in 1 .. Len(q) : q[i] = l \o <<"\r">>
  <2>1. l \in S
    BY DEF MessageSet
  <2>2. PICK j \in 2 .. Len(ls) : ls[j] = l
    BY <1>3, <2>1
  <2>3. j \in 1 .. Len(ls) /\ Mentions(ls[j])
    BY <1>8, <2>2
  <2>4. QED
    BY <1>5, <2>2, <2>3
<1>11. QED
  BY <1>9, <1>10, Zenon DEF q, SentAndOthers

(* HeadersArrive, for one message.                                         *)
LEMMA OwnPieceOfLine ==
  ASSUME NEW k \in Token, NEW v \in Seq(Token)
  PROVE  OwnPiece(Line(<<k>>, v) \o <<"\r">>, k, v)
<1> DEFINE l == Line(<<k>>, v)
           f == l \o <<"\r">>
           n == Len(v)
<1>0. Written(l, k, v)
  BY LineProperties, Zenon
<1> HIDE DEF l
<1>1. l \in Seq(Token) /\ Len(l) = n + 3 /\ n \in Nat
  BY <1>0, Zenon DEF Written
<1>2. l[1] = k /\ l[2] = ":" /\ l[3] = " "
  BY <1>0, Zenon DEF Written
<1>3. \A i \in 1 .. n : l[i + 3] = v[i]
  BY <1>0, Zenon DEF Written
<1>4. f \in Seq(Token) /\ Len(f) = Len(l) + 1
  BY <1>1, WithReturn
<1>5. \A i \in 1 .. Len(l) : f[i] = l[i]
  BY <1>1, WithReturn
<1>6. f[Len(l) + 1] = "\r"
  BY <1>1, WithReturn
<1> HIDE DEF f, n
<1>7. Len(f) = n + 4 /\ Len(l) + 1 = n + 4
      /\ 1 \in 1 .. Len(l) /\ 2 \in 1 .. Len(l) /\ 3 \in 1 .. Len(l)
      /\ \A i \in 1 .. n : i + 3 \in 1 .. Len(l)
  BY <1>1, <1>4
<1>8. f[1] = k /\ f[2] = ":" /\ f[3] = " "
  BY <1>2, <1>5, <1>7
<1>9. f[n + 4] = "\r"
  BY <1>6, <1>7, Zenon
<1>10. \A i \in 1 .. n : f[i + 3] = v[i]
  BY <1>3, <1>5, <1>7
<1>11. OwnPiece(f, k, v)
  BY <1>4, <1>7, <1>8, <1>9, <1>10, Zenon DEF OwnPiece, n
<1>12. QED
  BY <1>11 DEF f, l

LEMMA Places ==
  \A n \in Nat : n >= 2 =>
    1 \in 1 .. n /\ 2 \in 1 .. n /\ n + 1 >= 2 /\ \A i \in 1 .. n + 1 : i # n + 1 => i \in 1 .. n
OBVIOUS

LEMMA PieceOfLine ==
  ASSUME NEW l \in Seq(Token), Len(l) >= 2, l[1] \notin Separators, l[2] = ":",
         \A i \in 1 .. Len(l) : l[i] # ","
  PROVE  HeaderPiece(l \o <<"\r">>) /\ (l \o <<"\r">>)[1] = l[1]
<1> DEFINE f == l \o <<"\r">>
           n == Len(l)
<1>1. f \in Seq(Token) /\ Len(f) = n + 1 /\ n \in Nat
  BY WithReturn
<1>2. \A i \in 1 .. n : f[i] = l[i]
  BY WithReturn
<1>3. f[n + 1] = "\r"
  BY WithReturn
<1>4. n >= 2 /\ \A i \in 1 .. n : l[i] # ","
  OBVIOUS
<1> HIDE DEF f, n
<1>0. n \in Nat /\ n >= 2 /\ Len(f) = n + 1
  BY <1>1, <1>4, Zenon
<1>5. 1 \in 1 .. n /\ 2 \in 1 .. n /\ Len(f) >= 2
      /\ \A i \in 1 .. Len(f) : i # n + 1 => i \in 1 .. n
  BY <1>0, Places, Zenon
<1>6. f[1] = l[1] /\ f[2] = ":"
  BY <1>2, <1>5
<1>7. ASSUME NEW i \in 1 .. Len(f) PROVE f[i] # ","
  <2>1. CASE i = n + 1
    BY <1>3, <2>1
  <2>2. CASE i # n + 1
    <3>1. i \in 1 .. n
      BY <1>5, <2>2, Zenon
    <3>2. QED
      BY <1>2, <1>4, <3>1
  <2>3. QED
    BY <2>1, <2>2
<1>8. HeaderPiece(f)
  BY <1>1, <1>5, <1>6, <1>7, Zenon DEF HeaderPiece
<1>9. QED
  BY <1>6, <1>8 DEF f

Arrived(map, found) ==
  LET given == {<<k>> : k \in DOMAIN map}
  IN  /\ given \subseteq DOMAIN found
      /\ \A k \in DOMAIN map : found[<<k>>] = map[k]
      /\ \A k \in DOMAIN found \ given : \E l \in OtherLines : Mentions(l) /\ <<l[1]>> = k

LEMMA FoundArrived ==
  ASSUME NEW map \in ValidMaps, NEW other \in SUBSET OtherLines, OthersUnambiguous,
         NEW q \in Seq(Seq(Token)), q # <<>>, SentAndOthers(q, map, other)
  PROVE  Joined(q, ",") # <<>> /\ Arrived(map, stringToMap(Joined(q, ",")))
<1> DEFINE dict == stringToMap(Joined(q, ","))
           lines == OwnLines(map) \cup {o \in other : Mentions(o)}
<1>1. ASSUME NEW l \in lines
      PROVE  /\ l \in Seq(Token) /\ Len(l) >= 2 /\ l[1] \notin Separators /\ l[2] = ":"
             /\ \A i \in 1 .. Len(l) : l[i] # ","
  <2>1. CASE l \in OwnLines(map)
    <3>1. PICK k \in DOMAIN map :
            /\ Unbroken(l) /\ \A i \in 1 .. Len(l) : l[i] # ","
            /\ Len(l) >= 2 /\ l[1] = k /\ l[2] = ":"
      BY <2>1, OwnLine
    <3>2. k \notin Separators
      BY ValidMap
    <3>3. l \in Seq(Token)
      BY <3>1, Zenon DEF Unbroken
    <3>4. QED
      BY <3>1, <3>2, <3>3
  <2>2. CASE l \in {o \in other : Mentions(o)}
    <3>1. l \in OtherLines /\ Mentions(l)
      BY <2>2
    <3>2. Len(l) >= 2 /\ l[1] \notin Separators /\ l[2] = ":" /\ \A i \in DOMAIN l : l[i] # ","
      BY <3>1 DEF OthersUnambiguous
    <3>3. l \in Seq(Token)
      BY <3>1, TokensAre
    <3>4. DOMAIN l = 1 .. Len(l)
      BY <3>3
    <3>5. QED
      BY <3>2, <3>3, <3>4
  <2>3. QED
    BY <2>1, <2>2
<1>2. \A i \in 1 .. Len(q) : \E l \in lines : q[i] = l \o <<"\r">>
  BY Zenon DEF SentAndOthers
<1>3. \A i \in 1 .. Len(q) : HeaderPiece(q[i])
  <2> SUFFICES ASSUME NEW i \in 1 .. Len(q) PROVE HeaderPiece(q[i])
    OBVIOUS
  <2>1. PICK l \in lines : q[i] = l \o <<"\r">>
    BY <1>2
  <2>2. HeaderPiece(l \o <<"\r">>)
    BY <1>1, PieceOfLine
  <2>3. QED
    BY <2>1, <2>2
<1>4. Joined(q, ",") # <<>>
  BY <1>3, DictOf
<1>5. \A i \in 1 .. Len(q) : <<q[i][1]>> \in DOMAIN dict
  BY <1>3, DictOf
<1>6. \A k \in DOMAIN dict : \E i \in 1 .. Len(q) :
        /\ k = <<q[i][1]>>
        /\ \E b \in 2 .. Len(q[i]) :
             (\A j \in b + 1 .. Len(q[i]) : ~Ink(q[i][j])) /\ dict[k] = After(SubSeq(q[i], 1, b))
  BY <1>3, DictOf
<1> HIDE DEF dict
<1>7. ASSUME NEW k \in DOMAIN map PROVE <<k>> \in DOMAIN dict
  <2> DEFINE l == Line(<<k>>, map[k])
  <2>1. l \in OwnLines(map)
    BY DEF OwnLines
  <2>2. PICK i \in 1 .. Len(q) : q[i] = l \o <<"\r">>
    BY <2>1, Zenon DEF SentAndOthers
  <2>3. l[1] = k
    <3>1. k \in Token /\ map[k] \in Seq(Token)
      BY ValidMap
    <3>2. Written(l, k, map[k])
      BY <3>1, LineProperties, Zenon
    <3>3. QED
      BY <3>2, Zenon DEF Written
  <2> HIDE DEF l
  <2>4. (l \o <<"\r">>)[1] = l[1]
    BY <1>1, <2>1, PieceOfLine
  <2>5. q[i][1] = k
    BY <2>2, <2>3, <2>4
  <2>6. QED
    BY <1>5, <2>5
<1>8. ASSUME NEW k \in DOMAIN map PROVE dict[<<k>>] = map[k]
  <2>1. PICK i \in 1 .. Len(q) :
          /\ <<k>> = <<q[i][1]>>
          /\ \E b \in 2 .. Len(q[i]) :
               (\A j \in b + 1 .. Len(q[i]) : ~Ink(q[i][j])) /\ dict[<<k>>] = After(SubSeq(q[i], 1, b))
    BY <1>6, <1>7
  <2> DEFINE f == q[i]
             v == map[k]
  <2>2. PICK b \in 2 .. Len(f) :
          (\A j \in b + 1 .. Len(f) : ~Ink(f[j])) /\ dict[<<k>>] = After(SubSeq(f, 1, b))
    BY <2>1
  <2>3. PICK l \in lines : f = l \o <<"\r">>
    BY <1>2
  <2>4. f[1] = k
    BY <2>1
  <2>5. /\ k \in ValidKeys /\ k \in Token \ Separators /\ v \in Seq(Token) /\ v # <<>>
        /\ \A j \in 1 .. Len(v) : v[j] \notin Separators
    BY ValidMap
  <2> HIDE DEF f, v
  <2>6. l[1] = k
    <3>1. (l \o <<"\r">>)[1] = l[1]
      BY <1>1, PieceOfLine
    <3>2. QED
      BY <2>3, <2>4, <3>1
  <2>7. l \in OwnLines(map)
    <3>1. l \notin {o \in other : Mentions(o)}
      BY <2>5, <2>6 DEF OthersUnambiguous
    <3>2. QED
      BY <3>1
  <2>8. l = Line(<<k>>, v)
    <3>1. PICK m \in DOMAIN map : l = Line(<<m>>, map[m]) /\ l[1] = m
      BY <2>7, OwnLine
    <3>2. m = k
      BY <2>6, <3>1
    <3>3. QED
      BY <3>1, <3>2 DEF v
  <2>9. OwnPiece(f, k, v)
    <3>1. OwnPiece(Line(<<k>>, v) \o <<"\r">>, k, v)
      BY <2>5, OwnPieceOfLine
    <3>2. QED
      BY <2>3, <2>8, <3>1, Zenon
  <2>10. After(SubSeq(f, 1, b)) = v
    <3>1. \A j \in b + 1 .. Len(f) : ~Ink(f[j])
      BY <2>2, Zenon
    <3>2. v \in Seq(Token) /\ v # <<>> /\ \A j \in 1 .. Len(v) : v[j] \notin Separators
      BY <2>5, Zenon
    <3>3. QED
      BY <2>9, <3>1, <3>2, OwnValue
  <2>11. QED
    BY <2>2, <2>10 DEF v
<1> DEFINE given == {<<k>> : k \in DOMAIN map}
<1>9. ASSUME NEW k \in DOMAIN dict \ given PROVE \E l \in OtherLines : Mentions(l) /\ <<l[1]>> = k
  <2>1. PICK i \in 1 .. Len(q) : k = <<q[i][1]>>
    BY <1>6
  <2>2. PICK l \in lines : q[i] = l \o <<"\r">>
    BY <1>2
  <2>3. q[i][1] = l[1]
    BY <1>1, <2>2, PieceOfLine
  <2>4. l \notin OwnLines(map)
    <3>1. ASSUME l \in OwnLines(map) PROVE l[1] \in DOMAIN map
      BY <3>1, OwnLine
    <3>2. QED
      BY <2>1, <2>3, <3>1
  <2>5. QED
    BY <2>1, <2>2, <2>3, <2>4
<1>10. given \subseteq DOMAIN dict
  BY <1>7
<1>11. Arrived(map, dict)
  BY <1>8, <1>9, <1>10, Zenon DEF Arrived
<1>12. QED
  BY <1>4, <1>11 DEF dict

-----------------------------------------------------------------------------
(* What Receive does.                                                      *)
FoundMap(text) == IF text = <<>> THEN NoMap ELSE stringToMap(text)

LEMMA OwnLinesSent ==
  ASSUME NEW map \in ValidMaps, NEW order \in SetToSeqs(DOMAIN map), sent = SentFor(map, order)
  PROVE  {Line(sent[i][1], sent[i][2]) : i \in DOMAIN sent} = OwnLines(map)
<1> DEFINE line(k) == Line(<<k>>, map[k])
           n == Len(order)
<1>1. /\ n \in Nat /\ \A k \in DOMAIN map : \E i \in 1 .. n : order[i] = k
      /\ \A i \in 1 .. n : order[i] \in DOMAIN map
  BY ValidOrder
<1>2. DOMAIN sent = 1 .. n
      /\ \A i \in 1 .. n : sent[i][1] = <<order[i]>> /\ sent[i][2] = map[order[i]]
  BY DEF SentFor
<1>3. \A i \in 1 .. n : Line(sent[i][1], sent[i][2]) = line(order[i])
  BY <1>2
<1>4. OwnLines(map) = {line(k) : k \in DOMAIN map}
  BY Zenon DEF OwnLines
<1> HIDE DEF line, n
<1>5. {Line(sent[i][1], sent[i][2]) : i \in DOMAIN sent} = {line(k) : k \in DOMAIN map}
  <2> DEFINE own == {Line(sent[i][1], sent[i][2]) : i \in DOMAIN sent}
             lines == {line(k) : k \in DOMAIN map}
  <2>1. ASSUME NEW l \in own PROVE l \in lines
    <3>1. PICK i \in DOMAIN sent : l = Line(sent[i][1], sent[i][2])
      BY Zenon
    <3>2. i \in 1 .. n /\ l = line(order[i])
      BY <1>2, <1>3, <3>1, Zenon
    <3>3. QED
      BY <1>1, <3>2, Zenon
  <2>2. ASSUME NEW l \in lines PROVE l \in own
    <3>1. PICK k \in DOMAIN map : l = line(k)
      BY Zenon
    <3>2. PICK i \in 1 .. n : order[i] = k
      BY <1>1
    <3>3. l = Line(sent[i][1], sent[i][2]) /\ i \in DOMAIN sent
      BY <1>2, <1>3, <3>1, <3>2, Zenon
    <3>4. QED
      BY <3>3, Zenon
  <2> HIDE DEF own, lines
  <2>3. own = lines
    BY <2>1, <2>2
  <2>4. QED
    BY <2>3 DEF own, lines
<1>6. QED
  BY <1>4, <1>5

LEMMA FoundInMessageArrived ==
  ASSUME NEW map \in ValidMaps, NEW u \in Uuids \cup {None}, NEW other \in SUBSET OtherLines,
         NEW ls, Message(ls, map, u, other)
  PROVE  /\ Joined(FoundIn(ls), ",") \in Seq(NoNewline)
         /\ OthersUnambiguous => Arrived(map, FoundMap(Joined(FoundIn(ls), ",")))
<1> DEFINE q == FoundIn(ls)
           d == ","
<1>1. q \in Seq(Seq(NoNewline))
  BY FoundInProperties, Zenon DEF Message
<1>2. d \in NoNewline
  <2>1. d \in Token
    BY TokensAre, Zenon
  <2>2. d # "\n"
    OBVIOUS
  <2>3. QED
    BY <2>1, <2>2 DEF NoNewline
<1>3. SentAndOthers(q, map, other)
  BY FoundInMessage
<1> HIDE DEF q
<1>5. Joined(q, ",") \in Seq(NoNewline)
  <2> HIDE DEF d
  <2>1. Joined(q, d) \in Seq(NoNewline)
    BY <1>1, <1>2, JoinedType
  <2>2. QED
    BY <2>1 DEF d
<1>6. ASSUME OthersUnambiguous PROVE Arrived(map, FoundMap(Joined(q, ",")))
  <2>1. CASE q = <<>>
    <3>1. Joined(q, ",") = <<>>
      BY <2>1, JoinedEmpty
    <3>2. FoundMap(Joined(q, ",")) = NoMap
      BY <3>1, Zenon DEF FoundMap
    <3>3. OwnLines(map) = {}
      BY <1>3, <2>1 DEF SentAndOthers
    <3>4. DOMAIN map = {}
      BY <3>3 DEF OwnLines
    <3>5. DOMAIN NoMap = {}
      BY DEF NoMap
    <3>6. Arrived(map, NoMap)
      BY <3>4, <3>5 DEF Arrived
    <3>7. QED
      BY <3>2, <3>6
  <2>2. CASE q # <<>>
    <3>1. q \in Seq(Seq(Token))
      <4>1. Seq(NoNewline) \subseteq Seq(Token)
        <5>1. NoNewline \subseteq Token
          BY Zenon DEF NoNewline
        <5>2. QED
          BY <5>1, SeqMonotonic
      <4>2. QED
        BY <1>1, <4>1, SeqMonotonic
    <3>2. Joined(q, ",") # <<>> /\ Arrived(map, stringToMap(Joined(q, ",")))
      BY <1>3, <1>6, <2>2, <3>1, FoundArrived
    <3>3. QED
      BY <3>2, Zenon DEF FoundMap
  <2>3. QED
    BY <2>1, <2>2
<1>7. QED
  BY <1>5, <1>6 DEF q

LEMMA Received ==
  ASSUME NEW map \in ValidMaps, NEW order \in SetToSeqs(DOMAIN map), sent = SentFor(map, order),
         Receive
  PROVE  /\ uuid' \in Uuids \cup {None}
         /\ xCallUUID' = IF uuid' = None THEN <<>> ELSE <<uuid'>>
         /\ header' \in Seq(NoNewline)
         /\ OthersUnambiguous => Arrived(map, FoundMap(header'))
<1> DEFINE own == {Line(sent[i][1], sent[i][2]) : i \in DOMAIN sent}
<1>1. PICK u \in Uuids \cup {None}, other \in SUBSET OtherLines :
        /\ uuid' = u
        /\ \E lines \in SetToSeqs(own \cup IdLines(u) \cup other) :
             on_incoming_call(<<RequestLine>> \o lines)
  BY Zenon DEF Receive, IdLines
<1>2. own = OwnLines(map)
  BY OwnLinesSent
<1> HIDE DEF own
<1>3. PICK lines \in SetToSeqs(MessageSet(map, u, other)) :
        on_incoming_call(<<RequestLine>> \o lines)
  BY <1>1, <1>2, Zenon DEF MessageSet
<1> DEFINE ls == <<RequestLine>> \o lines
<1>4. Message(ls, map, u, other)
  BY MessageIs
<1>5. on_incoming_call(ls)
  BY <1>3
<1> HIDE DEF ls
<1>6. /\ header' = Joined(FoundIn(ls), ",")
      /\ xCallUUID' = setXCallUUID(getXCallUUID(Lines(ls, EndOfLine)))
  BY <1>5, Zenon DEF on_incoming_call, Lines, FoundIn, MessagePieces
<1>7. setXCallUUID(getXCallUUID(Lines(ls, EndOfLine))) = IF u = None THEN <<>> ELSE <<u>>
  BY <1>4, UuidOfMessage
<1>8. Joined(FoundIn(ls), ",") \in Seq(NoNewline)
  BY <1>4, FoundInMessageArrived
<1>9. OthersUnambiguous => Arrived(map, FoundMap(Joined(FoundIn(ls), ",")))
  BY <1>4, FoundInMessageArrived
<1>10. xCallUUID' = IF u = None THEN <<>> ELSE <<u>>
  BY <1>6, <1>7
<1>11. QED
  BY <1>1, <1>6, <1>8, <1>9, <1>10, Zenon

-----------------------------------------------------------------------------
(* relayVoipPushNotification.                                              *)
LEMMA PushOrder ==
  ASSUME NEW push \in [Required -> PushValues], NEW order \in SetToSeqs(DOMAIN push)
  PROVE  /\ order \in Seq(Token \ Separators) /\ order \in Seq(Token) /\ order # <<>>
         /\ DOMAIN order = 1 .. Len(order) /\ Len(order) \in Nat
         /\ \A k \in Required : \E i \in 1 .. Len(order) : order[i] = k
         /\ \A i \in 1 .. Len(order) :
              /\ order[i] \in Required /\ order[i] \in Token \ Separators
              /\ push[order[i]] \in Seq(Token)
<1>1. DOMAIN push = Required /\ \A k \in Required : push[k] \in PushValues
  OBVIOUS
<1>2. IsFiniteSet(Required)
  <2>1. Required = {"label"} \cup {"index"} \cup {"registrar"}
    BY DEF Required
  <2>2. QED
    BY <2>1, FS_Singleton, FS_Union
<1>3. \A k \in Required : k \in Token \ Separators /\ push[k] \in Seq(Token)
  BY <1>1, TokensAre
<1>4. order \in SetToSeqs(Required)
  BY <1>1
<1>5. /\ order \in Seq(Required) /\ DOMAIN order = 1 .. Len(order) /\ Len(order) \in Nat
      /\ \A x \in Required : \E i \in 1 .. Len(order) : order[i] = x
  BY <1>2, <1>4, OrderProperties
<1>6. \E x : x \in Required
  BY Zenon DEF Required
<1>7. order # <<>>
  <2>1. PICK i \in 1 .. Len(order) : TRUE
    BY <1>5, <1>6
  <2>2. Len(order) # 0
    BY <1>5, <2>1
  <2>3. QED
    BY <1>5, <2>2
<1>8. Required \subseteq Token \ Separators
  BY <1>3
<1> HIDE DEF Token
<1>9. order \in Seq(Token \ Separators)
  BY <1>5, <1>8, SeqMonotonic
<1>10. order \in Seq(Token)
  <2>1. Required \subseteq Token
    BY <1>8
  <2>2. QED
    BY <1>5, <2>1, SeqMonotonic
<1>11. \A i \in 1 .. Len(order) : order[i] \in Required
  BY <1>5
<1>12. QED
  BY <1>3, <1>5, <1>7, <1>9, <1>10, <1>11

LEMMA PartTidy ==
  ASSUME NEW k \in Token \ Separators, NEW v \in Seq(Token), ~EmptyPiece(v)
  PROVE  Tidy(Part(k, v), ",")
<1> DEFINE p == Part(k, v)
           n == Len(v)
           d == ","
<1>1. p \in Seq(Token) /\ Len(p) = n + 2 /\ n \in Nat
  BY PartProperties
<1>2. p[1] = k /\ p[2] = ":"
  BY PartProperties
<1>3. \A i \in 1 .. n : p[i + 2] = v[i]
  BY PartProperties
<1>4. DOMAIN v = 1 .. n
  OBVIOUS
<1> HIDE DEF p
<1>5. k # d /\ p[2] # d
  <2>1. k # ","
    BY SeparatorsAre
  <2>2. QED
    BY <1>2, <2>1
<1>6. \A i \in 1 .. n : v[i] = d => i # n /\ v[i + 1] # d
  BY <1>4, Zenon DEF EmptyPiece
<1> HIDE DEF n, d
<1>7. p # <<>>
  <2>1. Len(p) # 0
    BY <1>1
  <2>2. QED
    BY <2>1
<1>8. p[n + 2] # d
  <2>1. CASE n = 0
    BY <1>5, <2>1
  <2>2. CASE n # 0
    <3>1. n \in 1 .. n
      BY <1>1, <2>2
    <3>2. QED
      BY <1>3, <1>6, <3>1
  <2>3. QED
    BY <2>1, <2>2
<1>9. ASSUME NEW i \in 1 .. n + 1, p[i] = d PROVE p[i + 1] # d
  <2>1. i # 1 /\ i # 2
    BY <1>2, <1>5, <1>9
  <2> DEFINE j == i - 2
  <2>2. j \in 1 .. n /\ j + 2 = i /\ (j + 1) + 2 = i + 1
    BY <1>1, <2>1
  <2> HIDE DEF j
  <2>3. v[j] = d
    BY <1>3, <1>9, <2>2
  <2>4. j # n /\ v[j + 1] # d
    BY <1>6, <2>2, <2>3
  <2>5. j + 1 \in 1 .. n
    BY <1>1, <2>2, <2>4
  <2>6. p[(j + 1) + 2] = v[j + 1]
    BY <1>3, <2>5
  <2>7. QED
    BY <2>2, <2>4, <2>6
<1>10. Len(p) - 1 = n + 1
  BY <1>1
<1>11. Tidy(p, d)
  BY <1>1, <1>2, <1>5, <1>7, <1>8, <1>9, <1>10 DEF Tidy
<1>12. QED
  BY <1>11 DEF p, d

(* Without a "," at an end or before another, no piece is empty.           *)
LEMMA NoEmptyPart ==
  ASSUME NEW push \in [Required -> PushValues], NEW order \in SetToSeqs(DOMAIN push),
         \A k \in DOMAIN push : ~EmptyPiece(push[k]),
         NEW i \in DOMAIN split(mapToString(push, order), ",")
  PROVE  split(split(mapToString(push, order), ",")[i], ":") # <<>>
<1> DEFINE d == ","
           ps == Parts(push, order)
           text == mapToString(push, order)
           pieces == split(text, d)
<1>1. /\ order \in Seq(Token) /\ order # <<>> /\ Len(order) \in Nat
      /\ \A n \in 1 .. Len(order) :
           /\ order[n] \in Token \ Separators /\ push[order[n]] \in Seq(Token)
           /\ ~EmptyPiece(push[order[n]])
  <2>1. order \in Seq(Token) /\ order # <<>> /\ Len(order) \in Nat
    BY PushOrder
  <2>2. \A n \in 1 .. Len(order) :
           order[n] \in Required /\ order[n] \in Token \ Separators /\ push[order[n]] \in Seq(Token)
    BY PushOrder
  <2>3. DOMAIN push = Required
    OBVIOUS
  <2>4. QED
    BY <2>1, <2>2, <2>3
<1>2. ps \in Seq(Seq(Token)) /\ Len(ps) = Len(order)
  BY <1>1, PartsProperties
<1>3. \A n \in 1 .. Len(order) : ps[n] = Part(order[n], push[order[n]])
  BY <1>1, PartsProperties
<1>4. text = Joined(ps, d)
  BY <1>1, PartsProperties
<1>5. text \in Seq(Token)
  BY <1>1, PartsProperties
<1>6. \A n \in 1 .. Len(order) : Tidy(Part(order[n], push[order[n]]), d)
  BY <1>1, PartTidy
<1>7. d \in Token
  BY TokensAre, Zenon
<1> HIDE DEF ps, text, d
<1>8. ps # <<>> /\ \A n \in 1 .. Len(ps) : Tidy(ps[n], d)
  <2>1. Len(order) # 0
    BY <1>1, SomeLength
  <2>2. ps # <<>>
    BY <1>2, <2>1, NotEmpty, Zenon
  <2>3. QED
    BY <1>2, <1>3, <1>6, <2>2
<1>9. Tidy(Joined(ps, d), d)
  BY <1>2, <1>7, <1>8, TidyJoined
<1>10. \A n \in 1 .. Len(Pieces(text, d)) : Pieces(text, d)[n] # <<>>
  BY <1>4, <1>5, <1>9, TidyPieces
<1>11. pieces \in Seq(Seq(Token))
  BY <1>5, SplitProperties
<1>12. \A n \in 1 .. Len(pieces) : n \in 1 .. Len(Pieces(text, d)) /\ pieces[n] = Pieces(text, d)[n]
  BY <1>5, SplitPiece
<1>13. i \in DOMAIN pieces
  BY DEF text, d
<1> HIDE DEF pieces
<1>14. i \in 1 .. Len(pieces) /\ pieces[i] \in Seq(Token) /\ pieces[i] # <<>>
  <2>1. i \in 1 .. Len(pieces) /\ pieces[i] \in Seq(Token)
    BY <1>11, <1>13, PlaceIn, Zenon
  <2>2. QED
    BY <1>10, <1>12, <2>1
<1> DEFINE piece == pieces[i]
<1> HIDE DEF piece
<1>15. piece \in Seq(Token) /\ piece # <<>>
  BY <1>14 DEF piece
<1>16. split(piece, ":") # <<>>
  BY <1>15, SplitProperties
<1>17. QED
  BY <1>16 DEF piece, pieces, text, d

PushParts(push, order) ==
  LET pieces == split(mapToString(push, order), ",")
  IN  [i \in DOMAIN pieces |-> split(pieces[i], ":")]

PushValue(parts, k) ==
  LET last == SelectLastInSeq(parts, LAMBDA p : p[1] = <<k>>)
  IN  IF Len(parts[last]) = 1 THEN <<>> ELSE parts[last][2]

PlainPush(push) == \A k \in Required : Plain(push[k])

LEMMA PlainParts ==
  ASSUME NEW push \in [Required -> PushValues], PlainPush(push), NEW order \in SetToSeqs(DOMAIN push)
  PROVE  /\ DOMAIN PushParts(push, order) = 1 .. Len(order)
         /\ \A i \in 1 .. Len(order) :
              /\ push[order[i]] = <<>> => PushParts(push, order)[i] = <<<<order[i]>>>>
              /\ push[order[i]] # <<>> => PushParts(push, order)[i] = <<<<order[i]>>, push[order[i]]>>
<1> DEFINE pieces == split(mapToString(push, order), ",")
           n == Len(order)
<1>1. order \in Seq(Token \ Separators) /\ DOMAIN order = 1 .. n
  BY PushOrder
<1>2. \A i \in 1 .. n :
         order[i] \in Required /\ order[i] \in Token \ Separators /\ push[order[i]] \in Seq(Token)
  BY PushOrder
<1>3. \A i \in 1 .. n : \A j \in 1 .. Len(push[order[i]]) : push[order[i]][j] \notin Separators
  <2> SUFFICES ASSUME NEW i \in 1 .. n
               PROVE  \A j \in 1 .. Len(push[order[i]]) : push[order[i]][j] \notin Separators
    OBVIOUS
  <2> DEFINE v == push[order[i]]
  <2>1. v \in Seq(Token) /\ Plain(v)
    BY <1>2 DEF PlainPush
  <2> HIDE DEF v
  <2>2. QED
    BY <2>1, PlainText DEF v
<1>4. pieces = Parts(push, order)
  BY <1>1, <1>2, <1>3, PlainMap
<1>5. DOMAIN pieces = 1 .. n /\ \A i \in 1 .. n : pieces[i] = Part(order[i], push[order[i]])
  BY <1>1, <1>4 DEF Parts
<1>6. PushParts(push, order) = [i \in DOMAIN pieces |-> split(pieces[i], ":")]
  BY DEF PushParts
<1> HIDE DEF pieces
<1>7. ASSUME NEW i \in 1 .. n
      PROVE  /\ push[order[i]] = <<>> => PushParts(push, order)[i] = <<<<order[i]>>>>
             /\ push[order[i]] # <<>> => PushParts(push, order)[i] = <<<<order[i]>>, push[order[i]]>>
  <2> DEFINE k == order[i]
             v == push[order[i]]
  <2>1. k \in Token \ Separators /\ v \in Seq(Token) /\ \A j \in 1 .. Len(v) : v[j] \notin Separators
    BY <1>2, <1>3
  <2>2. PushParts(push, order)[i] = split(Part(k, v), ":")
    BY <1>5, <1>6
  <2> HIDE DEF k, v
  <2>3. /\ v = <<>> => split(Part(k, v), ":") = <<<<k>>>>
        /\ v # <<>> => split(Part(k, v), ":") = <<<<k>>, v>>
    BY <2>1, PartSplit
  <2>4. QED
    BY <2>2, <2>3, Zenon DEF k, v
<1>8. QED
  BY <1>5, <1>6, <1>7

(* The value of a name is what the notification gives it.                  *)
LEMMA PlainValue ==
  ASSUME NEW push \in [Required -> PushValues], PlainPush(push), NEW order \in SetToSeqs(DOMAIN push),
         NEW k \in Required
  PROVE  PushValue(PushParts(push, order), k) = push[k]
<1> DEFINE parts == PushParts(push, order)
           n == Len(order)
           Test(p) == p[1] = <<k>>
           I == {i \in 1 .. Len(parts) : parts[i][1] = <<k>>}
           last == IF I # {} THEN Max(I) ELSE 0
<1>1. n \in Nat /\ \A x \in Required : \E i \in 1 .. n : order[i] = x
  BY PushOrder
<1>2. DOMAIN parts = 1 .. n
  BY PlainParts
<1>3. \A i \in 1 .. n :
        /\ push[order[i]] = <<>> => parts[i] = <<<<order[i]>>>>
        /\ push[order[i]] # <<>> => parts[i] = <<<<order[i]>>, push[order[i]]>>
  BY PlainParts
<1>4. PushValue(parts, k) = IF Len(parts[last]) = 1 THEN <<>> ELSE parts[last][2]
  BY Zenon DEF PushValue, SelectLastInSeq
<1>5. Len(parts) = n
  <2>1. \E pieces : parts = [i \in DOMAIN pieces |-> split(pieces[i], ":")]
    BY DEF PushParts
  <2> HIDE DEF parts
  <2>2. parts = [i \in 1 .. n |-> parts[i]]
    BY <1>2, <2>1
  <2>3. QED
    BY <1>1, <2>2
<1> HIDE DEF parts
<1>6. \A i \in 1 .. n : parts[i][1] = <<order[i]>>
  <2> SUFFICES ASSUME NEW i \in 1 .. n PROVE parts[i][1] = <<order[i]>>
    OBVIOUS
  <2>1. CASE push[order[i]] = <<>>
    BY <1>3, <2>1
  <2>2. CASE push[order[i]] # <<>>
    BY <1>3, <2>2
  <2>3. QED
    BY <2>1, <2>2
<1>7. I # {} /\ \A x \in I : x \in Nat /\ x <= n
  <2>1. PICK i \in 1 .. n : order[i] = k
    BY <1>1
  <2>2. i \in I
    BY <1>5, <1>6, <2>1
  <2>3. QED
    BY <1>1, <1>5, <2>2
<1>8. Max(I) \in I
  <2> HIDE DEF I
  <2>1. QED
    BY <1>1, <1>7, MaxIs
<1>9. last \in 1 .. n /\ parts[last][1] = <<k>>
  BY <1>5, <1>7, <1>8
<1> HIDE DEF last
<1>10. order[last] = k
  <2>1. <<order[last]>> = <<k>>
    BY <1>6, <1>9
  <2>2. QED
    BY <2>1
<1>11. CASE push[k] = <<>>
  <2>1. parts[last] = <<<<k>>>>
    BY <1>3, <1>9, <1>10, <1>11
  <2>2. Len(parts[last]) = 1
    BY <2>1
  <2>3. QED
    BY <1>4, <1>11, <2>2 DEF parts
<1>12. CASE push[k] # <<>>
  <2>1. parts[last] = <<<<k>>, push[k]>>
    BY <1>3, <1>9, <1>10, <1>12
  <2>2. Len(parts[last]) # 1 /\ parts[last][2] = push[k]
    BY <2>1
  <2>3. QED
    BY <1>4, <2>2 DEF parts
<1>13. QED
  BY <1>11, <1>12

(* What Push does.                                                         *)
Labelled(list) == list = <<<<"X-Label", list[1][2]>>, <<"X-Index", list[2][2]>>>>

Names(push, list, host) ==
  PlainPush(push) =>
    list[1][2] = push["label"] /\ list[2][2] = push["index"] /\ host = push["registrar"]

LEMMA NoneOld == ASSUME NEW list, list = <<>> \/ Labelled(list) PROVE withoutOld(list) = <<>>
<1> DEFINE S == {i \in DOMAIN list : list[i][1] \notin {"X-Label", "X-Index"}}
<1>1. CASE list = <<>>
  <2>1. S = {}
    BY <1>1
  <2>2. QED
    BY <2>1, SelectedNone, Zenon DEF withoutOld
<1>2. CASE Labelled(list)
  <2> DEFINE a == <<"X-Label", list[1][2]>>
             b == <<"X-Index", list[2][2]>>
             two == <<a, b>>
  <2>1. a[1] = "X-Label" /\ b[1] = "X-Index"
    OBVIOUS
  <2>2. list = two
    BY <1>2, Zenon DEF Labelled
  <2> HIDE DEF a, b
  <2>3. DOMAIN two = 1 .. 2 /\ two[1] = a /\ two[2] = b
    OBVIOUS
  <2> HIDE DEF two
  <2>4. DOMAIN list = 1 .. 2 /\ list[1][1] = "X-Label" /\ list[2][1] = "X-Index"
    BY <2>1, <2>2, <2>3
  <2>5. S = {}
    BY <2>4
  <2>6. QED
    BY <2>5, SelectedNone, Zenon DEF withoutOld
<1>3. QED
  BY <1>1, <1>2

LEMMA LabelledPair ==
  ASSUME NEW a, NEW b, NEW list, list = <<<<"X-Label", a>>, <<"X-Index", b>>>>
  PROVE  list[1][2] = a /\ list[2][2] = b /\ Labelled(list)
<1>1. list[1] = <<"X-Label", a>> /\ list[2] = <<"X-Index", b>>
  OBVIOUS
<1>2. list[1][2] = a /\ list[2][2] = b
  BY <1>1
<1>3. QED
  BY <1>2, Zenon DEF Labelled

LEMMA LabelledNames ==
  ASSUME NEW list, Labelled(list)
  PROVE  /\ \A i \in DOMAIN list : list[i][1] \in {"X-Label", "X-Index"}
         /\ {i \in DOMAIN list : list[i][1] = "X-Label"} = {1}
         /\ {i \in DOMAIN list : list[i][1] = "X-Index"} = {2}
         /\ <<"X-Label", list[1][2]>> \in Range(list) /\ <<"X-Index", list[2][2]>> \in Range(list)
<1> DEFINE a == <<"X-Label", list[1][2]>>
           b == <<"X-Index", list[2][2]>>
           two == <<a, b>>
<1>1. a[1] = "X-Label" /\ b[1] = "X-Index"
  OBVIOUS
<1>2. list = two
  BY Zenon DEF Labelled
<1> HIDE DEF a, b
<1>3. DOMAIN two = 1 .. 2 /\ two[1] = a /\ two[2] = b
  OBVIOUS
<1> HIDE DEF two
<1>4. DOMAIN list = 1 .. 2 /\ list[1][1] = "X-Label" /\ list[2][1] = "X-Index"
  BY <1>1, <1>2, <1>3
<1>5. list[1] = a /\ list[2] = b
  BY <1>2, <1>3
<1>6. a \in Range(list) /\ b \in Range(list)
  BY <1>4, <1>5 DEF Range
<1>7. "X-Label" # "X-Index"
  OBVIOUS
<1>8. /\ {i \in DOMAIN list : list[i][1] = "X-Label"} = {1}
      /\ {i \in DOMAIN list : list[i][1] = "X-Index"} = {2}
  BY <1>4, <1>7
<1>9. \A i \in DOMAIN list : list[i][1] \in {"X-Label", "X-Index"}
  BY <1>4
<1>10. QED
  BY <1>6, <1>8, <1>9 DEF a, b

LEMMA PushStep ==
  ASSUME NEW push \in [Required -> PushValues], Push(push),
         reg_hdr_list = <<>> \/ Labelled(reg_hdr_list)
  PROVE  \/ /\ \E k \in DOMAIN push : EmptyPiece(push[k])
            /\ outOfRange' = push /\ UNCHANGED account
         \/ UNCHANGED <<account, outOfRange>>
         \/ /\ pushed' = push /\ Labelled(reg_hdr_list') /\ Names(push, reg_hdr_list', proxy')
            /\ UNCHANGED outOfRange
<1>1. PICK order \in SetToSeqs(DOMAIN push) :
        IF \E i \in DOMAIN PushParts(push, order) : PushParts(push, order)[i] = <<>>
        THEN /\ outOfRange' = push
             /\ UNCHANGED account
        ELSE IF ValidRegistrar(PushValue(PushParts(push, order), "registrar"))
        THEN \/ /\ reg_hdr_list' = withoutOld(reg_hdr_list) \o
                     <<<<"X-Label", PushValue(PushParts(push, order), "label")>>,
                       <<"X-Index", PushValue(PushParts(push, order), "index")>>>>
                /\ proxy' = PushValue(PushParts(push, order), "registrar")
                /\ pushed' = push
                /\ UNCHANGED outOfRange
             \/ UNCHANGED <<account, outOfRange>>
        ELSE UNCHANGED <<account, outOfRange>>
  BY Zenon DEF Push, relayVoipPushNotification, PushParts, PushValue
<1> DEFINE parts == PushParts(push, order)
           label == PushValue(parts, "label")
           index == PushValue(parts, "index")
           registrar == PushValue(parts, "registrar")
           list == <<<<"X-Label", label>>, <<"X-Index", index>>>>
<1>2. CASE \E i \in DOMAIN parts : parts[i] = <<>>
  <2>1. outOfRange' = push /\ UNCHANGED account
    BY <1>1, <1>2, Zenon
  <2>2. ASSUME \A k \in DOMAIN push : ~EmptyPiece(push[k]) PROVE FALSE
    <3> DEFINE pieces == split(mapToString(push, order), ",")
    <3>1. \A i \in DOMAIN pieces : split(pieces[i], ":") # <<>>
      BY <2>2, NoEmptyPart
    <3>2. parts = [i \in DOMAIN pieces |-> split(pieces[i], ":")]
      BY Zenon DEF PushParts
    <3> HIDE DEF pieces, parts
    <3>3. QED
      BY <1>2, <3>1, <3>2
  <2>3. QED
    BY <2>1, <2>2, Zenon
<1>3. CASE ~(\E i \in DOMAIN parts : parts[i] = <<>>) /\ ~ValidRegistrar(registrar)
  BY <1>1, <1>3, Zenon
<1>4. CASE ~(\E i \in DOMAIN parts : parts[i] = <<>>) /\ ValidRegistrar(registrar)
  <2>0. \/ UNCHANGED <<account, outOfRange>>
        \/ /\ reg_hdr_list' = withoutOld(reg_hdr_list) \o list
           /\ proxy' = registrar /\ pushed' = push /\ UNCHANGED outOfRange
    BY <1>1, <1>4, Zenon
  <2>1. SUFFICES ASSUME reg_hdr_list' = withoutOld(reg_hdr_list) \o list,
                        proxy' = registrar, pushed' = push, UNCHANGED outOfRange
                 PROVE  /\ pushed' = push /\ Labelled(reg_hdr_list')
                        /\ Names(push, reg_hdr_list', proxy') /\ UNCHANGED outOfRange
    BY <2>0, Zenon
  <2>2. withoutOld(reg_hdr_list) = <<>>
    BY NoneOld
  <2>3. PlainPush(push) => label = push["label"] /\ index = push["index"] /\ registrar = push["registrar"]
    <3>1. "label" \in Required /\ "index" \in Required /\ "registrar" \in Required
      BY Zenon DEF Required
    <3>2. PlainPush(push) => \A k \in Required : PushValue(parts, k) = push[k]
      BY PlainValue
    <3>3. QED
      BY <3>1, <3>2, Zenon
  <2> HIDE DEF label, index, registrar, parts
  <2>4. <<>> \o list = list
    <3>1. list \in Seq({<<"X-Label", label>>, <<"X-Index", index>>})
      OBVIOUS
    <3> HIDE DEF list
    <3>2. QED
      BY <3>1, ConcatEmptySeq
  <2>5. reg_hdr_list' = list
    BY <2>1, <2>2, <2>4, Zenon
  <2>6. reg_hdr_list'[1][2] = label /\ reg_hdr_list'[2][2] = index /\ Labelled(reg_hdr_list')
    BY <2>5, LabelledPair
  <2>7. Names(push, reg_hdr_list', proxy')
    BY <2>1, <2>3, <2>6, Zenon DEF Names
  <2>8. QED
    BY <2>1, <2>6, <2>7, Zenon
<1>5. QED
  BY <1>2, <1>3, <1>4, Zenon

-----------------------------------------------------------------------------
(* The inductive invariant.  Those of the properties that speak of one     *)
(* message hold of it when it comes; what they relate stays until the call *)
(* is over.                                                                *)
CallInv ==
  /\ headers \in ValidMaps
  /\ \E order \in SetToSeqs(DOMAIN headers) : sent = SentFor(headers, order)

InviteInv ==
  /\ uuid \in Uuids \cup {None}
  /\ xCallUUID = IF uuid = None THEN <<>> ELSE <<uuid>>
  /\ header \in Seq(NoNewline)

ArrivedInv == msg_buf # <<>> => Arrived(headers, FoundMap(header))

AccountInv ==
  /\ reg_hdr_list = <<>> \/ Labelled(reg_hdr_list)
  /\ pushed \in [Required -> PushValues] \cup {None}
  /\ pushed # None => Labelled(reg_hdr_list) /\ Names(pushed, reg_hdr_list, proxy)

RangeInv ==
  /\ follows \in {"call", "account"}
  /\ outOfRange \in [Required -> PushValues] \cup {None}
  /\ OutOfRangeByComma

IInv == CallInv /\ InviteInv /\ AccountInv /\ RangeInv

LEMMA NoMapValid == NoMap \in ValidMaps /\ DOMAIN NoMap = {} /\ SentFor(NoMap, <<>>) = <<>>
                    /\ <<>> \in SetToSeqs(DOMAIN NoMap)
<1> DEFINE V == {v \in Values : validValue(v)}
<1>1. DOMAIN NoMap = {}
  BY DEF NoMap
<1>2. NoMap \in [{} -> V]
  BY DEF NoMap
<1> HIDE DEF V
<1>3. NoMap \in UNION {[K -> V] : K \in SUBSET ValidKeys}
  BY <1>2
<1>4. NoMap \in ValidMaps
  BY <1>3, Zenon DEF ValidMaps, Maps, V
<1>5. SentFor(NoMap, <<>>) = <<>>
  BY DEF SentFor
<1>6. <<>> \in SetToSeqs({})
  <2>1. Cardinality({}) = 0
    BY FS_EmptySet
  <2>2. <<>> \in [1 .. 0 -> {}]
    OBVIOUS
  <2>3. QED
    BY <2>1, <2>2 DEF SetToSeqs
<1>7. QED
  BY <1>1, <1>4, <1>5, <1>6

LEMMA InitCorrect == Init => IInv
<1> SUFFICES ASSUME Init PROVE IInv
  OBVIOUS
<1>1. CallInv
  BY NoMapValid DEF Init, CallInv
<1>2. InviteInv
  <2>1. <<>> \in Seq(NoNewline)
    BY EmptySeq
  <2>2. QED
    BY <2>1 DEF Init, InviteInv
<1>3. AccountInv
  BY DEF Init, AccountInv
<1>4. RangeInv
  BY DEF Init, RangeInv, OutOfRangeByComma
<1>5. QED
  BY <1>1, <1>2, <1>3, <1>4 DEF IInv

LEMMA CallHStep ==
  ASSUME CallInv, NEW given \in Maps(Keys, Values), callH(given)
  PROVE  CallInv' /\ UNCHANGED outOfRange
<1>1. PICK map : map = validateCallHeaders(given)
  OBVIOUS
<1>2. map \in ValidMaps
  BY <1>1, ValidHeaders DEF ValidMaps
<1>3. headers' = map /\ \E order \in SetToSeqs(DOMAIN map) : CallH(map, order)
  BY <1>1, Zenon DEF callH
<1>4. PICK order \in SetToSeqs(DOMAIN map) : CallH(map, order)
  BY <1>3
<1>5. sent' = SentFor(map, order) /\ UNCHANGED outOfRange
  BY <1>2, <1>4, CallHSends
<1>6. CallInv'
  BY <1>2, <1>3, <1>5 DEF CallInv
<1>7. QED
  BY <1>5, <1>6

LEMMA NextCorrect == IInv /\ [Next]_vars => IInv'
<1> SUFFICES ASSUME IInv, [Next]_vars PROVE IInv'
  OBVIOUS
<1>1. CallInv /\ InviteInv /\ AccountInv /\ RangeInv
  BY DEF IInv
<1>2. ASSUME NEW given \in Maps(Keys, Values), callH(given) PROVE IInv'
  <2>1. CallInv' /\ UNCHANGED outOfRange
    BY <1>1, <1>2, CallHStep
  <2>2. UNCHANGED <<invite, account, follows>>
    BY <1>2, Zenon DEF callH
  <2>3. InviteInv' /\ AccountInv'
    BY <1>1, <2>2 DEF InviteInv, AccountInv, invite, account
  <2>4. RangeInv'
    BY <1>1, <2>1, <2>2 DEF RangeInv, OutOfRangeByComma
  <2>5. QED
    BY <2>1, <2>3, <2>4 DEF IInv
<1>3. CASE Receive
  <2>1. UNCHANGED <<call, account, follows, outOfRange>>
    BY <1>3, Zenon DEF Receive
  <2>2. CallInv' /\ AccountInv'
    BY <1>1, <2>1 DEF CallInv, AccountInv, call, account
  <2>3. RangeInv'
    BY <1>1, <2>1 DEF RangeInv, OutOfRangeByComma
  <2>4. PICK order \in SetToSeqs(DOMAIN headers) : sent = SentFor(headers, order)
    BY <1>1, Zenon DEF CallInv
  <2>5. headers \in ValidMaps
    BY <1>1 DEF CallInv
  <2>6. /\ uuid' \in Uuids \cup {None}
        /\ xCallUUID' = IF uuid' = None THEN <<>> ELSE <<uuid'>>
        /\ header' \in Seq(NoNewline)
    BY <1>3, <2>4, <2>5, Received
  <2>7. InviteInv'
    BY <2>6, Zenon DEF InviteInv
  <2>8. QED
    BY <2>2, <2>3, <2>7 DEF IInv
<1>4. CASE NextCall
  <2>1. /\ headers' = NoMap /\ sent' = <<>> /\ uuid' = None /\ header' = <<>> /\ xCallUUID' = <<>>
        /\ UNCHANGED <<account, follows, outOfRange>>
    BY <1>4, Zenon DEF NextCall
  <2>2. CallInv'
    BY <2>1, NoMapValid DEF CallInv
  <2>3. <<>> \in Seq(NoNewline)
    BY EmptySeq
  <2>4. InviteInv'
    BY <2>1, <2>3 DEF InviteInv
  <2>5. AccountInv'
    BY <1>1, <2>1 DEF AccountInv, account
  <2>6. RangeInv'
    BY <1>1, <2>1 DEF RangeInv, OutOfRangeByComma
  <2>7. QED
    BY <2>2, <2>4, <2>5, <2>6 DEF IInv
<1>5. CASE LoginSip
  <2>1. /\ reg_hdr_list' = <<>> /\ pushed' = None
        /\ UNCHANGED <<call, invite, follows, outOfRange>>
    BY <1>5, Zenon DEF LoginSip
  <2>2. CallInv' /\ InviteInv'
    BY <1>1, <2>1 DEF CallInv, InviteInv, call, invite
  <2>3. AccountInv'
    BY <2>1 DEF AccountInv
  <2>4. RangeInv'
    BY <1>1, <2>1 DEF RangeInv, OutOfRangeByComma
  <2>5. QED
    BY <2>2, <2>3, <2>4 DEF IInv
<1>6. ASSUME NEW push \in [Required -> PushValues], Push(push) PROVE IInv'
  <2>1. follows = "account" /\ UNCHANGED <<call, invite, follows>>
    BY <1>6, Zenon DEF Push
  <2>2. CallInv' /\ InviteInv'
    BY <1>1, <2>1 DEF CallInv, InviteInv, call, invite
  <2>3. reg_hdr_list = <<>> \/ Labelled(reg_hdr_list)
    BY <1>1 DEF AccountInv
  <2>4. \/ /\ \E k \in DOMAIN push : EmptyPiece(push[k])
           /\ outOfRange' = push /\ UNCHANGED account
        \/ UNCHANGED <<account, outOfRange>>
        \/ /\ pushed' = push /\ Labelled(reg_hdr_list') /\ Names(push, reg_hdr_list', proxy')
           /\ UNCHANGED outOfRange
    BY <1>6, <2>3, PushStep
  <2>5. AccountInv'
    BY <1>1, <2>4 DEF AccountInv, account
  <2>6. RangeInv'
    BY <1>1, <2>1, <2>4 DEF RangeInv, OutOfRangeByComma
  <2>7. QED
    BY <2>2, <2>5, <2>6 DEF IInv
<1>7. CASE UNCHANGED vars
  <2>1. UNCHANGED <<call, invite, account, follows, outOfRange>>
    BY <1>7, Zenon DEF vars
  <2>2. CallInv' /\ InviteInv' /\ AccountInv'
    BY <1>1, <2>1 DEF CallInv, InviteInv, AccountInv, call, invite, account
  <2>3. RangeInv'
    BY <1>1, <2>1 DEF RangeInv, OutOfRangeByComma
  <2>4. QED
    BY <2>2, <2>3 DEF IInv
<1>8. QED
  BY <1>2, <1>3, <1>4, <1>5, <1>6, <1>7, Zenon DEF Next

LEMMA ArrivedCorrect ==
  OthersUnambiguous => (Init => ArrivedInv) /\ (IInv /\ ArrivedInv /\ [Next]_vars => ArrivedInv')
<1> SUFFICES ASSUME OthersUnambiguous
             PROVE  (Init => ArrivedInv) /\ (IInv /\ ArrivedInv /\ [Next]_vars => ArrivedInv')
  OBVIOUS
<1>1. Init => ArrivedInv
  BY Zenon DEF Init, ArrivedInv
<1>2. ASSUME IInv, ArrivedInv, [Next]_vars PROVE ArrivedInv'
  <2>1. ASSUME NEW given \in Maps(Keys, Values), callH(given) PROVE ArrivedInv'
    <3>1. msg_buf = <<>> /\ UNCHANGED invite
      BY <2>1, Zenon DEF callH
    <3>2. msg_buf' = <<>>
      BY <3>1 DEF invite
    <3>3. QED
      BY <3>2, Zenon DEF ArrivedInv
  <2>2. CASE Receive
    <3>1. PICK order \in SetToSeqs(DOMAIN headers) : sent = SentFor(headers, order)
      BY <1>2, Zenon DEF IInv, CallInv
    <3>2. headers \in ValidMaps
      BY <1>2, Zenon DEF IInv, CallInv
    <3>3. Arrived(headers, FoundMap(header'))
      BY <2>2, <3>1, <3>2, Received
    <3>4. headers' = headers
      <4>1. UNCHANGED call
        BY <2>2, Zenon DEF Receive
      <4>2. QED
        BY <4>1 DEF call
    <3>5. Arrived(headers', FoundMap(header'))
      BY <3>3, <3>4, Zenon
    <3>6. QED
      BY <3>5, Zenon DEF ArrivedInv
  <2>3. CASE NextCall
    BY <2>3, Zenon DEF NextCall, ArrivedInv
  <2>4. CASE UNCHANGED <<call, invite>>
    <3>1. msg_buf' = msg_buf /\ headers' = headers /\ header' = header
      BY <2>4 DEF call, invite
    <3>2. QED
      BY <1>2, <3>1, Zenon DEF ArrivedInv
  <2>5. CASE LoginSip
    <3>1. UNCHANGED <<call, invite, follows, outOfRange>>
      BY <2>5, Zenon DEF LoginSip
    <3>2. QED
      BY <2>4, <3>1
  <2>6. ASSUME NEW push \in [Required -> PushValues], Push(push) PROVE ArrivedInv'
    <3>1. UNCHANGED <<call, invite, follows>>
      BY <2>6, Zenon DEF Push
    <3>2. QED
      BY <2>4, <3>1
  <2>7. CASE UNCHANGED vars
    <3>1. UNCHANGED <<call, invite, account, follows, outOfRange>>
      BY <2>7, Zenon DEF vars
    <3>2. QED
      BY <2>4, <3>1
  <2>8. QED
    BY <1>2, <2>1, <2>2, <2>3, <2>5, <2>6, <2>7, Zenon DEF Next
<1>3. QED
  BY <1>1, <1>2
LEMMA TypeOfIInv == IInv => TypeOK
<1> SUFFICES ASSUME IInv PROVE TypeOK
  OBVIOUS
<1>1. CallInv /\ InviteInv /\ AccountInv /\ RangeInv
  BY DEF IInv
<1>2. headers \in Maps(ValidKeys, {v \in Values : validValue(v)})
  BY <1>1, Zenon DEF CallInv, ValidMaps
<1>3. Len(sent) = Cardinality(DOMAIN headers)
  <2>1. headers \in ValidMaps
    BY <1>1, Zenon DEF CallInv
  <2>2. PICK order \in SetToSeqs(DOMAIN headers) : sent = SentFor(headers, order)
    BY <1>1, Zenon DEF CallInv
  <2>3. IsFiniteSet(DOMAIN headers)
    BY <2>1, ValidMap
  <2>4. Cardinality(DOMAIN headers) \in Nat
    BY <2>3, FS_CardinalityType
  <2>5. Len(order) = Cardinality(DOMAIN headers)
    BY <2>4 DEF SetToSeqs
  <2>6. Len(SentFor(headers, order)) = Len(order)
    BY <2>4, <2>5 DEF SentFor
  <2>7. QED
    BY <2>2, <2>5, <2>6
<1>4. uuid \in Uuids \cup {None} /\ Len(xCallUUID) <= 1
  BY <1>1 DEF InviteInv
<1>5. \A i \in DOMAIN header : header[i] # "\n"
  BY <1>1 DEF InviteInv, NoNewline
<1>6. \A i \in DOMAIN reg_hdr_list : reg_hdr_list[i][1] \in {"X-Label", "X-Index"}
  <2>1. CASE reg_hdr_list = <<>>
    BY <2>1
  <2>2. CASE Labelled(reg_hdr_list)
    BY <2>2, LabelledNames
  <2>3. QED
    BY <1>1, <2>1, <2>2 DEF AccountInv
<1>7. /\ pushed \in [Required -> PushValues] \cup {None}
      /\ follows \in {"call", "account"} /\ outOfRange \in [Required -> PushValues] \cup {None}
  BY <1>1, Zenon DEF AccountInv, RangeInv
<1>8. QED
  BY <1>2, <1>3, <1>4, <1>5, <1>6, <1>7, Zenon DEF TypeOK

LEMMA NotificationOfIInv == IInv => NotificationApplied
<1> SUFFICES ASSUME IInv, pushed # None
             PROVE  /\ \A name \in {"X-Label", "X-Index"} :
                         Cardinality({i \in DOMAIN reg_hdr_list : reg_hdr_list[i][1] = name}) = 1
                    /\ (\A k \in Required : Plain(pushed[k])) =>
                         /\ <<"X-Label", pushed["label"]>> \in Range(reg_hdr_list)
                         /\ <<"X-Index", pushed["index"]>> \in Range(reg_hdr_list)
                         /\ proxy = pushed["registrar"]
  BY Zenon DEF NotificationApplied
<1>1. Labelled(reg_hdr_list) /\ Names(pushed, reg_hdr_list, proxy)
  BY Zenon DEF IInv, AccountInv
<1>2. /\ {i \in DOMAIN reg_hdr_list : reg_hdr_list[i][1] = "X-Label"} = {1}
      /\ {i \in DOMAIN reg_hdr_list : reg_hdr_list[i][1] = "X-Index"} = {2}
      /\ <<"X-Label", reg_hdr_list[1][2]>> \in Range(reg_hdr_list)
      /\ <<"X-Index", reg_hdr_list[2][2]>> \in Range(reg_hdr_list)
  BY <1>1, LabelledNames
<1>3. Cardinality({1}) = 1 /\ Cardinality({2}) = 1
  BY FS_Singleton
<1>4. \A name \in {"X-Label", "X-Index"} :
        Cardinality({i \in DOMAIN reg_hdr_list : reg_hdr_list[i][1] = name}) = 1
  BY <1>2, <1>3
<1>5. ASSUME \A k \in Required : Plain(pushed[k])
      PROVE  /\ <<"X-Label", pushed["label"]>> \in Range(reg_hdr_list)
             /\ <<"X-Index", pushed["index"]>> \in Range(reg_hdr_list)
             /\ proxy = pushed["registrar"]
  <2>1. /\ reg_hdr_list[1][2] = pushed["label"] /\ reg_hdr_list[2][2] = pushed["index"]
        /\ proxy = pushed["registrar"]
    BY <1>1, <1>5, Zenon DEF Names, PlainPush
  <2>2. QED
    BY <1>2, <2>1, Zenon
<1>6. QED
  BY <1>4, <1>5, Zenon

-----------------------------------------------------------------------------
(* The theorems.                                                           *)

\* Whatever texts an application and a notification give, and in whatever order
\* maps are written and lines come: the invariant holds in every state of a call
\* and of an account.
THEOREM IInvCorrect == Spec => []IInv
<1>1. QED
  BY InitCorrect, NextCorrect, PTL DEF Spec

\* The values of the variables: callH keeps only what validateCallHeaders lets pass
\* and CallH sends one line for each, the lines found in an INVITE are joined without
\* their ends, and the account has no other headers than the two of a notification.
THEOREM TypeCorrect == Spec => []TypeOK
<1>1. QED
  BY IInvCorrect, TypeOfIInv, PTL

\* A vector is read past its end only for a notification with a value that has a ","
\* at its end or before another, never for the headers of a call: those that
\* validateCallHeaders lets pass give two pieces each.
THEOREM OutOfRangeByCommaCorrect == Spec => []OutOfRangeByComma
<1>1. IInv => OutOfRangeByComma
  BY Zenon DEF IInv, RangeInv
<1>2. QED
  BY <1>1, IInvCorrect, PTL

\* The identifier kept for a call is the value of its X-CallUUID line, whatever lines
\* stand before and after it, and none if no line has that name.
THEOREM XCallUUIDCorrect == Spec => []XCallUUIDIsOwn
<1>1. IInv => XCallUUIDIsOwn
  BY Zenon DEF IInv, InviteInv, XCallUUIDIsOwn
<1>2. QED
  BY <1>1, IInvCorrect, PTL

\* After any number of notifications the account has one label and one index, and if
\* the last that named a registrar has no separators in its values, they are its own,
\* as is the proxy.
THEOREM NotificationCorrect == Spec => []NotificationApplied
<1>1. QED
  BY IInvCorrect, NotificationOfIInv, PTL

\* If the other lines that speak of X-PH are headers of other names without a ",",
\* every header that validation lets pass is found in getHeaderDict with its value,
\* and nothing else but those others.
THEOREM HeadersArriveCorrect == OthersUnambiguous => (Spec => []HeadersArrive)
<1> SUFFICES ASSUME OthersUnambiguous PROVE Spec => []HeadersArrive
  OBVIOUS
<1>1. (Init => ArrivedInv) /\ (IInv /\ ArrivedInv /\ [Next]_vars => ArrivedInv')
  BY ArrivedCorrect
<1>2. ArrivedInv => HeadersArrive
  BY Zenon DEF ArrivedInv, HeadersArrive, Arrived, FoundMap, getHeaderDict
<1>3. QED
  BY <1>1, <1>2, IInvCorrect, PTL DEF Spec

==============================================================================
