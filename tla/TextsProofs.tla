----------------------------- MODULE TextsProofs -----------------------------
(***************************************************************************)
(* What cutting and joining texts yields, for texts of any length.  The    *)
(* library's induction theorems take a predicate, which the provers cannot *)
(* instantiate; induction here is about a set of numbers instead, and      *)
(* rests on the least of those that are not in it.                         *)
(***************************************************************************)
EXTENDS Texts, FiniteSetTheorems, SequenceTheorems, WellFoundedInduction, TLAPS

(* Every set of numbers that is not empty has a least one.                 *)
LEMMA Least ==
  ASSUME NEW S, \A x \in S : x \in Nat, S # {}
  PROVE  \E x \in S : \A y \in S : x <= y
<1> DEFINE R == {ss \in Nat \X Nat : ss[1] < ss[2]}
<1>1. IsWellFoundedOn(R, Nat)
  BY NatLessThanWellFounded DEF OpToRel
<1>2. PICK x \in S : \A y \in S : ~(<<y, x>> \in R)
  BY <1>1, WFMin
<1>3. ASSUME NEW y \in S PROVE x <= y
  <2>1. x \in Nat /\ y \in Nat
    OBVIOUS
  <2>2. ~(<<y, x>> \in Nat \X Nat /\ y < x)
    BY <1>2
  <2>3. QED
    BY <2>1, <2>2
<1>4. QED
  BY <1>3

(* A set that has 0, and with a number the next one, has all of them.      *)
LEMMA Inductive ==
  ASSUME NEW S, 0 \in S, \A n \in Nat : n \in S => n + 1 \in S
  PROVE  \A n \in Nat : n \in S
<1> SUFFICES ASSUME Nat \ S # {} PROVE FALSE
  OBVIOUS
<1>1. PICK x \in Nat \ S : \A y \in Nat \ S : x <= y
  BY Least
<1>2. x - 1 \in Nat /\ x - 1 \in S
  BY <1>1
<1>3. QED
  BY <1>1, <1>2

-----------------------------------------------------------------------------
(* The n-th smallest.                                                      *)
Below(S, x) == {y \in S : y < x}

LEMMA BelowLess ==
  ASSUME NEW S, \A x \in S : x \in Nat, IsFiniteSet(S), NEW x \in S, NEW y \in S, x < y
  PROVE  Cardinality(Below(S, x)) < Cardinality(Below(S, y))
<1>1. Below(S, x) \subseteq Below(S, y) /\ x \in Below(S, y) /\ x \notin Below(S, x)
  BY DEF Below
<1>2. IsFiniteSet(Below(S, y)) /\ IsFiniteSet(Below(S, x))
  BY FS_Subset DEF Below
<1>3. Cardinality(Below(S, x)) <= Cardinality(Below(S, y)) /\ Cardinality(Below(S, x)) # Cardinality(Below(S, y))
  BY <1>1, <1>2, FS_Subset
<1>4. QED
  BY <1>2, <1>3, FS_CardinalityType

LEMMA BelowBound ==
  ASSUME NEW S, \A x \in S : x \in Nat, IsFiniteSet(S), NEW x \in S
  PROVE  Cardinality(Below(S, x)) \in 0 .. Cardinality(S) - 1
<1>1. Below(S, x) \subseteq S /\ x \in S /\ x \notin Below(S, x)
  BY DEF Below
<1>2. IsFiniteSet(Below(S, x))
  BY <1>1, FS_Subset
<1>3. Cardinality(Below(S, x)) <= Cardinality(S) /\ Cardinality(Below(S, x)) # Cardinality(S)
  BY <1>1, FS_Subset
<1>4. QED
  BY <1>2, <1>3, FS_CardinalityType

(* Each number of a finite set is the n-th for one n.                      *)
LEMMA NthIs ==
  ASSUME NEW S, \A x \in S : x \in Nat, IsFiniteSet(S), NEW x \in S, NEW n \in Nat,
         Cardinality(Below(S, x)) = n - 1
  PROVE  Nth(S, n) = x
<1>1. \A y \in S : Cardinality({z \in S : z < y}) = n - 1 => y = x
  <2> SUFFICES ASSUME NEW y \in S, Cardinality(Below(S, y)) = n - 1, y # x PROVE FALSE
    BY DEF Below
  <2>1. x < y \/ y < x
    OBVIOUS
  <2>2. Cardinality(Below(S, x)) \in Nat /\ Cardinality(Below(S, y)) \in Nat
    BY BelowBound, FS_CardinalityType
  <2>3. QED
    BY <2>1, <2>2, BelowLess
<1>2. \E y \in S : Cardinality({z \in S : z < y}) = n - 1
  BY DEF Below
<1>3. QED
  BY <1>1, <1>2 DEF Nth

LEMMA NthProperties ==
  ASSUME NEW S, \A x \in S : x \in Nat, IsFiniteSet(S), NEW n \in 1 .. Cardinality(S)
  PROVE  Nth(S, n) \in S /\ Cardinality(Below(S, Nth(S, n))) = n - 1
<1> DEFINE f == [x \in S |-> Cardinality(Below(S, x))]
           m == Cardinality(S)
<1>1. m \in Nat
  BY FS_CardinalityType
<1>2. f \in [S -> 0 .. m - 1]
  BY BelowBound
<1>3. \A x, y \in S : x # y => f[x] # f[y]
  <2> SUFFICES ASSUME NEW x \in S, NEW y \in S, x < y PROVE f[x] # f[y]
    OBVIOUS
  <2>1. f[x] < f[y] /\ f[x] \in Nat /\ f[y] \in Nat
    BY <1>1, <1>2, BelowLess
  <2>2. QED
    BY <2>1
<1>4. f \in Injection(S, 0 .. m - 1)
  BY <1>2, <1>3 DEF Injection, IsInjective
<1>5. IsFiniteSet(0 .. m - 1) /\ Cardinality(0 .. m - 1) = m
  <2>1. 0 \in Int /\ m - 1 \in Int /\ (IF 0 > m - 1 THEN 0 ELSE (m - 1) - 0 + 1) = m
    BY <1>1
  <2>2. QED
    BY <2>1, FS_Interval
<1>6. f \in Surjection(S, 0 .. m - 1)
  BY <1>4, <1>5, FS_Injection
<1>7. n - 1 \in 0 .. m - 1
  BY <1>1
<1>8. PICK x \in S : f[x] = n - 1
  BY <1>6, <1>7 DEF Surjection
<1>9. Nth(S, n) = x
  BY <1>1, <1>8, NthIs
<1>10. QED
  BY <1>8, <1>9

LEMMA NthIncreases ==
  ASSUME NEW S, \A x \in S : x \in Nat, IsFiniteSet(S),
         NEW m \in 1 .. Cardinality(S), NEW n \in 1 .. Cardinality(S), m < n
  PROVE  Nth(S, m) < Nth(S, n)
<1>1. Cardinality(S) \in Nat
  BY FS_CardinalityType
<1>2. Nth(S, m) \in S /\ Nth(S, n) \in S
      /\ Cardinality(Below(S, Nth(S, m))) = m - 1 /\ Cardinality(Below(S, Nth(S, n))) = n - 1
  BY NthProperties
<1>3. CASE Nth(S, n) < Nth(S, m)
  BY <1>1, <1>2, <1>3, BelowLess
<1>4. CASE Nth(S, n) = Nth(S, m)
  BY <1>1, <1>2, <1>4
<1>5. QED
  BY <1>2, <1>3, <1>4

(* No number lies between two neighbours.                                  *)
LEMMA NthNeighbours ==
  ASSUME NEW S, \A x \in S : x \in Nat, IsFiniteSet(S), NEW n \in Nat,
         n \in 1 .. Cardinality(S) - 1, NEW x \in S
  PROVE  x <= Nth(S, n) \/ Nth(S, n + 1) <= x
<1>1. Cardinality(S) \in Nat /\ n \in 1 .. Cardinality(S) /\ n + 1 \in 1 .. Cardinality(S)
  BY FS_CardinalityType
<1>2. /\ Nth(S, n) \in S /\ Cardinality(Below(S, Nth(S, n))) = n - 1
      /\ Nth(S, n + 1) \in S /\ Cardinality(Below(S, Nth(S, n + 1))) = n
  <2>1. Cardinality(Below(S, Nth(S, n + 1))) = (n + 1) - 1
    BY <1>1, NthProperties
  <2>2. QED
    BY <1>1, <2>1, NthProperties
<1> SUFFICES ASSUME Nth(S, n) < x, x < Nth(S, n + 1) PROVE FALSE
  BY <1>2
<1>3. n - 1 < Cardinality(Below(S, x)) /\ Cardinality(Below(S, x)) < n
  BY <1>2, BelowLess
<1>4. Cardinality(Below(S, x)) \in Nat
  BY BelowBound, FS_CardinalityType
<1>5. QED
  BY <1>3, <1>4

(* One more number, greater than all.                                      *)
LEMMA NthAdded ==
  ASSUME NEW S, \A x \in S : x \in Nat, IsFiniteSet(S), NEW m \in Nat, \A x \in S : x < m
  PROVE  /\ Cardinality(S \cup {m}) = Cardinality(S) + 1
         /\ \A n \in 1 .. Cardinality(S) : Nth(S \cup {m}, n) = Nth(S, n)
         /\ Nth(S \cup {m}, Cardinality(S) + 1) = m
<1> DEFINE T == S \cup {m}
<1>1. IsFiniteSet(T) /\ Cardinality(T) = Cardinality(S) + 1 /\ \A x \in T : x \in Nat
  BY FS_AddElement
<1>2. Cardinality(S) \in Nat
  BY FS_CardinalityType
<1>3. ASSUME NEW n \in 1 .. Cardinality(S) PROVE Nth(T, n) = Nth(S, n)
  <2>1. Nth(S, n) \in S /\ Cardinality(Below(S, Nth(S, n))) = n - 1
    BY NthProperties
  <2>2. Below(T, Nth(S, n)) = Below(S, Nth(S, n))
    BY <2>1 DEF Below
  <2>3. QED
    BY <1>1, <1>2, <2>1, <2>2, NthIs
<1>4. Nth(T, Cardinality(S) + 1) = m
  <2>1. Below(T, m) = S
    BY DEF Below
  <2>2. Cardinality(Below(T, m)) = (Cardinality(S) + 1) - 1
    BY <1>2, <2>1
  <2>3. QED
    BY <1>1, <1>2, <2>2, NthIs
<1>5. QED
  BY <1>1, <1>3, <1>4

-----------------------------------------------------------------------------
(* Cutting.                                                                *)
LEMMA CutsProperties ==
  ASSUME NEW T, NEW s \in Seq(T), NEW d
  PROVE  LET cuts == Cuts(s, d)
         IN  /\ \A x \in cuts : x \in Nat /\ x <= Len(s) + 1
             /\ IsFiniteSet(cuts) /\ Cardinality(cuts) \in Nat /\ Cardinality(cuts) >= 2
             /\ Nth(cuts, 1) = 0 /\ Nth(cuts, Cardinality(cuts)) = Len(s) + 1
<1> DEFINE cuts == Cuts(s, d)
<1>1. Len(s) \in Nat /\ DOMAIN s = 1 .. Len(s)
  OBVIOUS
<1>2. \A x \in cuts : x \in Nat /\ x <= Len(s) + 1
  BY <1>1 DEF Cuts
<1>3. IsFiniteSet(cuts)
  <2>1. cuts \in SUBSET Nat /\ Len(s) + 1 \in Nat
    BY <1>1, <1>2
  <2>2. QED
    BY <1>2, <2>1, FS_BoundedSetOfNaturals
<1>4. 0 \in cuts /\ Len(s) + 1 \in cuts
  BY DEF Cuts
<1>5. Cardinality(cuts) \in Nat /\ Cardinality(cuts) >= 2
  <2>1. Cardinality(cuts) # 0
    BY <1>3, <1>4, FS_EmptySet
  <2>2. \A x : cuts # {x}
    BY <1>1, <1>4
  <2>3. Cardinality(cuts) # 1
    BY <1>3, <2>2, FS_Singleton
  <2>4. QED
    BY <1>3, <2>1, <2>3, FS_CardinalityType
<1>6. Nth(cuts, 1) = 0
  <2>1. Below(cuts, 0) = {}
    BY <1>2 DEF Below
  <2>2. Cardinality(Below(cuts, 0)) = 1 - 1
    BY <2>1, FS_EmptySet
  <2>3. QED
    BY <1>2, <1>3, <1>4, <2>2, NthIs
<1>7. Nth(cuts, Cardinality(cuts)) = Len(s) + 1
  <2>1. Below(cuts, Len(s) + 1) = cuts \ {Len(s) + 1}
    BY <1>1, <1>2 DEF Below
  <2>2. Cardinality(Below(cuts, Len(s) + 1)) = Cardinality(cuts) - 1
    BY <1>3, <1>4, <2>1, FS_RemoveElement
  <2>3. QED
    BY <1>2, <1>3, <1>4, <1>5, <2>2, NthIs
<1>8. QED
  BY <1>2, <1>3, <1>5, <1>6, <1>7

(* A piece is what stands between two neighbouring cuts.                   *)
LEMMA PiecesProperties ==
  ASSUME NEW T, NEW s \in Seq(T), NEW d
  PROVE  /\ Pieces(s, d) \in Seq(Seq(T)) /\ Len(Pieces(s, d)) \in Nat \ {0}
         /\ Len(Pieces(s, d)) = Cardinality(Cuts(s, d)) - 1
         /\ \A i \in 1 .. Len(Pieces(s, d)) :
              /\ Pieces(s, d)[i] = SubSeq(s, Nth(Cuts(s, d), i) + 1, Nth(Cuts(s, d), i + 1) - 1)
              /\ \A j \in DOMAIN Pieces(s, d)[i] : Pieces(s, d)[i][j] # d
              /\ Pieces(s, d)[i] = <<>> =>
                   \E c \in 0 .. Len(s) : c \in Cuts(s, d) /\ c + 1 \in Cuts(s, d)
<1> DEFINE cuts == Cuts(s, d)
           n == Cardinality(cuts) - 1
           piece(i) == SubSeq(s, Nth(cuts, i) + 1, Nth(cuts, i + 1) - 1)
<1>1. /\ \A x \in cuts : x \in Nat /\ x <= Len(s) + 1
      /\ IsFiniteSet(cuts) /\ Cardinality(cuts) \in Nat /\ n \in Nat \ {0}
  BY CutsProperties
<1>2. Len(s) \in Nat /\ DOMAIN s = 1 .. Len(s) /\ \A i \in 1 .. Len(s) : s[i] \in T
  OBVIOUS
<1>3. ASSUME NEW i \in 1 .. n
      PROVE  /\ piece(i) \in Seq(T)
             /\ \A j \in DOMAIN piece(i) : piece(i)[j] # d
             /\ piece(i) = <<>> => \E c \in 0 .. Len(s) : c \in cuts /\ c + 1 \in cuts
  <2> DEFINE a == Nth(cuts, i)
             b == Nth(cuts, i + 1)
  <2>1. i \in 1 .. Cardinality(cuts) /\ i + 1 \in 1 .. Cardinality(cuts) /\ i < i + 1
    BY <1>1
  <2>2. a \in cuts /\ b \in cuts
    BY <1>1, <2>1, NthProperties
  <2>3. a < b
    BY <1>1, <2>1, NthIncreases
  <2>4. \A x \in cuts : x <= a \/ b <= x
    <3>1. i \in Nat /\ i \in 1 .. Cardinality(cuts) - 1
      BY <1>1
    <3>2. QED
      BY <1>1, <3>1, NthNeighbours
  <2> HIDE DEF a, b
  <2>5. a \in Nat /\ b \in Nat /\ b <= Len(s) + 1
    BY <1>1, <2>2
  <2>6. \A j \in a + 1 .. b - 1 : s[j] \in T /\ s[j] # d
    <3> SUFFICES ASSUME NEW j \in a + 1 .. b - 1 PROVE s[j] \in T /\ s[j] # d
      OBVIOUS
    <3>1. j \in 1 .. Len(s)
      BY <1>2, <2>5
    <3>2. s[j] = d => j \in cuts
      BY <1>2, <3>1 DEF Cuts
    <3>3. QED
      BY <1>2, <2>4, <2>5, <3>1, <3>2
  <2>7. /\ SubSeq(s, a + 1, b - 1) \in Seq(T)
        /\ Len(SubSeq(s, a + 1, b - 1)) = b - 1 - a
        /\ \A j \in 1 .. b - 1 - a : SubSeq(s, a + 1, b - 1)[j] = s[a + j]
    <3>1. a + 1 \in Int /\ b - 1 \in Int /\ (b - 1) - (a + 1) + 1 = b - 1 - a
          /\ (IF a + 1 <= b - 1 THEN (b - 1) - (a + 1) + 1 ELSE 0) = b - 1 - a
          /\ \A j \in 1 .. b - 1 - a : (a + 1) + j - 1 = a + j
      BY <2>3, <2>5
    <3>2. /\ SubSeq(s, a + 1, b - 1) \in Seq(T)
          /\ Len(SubSeq(s, a + 1, b - 1)) = IF a + 1 <= b - 1 THEN (b - 1) - (a + 1) + 1 ELSE 0
          /\ \A j \in 1 .. (b - 1) - (a + 1) + 1 :
               SubSeq(s, a + 1, b - 1)[j] = s[(a + 1) + j - 1]
      BY <2>6, <3>1, SubSeqProperties
    <3>3. QED
      BY <3>1, <3>2
  <2>8. \A j \in 1 .. b - 1 - a : a + j \in a + 1 .. b - 1
    BY <2>5
  <2>9. \A j \in DOMAIN SubSeq(s, a + 1, b - 1) : SubSeq(s, a + 1, b - 1)[j] # d
    BY <2>6, <2>7, <2>8
  <2>10. SubSeq(s, a + 1, b - 1) = <<>> => a \in 0 .. Len(s) /\ a + 1 = b
    BY <1>2, <2>3, <2>5, <2>7
  <2>11. QED
    BY <2>2, <2>7, <2>9, <2>10 DEF a, b
<1>4. Pieces(s, d) = [i \in 1 .. n |-> piece(i)]
  BY DEF Pieces
<1> HIDE DEF piece, n
<1>5. Pieces(s, d) \in Seq(Seq(T)) /\ Len(Pieces(s, d)) = n
  BY <1>1, <1>3, <1>4
<1>6. \A i \in 1 .. n : Pieces(s, d)[i] = piece(i)
  BY <1>4
<1>7. QED
  BY <1>1, <1>3, <1>5, <1>6 DEF piece, n

LEMMA PiecesOne ==
  ASSUME NEW T, NEW s \in Seq(T), NEW d, \A i \in 1 .. Len(s) : s[i] # d
  PROVE  Pieces(s, d) = <<s>>
<1> DEFINE cuts == Cuts(s, d)
<1>1. Len(s) \in Nat /\ DOMAIN s = 1 .. Len(s)
  OBVIOUS
<1>2. /\ IsFiniteSet(cuts) /\ Cardinality(cuts) \in Nat /\ Cardinality(cuts) >= 2
      /\ \A x \in cuts : x \in Nat
      /\ Nth(cuts, 1) = 0 /\ Nth(cuts, Cardinality(cuts)) = Len(s) + 1
  BY CutsProperties
<1>3. \A x \in cuts : x = 0 \/ x = Len(s) + 1
  BY <1>1 DEF Cuts
<1>4. Cardinality(cuts) = 2
  <2> SUFFICES ASSUME Cardinality(cuts) # 2 PROVE FALSE
    OBVIOUS
  <2>1. /\ 1 \in 1 .. Cardinality(cuts) /\ 2 \in 1 .. Cardinality(cuts)
        /\ 1 < 2 /\ 2 < Cardinality(cuts)
        /\ Cardinality(cuts) \in 1 .. Cardinality(cuts)
    BY <1>2
  <2>2. Nth(cuts, 2) \in cuts
    BY <1>2, <2>1, NthProperties
  <2>3. Nth(cuts, 1) < Nth(cuts, 2)
    BY <1>2, <2>1, NthIncreases
  <2>4. Nth(cuts, 2) < Nth(cuts, Cardinality(cuts))
    BY <1>2, <2>1, NthIncreases
  <2>5. QED
    BY <1>1, <1>2, <1>3, <2>2, <2>3, <2>4
<1>5. /\ Pieces(s, d) \in Seq(Seq(T)) /\ Len(Pieces(s, d)) = 1
      /\ Pieces(s, d)[1] = SubSeq(s, Nth(cuts, 1) + 1, Nth(cuts, 1 + 1) - 1)
  <2>1. Len(Pieces(s, d)) = Cardinality(cuts) - 1
    BY PiecesProperties
  <2>2. Len(Pieces(s, d)) = 1
    BY <1>4, <2>1
  <2>3. \A i \in 1 .. Len(Pieces(s, d)) :
          Pieces(s, d)[i] = SubSeq(s, Nth(cuts, i) + 1, Nth(cuts, i + 1) - 1)
    BY PiecesProperties
  <2>4. QED
    BY <2>2, <2>3, PiecesProperties
<1>6. Pieces(s, d)[1] = s
  <2>1. Nth(cuts, 1) + 1 = 1 /\ Nth(cuts, 1 + 1) - 1 = Len(s)
    BY <1>1, <1>2, <1>4
  <2>2. QED
    BY <1>5, <2>1, SubSeqFull
<1> HIDE DEF cuts
<1>7. QED
  BY <1>5, <1>6

(* What is cut after the delimiter that was put in last.                   *)
LEMMA PiecesAdded ==
  ASSUME NEW T, NEW d \in T, NEW t \in Seq(T), NEW p \in Seq(T), \A i \in 1 .. Len(p) : p[i] # d
  PROVE  Pieces((t \o <<d>>) \o p, d) = Append(Pieces(t, d), p)
<1> DEFINE u == (t \o <<d>>) \o p
           C == Cuts(t, d)
           D == Cuts(u, d)
           m == Len(t)
           n == Len(p)
           k == Cardinality(C)
<1>1. m \in Nat /\ n \in Nat /\ DOMAIN t = 1 .. m
  OBVIOUS
<1>2. /\ u \in Seq(T) /\ Len(u) = m + 1 + n
      /\ \A i \in 1 .. m : u[i] = t[i]
      /\ u[m + 1] = d
      /\ \A i \in 1 .. n : u[m + 1 + i] = p[i]
  OBVIOUS
<1> HIDE DEF u
<1>3. /\ \A x \in C : x \in Nat /\ x <= m + 1
      /\ IsFiniteSet(C) /\ k \in Nat /\ k >= 2 /\ Nth(C, k) = m + 1
  BY CutsProperties
<1>4. D = C \cup {m + n + 2}
  <2>1. \A i \in 1 .. m + 1 + n : u[i] = d <=> (i = m + 1 \/ (i \in 1 .. m /\ t[i] = d))
    <3> SUFFICES ASSUME NEW i \in 1 .. m + 1 + n
                 PROVE  u[i] = d <=> (i = m + 1 \/ (i \in 1 .. m /\ t[i] = d))
      OBVIOUS
    <3>1. CASE i <= m
      BY <1>1, <1>2, <3>1
    <3>2. CASE i = m + 1
      BY <1>1, <1>2, <3>2
    <3>3. CASE i > m + 1
      <4> DEFINE x == i - m - 1
      <4>1. x \in 1 .. n /\ i = m + 1 + x
        BY <1>1, <3>3
      <4> HIDE DEF x
      <4>2. u[m + 1 + x] = p[x] /\ p[x] # d
        BY <1>2, <4>1
      <4>3. u[i] # d
        BY <4>1, <4>2, Zenon
      <4>4. QED
        BY <1>1, <3>3, <4>3
    <3>4. QED
      BY <1>1, <3>1, <3>2, <3>3
  <2>2. DOMAIN u = 1 .. m + 1 + n /\ Len(u) + 1 = m + n + 2
    BY <1>1, <1>2
  <2>3. ASSUME NEW x PROVE x \in D <=> x \in C \cup {m + n + 2}
    BY <1>1, <2>1, <2>2 DEF Cuts
  <2>4. QED
    BY <2>3
<1>5. /\ Cardinality(D) = k + 1
      /\ \A i \in 1 .. k : Nth(D, i) = Nth(C, i)
      /\ Nth(D, k + 1) = m + n + 2
  <2>1. m + n + 2 \in Nat /\ \A x \in C : x < m + n + 2
    BY <1>1, <1>3
  <2>2. /\ Cardinality(C \cup {m + n + 2}) = Cardinality(C) + 1
        /\ \A i \in 1 .. Cardinality(C) : Nth(C \cup {m + n + 2}, i) = Nth(C, i)
        /\ Nth(C \cup {m + n + 2}, Cardinality(C) + 1) = m + n + 2
    BY <1>3, <2>1, NthAdded
  <2>3. QED
    BY <1>4, <2>2
<1>6. /\ Pieces(u, d) \in Seq(Seq(T)) /\ Len(Pieces(u, d)) = k
      /\ \A i \in 1 .. k : Pieces(u, d)[i] = SubSeq(u, Nth(D, i) + 1, Nth(D, i + 1) - 1)
  <2>1. Pieces(u, d) \in Seq(Seq(T)) /\ Len(Pieces(u, d)) = Cardinality(D) - 1
    BY <1>2, PiecesProperties
  <2>2. Len(Pieces(u, d)) = k
    BY <1>3, <1>5, <2>1
  <2>3. \A i \in 1 .. Len(Pieces(u, d)) :
          Pieces(u, d)[i] = SubSeq(u, Nth(D, i) + 1, Nth(D, i + 1) - 1)
    BY <1>2, PiecesProperties, SMTT(30)
  <2>4. QED
    BY <2>1, <2>2, <2>3
<1>7. /\ Pieces(t, d) \in Seq(Seq(T)) /\ Len(Pieces(t, d)) = k - 1
      /\ \A i \in 1 .. k - 1 : Pieces(t, d)[i] = SubSeq(t, Nth(C, i) + 1, Nth(C, i + 1) - 1)
  BY PiecesProperties
<1> HIDE DEF C, D, k
<1>8. ASSUME NEW i \in 1 .. k - 1 PROVE Pieces(u, d)[i] = Pieces(t, d)[i]
  <2> DEFINE a == Nth(C, i)
             b == Nth(C, i + 1)
  <2>1. i \in 1 .. k /\ i + 1 \in 1 .. k
    BY <1>3
  <2>2. a \in C /\ b \in C
    BY <1>3, <2>1, NthProperties DEF k
  <2>3. a \in Nat /\ b \in Nat /\ b <= m + 1
    BY <1>3, <2>2
  <2>4. Pieces(u, d)[i] = SubSeq(u, a + 1, b - 1)
    BY <1>5, <1>6, <2>1
  <2>5. Pieces(t, d)[i] = SubSeq(t, a + 1, b - 1)
    BY <1>7
  <2> HIDE DEF a, b
  <2>6. \A j \in a + 1 .. b - 1 : u[j] = t[j]
    BY <1>1, <1>2, <2>3
  <2>7. SubSeq(u, a + 1, b - 1) = SubSeq(t, a + 1, b - 1)
    BY <1>1, <1>2, <2>3, <2>6
  <2>8. QED
    BY <2>4, <2>5, <2>7
<1>9. Pieces(u, d)[k] = p
  <2>1. k \in 1 .. k /\ Nth(D, k) = m + 1 /\ Nth(D, k + 1) = m + n + 2
    BY <1>3, <1>5
  <2>2. Pieces(u, d)[k] = SubSeq(u, m + 2, m + 1 + n)
    <3>1. Pieces(u, d)[k] = SubSeq(u, Nth(D, k) + 1, Nth(D, k + 1) - 1)
      BY <1>6, <2>1, Zenon
    <3>2. Nth(D, k) + 1 = m + 2 /\ Nth(D, k + 1) - 1 = m + 1 + n
      BY <1>1, <2>1
    <3>3. QED
      BY <3>1, <3>2, Zenon
  <2>3. SubSeq(u, m + 2, m + 1 + n) = p
    <3>1. \A j \in 1 .. n : u[(m + 2) + j - 1] = p[j]
      <4> SUFFICES ASSUME NEW j \in 1 .. n PROVE u[(m + 2) + j - 1] = p[j]
        OBVIOUS
      <4>1. (m + 2) + j - 1 = m + 1 + j
        BY <1>1
      <4>2. QED
        BY <1>2, <4>1
    <3>2. /\ m + 2 \in Int /\ m + 1 + n \in Int /\ (m + 1 + n) - (m + 2) + 1 = n
          /\ \A i \in m + 2 .. m + 1 + n : u[i] \in T
          /\ (IF m + 2 <= m + 1 + n THEN (m + 1 + n) - (m + 2) + 1 ELSE 0) = n
      BY <1>1, <1>2
    <3>3. /\ SubSeq(u, m + 2, m + 1 + n) \in Seq(T)
          /\ Len(SubSeq(u, m + 2, m + 1 + n)) = n
          /\ \A j \in 1 .. n : SubSeq(u, m + 2, m + 1 + n)[j] = u[(m + 2) + j - 1]
      BY <3>2, SubSeqProperties
    <3>4. QED
      BY <3>1, <3>3, SeqEqual
  <2>4. QED
    BY <2>2, <2>3
<1>10. QED
  <2>1. /\ Append(Pieces(t, d), p) \in Seq(Seq(T)) /\ Len(Append(Pieces(t, d), p)) = k
        /\ \A i \in 1 .. k - 1 : Append(Pieces(t, d), p)[i] = Pieces(t, d)[i]
        /\ Append(Pieces(t, d), p)[k] = p
    <3>1. (k - 1) + 1 = k
      BY <1>3
    <3>2. QED
      BY <1>7, <3>1, AppendProperties
  <2>2. \A i \in 1 .. k : Pieces(u, d)[i] = Append(Pieces(t, d), p)[i]
    <3>1. \A i \in 1 .. k : i \in 1 .. k - 1 \/ i = k
      BY <1>3
    <3>2. QED
      BY <1>8, <1>9, <2>1, <3>1
  <2>3. QED
    BY <1>6, <2>1, <2>2, SeqEqual DEF u

-----------------------------------------------------------------------------
(* Joining.  Flat says of a function what the recursion of FlattenSeq does.*)
Flat(seqs, m, g) == \A i \in 1 .. m : g[i] = IF i = 1 THEN seqs[1] ELSE g[i - 1] \o seqs[i]

LEMMA FlatExists ==
  ASSUME NEW T, NEW seqs \in Seq(Seq(T))
  PROVE  \A m \in Nat : m <= Len(seqs) => \E g \in [1 .. m -> Seq(T)] : Flat(seqs, m, g)
<1> DEFINE S == {m \in Nat : m <= Len(seqs) => \E g \in [1 .. m -> Seq(T)] : Flat(seqs, m, g)}
<1>1. 0 \in S
  <2>1. [i \in 1 .. 0 |-> <<>>] \in [1 .. 0 -> Seq(T)] /\ Flat(seqs, 0, [i \in 1 .. 0 |-> <<>>])
    BY DEF Flat
  <2>2. QED
    BY <2>1
<1>2. ASSUME NEW m \in Nat, m \in S PROVE m + 1 \in S
  <2> SUFFICES ASSUME m + 1 <= Len(seqs)
               PROVE  \E g \in [1 .. m + 1 -> Seq(T)] : Flat(seqs, m + 1, g)
    OBVIOUS
  <2>1. Len(seqs) \in Nat /\ m + 1 \in 1 .. Len(seqs) /\ seqs[m + 1] \in Seq(T)
    OBVIOUS
  <2>2. PICK g \in [1 .. m -> Seq(T)] : Flat(seqs, m, g)
    BY <1>2, <2>1
  <2> DEFINE last == IF m = 0 THEN seqs[1] ELSE g[m] \o seqs[m + 1]
             h == [i \in 1 .. m + 1 |-> IF i = m + 1 THEN last ELSE g[i]]
  <2>3. last \in Seq(T)
    <3>1. CASE m = 0
      BY <2>1, <3>1
    <3>2. CASE m # 0
      <4>1. g[m] \in Seq(T)
        BY <3>2
      <4>2. QED
        BY <2>1, <3>2, <4>1
    <3>3. QED
      BY <3>1, <3>2
  <2>4. /\ h \in [1 .. m + 1 -> Seq(T)] /\ h[m + 1] = last
        /\ \A i \in 1 .. m : h[i] = g[i]
    <3> HIDE DEF last
    <3>1. \A i \in 1 .. m + 1 : i = m + 1 \/ i \in 1 .. m
      OBVIOUS
    <3>2. m + 1 \in 1 .. m + 1 /\ \A i \in 1 .. m : i \in 1 .. m + 1 /\ i # m + 1
      OBVIOUS
    <3>3. QED
      BY <2>3, <3>1, <3>2
  <2> HIDE DEF h
  <2>5. ASSUME NEW i \in 1 .. m + 1
        PROVE  h[i] = IF i = 1 THEN seqs[1] ELSE h[i - 1] \o seqs[i]
    <3>1. CASE i = m + 1
      <4>1. CASE m = 0
        BY <2>4, <3>1, <4>1
      <4>2. CASE m # 0
        <5>1. h[m] = g[m] /\ i # 1 /\ i - 1 = m
          BY <2>4, <3>1, <4>2
        <5>2. QED
          BY <2>4, <3>1, <4>2, <5>1
      <4>3. QED
        BY <4>1, <4>2
    <3>2. CASE i # m + 1
      <4>1. i \in 1 .. m /\ h[i] = g[i] /\ (i # 1 => h[i - 1] = g[i - 1])
        BY <2>4, <3>2
      <4>2. g[i] = IF i = 1 THEN seqs[1] ELSE g[i - 1] \o seqs[i]
        BY <2>2, <4>1 DEF Flat
      <4>3. QED
        BY <4>1, <4>2
    <3>3. QED
      BY <3>1, <3>2
  <2>6. QED
    BY <2>4, <2>5 DEF Flat
<1>3. \A m \in Nat : m \in S
  <2> HIDE DEF S
  <2>1. QED
    BY <1>1, <1>2, Inductive
<1>4. QED
  BY <1>3

LEMMA FlattenIs ==
  ASSUME NEW T, NEW seqs \in Seq(Seq(T)), seqs # <<>>,
         NEW g \in [1 .. Len(seqs) -> Seq(T)], Flat(seqs, Len(seqs), g)
  PROVE  FlattenSeq(seqs) = g[Len(seqs)]
<1> DEFINE n == Len(seqs)
           P(f) == f = [i \in 1 .. n |-> IF i = 1 THEN seqs[i] ELSE f[i - 1] \o seqs[i]]
           F == CHOOSE f : P(f)
<1>1. n \in Nat \ {0}
  BY EmptySeq
<1>2. FlattenSeq(seqs) = F[n]
  BY <1>1 DEF FlattenSeq
<1>3. P(g)
  <2>1. \A i \in 1 .. n : g[i] = IF i = 1 THEN seqs[i] ELSE g[i - 1] \o seqs[i]
    BY DEF Flat
  <2>2. QED
    BY <2>1
<1>4. P(F)
  <2> HIDE DEF P
  <2>1. QED
    BY <1>3
<1> HIDE DEF F
<1>5. \A i \in 1 .. n : F[i] = IF i = 1 THEN seqs[i] ELSE F[i - 1] \o seqs[i]
  BY <1>4
<1> DEFINE S == {i \in Nat : i + 1 <= n => F[i + 1] = g[i + 1]}
<1>6. 0 \in S
  BY <1>1, <1>3, <1>5
<1>7. ASSUME NEW i \in Nat, i \in S PROVE i + 1 \in S
  <2> SUFFICES ASSUME i + 2 <= n PROVE F[i + 2] = g[i + 2]
    BY <1>1
  <2>1. /\ i + 2 \in 1 .. n /\ i + 2 # 1 /\ (i + 2) - 1 = i + 1 /\ i + 1 <= n
    BY <1>1
  <2>2. F[i + 1] = g[i + 1]
    BY <1>7, <2>1
  <2>3. F[i + 2] = F[i + 1] \o seqs[i + 2]
    BY <1>5, <2>1
  <2>4. g[i + 2] = g[i + 1] \o seqs[i + 2]
    BY <2>1 DEF Flat
  <2>5. QED
    BY <2>2, <2>3, <2>4
<1>8. \A i \in Nat : i \in S
  <2> HIDE DEF S
  <2>1. QED
    BY <1>6, <1>7, Inductive
<1>9. n - 1 \in S
  <2> HIDE DEF S
  <2>1. n - 1 \in Nat
    BY <1>1
  <2>2. QED
    BY <1>8, <2>1
<1>10. (n - 1) + 1 = n
  BY <1>1
<1>11. F[n] = g[n]
  BY <1>1, <1>9, <1>10
<1>12. QED
  BY <1>2, <1>11

LEMMA FlattenEmpty == FlattenSeq(<<>>) = <<>>
BY DEF FlattenSeq

LEMMA FlattenType ==
  ASSUME NEW T, NEW seqs \in Seq(Seq(T))
  PROVE  FlattenSeq(seqs) \in Seq(T)
<1>1. CASE seqs = <<>>
  <2>1. <<>> \in Seq(T)
    BY EmptySeq
  <2>2. QED
    BY <1>1, <2>1, FlattenEmpty
<1>2. CASE seqs # <<>>
  <2>1. Len(seqs) \in Nat \ {0} /\ Len(seqs) <= Len(seqs)
    BY <1>2, EmptySeq
  <2>2. PICK g \in [1 .. Len(seqs) -> Seq(T)] : Flat(seqs, Len(seqs), g)
    BY <2>1, FlatExists
  <2>3. FlattenSeq(seqs) = g[Len(seqs)]
    BY <1>2, <2>2, FlattenIs
  <2>4. Len(seqs) \in 1 .. Len(seqs)
    BY <2>1
  <2>5. QED
    BY <2>2, <2>3, <2>4
<1>3. QED
  BY <1>1, <1>2

LEMMA FlattenAppend ==
  ASSUME NEW T, NEW seqs \in Seq(Seq(T)), NEW x \in Seq(T)
  PROVE  FlattenSeq(Append(seqs, x)) = FlattenSeq(seqs) \o x
<1> DEFINE n == Len(seqs)
           more == Append(seqs, x)
<1>1. /\ n \in Nat /\ more \in Seq(Seq(T)) /\ Len(more) = n + 1 /\ more # <<>>
      /\ \A i \in 1 .. n : more[i] = seqs[i]
      /\ more[n + 1] = x
  BY AppendProperties
<1> HIDE DEF more
<1>2. PICK h \in [1 .. n + 1 -> Seq(T)] : Flat(more, n + 1, h)
  <2>1. n + 1 \in Nat /\ n + 1 <= Len(more)
    BY <1>1
  <2>2. QED
    BY <1>1, <2>1, FlatExists
<1>3. FlattenSeq(more) = h[n + 1]
  BY <1>1, <1>2, FlattenIs
<1>4. h[n + 1] = IF n + 1 = 1 THEN more[1] ELSE h[(n + 1) - 1] \o more[n + 1]
  <2>1. n + 1 \in 1 .. n + 1
    BY <1>1
  <2>2. QED
    BY <1>2, <2>1 DEF Flat
<1>5. CASE seqs = <<>>
  <2>1. n = 0 /\ h[n + 1] = x
    BY <1>1, <1>4, <1>5
  <2>2. <<>> \o x = x
    BY ConcatEmptySeq
  <2>3. QED
    BY <1>3, <1>5, <2>1, <2>2, FlattenEmpty DEF more
<1>6. CASE seqs # <<>>
  <2>1. n # 0
    BY <1>6, EmptySeq
  <2>2. h[n + 1] = h[n] \o x
    BY <1>1, <1>4, <2>1
  <2> DEFINE g == [i \in 1 .. n |-> h[i]]
  <2>3. g \in [1 .. n -> Seq(T)] /\ \A i \in 1 .. n : g[i] = h[i]
    BY <1>1
  <2> HIDE DEF g
  <2>4. ASSUME NEW i \in 1 .. n PROVE g[i] = IF i = 1 THEN seqs[1] ELSE g[i - 1] \o seqs[i]
    <3>1. i \in 1 .. n + 1 /\ 1 \in 1 .. n /\ (i # 1 => i - 1 \in 1 .. n)
      BY <1>1, <2>1
    <3>2. h[i] = IF i = 1 THEN more[1] ELSE h[i - 1] \o more[i]
      BY <1>2, <3>1 DEF Flat
    <3>3. g[i] = h[i] /\ more[1] = seqs[1] /\ more[i] = seqs[i] /\ (i # 1 => g[i - 1] = h[i - 1])
      BY <1>1, <2>3, <3>1
    <3>4. QED
      BY <3>2, <3>3
  <2>5. Flat(seqs, n, g)
    BY <2>4 DEF Flat
  <2>6. FlattenSeq(seqs) = g[n]
    BY <1>6, <2>3, <2>5, FlattenIs
  <2>7. n \in 1 .. n
    BY <1>1, <2>1
  <2>8. QED
    BY <1>3, <2>2, <2>3, <2>6, <2>7 DEF more
<1>7. QED
  BY <1>5, <1>6

(* Induction over sequences, with a set of them for the predicate.         *)
LEMMA SeqInductive ==
  ASSUME NEW A, NEW S, <<>> \in S, \A s \in Seq(A) : s \in S => \A e \in A : Append(s, e) \in S
  PROVE  \A s \in Seq(A) : s \in S
<1> DEFINE N == {n \in Nat : \A s \in Seq(A) : Len(s) = n => s \in S}
<1>1. 0 \in N
  BY EmptySeq
<1>2. ASSUME NEW n \in Nat, n \in N PROVE n + 1 \in N
  <2> SUFFICES ASSUME NEW s \in Seq(A), Len(s) = n + 1 PROVE s \in S
    OBVIOUS
  <2>1. s # <<>>
    OBVIOUS
  <2>2. PICK r \in Seq(A), e \in A : s = Append(r, e)
    BY <2>1, SequenceEmptyOrAppend
  <2>3. Len(r) = n
    <3>1. Len(s) = Len(r) + 1 /\ Len(r) \in Nat
      BY <2>2, AppendProperties
    <3>2. QED
      BY <3>1
  <2>4. r \in S
    BY <1>2, <2>3
  <2>5. QED
    BY <2>2, <2>4
<1>3. \A n \in Nat : n \in N
  <2> HIDE DEF N
  <2>1. QED
    BY <1>1, <1>2, Inductive
<1>4. QED
  BY <1>3

LEMMA JoinedEmpty == ASSUME NEW d PROVE Joined(<<>>, d) = <<>>
<1>1. [i \in DOMAIN <<>> |-> IF i = 1 THEN <<>>[i] ELSE <<d>> \o <<>>[i]] = <<>>
  OBVIOUS
<1>2. QED
  BY <1>1, FlattenEmpty DEF Joined

LEMMA JoinedAppend ==
  ASSUME NEW T, NEW d \in T, NEW ps \in Seq(Seq(T)), NEW p \in Seq(T)
  PROVE  Joined(Append(ps, p), d) = IF ps = <<>> THEN p ELSE (Joined(ps, d) \o <<d>>) \o p
<1> DEFINE part(i, q) == IF i = 1 THEN q ELSE <<d>> \o q
           parts(qs) == [i \in DOMAIN qs |-> part(i, qs[i])]
           n == Len(ps)
           more == Append(ps, p)
<1>1. /\ n \in Nat /\ more \in Seq(Seq(T)) /\ Len(more) = n + 1
      /\ DOMAIN ps = 1 .. n /\ DOMAIN more = 1 .. n + 1
      /\ \A i \in 1 .. n : more[i] = ps[i]
      /\ more[n + 1] = p
  BY AppendProperties
<1>2. \A i : \A q \in Seq(T) : part(i, q) \in Seq(T)
  BY ConcatProperties
<1> HIDE DEF part
<1>3. parts(ps) \in Seq(Seq(T)) /\ Len(parts(ps)) = n
      /\ \A i \in 1 .. n : parts(ps)[i] = part(i, ps[i])
  <2>1. \A i \in 1 .. n : part(i, ps[i]) \in Seq(T)
    BY <1>2
  <2>2. QED
    BY <1>1, <2>1
<1>4. parts(more) \in Seq(Seq(T)) /\ Len(parts(more)) = n + 1
      /\ \A i \in 1 .. n + 1 : parts(more)[i] = part(i, more[i])
  <2> HIDE DEF more
  <2>1. \A i \in 1 .. n + 1 : part(i, more[i]) \in Seq(T)
    BY <1>1, <1>2
  <2>2. QED
    BY <1>1, <2>1
<1>5. part(n + 1, p) \in Seq(T)
  BY <1>2
<1>6. parts(more) = Append(parts(ps), part(n + 1, p))
  <2> HIDE DEF parts, more
  <2> DEFINE rhs == Append(parts(ps), part(n + 1, p))
  <2>1. /\ rhs \in Seq(Seq(T)) /\ Len(rhs) = n + 1
        /\ \A i \in 1 .. n : rhs[i] = parts(ps)[i]
        /\ rhs[n + 1] = part(n + 1, p)
    BY <1>3, <1>5, AppendProperties
  <2> HIDE DEF rhs
  <2>2. \A i \in 1 .. n + 1 : parts(more)[i] = rhs[i]
    <3>1. \A i \in 1 .. n + 1 : i \in 1 .. n \/ i = n + 1
      BY <1>1
    <3>2. QED
      BY <1>1, <1>3, <1>4, <2>1, <3>1
  <2>3. QED
    BY <1>4, <2>1, <2>2, SeqEqual DEF rhs
<1>7. Joined(more, d) = FlattenSeq(parts(more)) /\ Joined(ps, d) = FlattenSeq(parts(ps))
  BY DEF Joined, part
<1> HIDE DEF parts
<1>8. Joined(more, d) = Joined(ps, d) \o part(n + 1, p)
  BY <1>3, <1>5, <1>6, <1>7, FlattenAppend
<1>9. Joined(ps, d) \in Seq(T)
  BY <1>3, <1>7, FlattenType
<1>10. CASE ps = <<>>
  <2>1. part(n + 1, p) = p /\ <<>> \o p = p
    BY <1>10, ConcatEmptySeq DEF part
  <2>2. QED
    BY <1>8, <1>10, <2>1, JoinedEmpty
<1>11. CASE ps # <<>>
  <2>1. part(n + 1, p) = <<d>> \o p
    BY <1>1, <1>11, EmptySeq DEF part
  <2>2. <<d>> \in Seq(T)
    OBVIOUS
  <2>3. (Joined(ps, d) \o <<d>>) \o p = Joined(ps, d) \o (<<d>> \o p)
    BY <1>9, <2>2, ConcatAssociative
  <2>4. Joined(more, d) = Joined(ps, d) \o (<<d>> \o p)
    BY <1>8, <2>1
  <2>5. QED
    BY <1>11, <2>3, <2>4
<1>12. QED
  BY <1>10, <1>11

LEMMA JoinedType ==
  ASSUME NEW T, NEW d \in T, NEW ps \in Seq(Seq(T))
  PROVE  Joined(ps, d) \in Seq(T)
<1> DEFINE part(i) == IF i = 1 THEN ps[i] ELSE <<d>> \o ps[i]
<1>1. ASSUME NEW i \in DOMAIN ps PROVE part(i) \in Seq(T)
  <2>1. ps[i] \in Seq(T) /\ <<d>> \in Seq(T)
    OBVIOUS
  <2>2. <<d>> \o ps[i] \in Seq(T)
    BY <2>1, ConcatProperties
  <2>3. QED
    BY <2>1, <2>2
<1> HIDE DEF part
<1>2. [i \in DOMAIN ps |-> part(i)] \in Seq(Seq(T))
  BY <1>1
<1>3. QED
  BY <1>2, FlattenType DEF Joined, part

(* What was joined is found again when none of it has the delimiter.       *)
LEMMA JoinedPieces ==
  ASSUME NEW T, NEW d \in T, NEW ps \in Seq(Seq(T)), ps # <<>>,
         \A i \in 1 .. Len(ps) : \A j \in DOMAIN ps[i] : ps[i][j] # d
  PROVE  Pieces(Joined(ps, d), d) = ps
<1> DEFINE Without(qs) == \A i \in 1 .. Len(qs) : \A j \in DOMAIN qs[i] : qs[i][j] # d
           S == {qs \in Seq(Seq(T)) :
                   qs # <<>> /\ Without(qs) => Pieces(Joined(qs, d), d) = qs}
<1>1. <<>> \in S
  OBVIOUS
<1>2. ASSUME NEW qs \in Seq(Seq(T)), qs \in S, NEW p \in Seq(T) PROVE Append(qs, p) \in S
  <2>1. /\ Append(qs, p) \in Seq(Seq(T)) /\ Len(Append(qs, p)) = Len(qs) + 1 /\ Len(qs) \in Nat
        /\ \A i \in 1 .. Len(qs) : Append(qs, p)[i] = qs[i]
        /\ Append(qs, p)[Len(qs) + 1] = p
    BY AppendProperties
  <2> SUFFICES ASSUME Without(Append(qs, p))
               PROVE  Pieces(Joined(Append(qs, p), d), d) = Append(qs, p)
    BY <2>1
  <2>2. Without(qs) /\ \A j \in 1 .. Len(p) : p[j] # d
    <3>1. \A i \in 1 .. Len(qs) : i \in 1 .. Len(Append(qs, p))
      BY <2>1
    <3>2. Len(qs) + 1 \in 1 .. Len(Append(qs, p)) /\ DOMAIN p = 1 .. Len(p)
      BY <2>1
    <3>3. QED
      BY <2>1, <3>1, <3>2
  <2>3. CASE qs = <<>>
    <3>1. Append(qs, p) = <<p>>
      BY <2>3
    <3>2. QED
      BY <2>2, <2>3, <3>1, JoinedAppend, PiecesOne
  <2>4. CASE qs # <<>>
    <3>1. Pieces(Joined(qs, d), d) = qs
      BY <1>2, <2>2, <2>4
    <3>2. Joined(Append(qs, p), d) = (Joined(qs, d) \o <<d>>) \o p
      BY <2>4, JoinedAppend
    <3>3. Joined(qs, d) \in Seq(T)
      BY JoinedType
    <3>4. Pieces((Joined(qs, d) \o <<d>>) \o p, d) = Append(Pieces(Joined(qs, d), d), p)
      BY <2>2, <3>3, PiecesAdded
    <3>5. QED
      BY <3>1, <3>2, <3>4
  <2>5. QED
    BY <2>3, <2>4
<1>3. \A qs \in Seq(Seq(T)) : qs \in S
  <2> HIDE DEF S
  <2>1. QED
    BY <1>1, <1>2, SeqInductive
<1>4. QED
  BY <1>3

-----------------------------------------------------------------------------
(* getline: the last piece is told if something stands in it.              *)
LEMMA LastAppended ==
  ASSUME NEW A, NEW s \in Seq(A), NEW e \in A
  PROVE  Last(Append(s, e)) = e /\ Front(Append(s, e)) = s
<1> DEFINE n == Len(s)
           more == Append(s, e)
<1>1. /\ n \in Nat /\ more \in Seq(A) /\ Len(more) = n + 1
      /\ \A i \in 1 .. n : more[i] = s[i] /\ s[i] \in A
      /\ more[n + 1] = e
  BY AppendProperties
<1> HIDE DEF more
<1>2. /\ SubSeq(more, 1, n) \in Seq(A) /\ Len(SubSeq(more, 1, n)) = n
      /\ \A i \in 1 .. n : SubSeq(more, 1, n)[i] = more[i]
  <2>1. /\ 1 \in Int /\ n \in Int /\ n - 1 + 1 = n /\ (IF 1 <= n THEN n - 1 + 1 ELSE 0) = n
        /\ \A i \in 1 .. n : 1 + i - 1 = i /\ more[i] \in A
    BY <1>1
  <2>2. /\ SubSeq(more, 1, n) \in Seq(A)
        /\ Len(SubSeq(more, 1, n)) = IF 1 <= n THEN n - 1 + 1 ELSE 0
        /\ \A i \in 1 .. n - 1 + 1 : SubSeq(more, 1, n)[i] = more[1 + i - 1]
    BY <2>1, SubSeqProperties
  <2>3. QED
    BY <2>1, <2>2
<1>3. SubSeq(more, 1, n) = s
  BY <1>1, <1>2, SeqEqual
<1>4. Last(more) = e
  BY <1>1 DEF Last
<1>5. Front(more) = s
  <2>1. Len(more) - 1 = n
    BY <1>1
  <2>2. QED
    BY <1>3, <2>1 DEF Front
<1>6. QED
  BY <1>4, <1>5 DEF more


LEMMA SplitOne ==
  ASSUME NEW T, NEW s \in Seq(T), NEW d, \A i \in 1 .. Len(s) : s[i] # d
  PROVE  /\ s = <<>> => split(s, d) = <<>>
         /\ s # <<>> => split(s, d) = <<s>>
<1>1. Pieces(s, d) = Append(<<>>, s) /\ Append(<<>>, s) = <<s>>
  BY PiecesOne
<1>2. <<>> \in Seq(Seq(T))
  BY EmptySeq
<1>3. Last(Append(<<>>, s)) = s /\ Front(Append(<<>>, s)) = <<>>
  BY <1>2, LastAppended
<1>4. QED
  BY <1>1, <1>3, Zenon DEF split

(* A name and what stands after the delimiter.                             *)
LEMMA SplitTwo ==
  ASSUME NEW T, NEW d \in T, NEW k \in Seq(T), \A i \in 1 .. Len(k) : k[i] # d,
         NEW v \in Seq(T), \A i \in 1 .. Len(v) : v[i] # d
  PROVE  /\ v = <<>> => split((k \o <<d>>) \o v, d) = <<k>>
         /\ v # <<>> => split((k \o <<d>>) \o v, d) = <<k, v>>
<1>1. Pieces(k, d) = <<k>>
  BY PiecesOne
<1>2. Pieces((k \o <<d>>) \o v, d) = Append(Pieces(k, d), v)
  BY PiecesAdded
<1>3. Pieces((k \o <<d>>) \o v, d) = Append(<<k>>, v)
  BY <1>1, <1>2, Zenon
<1>4. <<k>> \in Seq(Seq(T)) /\ <<k, v>> \in Seq(Seq(T))
  OBVIOUS
<1>5. Last(Append(<<k>>, v)) = v /\ Front(Append(<<k>>, v)) = <<k>>
  BY <1>4, LastAppended
<1>6. Append(<<k>>, v) = <<k, v>>
  <2>1. /\ Append(<<k>>, v) \in Seq(Seq(T)) /\ Len(Append(<<k>>, v)) = Len(<<k>>) + 1
        /\ \A i \in 1 .. Len(<<k>>) : Append(<<k>>, v)[i] = <<k>>[i]
        /\ Append(<<k>>, v)[Len(<<k>>) + 1] = v
    BY <1>4, AppendProperties
  <2>2. /\ Len(Append(<<k>>, v)) = 2 /\ Append(<<k>>, v)[1] = k /\ Append(<<k>>, v)[2] = v
    BY <2>1
  <2> DEFINE more == Append(<<k>>, v)
             pair == <<k, v>>
  <2>3. Len(pair) = 2 /\ pair[1] = k /\ pair[2] = v
    OBVIOUS
  <2>4. pair \in Seq(Seq(T))
    BY <1>4
  <2> HIDE DEF more, pair
  <2>5. more \in Seq(Seq(T)) /\ Len(more) = Len(pair)
    BY <2>1, <2>2, <2>3 DEF more
  <2>8. \A i \in 1 .. Len(more) : more[i] = pair[i]
    BY <2>2, <2>3, <2>5 DEF more
  <2>6. more = pair
    BY <2>4, <2>5, <2>8, SeqEqual
  <2>7. QED
    BY <2>6 DEF more, pair
<1>7. QED
  BY <1>3, <1>5, <1>6, Zenon DEF split

LEMMA SplitJoined ==
  ASSUME NEW T, NEW d \in T, NEW ps \in Seq(Seq(T)), ps # <<>>, ps[Len(ps)] # <<>>,
         \A i \in 1 .. Len(ps) : \A j \in DOMAIN ps[i] : ps[i][j] # d
  PROVE  split(Joined(ps, d), d) = ps
<1>1. Pieces(Joined(ps, d), d) = ps
  BY JoinedPieces
<1>2. QED
  BY <1>1 DEF split, Last

LEMMA SplitProperties ==
  ASSUME NEW T, NEW s \in Seq(T), NEW d
  PROVE  /\ split(s, d) \in Seq(Seq(T))
         /\ split(s, d) = <<>> => s = <<>>
         /\ \A i \in 1 .. Len(split(s, d)) :
              i \in 1 .. Len(Pieces(s, d)) /\ split(s, d)[i] = Pieces(s, d)[i]
<1> DEFINE P == Pieces(s, d)
           cuts == Cuts(s, d)
<1>1. P \in Seq(Seq(T)) /\ P # <<>> /\ Len(P) = Cardinality(cuts) - 1
      /\ \A i \in 1 .. Len(P) : P[i] = SubSeq(s, Nth(cuts, i) + 1, Nth(cuts, i + 1) - 1)
  <2>1. P \in Seq(Seq(T)) /\ Len(P) \in Nat \ {0} /\ Len(P) = Cardinality(cuts) - 1
    BY PiecesProperties
  <2>2. \A i \in 1 .. Len(P) : P[i] = SubSeq(s, Nth(cuts, i) + 1, Nth(cuts, i + 1) - 1)
    BY PiecesProperties
  <2>3. P # <<>>
    <3> HIDE DEF P
    <3>1. Len(P) # 0
      BY <2>1
    <3>2. QED
      BY <3>1
  <2>4. QED
    BY <2>1, <2>2, <2>3, Zenon
<1>2. Cardinality(cuts) \in Nat /\ Nth(cuts, 1) = 0 /\ Nth(cuts, Cardinality(cuts)) = Len(s) + 1
  BY CutsProperties
<1> HIDE DEF P, cuts
<1>3. PICK ps \in Seq(Seq(T)), p \in Seq(T) : P = Append(ps, p)
  BY <1>1, SequenceEmptyOrAppend
<1>4. /\ Len(ps) \in Nat /\ Len(P) = Len(ps) + 1 /\ P[Len(ps) + 1] = p
      /\ \A i \in 1 .. Len(ps) : P[i] = ps[i]
  BY <1>3, AppendProperties
<1>5. (p = <<>> => split(s, d) = ps) /\ (p # <<>> => split(s, d) = P)
  <2>1. Last(P) = p /\ Front(P) = ps
    BY <1>3, LastAppended
  <2>2. QED
    BY <2>1, Zenon DEF split, P
<1>6. split(s, d) = <<>> => s = <<>>
  <2> SUFFICES ASSUME split(s, d) = <<>> PROVE s = <<>>
    OBVIOUS
  <2>1. p = <<>> /\ ps = <<>>
    BY <1>1, <1>5, Zenon
  <2>2. Len(ps) = 0
    BY <2>1
  <2>8. Cardinality(cuts) = 2 /\ Len(P) = 1
    <3>1. Len(P) = 1
      BY <1>4, <2>2
    <3>2. Len(P) = Cardinality(cuts) - 1
      BY <1>1
    <3>3. QED
      BY <1>2, <3>1, <3>2
  <2>3. P[1] = SubSeq(s, Nth(cuts, 1) + 1, Nth(cuts, 1 + 1) - 1)
    BY <1>1, <2>8
  <2>4. Nth(cuts, 1) + 1 = 1 /\ Nth(cuts, 1 + 1) - 1 = Len(s)
    BY <1>2, <2>8
  <2>5. P[1] = s
    BY <2>3, <2>4, SubSeqFull
  <2>6. P[1] = p
    BY <1>4, <2>2
  <2>7. QED
    BY <2>1, <2>5, <2>6
<1>7. \A i \in 1 .. Len(ps) : i \in 1 .. Len(P)
  BY <1>4
<1>8. QED
  BY <1>1, <1>4, <1>5, <1>6, <1>7 DEF P

(* What stands before the first delimiter.                                 *)
LEMMA SplitPiece ==
  ASSUME NEW T, NEW s \in Seq(T), NEW d, NEW i \in 1 .. Len(split(s, d))
  PROVE  i \in 1 .. Len(Pieces(s, d)) /\ split(s, d)[i] = Pieces(s, d)[i]
BY SplitProperties

LEMMA FirstPiece ==
  ASSUME NEW T, NEW s \in Seq(T), NEW d, NEW k \in 1 .. Len(s), s[k] = d,
         \A i \in 1 .. k - 1 : s[i] # d
  PROVE  Pieces(s, d)[1] = SubSeq(s, 1, k - 1)
<1> DEFINE cuts == Cuts(s, d)
<1>1. Len(s) \in Nat /\ DOMAIN s = 1 .. Len(s) /\ k \in Nat \ {0} /\ k <= Len(s)
  OBVIOUS
<1>2. /\ IsFiniteSet(cuts) /\ \A x \in cuts : x \in Nat
      /\ Cardinality(cuts) \in Nat /\ Cardinality(cuts) >= 2 /\ Nth(cuts, 1) = 0
  BY CutsProperties
<1>3. k \in cuts /\ Below(cuts, k) = {0}
  BY <1>1 DEF Cuts, Below
<1> HIDE DEF cuts
<1>4. Nth(cuts, 2) = k
  <2>1. Cardinality({0}) = 1
    BY FS_Singleton, Zenon
  <2>4. Cardinality(Below(cuts, k)) = 1
    BY <1>3, <2>1, Zenon
  <2>3. Cardinality(Below(cuts, k)) = 2 - 1
    BY <2>4
  <2>2. QED
    BY <1>2, <1>3, <2>3, NthIs
<1>5. Pieces(s, d)[1] = SubSeq(s, Nth(cuts, 1) + 1, Nth(cuts, 1 + 1) - 1)
  <2>1. Len(Pieces(s, d)) = Cardinality(cuts) - 1
    BY PiecesProperties DEF cuts
  <2>2. 1 \in 1 .. Len(Pieces(s, d))
    BY <1>2, <2>1
  <2>3. \A i \in 1 .. Len(Pieces(s, d)) :
          Pieces(s, d)[i] = SubSeq(s, Nth(cuts, i) + 1, Nth(cuts, i + 1) - 1)
    BY PiecesProperties DEF cuts
  <2>4. QED
    BY <2>2, <2>3
<1>6. Nth(cuts, 1) + 1 = 1 /\ Nth(cuts, 1 + 1) = k
  BY <1>2, <1>4
<1>7. QED
  BY <1>5, <1>6

-----------------------------------------------------------------------------
(* The least and the greatest.                                             *)
LEMMA MinIs ==
  ASSUME NEW S, \A x \in S : x \in Nat, S # {}
  PROVE  Min(S) \in S /\ \A y \in S : Min(S) <= y
BY Least DEF Min

LEMMA MinUnique ==
  ASSUME NEW S, \A x \in S : x \in Nat, NEW m \in S, \A y \in S : m <= y
  PROVE  Min(S) = m
<1>1. Min(S) \in S /\ \A y \in S : Min(S) <= y
  BY MinIs
<1>2. Min(S) <= m /\ m <= Min(S) /\ Min(S) \in Nat /\ m \in Nat
  BY <1>1
<1>3. QED
  BY <1>2

LEMMA MaxIs ==
  ASSUME NEW S, \A x \in S : x \in Nat, S # {}, NEW n \in Nat, \A x \in S : x <= n
  PROVE  Max(S) \in S /\ \A y \in S : y <= Max(S)
<1> DEFINE Z == {n - x : x \in S}
<1>1. \A z \in Z : z \in Nat
  OBVIOUS
<1>2. Z # {}
  OBVIOUS
<1>3. PICK z \in Z : \A w \in Z : z <= w
  BY <1>1, <1>2, Least
<1>4. PICK x \in S : z = n - x
  OBVIOUS
<1>5. ASSUME NEW y \in S PROVE x >= y
  <2>1. n - y \in Z /\ x \in Nat /\ y \in Nat
    OBVIOUS
  <2>2. n - x <= n - y
    BY <1>3, <1>4, <2>1
  <2>3. QED
    BY <2>1, <2>2
<1>6. Max(S) \in S /\ \A y \in S : Max(S) >= y
  BY <1>5 DEF Max
<1>7. QED
  BY <1>6

LEMMA MaxUnique ==
  ASSUME NEW S, \A x \in S : x \in Nat, NEW m \in S, \A y \in S : y <= m
  PROVE  Max(S) = m
<1>1. m \in Nat /\ S # {}
  OBVIOUS
<1>2. Max(S) \in S /\ \A y \in S : y <= Max(S)
  BY <1>1, MaxIs
<1>3. Max(S) <= m /\ m <= Max(S) /\ Max(S) \in Nat
  BY <1>2
<1>4. QED
  BY <1>1, <1>3

-----------------------------------------------------------------------------
(* A selection has what stands at the positions and nothing else.          *)
LEMMA SelectedIs ==
  ASSUME NEW A, NEW s \in Seq(A), NEW S, \A x \in S : x \in 1 .. Len(s)
  PROVE  /\ IsFiniteSet(S) /\ Cardinality(S) \in Nat /\ \A x \in S : x \in Nat
         /\ \A i \in 1 .. Cardinality(S) : Nth(S, i) \in S
         /\ Selected(s, S) \in Seq(A) /\ Len(Selected(s, S)) = Cardinality(S)
         /\ \A i \in 1 .. Cardinality(S) : Selected(s, S)[i] = s[Nth(S, i)]
<1> DEFINE n == Cardinality(S)
           e(i) == s[Nth(S, i)]
<1>1. /\ Len(s) \in Nat /\ \A i \in 1 .. Len(s) : s[i] \in A
      /\ \A x \in S : x \in Nat /\ x <= Len(s)
  OBVIOUS
<1>2. IsFiniteSet(S) /\ n \in Nat
  <2>1. S \in SUBSET Nat
    BY <1>1
  <2>2. IsFiniteSet(S)
    BY <1>1, <2>1, FS_BoundedSetOfNaturals
  <2>3. QED
    BY <2>2, FS_CardinalityType
<1>3. \A i \in 1 .. n : Nth(S, i) \in S
  BY <1>1, <1>2, NthProperties
<1>4. \A i \in 1 .. n : e(i) \in A
  BY <1>1, <1>3
<1>5. Selected(s, S) = [i \in 1 .. n |-> e(i)]
  BY DEF Selected
<1> HIDE DEF e, n
<1>6. /\ Selected(s, S) \in Seq(A) /\ Len(Selected(s, S)) = n
      /\ \A i \in 1 .. n : Selected(s, S)[i] = e(i)
  BY <1>2, <1>4, <1>5
<1>7. QED
  BY <1>1, <1>2, <1>3, <1>6 DEF n, e

LEMMA SelectedProperties ==
  ASSUME NEW A, NEW s \in Seq(A), NEW S, \A x \in S : x \in 1 .. Len(s)
  PROVE  /\ Selected(s, S) \in Seq(A) /\ Len(Selected(s, S)) = Cardinality(S)
         /\ Cardinality(S) \in Nat
         /\ \A i \in 1 .. Len(Selected(s, S)) : \E x \in S : Selected(s, S)[i] = s[x]
<1>1. /\ Cardinality(S) \in Nat /\ \A i \in 1 .. Cardinality(S) : Nth(S, i) \in S
      /\ Selected(s, S) \in Seq(A) /\ Len(Selected(s, S)) = Cardinality(S)
      /\ \A i \in 1 .. Cardinality(S) : Selected(s, S)[i] = s[Nth(S, i)]
  BY SelectedIs
<1>2. QED
  BY <1>1

LEMMA SelectedHas ==
  ASSUME NEW A, NEW s \in Seq(A), NEW S, \A x \in S : x \in 1 .. Len(s), NEW x \in S
  PROVE  \E i \in 1 .. Len(Selected(s, S)) : Selected(s, S)[i] = s[x]
<1>1. /\ IsFiniteSet(S) /\ Cardinality(S) \in Nat /\ \A y \in S : y \in Nat
      /\ Len(Selected(s, S)) = Cardinality(S)
      /\ \A i \in 1 .. Cardinality(S) : Selected(s, S)[i] = s[Nth(S, i)]
  BY SelectedIs
<1> DEFINE i == Cardinality(Below(S, x)) + 1
<1>2. Cardinality(Below(S, x)) \in 0 .. Cardinality(S) - 1
  BY <1>1, BelowBound
<1>3. i \in 1 .. Cardinality(S) /\ i \in Nat /\ Cardinality(Below(S, x)) = i - 1
  BY <1>1, <1>2
<1> HIDE DEF i
<1>4. Nth(S, i) = x
  BY <1>1, <1>3, NthIs
<1>5. QED
  BY <1>1, <1>3, <1>4

LEMMA SelectedNone == ASSUME NEW s PROVE Selected(s, {}) = <<>>
<1>1. Cardinality({}) = 0
  BY FS_EmptySet
<1>2. QED
  BY <1>1 DEF Selected

-----------------------------------------------------------------------------
(* Trimming.                                                               *)
Ink(c) == c \notin {" ", "\r", "\n"}

LEMMA TrimIs ==
  ASSUME NEW T, NEW s \in Seq(T), NEW a \in 1 .. Len(s), NEW b \in 1 .. Len(s),
         Ink(s[a]), Ink(s[b]), \A i \in 1 .. Len(s) : Ink(s[i]) => a <= i /\ i <= b
  PROVE  trim(s) = SubSeq(s, a, b)
<1> DEFINE ink == {i \in DOMAIN s : s[i] \notin {" ", "\r", "\n"}}
<1>1. a \in ink /\ b \in ink /\ \A i \in ink : i \in Nat /\ a <= i /\ i <= b
  <2>1. DOMAIN s = 1 .. Len(s) /\ Len(s) \in Nat
    OBVIOUS
  <2>2. \A i \in 1 .. Len(s) : Ink(s[i]) <=> i \in ink
    BY <2>1 DEF Ink
  <2>3. \A i \in ink : i \in 1 .. Len(s)
    BY <2>1
  <2> HIDE DEF ink
  <2>4. QED
    BY <2>1, <2>2, <2>3
<1>2. trim(s) = IF ink = {} THEN <<>> ELSE SubSeq(s, Min(ink), Max(ink))
  BY DEF trim
<1> HIDE DEF ink
<1>3. Min(ink) = a
  BY <1>1, MinUnique
<1>4. Max(ink) = b
  BY <1>1, MaxUnique
<1>5. ink # {}
  BY <1>1
<1>6. QED
  BY <1>2, <1>3, <1>4, <1>5

LEMMA TrimBetween ==
  ASSUME NEW T, NEW s \in Seq(T), NEW v \in Seq(T), v # <<>>, NEW k \in Nat,
         k + Len(v) <= Len(s), \A i \in 1 .. Len(v) : s[k + i] = v[i] /\ Ink(v[i]),
         \A i \in 1 .. Len(s) : i <= k \/ k + Len(v) < i => ~Ink(s[i])
  PROVE  trim(s) = v
<1> DEFINE n == Len(v)
           a == k + 1
           b == k + n
<1>1. n \in Nat \ {0} /\ Len(s) \in Nat /\ \A i \in 1 .. Len(s) : s[i] \in T
  BY EmptySeq
<1>2. 1 \in 1 .. n /\ n \in 1 .. n /\ a \in 1 .. Len(s) /\ b \in 1 .. Len(s)
  BY <1>1
<1>3. Ink(s[a]) /\ Ink(s[b])
  BY <1>2
<1>4. \A i \in 1 .. Len(s) : Ink(s[i]) => a <= i /\ i <= b
  BY <1>1
<1>5. trim(s) = SubSeq(s, a, b)
  <2> HIDE DEF a, b
  <2>1. QED
    BY <1>2, <1>3, <1>4, TrimIs
<1>6. /\ SubSeq(s, a, b) \in Seq(T) /\ Len(SubSeq(s, a, b)) = n
      /\ \A i \in 1 .. n : SubSeq(s, a, b)[i] = s[k + i]
  <2>1. /\ a \in Int /\ b \in Int /\ b - a + 1 = n /\ (IF a <= b THEN b - a + 1 ELSE 0) = n
        /\ \A i \in 1 .. n : a + i - 1 = k + i
        /\ \A i \in a .. b : s[i] \in T
    BY <1>1, <1>2
  <2> HIDE DEF a, b
  <2>2. /\ SubSeq(s, a, b) \in Seq(T)
        /\ Len(SubSeq(s, a, b)) = IF a <= b THEN b - a + 1 ELSE 0
        /\ \A i \in 1 .. b - a + 1 : SubSeq(s, a, b)[i] = s[a + i - 1]
    BY <2>1, SubSeqProperties
  <2>3. QED
    BY <2>1, <2>2
<1>7. \A i \in 1 .. n : SubSeq(s, a, b)[i] = v[i]
  BY <1>6
<1> HIDE DEF a, b
<1>8. QED
  BY <1>5, <1>6, <1>7, SeqEqual

(* A text that begins with ink loses what follows its last ink.            *)
LEMMA TrimHead ==
  ASSUME NEW T, NEW s \in Seq(T), s # <<>>, Ink(s[1])
  PROVE  \E b \in 1 .. Len(s) :
           /\ Ink(s[b]) /\ \A i \in b + 1 .. Len(s) : ~Ink(s[i])
           /\ trim(s) = SubSeq(s, 1, b)
<1> DEFINE ink == {i \in 1 .. Len(s) : Ink(s[i])}
<1>1. Len(s) \in Nat \ {0} /\ 1 \in 1 .. Len(s)
  BY EmptySeq
<1>2. ink # {} /\ \A i \in ink : i \in Nat /\ i <= Len(s)
  BY <1>1
<1>3. Max(ink) \in ink /\ \A i \in ink : i <= Max(ink)
  <2> HIDE DEF ink
  <2>1. QED
    BY <1>1, <1>2, MaxIs
<1> DEFINE b == Max(ink)
<1>4. b \in 1 .. Len(s) /\ Ink(s[b]) /\ \A i \in 1 .. Len(s) : Ink(s[i]) => i <= b
  BY <1>3
<1> HIDE DEF b
<1>5. \A i \in 1 .. Len(s) : Ink(s[i]) => 1 <= i /\ i <= b
  BY <1>4
<1>6. trim(s) = SubSeq(s, 1, b)
  BY <1>1, <1>4, <1>5, TrimIs
<1>7. \A i \in b + 1 .. Len(s) : ~Ink(s[i])
  BY <1>1, <1>4
<1>8. QED
  BY <1>4, <1>6, <1>7

LEMMA TrimAfter ==
  ASSUME NEW T, NEW t \in Seq(T), t # <<>>, Ink(t[1]), NEW p \in Seq(T), p # <<>>, Ink(p[1])
  PROVE  trim(t \o p) = t \o trim(p) /\ trim(p) \in Seq(T)
<1> DEFINE m == Len(t)
           n == Len(p)
           u == t \o p
<1>1. m \in Nat \ {0} /\ n \in Nat \ {0} /\ \A i \in 1 .. n : p[i] \in T
  BY EmptySeq
<1>2. /\ u \in Seq(T) /\ Len(u) = m + n
      /\ \A i \in 1 .. m : u[i] = t[i]
      /\ \A i \in 1 .. n : u[m + i] = p[i]
  <2>1. /\ u \in Seq(T) /\ Len(u) = m + n
        /\ \A i \in 1 .. m + n : u[i] = IF i <= m THEN t[i] ELSE p[i - m]
    BY ConcatProperties
  <2>2. /\ \A i \in 1 .. m : i \in 1 .. m + n /\ i <= m
        /\ \A i \in 1 .. n : m + i \in 1 .. m + n /\ ~(m + i <= m) /\ (m + i) - m = i
    BY <1>1
  <2> HIDE DEF u
  <2>3. QED
    BY <2>1, <2>2
<1>3. PICK b \in 1 .. n :
        /\ Ink(p[b]) /\ \A i \in b + 1 .. n : ~Ink(p[i])
        /\ trim(p) = SubSeq(p, 1, b)
  BY TrimHead
<1> HIDE DEF u
<1>4. trim(u) = SubSeq(u, 1, m + b)
  <2>1. 1 \in 1 .. Len(u) /\ m + b \in 1 .. Len(u) /\ 1 \in 1 .. m
    BY <1>1, <1>2
  <2>2. Ink(u[1]) /\ Ink(u[m + b])
    BY <1>2, <1>3, <2>1
  <2>3. ASSUME NEW i \in 1 .. Len(u), Ink(u[i]) PROVE 1 <= i /\ i <= m + b
    <3>1. CASE i <= m + b
      BY <3>1
    <3>2. CASE m + b < i
      <4>1. i - m \in b + 1 .. n /\ i - m \in 1 .. n /\ m + (i - m) = i
        BY <1>1, <1>2, <3>2
      <4>2. u[i] = p[i - m]
        BY <1>2, <4>1
      <4>3. QED
        BY <1>3, <2>3, <4>1, <4>2
    <3>3. QED
      BY <1>1, <3>1, <3>2
  <2>4. QED
    BY <1>2, <2>1, <2>2, <2>3, TrimIs
<1>5. /\ SubSeq(p, 1, b) \in Seq(T) /\ Len(SubSeq(p, 1, b)) = b
      /\ \A i \in 1 .. b : SubSeq(p, 1, b)[i] = p[i]
  <2>1. /\ 1 \in Int /\ b \in Int /\ b - 1 + 1 = b /\ (IF 1 <= b THEN b - 1 + 1 ELSE 0) = b
        /\ \A i \in 1 .. b : 1 + i - 1 = i /\ p[i] \in T
    BY <1>1
  <2>2. /\ SubSeq(p, 1, b) \in Seq(T)
        /\ Len(SubSeq(p, 1, b)) = IF 1 <= b THEN b - 1 + 1 ELSE 0
        /\ \A i \in 1 .. b - 1 + 1 : SubSeq(p, 1, b)[i] = p[1 + i - 1]
    BY <2>1, SubSeqProperties
  <2>3. QED
    BY <2>1, <2>2
<1>6. /\ SubSeq(u, 1, m + b) \in Seq(T) /\ Len(SubSeq(u, 1, m + b)) = m + b
      /\ \A i \in 1 .. m + b : SubSeq(u, 1, m + b)[i] = u[i]
  <2> DEFINE c == m + b
  <2>0. c \in Nat \ {0} /\ c <= m + n
    BY <1>1
  <2> HIDE DEF c
  <2>1. /\ 1 \in Int /\ c \in Int /\ c - 1 + 1 = c /\ (IF 1 <= c THEN c - 1 + 1 ELSE 0) = c
        /\ \A i \in 1 .. c : 1 + i - 1 = i /\ i \in 1 .. m + n
    BY <2>0
  <2>4. \A i \in 1 .. c : u[i] \in T
    BY <1>2, <2>1
  <2>2. /\ SubSeq(u, 1, c) \in Seq(T)
        /\ Len(SubSeq(u, 1, c)) = IF 1 <= c THEN c - 1 + 1 ELSE 0
        /\ \A i \in 1 .. c - 1 + 1 : SubSeq(u, 1, c)[i] = u[1 + i - 1]
    BY <2>1, <2>4, SubSeqProperties
  <2>3. QED
    BY <2>1, <2>2 DEF c
<1> DEFINE q == SubSeq(p, 1, b)
           w == SubSeq(u, 1, m + b)
<1>7. /\ t \o q \in Seq(T) /\ Len(t \o q) = m + b
      /\ \A i \in 1 .. m + b : (t \o q)[i] = IF i <= m THEN t[i] ELSE q[i - m]
  <2> HIDE DEF q
  <2>1. q \in Seq(T) /\ Len(q) = b
    BY <1>5 DEF q
  <2>2. QED
    BY <2>1, ConcatProperties
<1>8. \A i \in 1 .. m + b : w[i] = (t \o q)[i]
  <2> SUFFICES ASSUME NEW i \in 1 .. m + b PROVE w[i] = (t \o q)[i]
    OBVIOUS
  <2>1. w[i] = u[i]
    BY <1>6
  <2> HIDE DEF w, q
  <2>2. CASE i <= m
    <3>1. i \in 1 .. m
      BY <1>1, <2>2
    <3>2. (t \o q)[i] = t[i] /\ u[i] = t[i]
      BY <1>2, <1>7, <2>2, <3>1
    <3>3. QED
      BY <2>1, <3>2
  <2>3. CASE ~(i <= m)
    <3>1. i - m \in 1 .. b /\ i - m \in 1 .. n /\ m + (i - m) = i
      BY <1>1, <2>3
    <3>2. (t \o q)[i] = q[i - m] /\ u[i] = p[i - m]
      BY <1>2, <1>7, <2>3, <3>1
    <3>3. q[i - m] = p[i - m]
      BY <1>5, <3>1 DEF q
    <3>4. QED
      BY <2>1, <3>2, <3>3
  <2>4. QED
    BY <2>2, <2>3
<1>9. w = t \o q
  <2>1. w \in Seq(T) /\ Len(w) = m + b
    BY <1>6
  <2> HIDE DEF w, q
  <2>2. QED
    BY <1>7, <1>8, <2>1, SeqEqual
<1>10. QED
  BY <1>3, <1>4, <1>5, <1>9 DEF u

-----------------------------------------------------------------------------
(* Texts without an empty piece: the delimiter stands neither at an end    *)
(* nor beside another.                                                     *)
Tidy(s, d) ==
  /\ s # <<>> /\ s[1] # d /\ s[Len(s)] # d
  /\ \A i \in 1 .. Len(s) - 1 : s[i] = d => s[i + 1] # d

LEMMA TidyPieces ==
  ASSUME NEW T, NEW s \in Seq(T), NEW d, Tidy(s, d)
  PROVE  \A i \in 1 .. Len(Pieces(s, d)) : Pieces(s, d)[i] # <<>>
<1>1. Len(s) \in Nat \ {0} /\ DOMAIN s = 1 .. Len(s)
  BY EmptySeq DEF Tidy
<1>2. ASSUME NEW c \in 0 .. Len(s), c \in Cuts(s, d), c + 1 \in Cuts(s, d) PROVE FALSE
  <2>0. c \in Nat /\ c <= Len(s) /\ c + 1 # 0
    BY <1>1
  <2>1. c # 0 => c \in 1 .. Len(s) /\ s[c] = d
    BY <1>1, <1>2 DEF Cuts
  <2>2. c # Len(s) => c + 1 \in 1 .. Len(s) /\ s[c + 1] = d
    <3>1. c + 1 = 0 \/ c + 1 = Len(s) + 1 \/ (c + 1 \in 1 .. Len(s) /\ s[c + 1] = d)
      BY <1>1, <1>2 DEF Cuts
    <3>4. \A x, y \in Nat : x # y => x + 1 # y + 1
      OBVIOUS
    <3>2. c # Len(s) => c + 1 # Len(s) + 1
      BY <1>1, <2>0, <3>4, Zenon
    <3>3. QED
      BY <2>0, <3>1, <3>2, Zenon
  <2>3. CASE c = 0
    BY <1>1, <2>2, <2>3 DEF Tidy
  <2>4. CASE c = Len(s)
    BY <1>1, <2>1, <2>4 DEF Tidy
  <2>5. CASE c # 0 /\ c # Len(s)
    <3>3. \A x, y \in Nat : x <= y /\ x # 0 /\ x # y => x \in 1 .. y - 1
      OBVIOUS
    <3>4. Len(s) \in Nat
      BY <1>1
    <3>1. c \in 1 .. Len(s) - 1
      BY <2>0, <2>5, <3>3, <3>4, Zenon
    <3>2. QED
      BY <2>1, <2>2, <2>5, <3>1 DEF Tidy
  <2>6. QED
    BY <2>3, <2>4, <2>5
<1>3. \A i \in 1 .. Len(Pieces(s, d)) :
        Pieces(s, d)[i] = <<>> => \E c \in 0 .. Len(s) : c \in Cuts(s, d) /\ c + 1 \in Cuts(s, d)
  BY PiecesProperties
<1>4. QED
  BY <1>2, <1>3

LEMMA TidyConcat ==
  ASSUME NEW T, NEW d \in T, NEW t \in Seq(T), NEW p \in Seq(T), Tidy(t, d), Tidy(p, d)
  PROVE  Tidy((t \o <<d>>) \o p, d)
<1> DEFINE m == Len(t)
           n == Len(p)
           u == (t \o <<d>>) \o p
<1>1. m \in Nat \ {0} /\ n \in Nat \ {0}
  BY EmptySeq DEF Tidy
<1>2. t \o <<d>> \in Seq(T) /\ Len(t \o <<d>>) = m + 1
      /\ \A i \in 1 .. m + 1 : (t \o <<d>>)[i] = IF i <= m THEN t[i] ELSE <<d>>[i - m]
  <2>1. <<d>> \in Seq(T) /\ Len(<<d>>) = 1
    OBVIOUS
  <2>2. QED
    BY <2>1, ConcatProperties
<1> DEFINE w == t \o <<d>>
<1>3. w[m + 1] = d /\ \A i \in 1 .. m : w[i] = t[i]
  <2>1. m + 1 \in 1 .. m + 1 /\ ~(m + 1 <= m) /\ (m + 1) - m = 1
        /\ \A i \in 1 .. m : i \in 1 .. m + 1 /\ i <= m
    BY <1>1
  <2>2. <<d>>[1] = d
    OBVIOUS
  <2> HIDE DEF w
  <2>3. \A i \in 1 .. m + 1 : w[i] = IF i <= m THEN t[i] ELSE <<d>>[i - m]
    BY <1>2 DEF w
  <2>4. w[m + 1] = <<d>>[(m + 1) - m]
    BY <2>1, <2>3
  <2>5. QED
    BY <2>1, <2>2, <2>3, <2>4
<1>4. /\ u \in Seq(T) /\ Len(u) = m + 1 + n
      /\ \A i \in 1 .. m + 1 + n : u[i] = IF i <= m + 1 THEN w[i] ELSE p[i - (m + 1)]
  <2>1. w \in Seq(T) /\ Len(w) = m + 1
    BY <1>2
  <2> HIDE DEF w
  <2>2. w \o p \in Seq(T) /\ Len(w \o p) = Len(w) + n
        /\ \A i \in 1 .. Len(w) + n : (w \o p)[i] = IF i <= Len(w) THEN w[i] ELSE p[i - Len(w)]
    BY <2>1, ConcatProperties
  <2>3. QED
    BY <2>1, <2>2 DEF w
<1> HIDE DEF u, w
<1>5. \A i \in 1 .. m : u[i] = t[i]
  BY <1>1, <1>3, <1>4
<1>6. u[m + 1] = d
  BY <1>1, <1>3, <1>4
<1>7. ASSUME NEW i \in m + 2 .. m + 1 + n PROVE u[i] = p[i - (m + 1)] /\ i - (m + 1) \in 1 .. n
  <2>1. i \in 1 .. m + 1 + n /\ ~(i <= m + 1) /\ i - (m + 1) \in 1 .. n
    BY <1>1
  <2>2. QED
    BY <1>4, <2>1
<1>8. u # <<>> /\ u[1] # d /\ u[Len(u)] # d
  <2>1. 1 \in 1 .. m /\ m + 1 + n \in m + 2 .. m + 1 + n /\ (m + 1 + n) - (m + 1) = n
    BY <1>1
  <2>2. u[1] = t[1] /\ u[m + 1 + n] = p[n]
    BY <1>5, <1>7, <2>1
  <2>3. u[Len(u)] = p[n]
    BY <1>4, <2>2
  <2>4. u # <<>>
    BY <1>1, <1>4
  <2>5. QED
    BY <2>2, <2>3, <2>4 DEF Tidy
<1>9. ASSUME NEW i \in 1 .. Len(u) - 1, u[i] = d PROVE u[i + 1] # d
  <2>1. i \in 1 .. m + n
    BY <1>1, <1>4
  <2>2. CASE i < m
    <3>1. i \in 1 .. m - 1 /\ i \in 1 .. m /\ i + 1 \in 1 .. m
      BY <1>1, <2>1, <2>2
    <3>2. u[i] = t[i] /\ u[i + 1] = t[i + 1]
      BY <1>5, <3>1
    <3>3. QED
      BY <1>9, <3>1, <3>2 DEF Tidy
  <2>3. CASE i = m
    <3>1. u[i] = t[m]
      BY <1>1, <1>5, <2>3
    <3>2. QED
      BY <1>9, <3>1 DEF Tidy
  <2>4. CASE i = m + 1
    <3>1. i + 1 \in m + 2 .. m + 1 + n /\ (i + 1) - (m + 1) = 1
      BY <1>1, <2>4
    <3>2. u[i + 1] = p[1]
      BY <1>7, <3>1
    <3>3. QED
      BY <3>2 DEF Tidy
  <2>5. CASE i > m + 1
    <3>1. /\ i \in m + 2 .. m + 1 + n /\ i + 1 \in m + 2 .. m + 1 + n
          /\ i - (m + 1) \in 1 .. n - 1
          /\ (i + 1) - (m + 1) = (i - (m + 1)) + 1
      BY <1>1, <2>1, <2>5
    <3>2. u[i] = p[i - (m + 1)] /\ u[i + 1] = p[(i - (m + 1)) + 1]
      BY <1>7, <3>1
    <3>3. QED
      BY <1>9, <3>1, <3>2 DEF Tidy
  <2>6. QED
    BY <1>1, <2>1, <2>2, <2>3, <2>4, <2>5
<1>10. Tidy(u, d)
  BY <1>8, <1>9 DEF Tidy
<1>11. QED
  BY <1>10 DEF u, w

LEMMA TidyJoined ==
  ASSUME NEW T, NEW d \in T, NEW ps \in Seq(Seq(T)), ps # <<>>,
         \A i \in 1 .. Len(ps) : Tidy(ps[i], d)
  PROVE  Tidy(Joined(ps, d), d)
<1> DEFINE All(qs) == \A i \in 1 .. Len(qs) : Tidy(qs[i], d)
           S == {qs \in Seq(Seq(T)) : qs # <<>> /\ All(qs) => Tidy(Joined(qs, d), d)}
<1>1. <<>> \in S
  OBVIOUS
<1>2. ASSUME NEW qs \in Seq(Seq(T)), qs \in S, NEW p \in Seq(T) PROVE Append(qs, p) \in S
  <2>1. /\ Append(qs, p) \in Seq(Seq(T)) /\ Len(Append(qs, p)) = Len(qs) + 1 /\ Len(qs) \in Nat
        /\ \A i \in 1 .. Len(qs) : Append(qs, p)[i] = qs[i]
        /\ Append(qs, p)[Len(qs) + 1] = p
    BY AppendProperties
  <2> SUFFICES ASSUME All(Append(qs, p)) PROVE Tidy(Joined(Append(qs, p), d), d)
    BY <2>1
  <2>2. All(qs) /\ Tidy(p, d)
    <3>1. \A i \in 1 .. Len(qs) : i \in 1 .. Len(Append(qs, p))
      BY <2>1
    <3>2. Len(qs) + 1 \in 1 .. Len(Append(qs, p))
      BY <2>1
    <3>3. QED
      BY <2>1, <3>1, <3>2
  <2>3. CASE qs = <<>>
    <3>1. Joined(Append(qs, p), d) = p
      BY <2>3, JoinedAppend
    <3>2. QED
      BY <2>2, <3>1
  <2>4. CASE qs # <<>>
    <3>1. Tidy(Joined(qs, d), d)
      BY <1>2, <2>2, <2>4
    <3>2. Joined(Append(qs, p), d) = (Joined(qs, d) \o <<d>>) \o p
      BY <2>4, JoinedAppend
    <3>3. Joined(qs, d) \in Seq(T)
      BY JoinedType
    <3>4. Tidy((Joined(qs, d) \o <<d>>) \o p, d)
      BY <2>2, <3>1, <3>3, TidyConcat
    <3>5. QED
      BY <3>2, <3>4
  <2>5. QED
    BY <2>3, <2>4
<1>3. \A qs \in Seq(Seq(T)) : qs \in S
  <2> HIDE DEF S
  <2>1. QED
    BY <1>1, <1>2, SeqInductive
<1>4. QED
  BY <1>3

-----------------------------------------------------------------------------
(* Lines: each ends with two characters, of which the second ends none of  *)
(* them earlier.                                                           *)
Lines(ls, eol) == FlattenSeq([i \in DOMAIN ls |-> ls[i] \o eol])

LEMMA LinesEmpty == ASSUME NEW eol PROVE Lines(<<>>, eol) = <<>>
<1>1. [i \in DOMAIN <<>> |-> <<>>[i] \o eol] = <<>>
  OBVIOUS
<1>2. QED
  BY <1>1, FlattenEmpty DEF Lines

LEMMA LinesType ==
  ASSUME NEW T, NEW eol \in Seq(T), NEW ls \in Seq(Seq(T))
  PROVE  Lines(ls, eol) \in Seq(T)
<1> DEFINE line(i) == ls[i] \o eol
<1>1. ASSUME NEW i \in DOMAIN ls PROVE line(i) \in Seq(T)
  <2>1. ls[i] \in Seq(T)
    OBVIOUS
  <2>2. QED
    BY <2>1, ConcatProperties
<1> HIDE DEF line
<1>2. [i \in DOMAIN ls |-> line(i)] \in Seq(Seq(T))
  <2>1. DOMAIN ls = 1 .. Len(ls) /\ Len(ls) \in Nat
    OBVIOUS
  <2>2. QED
    BY <1>1, <2>1
<1>3. QED
  BY <1>2, FlattenType DEF Lines, line

LEMMA LinesAppend ==
  ASSUME NEW T, NEW eol \in Seq(T), NEW ls \in Seq(Seq(T)), NEW l \in Seq(T)
  PROVE  Lines(Append(ls, l), eol) = Lines(ls, eol) \o (l \o eol)
<1> DEFINE line(x) == x \o eol
           whole(xs) == [i \in DOMAIN xs |-> line(xs[i])]
           n == Len(ls)
           more == Append(ls, l)
<1>1. /\ n \in Nat /\ more \in Seq(Seq(T)) /\ Len(more) = n + 1
      /\ DOMAIN ls = 1 .. n /\ DOMAIN more = 1 .. n + 1
      /\ \A i \in 1 .. n : more[i] = ls[i]
      /\ more[n + 1] = l
  BY AppendProperties
<1>2. \A x \in Seq(T) : line(x) \in Seq(T)
  BY ConcatProperties
<1> HIDE DEF line
<1>3. whole(ls) \in Seq(Seq(T)) /\ Len(whole(ls)) = n
      /\ \A i \in 1 .. n : whole(ls)[i] = line(ls[i])
  <2>1. \A i \in 1 .. n : line(ls[i]) \in Seq(T)
    BY <1>2
  <2>2. QED
    BY <1>1, <2>1
<1>4. whole(more) \in Seq(Seq(T)) /\ Len(whole(more)) = n + 1
      /\ \A i \in 1 .. n + 1 : whole(more)[i] = line(more[i])
  <2> HIDE DEF more
  <2>1. \A i \in 1 .. n + 1 : line(more[i]) \in Seq(T)
    BY <1>1, <1>2
  <2>2. QED
    BY <1>1, <2>1
<1>5. line(l) \in Seq(T)
  BY <1>2
<1>6. whole(more) = Append(whole(ls), line(l))
  <2> HIDE DEF whole, more
  <2> DEFINE rhs == Append(whole(ls), line(l))
  <2>1. /\ rhs \in Seq(Seq(T)) /\ Len(rhs) = n + 1
        /\ \A i \in 1 .. n : rhs[i] = whole(ls)[i]
        /\ rhs[n + 1] = line(l)
    BY <1>3, <1>5, AppendProperties
  <2> HIDE DEF rhs
  <2>2. \A i \in 1 .. n + 1 : whole(more)[i] = rhs[i]
    <3>1. \A i \in 1 .. n + 1 : i \in 1 .. n \/ i = n + 1
      BY <1>1
    <3>2. QED
      BY <1>1, <1>3, <1>4, <2>1, <3>1
  <2>3. QED
    BY <1>4, <2>1, <2>2, SeqEqual DEF rhs
<1>7. Lines(more, eol) = FlattenSeq(whole(more)) /\ Lines(ls, eol) = FlattenSeq(whole(ls))
  BY DEF Lines, line
<1> HIDE DEF whole
<1>8. Lines(more, eol) = Lines(ls, eol) \o line(l)
  BY <1>3, <1>5, <1>6, <1>7, FlattenAppend
<1>9. QED
  BY <1>8 DEF line

LEMMA ConcatDelimiters ==
  ASSUME NEW T, NEW d \in T, NEW t \in Seq(T), NEW p \in Seq(T)
  PROVE  ((t \o <<d>>) \o p) \o <<d>> = (t \o <<d>>) \o (p \o <<d>>)
<1> DEFINE e == <<d>>
           w == t \o e
<1>1. e \in Seq(T)
  OBVIOUS
<1> HIDE DEF e
<1>2. w \in Seq(T)
  BY <1>1, ConcatProperties
<1> HIDE DEF w
<1>3. (w \o p) \o e = w \o (p \o e)
  BY <1>1, <1>2, ConcatAssociative, SMTT(30)
<1>4. QED
  BY <1>3 DEF w, e

(* Cut at their ends, the text gives the lines back.                       *)
Ended(ls, c) == [i \in DOMAIN ls |-> ls[i] \o <<c>>]

LEMMA LinesPieces ==
  ASSUME NEW T, NEW c \in T, NEW d \in T, c # d, NEW ls \in Seq(Seq(T)), ls # <<>>,
         \A i \in 1 .. Len(ls) : \A j \in 1 .. Len(ls[i]) : ls[i][j] # d
  PROVE  split(Lines(ls, <<c, d>>), d) = Ended(ls, c)
<1> DEFINE Without(xs) == \A i \in 1 .. Len(xs) : \A j \in 1 .. Len(xs[i]) : xs[i][j] # d
           cut(xs) == [i \in DOMAIN xs |-> xs[i] \o <<c>>]
           Cut(xs) == \E t \in Seq(T) : Lines(xs, <<c, d>>) = t \o <<d>> /\ Pieces(t, d) = cut(xs)
           S == {xs \in Seq(Seq(T)) : xs # <<>> /\ Without(xs) => Cut(xs)}
<1>1. <<>> \in S
  OBVIOUS
<1>2. <<c>> \in Seq(T) /\ <<d>> \in Seq(T) /\ <<c, d>> \in Seq(T)
  OBVIOUS
<1>3. ASSUME NEW l \in Seq(T), \A j \in 1 .. Len(l) : l[j] # d
      PROVE  /\ l \o <<c>> \in Seq(T) /\ \A j \in 1 .. Len(l \o <<c>>) : (l \o <<c>>)[j] # d
             /\ l \o <<c, d>> = (l \o <<c>>) \o <<d>>
  <2>1. /\ l \o <<c>> \in Seq(T) /\ Len(l \o <<c>>) = Len(l) + 1 /\ Len(l) \in Nat
        /\ \A j \in 1 .. Len(l) + 1 : (l \o <<c>>)[j] = IF j <= Len(l) THEN l[j] ELSE <<c>>[j - Len(l)]
    <3>1. Len(<<c>>) = 1
      OBVIOUS
    <3>2. QED
      BY <1>2, <3>1, ConcatProperties
  <2>2. ASSUME NEW j \in 1 .. Len(l) + 1 PROVE (l \o <<c>>)[j] # d
    <3>1. CASE j <= Len(l)
      <4>1. j \in 1 .. Len(l)
        BY <2>1, <3>1
      <4>2. (l \o <<c>>)[j] = l[j]
        BY <2>1, <3>1
      <4>3. QED
        BY <1>3, <4>1, <4>2
    <3>2. CASE ~(j <= Len(l))
      <4>1. j - Len(l) = 1 /\ <<c>>[1] = c
        BY <2>1, <3>2
      <4>2. (l \o <<c>>)[j] = c
        BY <2>1, <3>2, <4>1
      <4>3. QED
        BY <4>2
    <3>3. QED
      BY <3>1, <3>2
  <2>3. <<c, d>> = <<c>> \o <<d>>
    <3>1. <<d>> \in Seq({c, d}) /\ <<c>> \in Seq({c, d}) /\ <<c, d>> = Append(<<c>>, d)
      OBVIOUS
    <3>2. Append(<<c>>, d) = <<c>> \o <<d>>
      BY <3>1, AppendIsConcat
    <3>3. QED
      BY <3>1, <3>2, Zenon
  <2>4. (l \o <<c>>) \o <<d>> = l \o (<<c>> \o <<d>>)
    BY <1>2, ConcatAssociative
  <2>5. QED
    BY <2>1, <2>2, <2>3, <2>4
<1>4. ASSUME NEW xs \in Seq(Seq(T)), xs \in S, NEW l \in Seq(T) PROVE Append(xs, l) \in S
  <2> DEFINE more == Append(xs, l)
             n == Len(xs)
             p == l \o <<c>>
             text == Lines(xs, <<c, d>>)
  <2>1. /\ more \in Seq(Seq(T)) /\ Len(more) = n + 1 /\ n \in Nat
        /\ DOMAIN xs = 1 .. n /\ DOMAIN more = 1 .. n + 1
        /\ \A i \in 1 .. n : more[i] = xs[i]
        /\ more[n + 1] = l
    BY AppendProperties
  <2> SUFFICES ASSUME Without(more) PROVE Cut(more)
    BY <2>1
  <2>2. Without(xs) /\ \A j \in 1 .. Len(l) : l[j] # d
    <3>1. \A i \in 1 .. n : i \in 1 .. Len(more)
      BY <2>1
    <3>2. n + 1 \in 1 .. Len(more)
      BY <2>1
    <3>3. \A i \in 1 .. Len(more) : \A j \in 1 .. Len(more[i]) : more[i][j] # d
      OBVIOUS
    <3> HIDE DEF more
    <3>4. Without(xs)
      BY <2>1, <3>1, <3>3
    <3>5. \A j \in 1 .. Len(more[n + 1]) : more[n + 1][j] # d
      BY <3>2, <3>3, Zenon
    <3>6. QED
      BY <2>1, <3>4, <3>5, Zenon
  <2>3. p \in Seq(T) /\ (\A j \in 1 .. Len(p) : p[j] # d) /\ l \o <<c, d>> = p \o <<d>>
    BY <1>3, <2>2
  <2>4. Lines(more, <<c, d>>) = text \o (p \o <<d>>)
    <3> HIDE DEF p, text
    <3>1. Lines(more, <<c, d>>) = text \o (l \o <<c, d>>)
      BY <1>2, LinesAppend DEF text
    <3>2. QED
      BY <2>3, <3>1
  <2>5. cut(more) = Append(cut(xs), p)
    <3>1. \A i \in 1 .. n : xs[i] \in Seq(T) /\ xs[i] \o <<c>> \in Seq(T)
      BY <1>2, <2>1, ConcatProperties
    <3>2. /\ cut(xs) \in Seq(Seq(T)) /\ Len(cut(xs)) = n
          /\ \A i \in 1 .. n : cut(xs)[i] = xs[i] \o <<c>>
      BY <2>1, <3>1, SMTT(30)
    <3>3. /\ DOMAIN cut(more) = 1 .. n + 1 /\ cut(more)[n + 1] = p
          /\ \A i \in 1 .. n : cut(more)[i] = xs[i] \o <<c>>
      <4> HIDE DEF more
      <4>1. n + 1 \in 1 .. n + 1 /\ \A i \in 1 .. n : i \in 1 .. n + 1
        BY <2>1
      <4>2. QED
        BY <2>1, <4>1
    <3>4. cut(more) \in Seq(Seq(T)) /\ Len(cut(more)) = n + 1
      <4>1. \A i \in 1 .. n + 1 : i \in 1 .. n \/ i = n + 1
        BY <2>1
      <4> HIDE DEF more, p
      <4>2. \A i \in 1 .. n + 1 : cut(more)[i] \in Seq(T)
        BY <2>3, <3>1, <3>3, <4>1
      <4>3. cut(more) = [i \in 1 .. n + 1 |-> cut(more)[i]]
        BY <3>3
      <4> HIDE DEF cut
      <4>4. QED
        BY <2>1, <4>2, <4>3
    <3> DEFINE a == cut(more)
               b == Append(cut(xs), p)
    <3>5. /\ b \in Seq(Seq(T)) /\ Len(b) = n + 1 /\ b[n + 1] = p
          /\ \A i \in 1 .. n : b[i] = cut(xs)[i]
      <4> HIDE DEF cut, p
      <4>1. QED
        BY <2>3, <3>2, AppendProperties
    <3>6. \A i \in 1 .. n + 1 : a[i] = b[i]
      <4>1. \A i \in 1 .. n + 1 : i \in 1 .. n \/ i = n + 1
        BY <2>1
      <4> HIDE DEF cut, p, b, more
      <4>2. QED
        BY <3>2, <3>3, <3>5, <4>1
    <3>7. a \in Seq(Seq(T)) /\ Len(a) = n + 1
      BY <3>4
    <3> HIDE DEF a, b
    <3>8. a = b
      BY <3>5, <3>6, <3>7, SeqEqual
    <3>9. QED
      BY <3>8 DEF a, b
  <2> HIDE DEF p
  <2>6. CASE xs = <<>>
    <3>1. text = <<>>
      BY <2>6, LinesEmpty
    <3>2. p \o <<d>> \in Seq(T)
      BY <1>2, <2>3, ConcatProperties
    <3>3. Lines(more, <<c, d>>) = p \o <<d>>
      BY <2>4, <3>1, <3>2, ConcatEmptySeq
    <3>4. Pieces(p, d) = <<p>>
      BY <2>3, PiecesOne
    <3>5. cut(xs) = <<>>
      BY <2>6
    <3>6. cut(more) = <<p>>
      <4> HIDE DEF cut
      <4>1. Append(<<>>, p) = <<p>>
        OBVIOUS
      <4>2. QED
        BY <2>5, <3>5, <4>1
    <3>7. QED
      BY <2>3, <3>3, <3>4, <3>6, Zenon
  <2>7. CASE xs # <<>>
    <3>1. Cut(xs)
      BY <1>4, <2>2, <2>7
    <3>2. PICK t \in Seq(T) : text = t \o <<d>> /\ Pieces(t, d) = cut(xs)
      BY <3>1
    <3>3. /\ t \o <<d>> \in Seq(T)
          /\ (t \o <<d>>) \o p \in Seq(T)
      <4>1. t \o <<d>> \in Seq(T)
        BY <1>2, ConcatProperties
      <4>2. QED
        BY <2>3, <4>1, ConcatProperties
    <3>4. ((t \o <<d>>) \o p) \o <<d>> = (t \o <<d>>) \o (p \o <<d>>)
      BY <2>3, ConcatDelimiters, Zenon
    <3>5. Pieces((t \o <<d>>) \o p, d) = Append(Pieces(t, d), p)
      BY <2>3, PiecesAdded
    <3>6. Pieces((t \o <<d>>) \o p, d) = cut(more)
      BY <2>5, <3>2, <3>5, Zenon
    <3>7. Lines(more, <<c, d>>) = ((t \o <<d>>) \o p) \o <<d>>
      BY <2>4, <3>2, <3>4, Zenon
    <3>8. QED
      BY <3>3, <3>6, <3>7, Zenon
  <2>8. QED
    BY <2>6, <2>7
<1>5. \A xs \in Seq(Seq(T)) : xs \in S
  <2> HIDE DEF S
  <2>1. QED
    BY <1>1, <1>4, SeqInductive
<1>6. Cut(ls)
  BY <1>5
<1>7. PICK t \in Seq(T) : Lines(ls, <<c, d>>) = t \o <<d>> /\ Pieces(t, d) = cut(ls)
  BY <1>6
<1> HIDE DEF cut
<1>8. cut(ls) \in Seq(Seq(T))
  <2>1. Pieces(t, d) \in Seq(Seq(T))
    BY PiecesProperties
  <2>2. QED
    BY <1>7, <2>1
<1>9. <<>> \in Seq(T) /\ Len(<<>>) = 0
  BY EmptySeq
<1>10. Pieces((t \o <<d>>) \o <<>>, d) = Append(Pieces(t, d), <<>>)
  <2> DEFINE e == <<>>
  <2>1. e \in Seq(T) /\ Len(e) = 0
    BY <1>9
  <2> HIDE DEF e
  <2>2. \A i \in 1 .. Len(e) : e[i] # d
    BY <2>1
  <2>3. Pieces((t \o <<d>>) \o e, d) = Append(Pieces(t, d), e)
    BY <2>1, <2>2, PiecesAdded
  <2>4. QED
    BY <2>3 DEF e
<1>11. (t \o <<d>>) \o <<>> = t \o <<d>>
  <2>1. t \o <<d>> \in Seq(T)
    BY <1>2, ConcatProperties
  <2>2. QED
    BY <2>1, ConcatEmptySeq
<1>12. Pieces(Lines(ls, <<c, d>>), d) = Append(cut(ls), <<>>)
  BY <1>7, <1>10, <1>11, Zenon
<1>13. Last(Append(cut(ls), <<>>)) = <<>> /\ Front(Append(cut(ls), <<>>)) = cut(ls)
  BY <1>8, <1>9, LastAppended
<1>14. QED
  BY <1>12, <1>13, Zenon DEF split, cut, Ended

LEMMA LineWithEnd ==
  ASSUME NEW T, NEW c \in T, NEW d \in T, NEW l \in Seq(T)
  PROVE  /\ l \o <<c, d>> \in Seq(T) /\ Len(l \o <<c, d>>) = Len(l) + 2
         /\ \A x \in 1 .. Len(l) : (l \o <<c, d>>)[x] = l[x]
         /\ (l \o <<c, d>>)[Len(l) + 1] = c /\ (l \o <<c, d>>)[Len(l) + 2] = d
<1> DEFINE e == <<c, d>>
           n == Len(l)
<1>1. e \in Seq(T) /\ Len(e) = 2 /\ e[1] = c /\ e[2] = d /\ n \in Nat
  OBVIOUS
<1> HIDE DEF e
<1>2. /\ l \o e \in Seq(T) /\ Len(l \o e) = n + 2
      /\ \A x \in 1 .. n + 2 : (l \o e)[x] = IF x <= n THEN l[x] ELSE e[x - n]
  <2>1. l \o e \in Seq(T) /\ Len(l \o e) = n + Len(e)
        /\ \A x \in 1 .. n + Len(e) : (l \o e)[x] = IF x <= n THEN l[x] ELSE e[x - n]
    BY <1>1, ConcatProperties
  <2>2. QED
    BY <1>1, <2>1
<1>3. /\ \A x \in 1 .. n : x \in 1 .. n + 2 /\ x <= n
      /\ n + 1 \in 1 .. n + 2 /\ ~(n + 1 <= n) /\ (n + 1) - n = 1
      /\ n + 2 \in 1 .. n + 2 /\ ~(n + 2 <= n) /\ (n + 2) - n = 2
  BY <1>1
<1> DEFINE w == l \o e
<1>4. \A x \in 1 .. n + 2 : w[x] = IF x <= n THEN l[x] ELSE e[x - n]
  BY <1>2
<1>5. w \in Seq(T) /\ Len(w) = n + 2
  BY <1>2
<1> HIDE DEF w
<1>6. \A x \in 1 .. n : w[x] = l[x]
  BY <1>3, <1>4
<1>7. w[n + 1] = c /\ w[n + 2] = d
  <2>1. w[n + 1] = e[(n + 1) - n] /\ w[n + 2] = e[(n + 2) - n]
    BY <1>3, <1>4
  <2>2. QED
    BY <1>1, <1>3, <2>1
<1>8. QED
  BY <1>5, <1>6, <1>7 DEF w, e

(* After every delimiter but the last a line begins, and every line but    *)
(* the first begins after one.                                             *)
At(text, k, w) == k + Len(w) <= Len(text) /\ \A x \in 1 .. Len(w) : text[k + x] = w[x]

LEMMA LineStarts ==
  ASSUME NEW T, NEW c \in T, NEW d \in T, c # d, NEW ls \in Seq(Seq(T)),
         \A i \in 1 .. Len(ls) : \A j \in 1 .. Len(ls[i]) : ls[i][j] # d
  PROVE  LET text == Lines(ls, <<c, d>>)
         IN  /\ \A k \in 1 .. Len(text) - 1 :
                  text[k] = d => \E j \in 2 .. Len(ls) : At(text, k, ls[j] \o <<c, d>>)
             /\ \A j \in 2 .. Len(ls) :
                  \E k \in 1 .. Len(text) - 1 : text[k] = d /\ At(text, k, ls[j] \o <<c, d>>)
<1> DEFINE Text(xs) == Lines(xs, <<c, d>>)
           Without(xs) == \A i \in 1 .. Len(xs) : \A j \in 1 .. Len(xs[i]) : xs[i][j] # d
           Begins(xs, j, k) == At(Text(xs), k, xs[j] \o <<c, d>>)
           Ends(xs) == xs # <<>> => Len(Text(xs)) # 0 /\ Text(xs)[Len(Text(xs))] = d
           Some(xs) == \A k \in 1 .. Len(Text(xs)) - 1 :
                         Text(xs)[k] = d => \E j \in 2 .. Len(xs) : Begins(xs, j, k)
           Each(xs) == \A j \in 2 .. Len(xs) :
                         \E k \in 1 .. Len(Text(xs)) - 1 : Text(xs)[k] = d /\ Begins(xs, j, k)
           S == {xs \in Seq(Seq(T)) : Without(xs) => Ends(xs) /\ Some(xs) /\ Each(xs)}
<1>0. <<c, d>> \in Seq(T)
  OBVIOUS
<1>1. <<>> \in S
  <2>1. Text(<<>>) = <<>>
    BY LinesEmpty
  <2> HIDE DEF Text
  <2>2. Len(Text(<<>>)) - 1 = -1 /\ Len(<<>>) = 0 /\ <<>> \in Seq(Seq(T))
    BY <2>1
  <2>3. QED
    BY <2>2
<1>2. ASSUME NEW xs \in Seq(Seq(T)), xs \in S, NEW l \in Seq(T) PROVE Append(xs, l) \in S
  <2> DEFINE more == Append(xs, l)
             n == Len(xs)
             w == l \o <<c, d>>
             text == Text(xs)
             m == Len(text)
             q == Len(l) + 2
             u == Text(more)
  <2>1. /\ more \in Seq(Seq(T)) /\ Len(more) = n + 1 /\ n \in Nat
        /\ \A i \in 1 .. n : more[i] = xs[i]
        /\ more[n + 1] = l
    BY AppendProperties
  <2>2. SUFFICES ASSUME Without(more) PROVE Ends(more) /\ Some(more) /\ Each(more)
    BY <2>1
  <2>3. Without(xs) /\ \A j \in 1 .. Len(l) : l[j] # d
    <3> HIDE DEF more
    <3>1. \A i \in 1 .. n : i \in 1 .. Len(more)
      BY <2>1
    <3>2. n + 1 \in 1 .. Len(more)
      BY <2>1
    <3>3. QED
      BY <2>1, <2>2, <3>1, <3>2
  <2>4. Ends(xs) /\ Some(xs) /\ Each(xs)
    BY <1>2, <2>3
  <2>5. text \in Seq(T) /\ m \in Nat
    <3>1. text \in Seq(T)
      BY <1>0, LinesType
    <3> HIDE DEF text
    <3>2. QED
      BY <3>1
  <2>6. /\ w \in Seq(T) /\ Len(w) = q /\ q \in Nat /\ q >= 2
        /\ w[q] = d /\ \A x \in 1 .. q - 1 : w[x] # d
    <3>1. /\ w \in Seq(T) /\ Len(w) = q
          /\ \A x \in 1 .. Len(l) : w[x] = l[x]
          /\ w[Len(l) + 1] = c /\ w[q] = d
      BY LineWithEnd
    <3> HIDE DEF w
    <3>2. /\ Len(l) \in Nat /\ q \in Nat /\ q >= 2
          /\ \A x \in 1 .. q - 1 : x \in 1 .. Len(l) \/ x = Len(l) + 1
      OBVIOUS
    <3> HIDE DEF q
    <3>3. ASSUME NEW x \in 1 .. q - 1 PROVE w[x] # d
      <4>1. CASE x \in 1 .. Len(l)
        BY <2>3, <3>1, <4>1
      <4>2. CASE x = Len(l) + 1
        BY <3>1, <4>2
      <4>3. QED
        BY <3>2, <4>1, <4>2
    <3>4. QED
      BY <3>1, <3>2, <3>3
  <2>7. u = text \o w
    BY <1>0, LinesAppend
  <2> HIDE DEF Text, more, w, text, u, q
  <2>8. /\ u \in Seq(T) /\ Len(u) = m + q
        /\ \A i \in 1 .. m + q : u[i] = IF i <= m THEN text[i] ELSE w[i - m]
    <3> DEFINE v == text \o w
    <3>1. v \in Seq(T) /\ Len(v) = Len(text) + Len(w)
      BY <2>5, <2>6, ConcatProperties
    <3>2. \A i \in 1 .. Len(text) + Len(w) :
            v[i] = IF i <= Len(text) THEN text[i] ELSE w[i - Len(text)]
      BY <2>5, <2>6, ConcatProperties, SMTT(30)
    <3>3. u = v
      BY <2>7
    <3> HIDE DEF v
    <3>4. QED
      BY <2>5, <2>6, <3>1, <3>2, <3>3
  <2>9. /\ \A i \in 1 .. m : u[i] = text[i]
        /\ \A x \in 1 .. q : u[m + x] = w[x]
    <3>1. /\ \A i \in 1 .. m : i \in 1 .. m + q /\ i <= m
          /\ \A x \in 1 .. q : m + x \in 1 .. m + q /\ ~(m + x <= m) /\ (m + x) - m = x
      BY <2>5, <2>6
    <3>2. QED
      BY <2>8, <3>1
  <2>10. ASSUME NEW k \in Nat, NEW v, v \in Seq(T), At(text, k, v) PROVE At(u, k, v)
    <3>1. k + Len(v) <= m /\ Len(v) \in Nat
      BY <2>10 DEF At
    <3>2. k + Len(v) <= Len(u)
      BY <2>5, <2>6, <2>8, <3>1
    <3>3. ASSUME NEW x \in 1 .. Len(v) PROVE u[k + x] = v[x]
      <4>1. k + x \in 1 .. m
        BY <2>5, <3>1
      <4>2. u[k + x] = text[k + x]
        BY <2>9, <4>1
      <4>3. QED
        BY <2>10, <4>2 DEF At
    <3>4. QED
      BY <3>2, <3>3 DEF At
  <2>11. At(u, m, w)
    BY <2>6, <2>8, <2>9 DEF At
  <2>12. Ends(more)
    <3>1. q \in 1 .. q
      BY <2>6
    <3>2. u[m + q] = d
      BY <2>6, <2>9, <3>1
    <3>3. Len(u) # 0 /\ u[Len(u)] = d
      BY <2>5, <2>6, <2>8, <3>2
    <3>4. QED
      BY <3>3 DEF u
  <2>13. m # 0 <=> n # 0
    <3>1. n # 0 => xs # <<>>
      BY <2>1
    <3>2. xs = <<>> => text = <<>>
      BY LinesEmpty DEF text, Text
    <3>3. n # 0 => m # 0
      BY <2>4, <3>1 DEF text
    <3>4. n = 0 => m = 0
      <4>1. n = 0 => xs = <<>>
        OBVIOUS
      <4>2. QED
        BY <3>2, <4>1
    <3>5. QED
      BY <3>3, <3>4
  <2>14. ASSUME NEW j \in 2 .. n
         PROVE  more[j] = xs[j] /\ xs[j] \o <<c, d>> \in Seq(T) /\ j \in 2 .. n + 1
    <3>1. j \in 1 .. n /\ xs[j] \in Seq(T)
      BY <2>1
    <3>2. QED
      BY <2>1, <3>1, LineWithEnd
  <2>15. Some(more)
    <3> SUFFICES ASSUME NEW k \in 1 .. Len(u) - 1, u[k] = d
                 PROVE  \E j \in 2 .. n + 1 : At(u, k, more[j] \o <<c, d>>)
      BY <2>1 DEF u
    <3>1. CASE k < m
      <4>1. k \in 1 .. m - 1 /\ k \in 1 .. m /\ k \in Nat
        BY <2>5, <3>1
      <4>2. text[k] = d
        BY <2>9, <4>1
      <4>3. PICK j \in 2 .. n : At(text, k, xs[j] \o <<c, d>>)
        BY <2>4, <4>1, <4>2 DEF text
      <4>4. At(u, k, more[j] \o <<c, d>>)
        BY <2>10, <2>14, <4>1, <4>3
      <4>5. QED
        BY <2>14, <4>4
    <3>2. CASE k = m
      <4>1. m # 0
        BY <3>2
      <4>2. n + 1 \in 2 .. n + 1
        BY <2>1, <2>13, <4>1
      <4>3. At(u, k, more[n + 1] \o <<c, d>>)
        BY <2>1, <2>11, <3>2 DEF w
      <4>4. QED
        BY <4>2, <4>3
    <3>3. CASE m < k
      <4>1. k - m \in 1 .. q - 1 /\ k - m \in 1 .. q /\ m + (k - m) = k
        BY <2>5, <2>6, <2>8, <3>3
      <4>2. u[k] = w[k - m]
        BY <2>9, <4>1
      <4>3. QED
        BY <2>6, <4>1, <4>2
    <3>4. k < m \/ k = m \/ m < k
      <4>1. k \in Int
        OBVIOUS
      <4>2. QED
        BY <2>5, <4>1
    <3>5. QED
      BY <3>1, <3>2, <3>3, <3>4
  <2>16. Each(more)
    <3> SUFFICES ASSUME NEW j \in 2 .. n + 1
                 PROVE  \E k \in 1 .. Len(u) - 1 : u[k] = d /\ At(u, k, more[j] \o <<c, d>>)
      BY <2>1 DEF u
    <3>1. CASE j = n + 1
      <4>1. n # 0
        BY <3>1
      <4>2. m # 0 /\ xs # <<>>
        BY <2>13, <4>1
      <4>3. text[m] = d
        BY <2>4, <4>2 DEF text
      <4>4. m \in 1 .. m /\ m \in 1 .. Len(u) - 1
        BY <2>5, <2>6, <2>8, <4>2
      <4>5. u[m] = d
        BY <2>9, <4>3, <4>4
      <4>6. At(u, m, more[j] \o <<c, d>>)
        BY <2>1, <2>11, <3>1 DEF w
      <4>7. QED
        BY <4>4, <4>5, <4>6
    <3>2. CASE j # n + 1
      <4>1. j \in 2 .. n
        BY <2>1, <3>2
      <4>2. PICK k \in 1 .. m - 1 : text[k] = d /\ At(text, k, xs[j] \o <<c, d>>)
        BY <2>4, <4>1 DEF text
      <4>3. k \in 1 .. m /\ k \in Nat /\ k \in 1 .. Len(u) - 1
        BY <2>5, <2>6, <2>8
      <4>4. u[k] = d
        BY <2>9, <4>2, <4>3
      <4>5. At(u, k, more[j] \o <<c, d>>)
        BY <2>10, <2>14, <4>1, <4>2, <4>3
      <4>6. QED
        BY <4>3, <4>4, <4>5
    <3>3. QED
      BY <3>1, <3>2
  <2>17. QED
    BY <2>12, <2>15, <2>16
<1>3. \A xs \in Seq(Seq(T)) : xs \in S
  <2> HIDE DEF S
  <2>1. QED
    BY <1>1, <1>2, SeqInductive
<1>4. QED
  BY <1>3
LEMMA NotEmpty == ASSUME NEW s, Len(s) # 0 PROVE s # <<>>
OBVIOUS

LEMMA SomeLength == ASSUME NEW T, NEW s \in Seq(T), s # <<>> PROVE Len(s) \in Nat \ {0}
BY EmptySeq

LEMMA PlaceIn ==
  ASSUME NEW A, NEW s \in Seq(A), NEW i \in DOMAIN s
  PROVE  i \in 1 .. Len(s) /\ s[i] \in A
OBVIOUS

-----------------------------------------------------------------------------
(* A joined text that is trimmed and cut again: each piece is one of the   *)
(* texts, but for what is blank at its end.                                *)
LEMMA BeginningProperties ==
  ASSUME NEW T, NEW s \in Seq(T), NEW b \in 1 .. Len(s)
  PROVE  /\ SubSeq(s, 1, b) \in Seq(T) /\ Len(SubSeq(s, 1, b)) = b
         /\ \A i \in 1 .. b : SubSeq(s, 1, b)[i] = s[i]
<1>1. /\ 1 \in Int /\ b \in Int /\ b - 1 + 1 = b /\ (IF 1 <= b THEN b - 1 + 1 ELSE 0) = b
      /\ \A i \in 1 .. b : 1 + i - 1 = i /\ s[i] \in T
  OBVIOUS
<1>2. /\ SubSeq(s, 1, b) \in Seq(T)
      /\ Len(SubSeq(s, 1, b)) = IF 1 <= b THEN b - 1 + 1 ELSE 0
      /\ \A i \in 1 .. b - 1 + 1 : SubSeq(s, 1, b)[i] = s[1 + i - 1]
  BY <1>1, SubSeqProperties
<1>3. QED
  BY <1>1, <1>2

LEMMA Beginning ==
  ASSUME NEW T, NEW t \in Seq(T), t # <<>>, NEW u \in Seq(T)
  PROVE  t \o u # <<>> /\ (t \o u)[1] = t[1]
<1>1. Len(t) \in Nat \ {0} /\ Len(u) \in Nat
  BY EmptySeq
<1>2. /\ t \o u \in Seq(T) /\ Len(t \o u) = Len(t) + Len(u)
      /\ \A i \in 1 .. Len(t) + Len(u) : (t \o u)[i] = IF i <= Len(t) THEN t[i] ELSE u[i - Len(t)]
  BY ConcatProperties
<1> DEFINE w == t \o u
<1> HIDE DEF w
<1>3. Len(w) # 0 /\ w[1] = t[1]
  BY <1>1, <1>2 DEF w
<1>4. w # <<>>
  BY <1>3
<1>5. QED
  BY <1>3, <1>4 DEF w

LEMMA JoinedBegins ==
  ASSUME NEW T, NEW d \in T, NEW ps \in Seq(Seq(T)), ps # <<>>, ps[1] # <<>>
  PROVE  Joined(ps, d) # <<>> /\ Joined(ps, d)[1] = ps[1][1]
<1> DEFINE Begins(qs) == Joined(qs, d) # <<>> /\ Joined(qs, d)[1] = qs[1][1]
           S == {qs \in Seq(Seq(T)) : qs # <<>> /\ qs[1] # <<>> => Begins(qs)}
<1>1. <<>> \in S
  OBVIOUS
<1>2. ASSUME NEW qs \in Seq(Seq(T)), qs \in S, NEW p \in Seq(T) PROVE Append(qs, p) \in S
  <2>1. /\ Append(qs, p) \in Seq(Seq(T)) /\ Len(qs) \in Nat
        /\ \A i \in 1 .. Len(qs) : Append(qs, p)[i] = qs[i]
        /\ Append(qs, p)[Len(qs) + 1] = p
    BY AppendProperties
  <2> SUFFICES ASSUME Append(qs, p)[1] # <<>> PROVE Begins(Append(qs, p))
    BY <2>1
  <2>2. CASE qs = <<>>
    <3>1. Joined(Append(qs, p), d) = p
      BY <2>2, JoinedAppend
    <3>2. Append(qs, p)[1] = p
      BY <2>1, <2>2
    <3>3. QED
      BY <3>1, <3>2
  <2>3. CASE qs # <<>>
    <3> DEFINE j == Joined(qs, d)
    <3>1. Append(qs, p)[1] = qs[1]
      BY <2>1, <2>3, EmptySeq
    <3>2. j # <<>> /\ j[1] = qs[1][1]
      BY <1>2, <2>3, <3>1
    <3>3. Joined(Append(qs, p), d) = (j \o <<d>>) \o p
      BY <2>3, JoinedAppend
    <3>4. j \in Seq(T)
      BY JoinedType
    <3> HIDE DEF j
    <3>5. j \o <<d>> \in Seq(T) /\ j \o <<d>> # <<>> /\ (j \o <<d>>)[1] = j[1]
      <4>1. <<d>> \in Seq(T)
        OBVIOUS
      <4>2. QED
        BY <3>2, <3>4, <4>1, Beginning, ConcatProperties
    <3> DEFINE w == j \o <<d>>
    <3> HIDE DEF w
    <3>6. w \o p # <<>> /\ (w \o p)[1] = w[1]
      BY <3>5, Beginning DEF w
    <3>7. QED
      BY <3>1, <3>2, <3>3, <3>5, <3>6 DEF w
  <2>4. QED
    BY <2>2, <2>3
<1>3. \A qs \in Seq(Seq(T)) : qs \in S
  <2> HIDE DEF S
  <2>1. QED
    BY <1>1, <1>2, SeqInductive
<1>4. QED
  BY <1>3

LastTrimmed(ps, p, d) == Pieces(trim(Joined(Append(ps, p), d)), d) = Append(ps, trim(p))

LEMMA TrimLast ==
  ASSUME NEW T, NEW d \in T, NEW ps \in Seq(Seq(T)), NEW p \in Seq(T),
         p # <<>>, Ink(p[1]), \A j \in 1 .. Len(p) : p[j] # d,
         \A i \in 1 .. Len(ps) :
           ps[i] # <<>> /\ Ink(ps[i][1]) /\ \A j \in 1 .. Len(ps[i]) : ps[i][j] # d
  PROVE  LastTrimmed(ps, p, d) /\ trim(p) \in Seq(T)
<1>1. PICK b \in 1 .. Len(p) : trim(p) = SubSeq(p, 1, b)
  BY TrimHead
<1> DEFINE q == trim(p)
<1>2. q \in Seq(T) /\ \A j \in 1 .. Len(q) : q[j] # d
  <2>1. SubSeq(p, 1, b) \in Seq(T) /\ Len(SubSeq(p, 1, b)) = b
        /\ \A i \in 1 .. b : SubSeq(p, 1, b)[i] = p[i]
    BY BeginningProperties
  <2>2. \A j \in 1 .. b : j \in 1 .. Len(p)
    OBVIOUS
  <2>3. QED
    BY <1>1, <2>1, <2>2
<1> HIDE DEF q
<1>3. ASSUME ps = <<>> PROVE Pieces(trim(Joined(Append(ps, p), d)), d) = Append(ps, q)
  <2>1. Joined(Append(ps, p), d) = p
    BY <1>3, JoinedAppend
  <2>2. Pieces(q, d) = <<q>>
    BY <1>2, PiecesOne
  <2>3. Append(ps, q) = <<q>>
    BY <1>3
  <2>4. QED
    BY <1>2, <2>1, <2>2, <2>3 DEF q
<1>4. ASSUME ps # <<>> PROVE Pieces(trim(Joined(Append(ps, p), d)), d) = Append(ps, q)
  <2> DEFINE j == Joined(ps, d)
             t == j \o <<d>>
  <2>1. j \in Seq(T)
    BY JoinedType
  <2>2. 1 \in 1 .. Len(ps)
    BY <1>4, EmptySeq
  <2>3. j # <<>> /\ Ink(j[1])
    BY <1>4, <2>2, JoinedBegins
  <2>4. Pieces(j, d) = ps
    BY <1>4, JoinedPieces
  <2>5. Joined(Append(ps, p), d) = t \o p
    BY <1>4, JoinedAppend
  <2> HIDE DEF j
  <2>6. t \in Seq(T) /\ t # <<>> /\ Ink(t[1])
    <3>1. <<d>> \in Seq(T)
      OBVIOUS
    <3>2. t \in Seq(T)
      BY <2>1, <3>1, ConcatProperties
    <3>3. t # <<>> /\ t[1] = j[1]
      BY <2>1, <2>3, <3>1, Beginning
    <3>4. QED
      BY <2>3, <3>2, <3>3
  <2>7. trim(t \o p) = t \o q
    <3> HIDE DEF t
    <3>1. trim(t \o p) = t \o trim(p)
      BY <2>6, TrimAfter
    <3>2. QED
      BY <3>1 DEF q
  <2>8. Pieces((j \o <<d>>) \o q, d) = Append(Pieces(j, d), q)
    BY <1>2, <2>1, PiecesAdded
  <2>9. QED
    BY <1>2, <2>4, <2>5, <2>7, <2>8 DEF q
<1>5. Pieces(trim(Joined(Append(ps, p), d)), d) = Append(ps, q)
  BY <1>3, <1>4
<1>6. QED
  BY <1>2, <1>5, Zenon DEF q, LastTrimmed

(* What is left of a text when some of the blanks at its end are not.      *)
Shortened(p, s) ==
  \E b \in 1 .. Len(s) : p = SubSeq(s, 1, b) /\ \A j \in b + 1 .. Len(s) : ~Ink(s[j])

LEMMA TrimJoined ==
  ASSUME NEW T, NEW d \in T, NEW ps \in Seq(Seq(T)), ps # <<>>,
         \A i \in 1 .. Len(ps) :
           ps[i] # <<>> /\ Ink(ps[i][1]) /\ \A j \in 1 .. Len(ps[i]) : ps[i][j] # d
  PROVE  /\ Pieces(trim(Joined(ps, d)), d) \in Seq(Seq(T))
         /\ Len(Pieces(trim(Joined(ps, d)), d)) = Len(ps)
         /\ \A i \in 1 .. Len(ps) : Shortened(Pieces(trim(Joined(ps, d)), d)[i], ps[i])
<1> DEFINE P == Pieces(trim(Joined(ps, d)), d)
<1>1. PICK qs \in Seq(Seq(T)), p \in Seq(T) : ps = Append(qs, p)
  BY SequenceEmptyOrAppend
<1>2. /\ Len(ps) = Len(qs) + 1 /\ Len(qs) \in Nat
      /\ \A i \in 1 .. Len(qs) : ps[i] = qs[i]
      /\ ps[Len(qs) + 1] = p
  BY <1>1, AppendProperties
<1>3. /\ \A i \in 1 .. Len(qs) : i \in 1 .. Len(ps)
      /\ Len(qs) + 1 \in 1 .. Len(ps)
  BY <1>2
<1>4. p # <<>> /\ Ink(p[1]) /\ \A j \in 1 .. Len(p) : p[j] # d
  BY <1>2, <1>3
<1>5. \A i \in 1 .. Len(qs) :
        qs[i] # <<>> /\ Ink(qs[i][1]) /\ \A j \in 1 .. Len(qs[i]) : qs[i][j] # d
  BY <1>2, <1>3
<1>6. P = Append(qs, trim(p)) /\ trim(p) \in Seq(T)
  <2>1. LastTrimmed(qs, p, d)
    BY <1>4, <1>5, TrimLast
  <2>2. trim(p) \in Seq(T)
    BY <1>4, <1>5, TrimLast
  <2>3. QED
    BY <1>1, <2>1, <2>2, Zenon DEF LastTrimmed
<1>7. PICK b \in 1 .. Len(p) :
        trim(p) = SubSeq(p, 1, b) /\ \A j \in b + 1 .. Len(p) : ~Ink(p[j])
  BY <1>4, TrimHead
<1> HIDE DEF P
<1>8. /\ P \in Seq(Seq(T)) /\ Len(P) = Len(qs) + 1
      /\ \A i \in 1 .. Len(qs) : P[i] = qs[i]
      /\ P[Len(qs) + 1] = trim(p)
  BY <1>6, AppendProperties
<1>9. ASSUME NEW i \in 1 .. Len(ps) PROVE Shortened(P[i], ps[i])
  <2>1. CASE i \in 1 .. Len(qs)
    <3> DEFINE l == qs[i]
               c == Len(l)
    <3>1. P[i] = l /\ l # <<>>
      BY <1>5, <1>8, <2>1
    <3>2. ps[i] = l /\ l \in Seq(T)
      BY <1>2, <2>1
    <3> HIDE DEF l
    <3>3. c \in 1 .. Len(l) /\ \A j \in c + 1 .. Len(l) : ~Ink(l[j])
      BY <3>1, <3>2, EmptySeq
    <3>4. SubSeq(l, 1, Len(l)) = l
      BY <3>2, SubSeqFull
    <3>5. QED
      BY <3>1, <3>2, <3>3, <3>4 DEF Shortened
  <2>2. CASE i = Len(qs) + 1
    BY <1>2, <1>7, <1>8, <2>2 DEF Shortened
  <2>3. i \in 1 .. Len(qs) \/ i = Len(qs) + 1
    BY <1>2
  <2>4. QED
    BY <2>1, <2>2, <2>3
<1>10. QED
  BY <1>2, <1>8, <1>9 DEF P

==============================================================================
