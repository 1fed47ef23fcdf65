-------------------------------- MODULE Texts --------------------------------
(***************************************************************************)
(* Texts, cut and joined as Java's String and C++'s getline do it.  A text *)
(* is a sequence of tokens: words, and the characters a conversion looks   *)
(* for.  None of the definitions is recursive but that of FlattenSeq: what *)
(* a cut yields is said by the positions of the delimiter.                 *)
(***************************************************************************)
EXTENDS Integers, Sequences, FiniteSets, SequencesExt

\* The n-th smallest of a set of numbers.
Nth(S, n) == CHOOSE x \in S : Cardinality({y \in S : y < x}) = n - 1

\* What stands at the positions of S, in its order.
Selected(s, S) == [i \in 1 .. Cardinality(S) |-> s[Nth(S, i)]]

\* Where the delimiter stands, and before and after the text.
Cuts(s, delim) == {0, Len(s) + 1} \cup {i \in DOMAIN s : s[i] = delim}

Pieces(s, delim) ==
  LET cuts == Cuts(s, delim)
  IN  [i \in 1 .. Cardinality(cuts) - 1 |-> SubSeq(s, Nth(cuts, i) + 1, Nth(cuts, i + 1) - 1)]

\* getline stops at the end of the stream: an empty last piece is not told.
split(s, delim) ==
  LET p == Pieces(s, delim) IN IF Last(p) = <<>> THEN Front(p) ELSE p

Joined(pieces, delim) ==
  FlattenSeq([i \in DOMAIN pieces |-> IF i = 1 THEN pieces[i] ELSE <<delim>> \o pieces[i]])

trim(s) ==
  LET ink == {i \in DOMAIN s : s[i] \notin {" ", "\r", "\n"}}
  IN  IF ink = {} THEN <<>> ELSE SubSeq(s, Min(ink), Max(ink))
==============================================================================
