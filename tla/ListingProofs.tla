----------------------------- MODULE ListingProofs -----------------------------
(***************************************************************************)
(* Theorems about Listing, for any characters, texts and volumes: a ref a  *)
(* caller can have is well formed, prints as what parses to it again, and  *)
(* finds the entries it was shown.                                         *)
(*                                                                         *)
(* Quoting, unquoting and joining are all FlattenSeq of what becomes of    *)
(* each character or part; splitting is the inverse of joining.            *)
(***************************************************************************)
EXTENDS Listing, TLAPS, WellFoundedInduction, SequenceTheorems

-----------------------------------------------------------------------------
(***************************************************************************)
(* Numbers and sequences.                                                  *)
(***************************************************************************)

\* Among natural numbers there is a smallest one.
LEMMA Smallest ==
    ASSUME NEW T, T \subseteq Nat, T # {}
    PROVE  \E x \in T : \A y \in T : x <= y
  <1> DEFINE R == OpToRel(<, Nat)
  <1>1. IsWellFoundedOn(R, Nat)
    BY NatLessThanWellFounded
  <1>2. PICK x \in T : \A y \in T : ~ (<<y, x>> \in R)
    <2> HIDE DEF R
    <2> QED
      BY <1>1, WFMin
  <1>3. \A y \in T : ~ (y < x)
    BY <1>2 DEF OpToRel
  <1>4. ASSUME NEW y \in T PROVE x <= y
    <2>1. x \in Nat /\ y \in Nat
      BY <1>2
    <2> QED
      BY <2>1, <1>3
  <1> QED
    BY <1>4, <1>2

\* Induction over the natural numbers, of a set in place of an operator.
LEMMA NatSet ==
    ASSUME NEW T, 0 \in T, \A n \in Nat : n \in T => n + 1 \in T
    PROVE  Nat \subseteq T
  <1> SUFFICES ASSUME NEW n \in Nat, n \notin T PROVE FALSE
    OBVIOUS
  <1> DEFINE U == Nat \ T
  <1>1. U \subseteq Nat /\ U # {}
    OBVIOUS
  <1>2. PICK m \in U : \A k \in U : m <= k
    <2> HIDE DEF U
    <2> QED
      BY <1>1, Smallest
  <1>3. m # 0 /\ m - 1 \in Nat /\ (m - 1) + 1 = m
    BY <1>2
  <1>4. m - 1 \in U
    BY <1>3
  <1> QED
    BY <1>2, <1>3, <1>4

\* Induction over sequences.
LEMMA SeqSet ==
    ASSUME NEW S, NEW T, <<>> \in T,
           \A s \in Seq(S), x \in S : s \in T => Append(s, x) \in T
    PROVE  Seq(S) \subseteq T
  <1> DEFINE N == {n \in Nat : \A s \in Seq(S) : Len(s) = n => s \in T}
  <1>1. 0 \in N
    BY EmptySeq
  <1>2. ASSUME NEW n \in Nat, n \in N PROVE n + 1 \in N
    <2>1. ASSUME NEW s \in Seq(S), Len(s) = n + 1 PROVE s \in T
      <3>1. s # <<>>
        BY <2>1, EmptySeq
      <3>2. PICK t \in Seq(S), x \in S : s = Append(t, x)
        BY <3>1, SequenceEmptyOrAppend
      <3>3. Len(t) = n
        BY <2>1, <3>2, AppendProperties, LenProperties
      <3>4. t \in T
        BY <1>2, <3>3
      <3> QED
        BY <3>2, <3>4
    <2> QED
      BY <2>1
  <1> HIDE DEF N
  <1>3. Nat \subseteq N
    BY <1>1, <1>2, NatSet
  <1>4. ASSUME NEW s \in Seq(S) PROVE s \in T
    BY <1>3, LenProperties DEF N
  <1> QED
    BY <1>4

-----------------------------------------------------------------------------
(***************************************************************************)
(* FlattenSeq.                                                             *)
(***************************************************************************)

\* g holds the first n parts of ss, joined.
IsFlat(g, ss, n) ==
    g = [i \in 1 .. n |-> IF i = 1 THEN ss[i] ELSE g[i - 1] \o ss[i]]

LEMMA FlatExists ==
    ASSUME NEW ss
    PROVE  \A n \in Nat : \E g : IsFlat(g, ss, n)
  <1> DEFINE T == {n \in Nat : \E g : IsFlat(g, ss, n)}
  <1>1. 0 \in T
    <2>1. IsFlat([i \in 1 .. 0 |-> ss[i]], ss, 0)
      BY DEF IsFlat
    <2> QED
      BY <2>1
  <1>2. ASSUME NEW n \in Nat, n \in T PROVE n + 1 \in T
    <2>1. PICK g : IsFlat(g, ss, n)
      BY <1>2, Zenon
    <2>2. \A i \in 1 .. n : g[i] = IF i = 1 THEN ss[i] ELSE g[i - 1] \o ss[i]
      BY <2>1 DEF IsFlat
    <2> DEFINE last == IF n = 0 THEN ss[1] ELSE g[n] \o ss[n + 1]
               h == [i \in 1 .. n + 1 |-> IF i = n + 1 THEN last ELSE g[i]]
    <2> HIDE DEF last
    <2>6. n + 1 \in 1 .. n + 1 /\ \A i \in 1 .. n : i \in 1 .. n + 1 /\ i # n + 1
      BY <1>2
    <2>3. /\ h[n + 1] = last
          /\ \A i \in 1 .. n : h[i] = g[i]
          /\ h = [i \in 1 .. n + 1 |-> h[i]]
      BY <2>6
    <2> HIDE DEF h
    <2> USE DEF last
    <2>4. ASSUME NEW i \in 1 .. n + 1
          PROVE  h[i] = IF i = 1 THEN ss[i] ELSE h[i - 1] \o ss[i]
      <3>1. CASE i = n + 1
        <4>1. CASE n = 0
          BY <2>3, <3>1, <4>1
        <4>2. CASE n # 0
          <5>1. i # 1 /\ i - 1 = n /\ n \in 1 .. n
            BY <3>1, <4>2
          <5> QED
            BY <2>3, <3>1, <4>2, <5>1
        <4> QED
          BY <4>1, <4>2
      <3>2. CASE i # n + 1
        <4>1. i \in 1 .. n /\ (i # 1 => i - 1 \in 1 .. n)
          BY <3>2
        <4> QED
          BY <2>2, <2>3, <4>1
      <3> QED
        BY <3>1, <3>2
    <2>5. IsFlat(h, ss, n + 1)
      BY <2>3, <2>4 DEF IsFlat
    <2> QED
      BY <2>5
  <1> HIDE DEF T
  <1>3. Nat \subseteq T
    BY <1>1, <1>2, NatSet
  <1> QED
    BY <1>3 DEF T

\* So FlattenSeq is where that ends.
LEMMA FlatEnds ==
    ASSUME NEW ss, Len(ss) \in Nat, Len(ss) # 0
    PROVE  \E g : /\ g[1] = ss[1]
                  /\ \A i \in 2 .. Len(ss) : g[i] = g[i - 1] \o ss[i]
                  /\ FlattenSeq(ss) = g[Len(ss)]
  <1> DEFINE g == CHOOSE g : IsFlat(g, ss, Len(ss))
  <1>1. FlattenSeq(ss) = g[Len(ss)]
    BY DEF FlattenSeq, IsFlat
  <1>2. IsFlat(g, ss, Len(ss))
    BY FlatExists
  <1> HIDE DEF g
  <1>3. \A i \in 1 .. Len(ss) : g[i] = IF i = 1 THEN ss[i] ELSE g[i - 1] \o ss[i]
    BY <1>2 DEF IsFlat
  <1>4. 1 \in 1 .. Len(ss) /\ \A i \in 2 .. Len(ss) : i \in 1 .. Len(ss) /\ i # 1
    OBVIOUS
  <1> QED
    BY <1>1, <1>3, <1>4

LEMMA FlatEmpty == FlattenSeq(<<>>) = <<>>
  BY DEF FlattenSeq

\* One more part comes behind the others.
LEMMA FlatAppend ==
    ASSUME NEW S, NEW ss \in Seq(Seq(S)), NEW x \in Seq(S)
    PROVE  FlattenSeq(Append(ss, x)) = FlattenSeq(ss) \o x
  <1> DEFINE tt == Append(ss, x)
  <1>1. /\ tt \in Seq(Seq(S)) /\ Len(tt) = Len(ss) + 1 /\ Len(ss) \in Nat
        /\ \A i \in 1 .. Len(ss) : tt[i] = ss[i]
        /\ tt[Len(ss) + 1] = x
    BY AppendProperties, LenProperties
  <1> HIDE DEF tt
  <1>5. Len(tt) \in Nat /\ Len(tt) # 0
    BY <1>1
  <1>2. PICK h : /\ h[1] = tt[1]
                 /\ \A i \in 2 .. Len(tt) : h[i] = h[i - 1] \o tt[i]
                 /\ FlattenSeq(tt) = h[Len(tt)]
    BY <1>5, FlatEnds, Zenon
  <1>3. CASE Len(ss) = 0
    <2>1. FlattenSeq(ss) = <<>>
      BY <1>3, EmptySeq, FlatEmpty
    <2>2. FlattenSeq(tt) = x
      BY <1>1, <1>2, <1>3
    <2> QED
      BY <2>1, <2>2, ConcatEmptySeq DEF tt
  <1>4. CASE Len(ss) # 0
    <2>1. PICK g : /\ g[1] = ss[1]
                   /\ \A i \in 2 .. Len(ss) : g[i] = g[i - 1] \o ss[i]
                   /\ FlattenSeq(ss) = g[Len(ss)]
      BY <1>1, <1>4, FlatEnds
    <2> DEFINE T == {n \in Nat : n + 1 \in 1 .. Len(ss) => h[n + 1] = g[n + 1]}
    <2>2. 0 \in T
      BY <1>1, <1>2, <2>1
    <2>3. ASSUME NEW n \in Nat, n \in T PROVE n + 1 \in T
      <3>1. ASSUME (n + 1) + 1 \in 1 .. Len(ss) PROVE h[(n + 1) + 1] = g[(n + 1) + 1]
        <4>1. /\ (n + 1) + 1 \in 2 .. Len(ss) /\ (n + 1) + 1 \in 2 .. Len(tt)
              /\ n + 1 \in 1 .. Len(ss) /\ ((n + 1) + 1) - 1 = n + 1
          BY <1>1, <3>1
        <4>2. h[n + 1] = g[n + 1]
          BY <2>3, <4>1
        <4> QED
          BY <1>1, <1>2, <2>1, <3>1, <4>1, <4>2
      <3> QED
        BY <3>1
    <2> HIDE DEF T
    <2>4. Nat \subseteq T
      BY <2>2, <2>3, NatSet
    <2>5. h[Len(ss)] = g[Len(ss)]
      <3>1. Len(ss) - 1 \in Nat /\ (Len(ss) - 1) + 1 = Len(ss) /\ Len(ss) \in 1 .. Len(ss)
        BY <1>1, <1>4
      <3>2. Len(ss) - 1 \in T
        BY <2>4, <3>1
      <3> QED
        BY <3>1, <3>2 DEF T
    <2>6. Len(tt) \in 2 .. Len(tt) /\ Len(tt) - 1 = Len(ss)
      BY <1>1, <1>4
    <2> QED
      BY <1>1, <1>2, <2>1, <2>5, <2>6 DEF tt
  <1> QED
    BY <1>1, <1>3, <1>4

LEMMA FlatType ==
    ASSUME NEW S, NEW ss \in Seq(Seq(S))
    PROVE  FlattenSeq(ss) \in Seq(S)
  <1> DEFINE T == {tt \in Seq(Seq(S)) : FlattenSeq(tt) \in Seq(S)}
  <1>1. <<>> \in T
    BY FlatEmpty, EmptySeq
  <1>2. ASSUME NEW tt \in Seq(Seq(S)), NEW x \in Seq(S), tt \in T PROVE Append(tt, x) \in T
    <2>1. FlattenSeq(Append(tt, x)) = FlattenSeq(tt) \o x
      BY FlatAppend
    <2> QED
      BY <1>2, <2>1, AppendProperties, ConcatProperties
  <1> HIDE DEF T
  <1>3. Seq(Seq(S)) \subseteq T
    BY <1>1, <1>2, SeqSet
  <1> QED
    BY <1>3 DEF T

\* Joining is associative.
LEMMA JoinedThrice ==
    ASSUME NEW S, NEW s \in Seq(S), NEW t \in Seq(S), NEW u \in Seq(S)
    PROVE  (s \o t) \o u = s \o (t \o u)
  <1>1. /\ s \o t \in Seq(S) /\ Len(s \o t) = Len(s) + Len(t)
        /\ t \o u \in Seq(S) /\ Len(t \o u) = Len(t) + Len(u)
        /\ Len(s) \in Nat /\ Len(t) \in Nat /\ Len(u) \in Nat
    BY ConcatProperties, LenProperties
  <1> QED
    BY <1>1, ConcatAssociative, SMTT(60)

\* What is joined is joined part by part.
LEMMA FlatConcat ==
    ASSUME NEW S, NEW ss \in Seq(Seq(S)), NEW tt \in Seq(Seq(S))
    PROVE  FlattenSeq(ss \o tt) = FlattenSeq(ss) \o FlattenSeq(tt)
  <1> DEFINE T == {uu \in Seq(Seq(S)) :
                       FlattenSeq(ss \o uu) = FlattenSeq(ss) \o FlattenSeq(uu)}
  <1>1. <<>> \in T
    BY FlatEmpty, FlatType, EmptySeq, ConcatEmptySeq
  <1>2. ASSUME NEW uu \in Seq(Seq(S)), NEW x \in Seq(S), uu \in T PROVE Append(uu, x) \in T
    <2>1. ss \o Append(uu, x) = Append(ss \o uu, x) /\ ss \o uu \in Seq(Seq(S))
      OBVIOUS
    <2>2. FlattenSeq(Append(ss \o uu, x)) = FlattenSeq(ss \o uu) \o x
      BY <2>1, FlatAppend
    <2>3. FlattenSeq(Append(uu, x)) = FlattenSeq(uu) \o x
      BY FlatAppend
    <2>4. (FlattenSeq(ss) \o FlattenSeq(uu)) \o x = FlattenSeq(ss) \o (FlattenSeq(uu) \o x)
      <3>1. PICK p \in Seq(S), q \in Seq(S) : p = FlattenSeq(ss) /\ q = FlattenSeq(uu)
        BY FlatType
      <3>2. (p \o q) \o x = p \o (q \o x)
        BY JoinedThrice
      <3> QED
        BY <3>1, <3>2
    <2>5. Append(uu, x) \in Seq(Seq(S))
      BY AppendProperties
    <2> QED
      BY <1>2, <2>1, <2>2, <2>3, <2>4, <2>5
  <1> HIDE DEF T
  <1>3. Seq(Seq(S)) \subseteq T
    BY <1>1, <1>2, SeqSet
  <1> QED
    BY <1>3 DEF T

-----------------------------------------------------------------------------
(***************************************************************************)
(* Split and Slashed.                                                      *)
(***************************************************************************)

Text == Seq(Characters)

\* The texts Split gives.
Slashless == {h \in Text : \A i \in DOMAIN h : h[i] # "/"}

LEMMA Letters ==
    /\ "/" \in Characters /\ "%" \in Characters /\ "." \in Characters /\ "@" \in Characters
    /\ ":" \in Characters /\ "b" \in Characters /\ "3" \in Characters
    /\ "none" \notin Characters /\ "raises" \notin Characters
  BY CharactersAssumption DEF Punctuation, Alphanumeric

\* g splits the first n characters of s.
IsSplit(g, s, n) ==
    g = [i \in 0 .. n |-> IF i = 0 THEN << <<>> >> ELSE Extended(g[i - 1], s[i])]

LEMMA SplitExists ==
    ASSUME NEW s
    PROVE  \A n \in Nat : \E g : IsSplit(g, s, n)
  <1> DEFINE T == {n \in Nat : \E g : IsSplit(g, s, n)}
  <1>1. 0 \in T
    <2>1. IsSplit([i \in 0 .. 0 |-> << <<>> >>], s, 0)
      BY DEF IsSplit
    <2> QED
      BY <2>1
  <1>2. ASSUME NEW n \in Nat, n \in T PROVE n + 1 \in T
    <2>1. PICK g : IsSplit(g, s, n)
      BY <1>2, Zenon
    <2>2. \A i \in 0 .. n : g[i] = IF i = 0 THEN << <<>> >> ELSE Extended(g[i - 1], s[i])
      BY <2>1 DEF IsSplit
    <2> DEFINE last == Extended(g[n], s[n + 1])
               h == [i \in 0 .. n + 1 |-> IF i = n + 1 THEN last ELSE g[i]]
    <2> HIDE DEF last
    <2>3. n + 1 \in 0 .. n + 1 /\ \A i \in 0 .. n : i \in 0 .. n + 1 /\ i # n + 1
      BY <1>2
    <2>4. /\ h[n + 1] = last
          /\ \A i \in 0 .. n : h[i] = g[i]
          /\ h = [i \in 0 .. n + 1 |-> h[i]]
      BY <2>3
    <2> HIDE DEF h
    <2>5. ASSUME NEW i \in 0 .. n + 1
          PROVE  h[i] = IF i = 0 THEN << <<>> >> ELSE Extended(h[i - 1], s[i])
      <3>1. CASE i = n + 1
        <4>1. i # 0 /\ i - 1 = n /\ n \in 0 .. n
          BY <1>2, <3>1
        <4> QED
          BY <2>4, <3>1, <4>1 DEF last
      <3>2. CASE i # n + 1
        <4>1. i \in 0 .. n /\ (i # 0 => i - 1 \in 0 .. n)
          BY <1>2, <2>5, <3>2
        <4> QED
          BY <2>2, <2>4, <4>1
      <3> QED
        BY <3>1, <3>2
    <2>6. IsSplit(h, s, n + 1)
      BY <2>4, <2>5 DEF IsSplit
    <2> QED
      BY <2>6
  <1> HIDE DEF T
  <1>3. Nat \subseteq T
    BY <1>1, <1>2, NatSet
  <1> QED
    BY <1>3 DEF T

\* So Split is where that ends.
LEMMA SplitEnds ==
    ASSUME NEW s, Len(s) \in Nat
    PROVE  \E g : /\ g[0] = << <<>> >>
                  /\ \A i \in 1 .. Len(s) : g[i] = Extended(g[i - 1], s[i])
                  /\ Split(s) = g[Len(s)]
  <1> DEFINE g == CHOOSE g : IsSplit(g, s, Len(s))
  <1>1. Split(s) = g[Len(s)]
    BY DEF Split, IsSplit
  <1>2. IsSplit(g, s, Len(s))
    BY SplitExists
  <1> HIDE DEF g
  <1>3. \A i \in 0 .. Len(s) : g[i] = IF i = 0 THEN << <<>> >> ELSE Extended(g[i - 1], s[i])
    BY <1>2 DEF IsSplit
  <1>4. 0 \in 0 .. Len(s) /\ \A i \in 1 .. Len(s) : i \in 0 .. Len(s) /\ i # 0
    OBVIOUS
  <1> QED
    BY <1>1, <1>3, <1>4

LEMMA SplitEmpty == Split(<<>>) = << <<>> >>
  <1>1. Len(<<>>) = 0
    OBVIOUS
  <1>2. PICK g : g[0] = << <<>> >> /\ Split(<<>>) = g[Len(<<>>)]
    BY <1>1, SplitEnds
  <1> QED
    BY <1>1, <1>2

\* One more character goes to the last part or ends it.
LEMMA SplitAppend ==
    ASSUME NEW s \in Text, NEW c \in Characters
    PROVE  Split(Append(s, c)) = Extended(Split(s), c)
  <1> DEFINE t == Append(s, c)
  <1>1. /\ t \in Text /\ Len(t) = Len(s) + 1 /\ Len(s) \in Nat
        /\ \A i \in 1 .. Len(s) : t[i] = s[i]
        /\ t[Len(s) + 1] = c
    BY AppendProperties, LenProperties DEF Text
  <1> HIDE DEF t
  <1>2. Len(t) \in Nat
    BY <1>1
  <1>3. PICK h : /\ h[0] = << <<>> >>
                 /\ \A i \in 1 .. Len(t) : h[i] = Extended(h[i - 1], t[i])
                 /\ Split(t) = h[Len(t)]
    BY <1>2, SplitEnds, Zenon
  <1>4. PICK g : /\ g[0] = << <<>> >>
                 /\ \A i \in 1 .. Len(s) : g[i] = Extended(g[i - 1], s[i])
                 /\ Split(s) = g[Len(s)]
    BY <1>1, SplitEnds, Zenon
  <1> DEFINE T == {n \in Nat : n <= Len(s) => h[n] = g[n]}
  <1>5. 0 \in T
    BY <1>3, <1>4
  <1>6. ASSUME NEW n \in Nat, n \in T PROVE n + 1 \in T
    <2>1. ASSUME n + 1 <= Len(s) PROVE h[n + 1] = g[n + 1]
      <3>1. n + 1 \in 1 .. Len(s) /\ n + 1 \in 1 .. Len(t) /\ (n + 1) - 1 = n /\ n <= Len(s)
        BY <1>1, <2>1
      <3>2. h[n] = g[n]
        BY <1>6, <3>1
      <3> QED
        BY <1>1, <1>3, <1>4, <3>1, <3>2
    <2> QED
      BY <2>1
  <1> HIDE DEF T
  <1>7. Nat \subseteq T
    BY <1>5, <1>6, NatSet
  <1>8. h[Len(s)] = g[Len(s)]
    BY <1>1, <1>7 DEF T
  <1>9. Len(t) \in 1 .. Len(t) /\ Len(t) - 1 = Len(s) /\ Len(t) = Len(s) + 1
    BY <1>1
  <1> QED
    BY <1>1, <1>3, <1>4, <1>8, <1>9 DEF t

\* What Extended does to the parts there are, whatever is before them.
LEMMA ExtendedIs ==
    ASSUME NEW parts \in Seq(Slashless), parts # <<>>, NEW c \in Characters
    PROVE  /\ Extended(parts, c) \in Seq(Slashless) /\ Extended(parts, c) # <<>>
           /\ \A before \in Seq(Slashless) :
                  Extended(before \o parts, c) = before \o Extended(parts, c)
  <1>1. Len(parts) \in Nat /\ Len(parts) >= 1 /\ parts[Len(parts)] \in Slashless
    BY EmptySeq, ElementOfSeq
  <1>2. CASE c = "/"
    <2>1. <<>> \in Slashless
      BY DEF Slashless, Text
    <2>2. \A x \in Slashless :
              /\ Append(parts, x) \in Seq(Slashless) /\ Append(parts, x) # <<>>
              /\ \A before \in Seq(Slashless) :
                     Append(before \o parts, x) = before \o Append(parts, x)
      <3> SUFFICES ASSUME NEW x \in Slashless
                   PROVE  /\ Append(parts, x) \in Seq(Slashless) /\ Append(parts, x) # <<>>
                          /\ \A before \in Seq(Slashless) :
                                 Append(before \o parts, x) = before \o Append(parts, x)
        OBVIOUS
      <3>1. Append(parts, x) \in Seq(Slashless) /\ Append(parts, x) # <<>>
        BY AppendProperties
      <3>2. ASSUME NEW before \in Seq(Slashless)
            PROVE  Append(before \o parts, x) = before \o Append(parts, x)
        OBVIOUS
      <3> QED
        BY <3>1, <3>2
    <2>3. \A p : Extended(p, c) = Append(p, <<>>)
      BY <1>2 DEF Extended
    <2> QED
      BY <2>1, <2>2, <2>3
  <1>3. CASE c # "/"
    <2> DEFINE last == Append(parts[Len(parts)], c)
    <2>1. last \in Slashless
      <3>1. parts[Len(parts)] \in Text /\ \A i \in DOMAIN parts[Len(parts)] : parts[Len(parts)][i] # "/"
        BY <1>1 DEF Slashless
      <3>2. last \in Text /\ \A i \in DOMAIN last : last[i] # "/"
        BY <1>3, <3>1 DEF Text
      <3> QED
        BY <3>2 DEF Slashless
    <2> HIDE DEF last
    <2>2. Extended(parts, c) = Append(SubSeq(parts, 1, Len(parts) - 1), last)
      BY <1>3 DEF Extended, Front, Last, last
    <2>3. ASSUME NEW before \in Seq(Slashless)
          PROVE  Extended(before \o parts, c)
                     = Append(before \o SubSeq(parts, 1, Len(parts) - 1), last)
      <3>1. /\ Len(before \o parts) = Len(before) + Len(parts) /\ Len(before) \in Nat
            /\ (before \o parts)[Len(before) + Len(parts)] = parts[Len(parts)]
        BY <1>1
      <3>2. SubSeq(before \o parts, 1, Len(before) + Len(parts) - 1)
                = before \o SubSeq(parts, 1, Len(parts) - 1)
        BY <1>1, <3>1
      <3>3. PICK j : j = before \o parts
        OBVIOUS
      <3>4. Extended(j, c) = Append(SubSeq(j, 1, Len(j) - 1), Append(j[Len(j)], c))
        BY <1>3 DEF Extended, Front, Last
      <3>5. Append(j[Len(j)], c) = last
        BY <3>1, <3>3 DEF last
      <3>6. SubSeq(j, 1, Len(j) - 1) = before \o SubSeq(parts, 1, Len(parts) - 1)
        BY <3>1, <3>2, <3>3
      <3> QED
        BY <3>3, <3>4, <3>5, <3>6
    <2>4. SubSeq(parts, 1, Len(parts) - 1) \in Seq(Slashless)
      BY <1>1
    <2>5. Extended(parts, c) \in Seq(Slashless) /\ Extended(parts, c) # <<>>
      BY <2>1, <2>2, <2>4, AppendProperties
    <2>6. ASSUME NEW before \in Seq(Slashless)
          PROVE  Append(before \o SubSeq(parts, 1, Len(parts) - 1), last)
                     = before \o Append(SubSeq(parts, 1, Len(parts) - 1), last)
      <3> DEFINE w == SubSeq(parts, 1, Len(parts) - 1)
      <3>1. w \in Seq(Slashless)
        BY <2>4
      <3> HIDE DEF w
      <3>2. Append(before \o w, last) = before \o Append(w, last)
        BY <2>1, <2>6, <3>1
      <3> QED
        BY <3>2 DEF w
    <2> QED
      BY <2>2, <2>3, <2>5, <2>6
  <1> QED
    BY <1>2, <1>3

\* Split gives texts without slashes, one at least, and the parts of what
\* follows a slash come after the others.
LEMMA SplitType ==
    ASSUME NEW s \in Text
    PROVE  Split(s) \in Seq(Slashless) /\ Split(s) # <<>>
  <1> DEFINE T == {t \in Text : Split(t) \in Seq(Slashless) /\ Split(t) # <<>>}
  <1>1. <<>> \in T
    <2>1. <<>> \in Text /\ <<>> \in Slashless
      BY DEF Slashless, Text
    <2>2. << <<>> >> \in Seq(Slashless) /\ << <<>> >> # <<>>
      BY <2>1
    <2> QED
      BY <2>1, <2>2, SplitEmpty
  <1>2. ASSUME NEW t \in Text, NEW c \in Characters, t \in T PROVE Append(t, c) \in T
    <2>1. Append(t, c) \in Text
      BY AppendProperties DEF Text
    <2>2. Extended(Split(t), c) \in Seq(Slashless) /\ Extended(Split(t), c) # <<>>
      BY <1>2, ExtendedIs
    <2> QED
      BY <2>1, <2>2, SplitAppend
  <1> HIDE DEF T
  <1>3. Text \subseteq T
    BY <1>1, <1>2, SeqSet DEF Text
  <1> QED
    BY <1>3 DEF T

LEMMA AppendedIs ==
    ASSUME NEW Q, NEW front \in Seq(Q), NEW last \in Q
    PROVE  Append(front, last) \in Seq(Q) /\ Append(front, last) # <<>>
  BY AppendProperties

\* The parts of a text have no other characters than the text.
LEMMA SplitWithin ==
    ASSUME NEW S, S \subseteq Characters, NEW s \in Seq(S)
    PROVE  Split(s) \in Seq(Seq(S))
  <1> DEFINE T == {t \in Seq(S) : Split(t) \in Seq(Seq(S)) /\ Split(t) # <<>>}
  <1>1. <<>> \in T
    <2>1. <<>> \in Seq(S) /\ << <<>> >> \in Seq(Seq(S)) /\ << <<>> >> # <<>>
      OBVIOUS
    <2> QED
      BY <2>1, SplitEmpty
  <1>2. ASSUME NEW t \in Seq(S), NEW c \in S, t \in T PROVE Append(t, c) \in T
    <2>1. Append(t, c) \in Seq(S)
      BY AppendProperties
    <2>2. PICK parts \in Seq(Seq(S)) : parts = Split(t) /\ parts # <<>>
      BY <1>2
    <2>3. Len(parts) \in Nat /\ Len(parts) >= 1 /\ parts[Len(parts)] \in Seq(S)
      BY <2>2, EmptySeq, ElementOfSeq
    <2>4. Extended(parts, c) \in Seq(Seq(S)) /\ Extended(parts, c) # <<>>
      <3>1. CASE c = "/"
        <4>1. <<>> \in Seq(S)
          OBVIOUS
        <4> QED
          BY <3>1, <4>1, AppendProperties DEF Extended
      <3>2. CASE c # "/"
        <4> DEFINE front == SubSeq(parts, 1, Len(parts) - 1)
                   last == Append(parts[Len(parts)], c)
        <4>1. front \in Seq(Seq(S))
          BY <2>3
        <4>2. last \in Seq(S)
          BY <2>3, AppendProperties
        <4>3. Extended(parts, c) = Append(front, last)
          BY <3>2 DEF Extended, Front, Last
        <4> HIDE DEF front, last
        <4>4. Append(front, last) \in Seq(Seq(S)) /\ Append(front, last) # <<>>
          <5> DEFINE Q == Seq(S)
          <5>1. front \in Seq(Q) /\ last \in Q
            BY <4>1, <4>2
          <5> HIDE DEF Q
          <5>2. Append(front, last) \in Seq(Q) /\ Append(front, last) # <<>>
            BY <5>1, AppendedIs
          <5> QED
            BY <5>2 DEF Q
        <4> QED
          BY <4>3, <4>4
      <3> QED
        BY <3>1, <3>2
    <2>5. Split(Append(t, c)) = Extended(parts, c)
      <3>1. t \in Text /\ c \in Characters
        BY SeqMonotonic DEF Text
      <3> QED
        BY <2>2, <3>1, SplitAppend
    <2> QED
      BY <2>1, <2>4, <2>5
  <1> HIDE DEF T
  <1>3. Seq(S) \subseteq T
    BY <1>1, <1>2, SeqSet
  <1> QED
    BY <1>3 DEF T

LEMMA SplitConcat ==
    ASSUME NEW s \in Text, NEW t \in Text
    PROVE  Split(Append(s, "/") \o t) = Split(s) \o Split(t)
  <1> DEFINE T == {u \in Text : Split(Append(s, "/") \o u) = Split(s) \o Split(u)}
  <1>1. Append(s, "/") \in Text /\ Split(s) \in Seq(Slashless)
    BY Letters, AppendProperties, SplitType DEF Text
  <1>2. <<>> \in T
    <2>1. Append(s, "/") \o <<>> = Append(s, "/") /\ <<>> \in Text
      BY <1>1, ConcatEmptySeq DEF Text
    <2>2. Split(Append(s, "/")) = Append(Split(s), <<>>)
      BY Letters, SplitAppend DEF Extended
    <2>3. <<>> \in Slashless
      BY DEF Slashless, Text
    <2>4. Append(Split(s), <<>>) = Split(s) \o << <<>> >>
      BY <1>1, <2>3, AppendIsConcat
    <2> QED
      BY <2>1, <2>2, <2>4, SplitEmpty
  <1>3. ASSUME NEW u \in Text, NEW c \in Characters, u \in T PROVE Append(u, c) \in T
    <2>1. /\ Append(u, c) \in Text /\ Append(s, "/") \o u \in Text
          /\ Append(s, "/") \o Append(u, c) = Append(Append(s, "/") \o u, c)
      <3> DEFINE w == Append(s, "/")
      <3> HIDE DEF w
      <3>1. w \in Seq(Characters) /\ u \in Seq(Characters)
        BY <1>1, <1>3 DEF Text, w
      <3>2. w \o Append(u, c) = Append(w \o u, c) /\ w \o u \in Seq(Characters)
                /\ Append(u, c) \in Seq(Characters)
        BY <3>1
      <3> QED
        BY <3>2 DEF Text, w
    <2>2. Split(Append(Append(s, "/") \o u, c)) = Extended(Split(Append(s, "/") \o u), c)
      BY <2>1, SplitAppend
    <2>3. Extended(Split(s) \o Split(u), c) = Split(s) \o Extended(Split(u), c)
      BY <1>1, SplitType, ExtendedIs
    <2>4. Split(Append(u, c)) = Extended(Split(u), c)
      BY SplitAppend
    <2> QED
      BY <1>3, <2>1, <2>2, <2>3, <2>4
  <1> HIDE DEF T
  <1>4. Text \subseteq T
    BY <1>2, <1>3, SeqSet DEF Text
  <1> QED
    BY <1>4 DEF T

\* A text without a slash is one part.
LEMMA SplitSlashless ==
    ASSUME NEW h \in Slashless
    PROVE  Split(h) = <<h>>
  <1> DEFINE T == {u \in Text : u \in Slashless => Split(u) = <<u>>}
  <1>1. <<>> \in T
    BY SplitEmpty DEF Text
  <1>2. ASSUME NEW u \in Text, NEW c \in Characters, u \in T PROVE Append(u, c) \in T
    <2>1. Append(u, c) \in Text
      BY AppendProperties DEF Text
    <2>2. ASSUME Append(u, c) \in Slashless PROVE Split(Append(u, c)) = <<Append(u, c)>>
      <3>1. /\ \A i \in 1 .. Len(u) : u[i] = Append(u, c)[i]
            /\ c = Append(u, c)[Len(u) + 1]
            /\ DOMAIN u = 1 .. Len(u) /\ DOMAIN Append(u, c) = 1 .. Len(u) + 1 /\ Len(u) \in Nat
        BY DEF Text
      <3>2. c # "/" /\ u \in Slashless
        <4>1. \A i \in 1 .. Len(u) + 1 : Append(u, c)[i] # "/"
          BY <2>2, <3>1 DEF Slashless
        <4>2. Len(u) + 1 \in 1 .. Len(u) + 1 /\ \A i \in 1 .. Len(u) : i \in 1 .. Len(u) + 1
          BY <3>1
        <4>3. c # "/" /\ \A i \in DOMAIN u : u[i] # "/"
          BY <3>1, <4>1, <4>2
        <4> QED
          BY <4>3 DEF Slashless
      <3>3. Split(u) = <<u>>
        BY <1>2, <3>2
      <3>4. Extended(<<u>>, c) = <<Append(u, c)>>
        <4>1. Front(<<u>>) = <<>> /\ Last(<<u>>) = u
          BY DEF Front, Last
        <4>2. Append(<<>>, Append(u, c)) = <<Append(u, c)>>
          OBVIOUS
        <4> QED
          BY <3>2, <4>1, <4>2 DEF Extended
      <3> QED
        BY <3>3, <3>4, SplitAppend
    <2> QED
      BY <2>1, <2>2
  <1> HIDE DEF T
  <1>3. Text \subseteq T
    BY <1>1, <1>2, SeqSet DEF Text
  <1>4. h \in Text
    BY DEF Slashless
  <1> QED
    BY <1>3, <1>4 DEF T

-----------------------------------------------------------------------------

LEMMA SlashedEmpty == Slashed(<<>>) = <<>>
  <1>1. [i \in DOMAIN <<>> |-> <<"/">> \o <<>>[i]] = <<>>
    OBVIOUS
  <1> QED
    BY <1>1, FlatEmpty DEF Slashed

LEMMA SlashedAppend ==
    ASSUME NEW parts \in Seq(Text), NEW x \in Text
    PROVE  /\ Slashed(parts) \in Text
           /\ Slashed(Append(parts, x)) = Append(Slashed(parts), "/") \o x
  <1> DEFINE F(ps) == [i \in DOMAIN ps |-> <<"/">> \o ps[i]]
  <1>1. ASSUME NEW y \in Text PROVE <<"/">> \o y \in Text
    BY Letters DEF Text
  <1>2. F(parts) \in Seq(Text)
    <2>1. Len(parts) \in Nat /\ DOMAIN parts = 1 .. Len(parts)
      BY LenProperties
    <2>2. F(parts) \in [1 .. Len(parts) -> Text]
      BY <1>1, <2>1, ElementOfSeq
    <2> HIDE DEF F
    <2> QED
      BY <2>1, <2>2, SeqDef
  <1>3. F(Append(parts, x)) = Append(F(parts), <<"/">> \o x)
    <2> DEFINE a == F(Append(parts, x))
               b == Append(F(parts), <<"/">> \o x)
    <2>1. a \in Seq(Text) /\ b \in Seq(Text) /\ Len(a) = Len(parts) + 1 /\ Len(b) = Len(parts) + 1
      BY <1>1, <1>2
    <2>2. ASSUME NEW i \in 1 .. Len(parts) + 1 PROVE a[i] = b[i]
      BY <1>1, <1>2
    <2> HIDE DEF a, b
    <2>3. a = b
      BY <2>1, <2>2, SeqEqual
    <2> QED
      BY <2>3 DEF a, b
  <1>4. Slashed(parts) = FlattenSeq(F(parts))
        /\ Slashed(Append(parts, x)) = FlattenSeq(F(Append(parts, x)))
    BY DEF Slashed
  <1> HIDE DEF F
  <1>5. FlattenSeq(F(parts)) \in Text
    BY <1>2, FlatType DEF Text
  <1>6. FlattenSeq(Append(F(parts), <<"/">> \o x)) = FlattenSeq(F(parts)) \o (<<"/">> \o x)
    BY <1>1, <1>2, FlatAppend DEF Text
  <1>7. ASSUME NEW y \in Text PROVE y \o (<<"/">> \o x) = Append(y, "/") \o x
    BY Letters DEF Text
  <1> QED
    BY <1>3, <1>4, <1>5, <1>6, <1>7

LEMMA SlashlessText == Slashless \subseteq Text /\ Seq(Slashless) \subseteq Seq(Text)
  <1>1. Slashless \subseteq Text
    BY DEF Slashless
  <1>2. ASSUME NEW parts \in Seq(Slashless) PROVE parts \in Seq(Text)
    BY <1>1, SeqMonotonic
  <1> QED
    BY <1>1, <1>2

LEMMA SlashedType ==
    ASSUME NEW parts \in Seq(Text)
    PROVE  /\ Slashed(parts) \in Text
           /\ parts # <<>> => \E t \in Text : Slashed(parts) = <<"/">> \o t
  <1> DEFINE T == {ps \in Seq(Text) :
                       /\ Slashed(ps) \in Text
                       /\ ps # <<>> => \E t \in Text : Slashed(ps) = <<"/">> \o t}
  <1>1. <<>> \in T
    <2>1. <<>> \in Seq(Text)
      OBVIOUS
    <2>2. <<>> \in Text
      BY DEF Text
    <2> QED
      BY <2>1, <2>2, SlashedEmpty
  <1>2. ASSUME NEW ps \in Seq(Text), NEW x \in Text, ps \in T PROVE Append(ps, x) \in T
    <2>1. Append(ps, x) \in Seq(Text) /\ Slashed(ps) \in Text
      BY <1>2, AppendProperties
    <2>2. Slashed(Append(ps, x)) = Append(Slashed(ps), "/") \o x
      BY SlashedAppend
    <2>3. Append(Slashed(ps), "/") \o x \in Text
      BY <2>1, Letters, AppendProperties, ConcatProperties DEF Text
    <2>4. \E t \in Text : Append(Slashed(ps), "/") \o x = <<"/">> \o t
      <3>1. CASE ps = <<>>
        <4>1. Append(<<>>, "/") \o x = <<"/">> \o x
          OBVIOUS
        <4> QED
          BY <3>1, <4>1, SlashedEmpty
      <3>2. CASE ps # <<>>
        <4>1. PICK t \in Text : Slashed(ps) = <<"/">> \o t
          BY <1>2, <3>2
        <4>2. Append(<<"/">> \o t, "/") \o x = <<"/">> \o (Append(t, "/") \o x)
          <5> DEFINE slash == "/"
          <5>1. slash \in Characters /\ t \in Seq(Characters) /\ x \in Seq(Characters)
            BY Letters DEF Text
          <5> HIDE DEF slash
          <5>2. Append(<<slash>> \o t, slash) = <<slash>> \o Append(t, slash)
            BY <5>1
          <5> DEFINE w == Append(t, slash)
          <5>3. w \in Seq(Characters)
            BY <5>1
          <5> HIDE DEF w
          <5>4. (<<slash>> \o w) \o x = <<slash>> \o (w \o x)
            BY <5>1, <5>3
          <5> QED
            BY <5>2, <5>4 DEF w, slash
        <4>3. Append(t, "/") \o x \in Text
          BY Letters, AppendProperties, ConcatProperties DEF Text
        <4> QED
          BY <4>1, <4>2, <4>3
      <3> QED
        BY <3>1, <3>2
    <2> QED
      BY <2>1, <2>2, <2>3, <2>4
  <1> HIDE DEF T
  <1>3. Seq(Text) \subseteq T
    BY <1>1, <1>2, SeqSet
  <1> QED
    BY <1>3 DEF T

\* Parts without slashes are found again.
LEMMA SplitSlashed ==
    ASSUME NEW parts \in Seq(Slashless)
    PROVE  Split(Slashed(parts)) = << <<>> >> \o parts
  <1> DEFINE T == {ps \in Seq(Slashless) : Split(Slashed(ps)) = << <<>> >> \o ps}
  <1>1. <<>> \in T
    BY SlashedEmpty, SplitEmpty
  <1>2. ASSUME NEW ps \in Seq(Slashless), NEW x \in Slashless, ps \in T PROVE Append(ps, x) \in T
    <2>1. ps \in Seq(Text) /\ x \in Text
      BY SlashlessText
    <2>2. Slashed(Append(ps, x)) = Append(Slashed(ps), "/") \o x /\ Slashed(ps) \in Text
      BY <2>1, SlashedAppend
    <2>3. Split(Append(Slashed(ps), "/") \o x) = Split(Slashed(ps)) \o Split(x)
      BY <2>1, <2>2, SplitConcat
    <2>4. Split(x) = <<x>>
      BY SplitSlashless
    <2>5. <<>> \in Slashless
      BY DEF Slashless, Text
    <2>6. (<< <<>> >> \o ps) \o <<x>> = << <<>> >> \o Append(ps, x)
      <3> DEFINE e == <<>>
      <3>1. e \in Slashless
        BY <2>5
      <3> HIDE DEF e
      <3>2. (<<e>> \o ps) \o <<x>> = <<e>> \o Append(ps, x)
        BY <3>1
      <3> QED
        BY <3>2 DEF e
    <2>7. Append(ps, x) \in Seq(Slashless)
      BY AppendProperties
    <2> QED
      BY <1>2, <2>2, <2>3, <2>4, <2>6, <2>7
  <1> HIDE DEF T
  <1>3. Seq(Slashless) \subseteq T
    BY <1>1, <1>2, SeqSet
  <1> QED
    BY <1>3 DEF T

\* And a text is its parts, joined.
LEMMA SlashedSplit ==
    ASSUME NEW s \in Text
    PROVE  Slashed(Split(s)) = <<"/">> \o s
  <1> DEFINE T == {t \in Text : Slashed(Split(t)) = <<"/">> \o t}
  <1>1. <<>> \in T
    <2>1. <<>> \in Text /\ <<>> \in Seq(Text)
      BY DEF Text
    <2>2. Slashed(Append(<<>>, <<>>)) = Append(Slashed(<<>>), "/") \o <<>>
      BY <2>1, SlashedAppend
    <2>3. Append(<<>>, <<>>) = << <<>> >> /\ Append(<<>>, "/") \o <<>> = <<"/">> \o <<>>
      OBVIOUS
    <2> QED
      BY <2>1, <2>2, <2>3, SlashedEmpty, SplitEmpty
  <1>2. ASSUME NEW t \in Text, NEW c \in Characters, t \in T PROVE Append(t, c) \in T
    <2>1. Split(t) \in Seq(Slashless) /\ Split(t) # <<>> /\ Split(t) \in Seq(Text)
      BY SplitType, SlashlessText
    <2>2. Split(Append(t, c)) = Extended(Split(t), c) /\ Append(t, c) \in Text
      BY SplitAppend, AppendProperties DEF Text
    <2>3. Slashed(Split(t)) = <<"/">> \o t /\ <<"/">> \o t \in Text
      BY <1>2, Letters DEF Text
    <2>4. Append(<<"/">> \o t, c) = <<"/">> \o Append(t, c)
      BY Letters DEF Text
    <2>5. CASE c = "/"
      <3>1. <<>> \in Text
        BY DEF Text
      <3>2. Slashed(Append(Split(t), <<>>)) = Append(Slashed(Split(t)), "/") \o <<>>
        BY <2>1, <3>1, SlashedAppend
      <3>3. Append(<<"/">> \o t, "/") \o <<>> = Append(<<"/">> \o t, "/")
        BY <2>3, Letters DEF Text
      <3> QED
        BY <2>2, <2>3, <2>4, <2>5, <3>2, <3>3 DEF Extended
    <2>6. CASE c # "/"
      <3>1. PICK ps \in Seq(Text), x \in Text : Split(t) = Append(ps, x)
        BY <2>1, SequenceEmptyOrAppend
      <3>2. Front(Append(ps, x)) = ps /\ Last(Append(ps, x)) = x
        BY DEF Front, Last
      <3>3. Extended(Split(t), c) = Append(ps, Append(x, c)) /\ Append(x, c) \in Text
        BY <2>6, <3>1, <3>2, AppendProperties DEF Extended, Text
      <3>4. /\ Slashed(Append(ps, x)) = Append(Slashed(ps), "/") \o x
            /\ Slashed(Append(ps, Append(x, c))) = Append(Slashed(ps), "/") \o Append(x, c)
            /\ Slashed(ps) \in Text
        BY <3>3, SlashedAppend
      <3>5. ASSUME NEW u \in Text PROVE Append(u, "/") \o Append(x, c) = Append(Append(u, "/") \o x, c)
        BY Letters DEF Text
      <3> QED
        BY <2>2, <2>3, <2>4, <3>1, <3>3, <3>4, <3>5
    <2> QED
      BY <2>5, <2>6
  <1> HIDE DEF T
  <1>3. Text \subseteq T
    BY <1>1, <1>2, SeqSet DEF Text
  <1> QED
    BY <1>3 DEF T

\* A path made of parts without slashes begins with one, and what is after it
\* has these parts.
LEMMA PathParts ==
    ASSUME NEW parts \in Seq(Slashless), parts # <<>>
    PROVE  /\ \E t \in Text : Slashed(parts) = <<"/">> \o t /\ Split(t) = parts
           /\ Tail(Split(Slashed(parts))) = parts
           /\ Slashed(parts) \in Text /\ Head(Slashed(parts)) = "/"
  <1>1. parts \in Seq(Text)
    BY SlashlessText
  <1>2. PICK t \in Text : Slashed(parts) = <<"/">> \o t
    BY <1>1, SlashedType
  <1>3. Split(Slashed(parts)) = << <<>> >> \o parts
    BY SplitSlashed
  <1>4. Split(Append(<<>>, "/") \o t) = << <<>> >> \o Split(t)
    <2>1. <<>> \in Text
      BY DEF Text
    <2> QED
      BY <2>1, SplitConcat, SplitEmpty
  <1>5. Append(<<>>, "/") \o t = <<"/">> \o t /\ Head(<<"/">> \o t) = "/"
    BY Letters DEF Text
  <1>6. Split(t) = parts
    <2>1. << <<>> >> \o parts = << <<>> >> \o Split(t)
      BY <1>2, <1>3, <1>4, <1>5
    <2>2. << <<>> >> \in Seq(Slashless) /\ Split(t) \in Seq(Slashless)
      <3>1. <<>> \in Slashless
        BY DEF Slashless, Text
      <3> QED
        BY <3>1, SplitType
    <2> QED
      BY <2>1, <2>2, ConcatSimplifications, Zenon
  <1>7. Tail(<< <<>> >> \o parts) = parts
    OBVIOUS
  <1> QED
    BY <1>1, <1>2, <1>3, <1>5, <1>6, <1>7, SlashedType

-----------------------------------------------------------------------------
(***************************************************************************)
(* Quote and Unquote.                                                      *)
(***************************************************************************)

\* A percent sign in s is followed by two characters.
Complete(s) == \A i \in 1 .. Len(s) : s[i] = "%" => i + 2 <= Len(s)

LEMMA EscapeIs ==
    ASSUME NEW e \in Escapes
    PROVE  /\ e.char \in Characters /\ e.hex \in Text /\ Len(e.hex) = 2
           /\ e.hex[1] \in Characters /\ e.hex[1] \notin {"%", "/"}
           /\ e.hex[2] \in Characters /\ e.hex[2] \notin {"%", "/"}
           /\ e.hex = <<e.hex[1], e.hex[2]>>
  <1>1. e.char \in Characters /\ e.hex \in Seq(Digits \cup UpperCase) /\ Len(e.hex) = 2
    BY EscapesAssumption
  <1>2. e.hex[1] \in Digits \cup UpperCase /\ e.hex[2] \in Digits \cup UpperCase
    BY <1>1, ElementOfSeq
  <1>3. Digits \cup UpperCase \subseteq Characters /\ {"%", "/"} \cap (Digits \cup UpperCase) = {}
    BY CharactersAssumption DEF Alphanumeric, Punctuation
  <1>4. e.hex \in Seq(Characters)
    BY <1>1, <1>3, SeqMonotonic
  <1>5. e.hex = <<e.hex[1], e.hex[2]>>
    BY <1>1
  <1> QED
    BY <1>1, <1>2, <1>3, <1>4, <1>5 DEF Text

\* An escape stands for one character.
LEMMA OneEscape ==
    ASSUME NEW s, NEW i, NEW e \in EscapesAt(s, i)
    PROVE  /\ EscapesAt(s, i) \subseteq Escapes
           /\ (CHOOSE f \in EscapesAt(s, i) : TRUE).char = e.char
  <1> DEFINE f == CHOOSE f \in EscapesAt(s, i) : TRUE
  <1>1. f \in EscapesAt(s, i)
    OBVIOUS
  <1> HIDE DEF f
  <1>2. /\ EscapesAt(s, i) \subseteq Escapes
        /\ Lower(f.hex) = Lower(e.hex)
    BY <1>1 DEF EscapesAt
  <1>3. f.char = e.char
    BY <1>1, <1>2, EscapesAssumption
  <1> QED
    BY <1>2, <1>3 DEF f

LEMMA UnquotedType ==
    ASSUME NEW s \in Text, NEW i \in 1 .. Len(s)
    PROVE  Unquoted(s, i) \in Text
  <1>1. s[i] \in Characters
    BY ElementOfSeq DEF Text
  <1>2. CASE EscapesAt(s, i) # {}
    <2>1. PICK e : e \in EscapesAt(s, i)
      BY <1>2
    <2>2. (CHOOSE f \in EscapesAt(s, i) : TRUE).char = e.char /\ e \in Escapes
      BY <2>1, OneEscape
    <2>3. e.char \in Characters
      BY <2>2, EscapeIs
    <2> QED
      BY <1>2, <2>2, <2>3 DEF Unquoted, Text
  <1>3. CASE EscapesAt(s, i) = {}
    BY <1>1, <1>3 DEF Unquoted, Text
  <1> QED
    BY <1>2, <1>3

\* What becomes of each character of s.
Pieces(s) == [i \in DOMAIN s |-> Unquoted(s, i)]

LEMMA PiecesType ==
    ASSUME NEW s \in Text
    PROVE  /\ Pieces(s) \in Seq(Text) /\ Len(Pieces(s)) = Len(s)
           /\ \A i \in 1 .. Len(s) : Pieces(s)[i] = Unquoted(s, i)
           /\ Unquote(s) = FlattenSeq(Pieces(s)) /\ Unquote(s) \in Text
  <1>1. Len(s) \in Nat /\ DOMAIN s = 1 .. Len(s)
    BY LenProperties DEF Text
  <1>2. Pieces(s) \in [1 .. Len(s) -> Text]
    BY <1>1, UnquotedType DEF Pieces
  <1>3. Pieces(s) \in Seq(Text)
    BY <1>1, <1>2, SeqDef
  <1>4. Len(Pieces(s)) = Len(s) /\ \A i \in 1 .. Len(s) : Pieces(s)[i] = Unquoted(s, i)
    <2>1. DOMAIN Pieces(s) = 1 .. Len(s)
      BY <1>2
    <2>2. Len(Pieces(s)) = Len(s)
      BY <1>1, <1>3, <2>1, LenProperties
    <2> QED
      BY <1>1, <2>2 DEF Pieces
  <1>5. Unquote(s) = FlattenSeq(Pieces(s))
    BY DEF Unquote, Pieces
  <1> QED
    BY <1>3, <1>4, <1>5, FlatType DEF Text

LEMMA EscapesOfConcat ==
    ASSUME NEW s \in Text, NEW t \in Text, Complete(s)
    PROVE  /\ \A i \in Int : i <= Len(s) => EscapesAt(s \o t, i) = EscapesAt(s, i)
           /\ \A j \in Int : j >= 1 => EscapesAt(s \o t, Len(s) + j) = EscapesAt(t, j)
           /\ \A i \in Int : i > Len(s) - 2 => EscapesAt(s, i) = {}
           /\ \A j \in Int : j < 1 => EscapesAt(t, j) = {}
  <1>1. /\ Len(s) \in Nat /\ Len(t) \in Nat /\ Len(s \o t) = Len(s) + Len(t)
        /\ \A i \in 1 .. Len(s) : (s \o t)[i] = s[i]
        /\ \A j \in 1 .. Len(t) : (s \o t)[Len(s) + j] = t[j]
    BY DEF Text
  <1>2. ASSUME NEW i \in Int, i <= Len(s) PROVE EscapesAt(s \o t, i) = EscapesAt(s, i)
    <2>1. CASE i \in 1 .. Len(s) - 2
      <3>1. SubSeq(s \o t, i + 1, i + 2) = SubSeq(s, i + 1, i + 2)
        BY <1>1, <2>1, SubSeqOfConcat1 DEF Text
      <3>2. i \in 1 .. Len(s \o t) - 2 /\ i \in 1 .. Len(s)
        BY <1>1, <2>1
      <3> QED
        BY <1>1, <2>1, <3>1, <3>2 DEF EscapesAt
    <2>2. CASE i \notin 1 .. Len(s) - 2
      <3>1. EscapesAt(s, i) = {}
        BY <2>2 DEF EscapesAt
      <3>2. i \in 1 .. Len(s) => (s \o t)[i] # "%"
        BY <1>1, <2>2 DEF Complete
      <3>3. EscapesAt(s \o t, i) = {}
        BY <1>1, <1>2, <3>2 DEF EscapesAt
      <3> QED
        BY <3>1, <3>3
    <2> QED
      BY <2>1, <2>2
  <1>3. ASSUME NEW j \in Int, j >= 1 PROVE EscapesAt(s \o t, Len(s) + j) = EscapesAt(t, j)
    <2>1. Len(s) + j \in 1 .. Len(s \o t) - 2 <=> j \in 1 .. Len(t) - 2
      BY <1>1, <1>3
    <2>2. CASE j \in 1 .. Len(t) - 2
      <3>1. SubSeq(s \o t, (Len(s) + j) + 1, (Len(s) + j) + 2) = SubSeq(t, j + 1, j + 2)
        <4>1. /\ (Len(s) + j) + 1 \in Len(s) + 1 .. Len(s) + Len(t)
              /\ (Len(s) + j) + 2 \in Len(s) + 1 .. Len(s) + Len(t)
              /\ ((Len(s) + j) + 1) - Len(s) = j + 1 /\ ((Len(s) + j) + 2) - Len(s) = j + 2
          BY <1>1, <2>2
        <4> QED
          BY <4>1, SubSeqOfConcat2 DEF Text
      <3>2. j \in 1 .. Len(t)
        BY <1>1, <2>2
      <3> QED
        BY <1>1, <2>1, <2>2, <3>1, <3>2 DEF EscapesAt
    <2>3. CASE j \notin 1 .. Len(t) - 2
      BY <2>1, <2>3 DEF EscapesAt
    <2> QED
      BY <2>2, <2>3
  <1>4. ASSUME NEW i \in Int, i > Len(s) - 2 PROVE EscapesAt(s, i) = {}
    BY <1>1, <1>4 DEF EscapesAt
  <1>5. ASSUME NEW j \in Int, j < 1 PROVE EscapesAt(t, j) = {}
    BY <1>1, <1>5 DEF EscapesAt
  <1> QED
    BY <1>2, <1>3, <1>4, <1>5

\* Where no escape is cut, a text is unquoted in two steps.
LEMMA UnquoteConcat ==
    ASSUME NEW s \in Text, NEW t \in Text, Complete(s)
    PROVE  Unquote(s \o t) = Unquote(s) \o Unquote(t)
  <1>1. /\ Len(s) \in Nat /\ Len(t) \in Nat /\ Len(s \o t) = Len(s) + Len(t) /\ s \o t \in Text
        /\ \A i \in 1 .. Len(s) : (s \o t)[i] = s[i]
        /\ \A j \in 1 .. Len(t) : (s \o t)[Len(s) + j] = t[j]
    BY DEF Text
  <1>2. ASSUME NEW i \in 1 .. Len(s) PROVE Unquoted(s \o t, i) = Unquoted(s, i)
    <2>1. /\ i \in Int /\ i - 1 \in Int /\ i - 2 \in Int
          /\ i <= Len(s) /\ i - 1 <= Len(s) /\ i - 2 <= Len(s)
      BY <1>1
    <2>2. /\ EscapesAt(s \o t, i) = EscapesAt(s, i)
          /\ EscapesAt(s \o t, i - 1) = EscapesAt(s, i - 1)
          /\ EscapesAt(s \o t, i - 2) = EscapesAt(s, i - 2)
      BY <2>1, EscapesOfConcat
    <2> QED
      BY <1>1, <1>2, <2>2 DEF Unquoted
  <1>3. ASSUME NEW j \in 1 .. Len(t) PROVE Unquoted(s \o t, Len(s) + j) = Unquoted(t, j)
    <2>1. \A k \in {j, j - 1, j - 2} : EscapesAt(s \o t, Len(s) + k) = EscapesAt(t, k)
      <3>1. ASSUME NEW k \in {j, j - 1, j - 2} PROVE EscapesAt(s \o t, Len(s) + k) = EscapesAt(t, k)
        <4>1. k \in Int
          BY <1>1
        <4>2. CASE k >= 1
          BY <4>1, <4>2, EscapesOfConcat
        <4>3. CASE k < 1
          <5> DEFINE m == Len(s) + k
          <5>1. m \in Int /\ m <= Len(s) /\ m > Len(s) - 2
            BY <1>1, <1>3, <3>1, <4>3
          <5> HIDE DEF m
          <5>2. EscapesAt(s \o t, m) = EscapesAt(s, m) /\ EscapesAt(s, m) = {}
            <6>1. /\ \A i \in Int : i <= Len(s) => EscapesAt(s \o t, i) = EscapesAt(s, i)
                  /\ \A i \in Int : i > Len(s) - 2 => EscapesAt(s, i) = {}
              BY EscapesOfConcat
            <6> QED
              BY <5>1, <6>1
          <5>3. EscapesAt(t, k) = {}
            BY <4>1, <4>3, EscapesOfConcat, Zenon
          <5> QED
            BY <5>2, <5>3 DEF m
        <4> QED
          BY <4>1, <4>2, <4>3
      <3> QED
        BY <3>1
    <2> DEFINE m == Len(s) + j
    <2>2. m - 1 = Len(s) + (j - 1) /\ m - 2 = Len(s) + (j - 2) /\ (s \o t)[m] = t[j]
      BY <1>1
    <2>3. /\ EscapesAt(s \o t, m) = EscapesAt(t, j)
          /\ EscapesAt(s \o t, m - 1) = EscapesAt(t, j - 1)
          /\ EscapesAt(s \o t, m - 2) = EscapesAt(t, j - 2)
      BY <2>1, <2>2
    <2> HIDE DEF m
    <2>4. Unquoted(s \o t, m) = Unquoted(t, j)
      BY <2>2, <2>3 DEF Unquoted
    <2> QED
      BY <2>4 DEF m
  <1>4. Pieces(s \o t) = Pieces(s) \o Pieces(t)
    <2> DEFINE a == Pieces(s \o t)
               b == Pieces(s) \o Pieces(t)
    <2>1. /\ a \in Seq(Text) /\ Len(a) = Len(s) + Len(t)
          /\ \A i \in 1 .. Len(s) + Len(t) : a[i] = Unquoted(s \o t, i)
      BY <1>1, PiecesType
    <2>2. /\ Pieces(s) \in Seq(Text) /\ Len(Pieces(s)) = Len(s)
          /\ Pieces(t) \in Seq(Text) /\ Len(Pieces(t)) = Len(t)
          /\ \A i \in 1 .. Len(s) : Pieces(s)[i] = Unquoted(s, i)
          /\ \A i \in 1 .. Len(t) : Pieces(t)[i] = Unquoted(t, i)
      BY PiecesType
    <2>3. /\ b \in Seq(Text) /\ Len(b) = Len(s) + Len(t)
          /\ \A i \in 1 .. Len(s) + Len(t) :
                 b[i] = IF i <= Len(s) THEN Pieces(s)[i] ELSE Pieces(t)[i - Len(s)]
      <3> DEFINE ps == Pieces(s)
                 pt == Pieces(t)
      <3>1. ps \in Seq(Text) /\ pt \in Seq(Text) /\ Len(ps) = Len(s) /\ Len(pt) = Len(t)
        BY <2>2
      <3> HIDE DEF ps, pt
      <3>2. /\ ps \o pt \in Seq(Text) /\ Len(ps \o pt) = Len(ps) + Len(pt)
            /\ \A i \in 1 .. Len(ps) + Len(pt) :
                   (ps \o pt)[i] = IF i <= Len(ps) THEN ps[i] ELSE pt[i - Len(ps)]
        BY <3>1, ConcatProperties
      <3> QED
        BY <3>1, <3>2 DEF ps, pt
    <2> HIDE DEF a, b
    <2>4. ASSUME NEW i \in 1 .. Len(s) + Len(t) PROVE a[i] = b[i]
      <3>1. CASE i <= Len(s)
        <4>1. i \in 1 .. Len(s)
          BY <1>1, <3>1
        <4> QED
          BY <1>2, <2>1, <2>2, <2>3, <3>1, <4>1
      <3>2. CASE ~ (i <= Len(s))
        <4>1. i - Len(s) \in 1 .. Len(t) /\ Len(s) + (i - Len(s)) = i
          BY <1>1, <3>2
        <4>2. b[i] = Unquoted(t, i - Len(s))
          BY <2>2, <2>3, <3>2, <4>1
        <4>3. Unquoted(s \o t, Len(s) + (i - Len(s))) = Unquoted(t, i - Len(s))
          BY <1>3, <4>1
        <4> QED
          BY <2>1, <4>1, <4>2, <4>3
      <3> QED
        BY <3>1, <3>2
    <2>5. a = b
      BY <2>1, <2>3, <2>4, SeqEqual
    <2> QED
      BY <2>5 DEF a, b
  <1>5. /\ Pieces(s) \in Seq(Text) /\ Pieces(t) \in Seq(Text)
        /\ Unquote(s) = FlattenSeq(Pieces(s)) /\ Unquote(t) = FlattenSeq(Pieces(t))
        /\ Unquote(s \o t) = FlattenSeq(Pieces(s \o t))
    BY <1>1, PiecesType
  <1>6. FlattenSeq(Pieces(s) \o Pieces(t)) = FlattenSeq(Pieces(s)) \o FlattenSeq(Pieces(t))
    <2> DEFINE ps == Pieces(s)
               pt == Pieces(t)
    <2>1. ps \in Seq(Seq(Characters)) /\ pt \in Seq(Seq(Characters))
      BY <1>5 DEF Text
    <2> HIDE DEF ps, pt
    <2>2. FlattenSeq(ps \o pt) = FlattenSeq(ps) \o FlattenSeq(pt)
      BY <2>1, FlatConcat
    <2> QED
      BY <2>2 DEF ps, pt
  <1> QED
    BY <1>4, <1>5, <1>6

\* A character alone is no escape.
LEMMA UnquoteOne ==
    ASSUME NEW c \in Characters
    PROVE  Unquote(<<c>>) = <<c>>
  <1>1. <<c>> \in Text /\ Len(<<c>>) = 1 /\ <<c>>[1] = c
    BY DEF Text
  <1>2. \A i \in Int : EscapesAt(<<c>>, i) = {}
    BY <1>1 DEF EscapesAt
  <1>3. Unquoted(<<c>>, 1) = <<c>>
    BY <1>1, <1>2 DEF Unquoted
  <1>4. Pieces(<<c>>) = << <<c>> >>
    BY <1>1, <1>3 DEF Pieces
  <1>5. FlattenSeq(<< <<c>> >>) = <<c>>
    <2>1. <<>> \in Seq(Seq(Characters)) /\ <<c>> \in Seq(Characters)
      OBVIOUS
    <2>2. FlattenSeq(Append(<<>>, <<c>>)) = FlattenSeq(<<>>) \o <<c>>
      BY <2>1, FlatAppend
    <2>3. Append(<<>>, <<c>>) = << <<c>> >> /\ <<>> \o <<c>> = <<c>>
      OBVIOUS
    <2> QED
      BY <2>2, <2>3, FlatEmpty
  <1> QED
    BY <1>1, <1>4, <1>5, PiecesType

LEMMA SeqOfTwo ==
    ASSUME NEW S, NEW s \in Seq(S), NEW x \in S, NEW y \in S, Len(s) = 2, s[1] = x, s[2] = y
    PROVE  s = <<x, y>>
  <1>1. <<x, y>> \in Seq(S) /\ Len(<<x, y>>) = 2 /\ 1 .. 2 = {1, 2}
    OBVIOUS
  <1>2. \A i \in 1 .. Len(s) : s[i] = <<x, y>>[i]
    BY <1>1
  <1> QED
    BY <1>1, <1>2, SeqEqual

LEMMA SeqOfThree ==
    ASSUME NEW S, NEW s \in Seq(S), NEW x \in S, NEW y \in S, NEW z \in S,
           Len(s) = 3, s[1] = x, s[2] = y, s[3] = z
    PROVE  s = <<x, y, z>>
  <1>1. <<x, y, z>> \in Seq(S) /\ Len(<<x, y, z>>) = 3 /\ 1 .. 3 = {1, 2, 3}
    OBVIOUS
  <1>2. \A i \in 1 .. Len(s) : s[i] = <<x, y, z>>[i]
    BY <1>1
  <1> QED
    BY <1>1, <1>2, SeqEqual

LEMMA ThreeLetters ==
    ASSUME NEW a \in Characters, NEW b \in Characters, NEW c \in Characters
    PROVE  <<a>> \o <<b, c>> = <<a, b, c>> /\ SubSeq(<<a, b, c>>, 2, 3) = <<b, c>>
  <1>1. <<a>> \o <<b, c>> = <<a, b, c>>
    <2> DEFINE s == <<a>> \o <<b, c>>
    <2>1. s \in Seq(Characters) /\ Len(s) = 3 /\ s[1] = a /\ s[2] = b /\ s[3] = c
      OBVIOUS
    <2> HIDE DEF s
    <2>2. s = <<a, b, c>>
      BY <2>1, SeqOfThree
    <2> QED
      BY <2>2 DEF s
  <1>2. SubSeq(<<a, b, c>>, 2, 3) = <<b, c>>
    <2> DEFINE s == SubSeq(<<a, b, c>>, 2, 3)
    <2>1. s \in Seq(Characters) /\ Len(s) = 2 /\ s[1] = b /\ s[2] = c
      OBVIOUS
    <2> HIDE DEF s
    <2>2. s = <<b, c>>
      BY <2>1, SeqOfTwo
    <2> QED
      BY <2>2 DEF s
  <1> QED
    BY <1>1, <1>2

LEMMA ThreeParts ==
    ASSUME NEW x \in Text, NEW y \in Text, NEW z \in Text
    PROVE  FlattenSeq(<<x, y, z>>) = (x \o y) \o z
  <1> DEFINE a == Append(<<>>, x)
             b == Append(a, y)
             d == Append(b, z)
  <1>1. <<>> \in Seq(Text) /\ a \in Seq(Text) /\ Len(a) = 1 /\ a[1] = x
    OBVIOUS
  <1>2. FlattenSeq(a) = FlattenSeq(<<>>) \o x
    BY <1>1, FlatAppend DEF Text
  <1> HIDE DEF a
  <1>3. b \in Seq(Text) /\ Len(b) = 2 /\ b[1] = x /\ b[2] = y
    BY <1>1, AppendProperties
  <1>4. FlattenSeq(b) = FlattenSeq(a) \o y
    BY <1>1, FlatAppend DEF Text
  <1> HIDE DEF b
  <1>5. d \in Seq(Text) /\ Len(d) = 3 /\ d[1] = x /\ d[2] = y /\ d[3] = z
    <2>1. /\ d \in Seq(Text) /\ Len(d) = Len(b) + 1 /\ d[Len(b) + 1] = z
          /\ \A i \in 1 .. Len(b) : d[i] = b[i]
      <3>1. b \in Seq(Text) /\ z \in Text
        BY <1>3
      <3> QED
        BY <3>1
    <2> HIDE DEF d
    <2> QED
      BY <1>3, <2>1
  <1>6. FlattenSeq(d) = FlattenSeq(b) \o z
    BY <1>3, FlatAppend DEF Text
  <1> HIDE DEF d
  <1>7. d = <<x, y, z>>
    BY <1>5, SeqOfThree
  <1>8. <<>> \o x = x
    BY DEF Text
  <1> QED
    BY <1>2, <1>4, <1>6, <1>7, <1>8, FlatEmpty

\* What a character is quoted as is no part of anything else, and it is
\* unquoted to that character.
LEMMA QuoteCharIs ==
    ASSUME NEW c \in Characters
    PROVE  /\ QuoteChar(c) \in Slashless /\ QuoteChar(c) # <<>>
           /\ Complete(QuoteChar(c)) /\ Unquote(QuoteChar(c)) = <<c>>
  <1>1. CASE c \in Safe
    <2>1. QuoteChar(c) = <<c>>
      BY <1>1 DEF QuoteChar
    <2>2. c # "/" /\ c # "%"
      BY <1>1, CharactersAssumption DEF Safe, Punctuation
    <2>3. <<c>> \in Slashless /\ <<c>> # <<>>
      BY <2>2 DEF Slashless, Text
    <2>4. Complete(<<c>>)
      BY <2>2 DEF Complete
    <2> QED
      BY <2>1, <2>3, <2>4, UnquoteOne
  <1>2. CASE c \notin Safe
    <2> DEFINE e == CHOOSE e \in Escapes : e.char = c
               q == <<"%", e.hex[1], e.hex[2]>>
    <2>1. e \in Escapes /\ e.char = c
      BY <1>2, EscapesAssumption
    <2> HIDE DEF e
    <2>2. /\ e.hex = <<e.hex[1], e.hex[2]>>
          /\ e.hex[1] \in Characters /\ e.hex[1] \notin {"%", "/"}
          /\ e.hex[2] \in Characters /\ e.hex[2] \notin {"%", "/"}
      BY <2>1, EscapeIs
    <2>11. /\ <<"%">> \o <<e.hex[1], e.hex[2]>> = q
           /\ SubSeq(q, 2, 3) = <<e.hex[1], e.hex[2]>>
      <3> DEFINE x == e.hex[1]
                 y == e.hex[2]
                 z == "%"
      <3>1. x \in Characters /\ y \in Characters /\ z \in Characters
        BY <2>2, Letters
      <3> HIDE DEF x, y, z
      <3>2. <<z>> \o <<x, y>> = <<z, x, y>> /\ SubSeq(<<z, x, y>>, 2, 3) = <<x, y>>
        BY <3>1, ThreeLetters
      <3> QED
        BY <3>2 DEF x, y, z
    <2>3. QuoteChar(c) = q
      <3>1. QuoteChar(c) = <<"%">> \o e.hex
        BY <1>2 DEF QuoteChar, e
      <3> QED
        BY <2>2, <2>11, <3>1
    <2>4. q \in Text /\ Len(q) = 3 /\ q[1] = "%" /\ q[2] = e.hex[1] /\ q[3] = e.hex[2]
      BY <2>2, Letters DEF Text
    <2>5. SubSeq(q, 2, 3) = e.hex
      BY <2>2, <2>11
    <2> HIDE DEF q
    <2>6. q \in Slashless /\ q # <<>> /\ Complete(q)
      <3>1. \A i \in 1 .. 3 : q[i] # "/" /\ (q[i] = "%" => i + 2 <= 3)
        <4>1. 1 .. 3 = {1, 2, 3}
          OBVIOUS
        <4> QED
          BY <2>2, <2>4, <4>1
      <3>2. DOMAIN q = 1 .. 3
        BY <2>4 DEF Text
      <3>3. q # <<>>
        BY <2>4
      <3> QED
        BY <2>4, <3>1, <3>2, <3>3 DEF Slashless, Complete
    <2>7. e \in EscapesAt(q, 1) /\ \A i \in Int : i # 1 => EscapesAt(q, i) = {}
      <3>1. e \in EscapesAt(q, 1)
        <4>1. 1 \in 1 .. Len(q) - 2 /\ SubSeq(q, 1 + 1, 1 + 2) = e.hex
          BY <2>4, <2>5
        <4> QED
          BY <2>1, <2>4, <4>1 DEF EscapesAt
      <3>2. ASSUME NEW i \in Int, i # 1 PROVE EscapesAt(q, i) = {}
        BY <2>4, <3>2 DEF EscapesAt
      <3> QED
        BY <3>1, <3>2
    <2>8. Unquoted(q, 1) = <<c>> /\ Unquoted(q, 2) = <<>> /\ Unquoted(q, 3) = <<>>
      <3>1. (CHOOSE f \in EscapesAt(q, 1) : TRUE).char = c
        BY <2>1, <2>7, OneEscape
      <3>2. Unquoted(q, 1) = <<c>>
        BY <2>7, <3>1 DEF Unquoted
      <3>3. EscapesAt(q, 2) = {} /\ EscapesAt(q, 3) = {} /\ EscapesAt(q, 1) # {}
        BY <2>7
      <3>4. 2 - 1 = 1 /\ 3 - 2 = 1
        OBVIOUS
      <3>5. Unquoted(q, 2) = <<>> /\ Unquoted(q, 3) = <<>>
        BY <3>3, <3>4 DEF Unquoted
      <3> QED
        BY <3>2, <3>5
    <2>9. Pieces(q) = << <<c>>, <<>>, <<>> >>
      BY <2>4, <2>8 DEF Pieces, Text
    <2>10. FlattenSeq(<< <<c>>, <<>>, <<>> >>) = <<c>>
      <3>1. <<>> \in Text /\ <<c>> \in Text /\ (<<c>> \o <<>>) \o <<>> = <<c>>
        BY DEF Text
      <3> QED
        BY <3>1, ThreeParts
    <2> QED
      BY <2>3, <2>4, <2>6, <2>9, <2>10, PiecesType
  <1> QED
    BY <1>1, <1>2

LEMMA QuoteAppend ==
    ASSUME NEW s \in Text, NEW c \in Characters
    PROVE  /\ Quote(<<>>) = <<>> /\ Quote(s) \in Text
           /\ Quote(Append(s, c)) = Quote(s) \o QuoteChar(c)
  <1> DEFINE Q(t) == [i \in DOMAIN t |-> QuoteChar(t[i])]
  <1>1. \A d \in Characters : QuoteChar(d) \in Text
    BY QuoteCharIs, SlashlessText
  <1>2. ASSUME NEW t \in Text PROVE Q(t) \in Seq(Text) /\ Len(Q(t)) = Len(t)
    <2>1. Len(t) \in Nat /\ DOMAIN t = 1 .. Len(t)
      BY LenProperties DEF Text
    <2>2. Q(t) \in [1 .. Len(t) -> Text]
      BY <1>1, <2>1, ElementOfSeq DEF Text
    <2>3. DOMAIN Q(t) = 1 .. Len(t)
      BY <2>1
    <2> HIDE DEF Q
    <2>4. Q(t) \in Seq(Text)
      BY <2>1, <2>2, SeqDef
    <2> QED
      BY <2>1, <2>3, <2>4, LenProperties
  <1>3. Q(Append(s, c)) = Append(Q(s), QuoteChar(c))
    <2> DEFINE a == Q(Append(s, c))
               b == Append(Q(s), QuoteChar(c))
    <2>1. /\ Append(s, c) \in Text /\ Len(Append(s, c)) = Len(s) + 1 /\ Len(s) \in Nat
          /\ DOMAIN s = 1 .. Len(s) /\ DOMAIN Append(s, c) = 1 .. Len(s) + 1
          /\ \A i \in 1 .. Len(s) : Append(s, c)[i] = s[i]
          /\ Append(s, c)[Len(s) + 1] = c
      BY DEF Text
    <2>2. /\ a \in Seq(Text) /\ Len(a) = Len(s) + 1
          /\ \A i \in 1 .. Len(s) + 1 : a[i] = QuoteChar(Append(s, c)[i])
      BY <1>2, <2>1
    <2>3. /\ Q(s) \in Seq(Text) /\ Len(Q(s)) = Len(s) /\ \A i \in 1 .. Len(s) : Q(s)[i] = QuoteChar(s[i])
      BY <1>2, <2>1
    <2> HIDE DEF Q
    <2>4. /\ b \in Seq(Text) /\ Len(b) = Len(s) + 1
          /\ \A i \in 1 .. Len(s) : b[i] = Q(s)[i]
          /\ b[Len(s) + 1] = QuoteChar(c)
      BY <1>1, <2>3, AppendProperties
    <2> HIDE DEF a, b
    <2>5. ASSUME NEW i \in 1 .. Len(s) + 1 PROVE a[i] = b[i]
      <3>1. i \in 1 .. Len(s) \/ i = Len(s) + 1
        BY <2>1
      <3> QED
        BY <2>1, <2>2, <2>3, <2>4, <3>1
    <2>6. a = b
      BY <2>2, <2>4, <2>5, SeqEqual
    <2> QED
      BY <2>6 DEF a, b
  <1>4. \A t : Quote(t) = FlattenSeq(Q(t))
    BY DEF Quote
  <1>5. Q(<<>>) = <<>>
    OBVIOUS
  <1>6. Q(s) \in Seq(Seq(Characters)) /\ QuoteChar(c) \in Seq(Characters)
    BY <1>1, <1>2 DEF Text
  <1> HIDE DEF Q
  <1>7. FlattenSeq(Append(Q(s), QuoteChar(c))) = FlattenSeq(Q(s)) \o QuoteChar(c)
    BY <1>6, FlatAppend
  <1>8. FlattenSeq(Q(s)) \in Seq(Characters)
    BY <1>6, FlatType
  <1> QED
    BY <1>3, <1>4, <1>5, <1>7, <1>8, FlatEmpty DEF Text

\* Unquoting undoes quoting, and what is quoted has no slash.
LEMMA UnquoteQuote ==
    ASSUME NEW s \in Text
    PROVE  Quote(s) \in Slashless /\ Unquote(Quote(s)) = s /\ (s # <<>> => Quote(s) # <<>>)
  <1> DEFINE T == {t \in Text : /\ Quote(t) \in Slashless /\ Complete(Quote(t))
                                /\ Unquote(Quote(t)) = t /\ (t # <<>> => Quote(t) # <<>>)}
  <1>1. <<>> \in T
    <2>1. <<>> \in Text /\ <<>> \in Slashless /\ Complete(<<>>)
      BY DEF Text, Slashless, Complete
    <2>2. Quote(<<>>) = <<>>
      BY <2>1, Letters, QuoteAppend
    <2>3. Pieces(<<>>) = <<>>
      BY DEF Pieces
    <2>4. Unquote(<<>>) = <<>>
      BY <2>1, <2>3, PiecesType, FlatEmpty
    <2> QED
      BY <2>1, <2>2, <2>4
  <1>2. ASSUME NEW t \in Text, NEW c \in Characters, t \in T PROVE Append(t, c) \in T
    <2> DEFINE q == Quote(t)
               r == QuoteChar(c)
    <2>1. /\ q \in Slashless /\ q \in Text /\ Complete(q) /\ Unquote(q) = t
          /\ r \in Slashless /\ r \in Text /\ r # <<>> /\ Complete(r) /\ Unquote(r) = <<c>>
      BY <1>2, QuoteCharIs, SlashlessText
    <2>2. Quote(Append(t, c)) = q \o r
      BY QuoteAppend
    <2> HIDE DEF q, r
    <2>3. Unquote(q \o r) = t \o <<c>>
      BY <2>1, UnquoteConcat
    <2>4. t \o <<c>> = Append(t, c) /\ Append(t, c) \in Text
      BY AppendProperties, AppendIsConcat DEF Text
    <2>5. /\ q \o r \in Text /\ q \o r # <<>>
          /\ Len(q \o r) = Len(q) + Len(r) /\ Len(q) \in Nat /\ Len(r) \in Nat
          /\ \A i \in 1 .. Len(q) + Len(r) :
                 (q \o r)[i] = IF i <= Len(q) THEN q[i] ELSE r[i - Len(q)]
      BY <2>1 DEF Text
    <2>6. /\ \A i \in 1 .. Len(q) : q[i] # "/" /\ (q[i] = "%" => i + 2 <= Len(q))
          /\ \A i \in 1 .. Len(r) : r[i] # "/" /\ (r[i] = "%" => i + 2 <= Len(r))
      BY <2>1 DEF Slashless, Complete, Text
    <2>7. ASSUME NEW i \in 1 .. Len(q) + Len(r)
          PROVE  (q \o r)[i] # "/" /\ ((q \o r)[i] = "%" => i + 2 <= Len(q) + Len(r))
      <3>1. CASE i <= Len(q)
        BY <2>5, <2>6, <3>1
      <3>2. CASE ~ (i <= Len(q))
        <4>1. i - Len(q) \in 1 .. Len(r) /\ (q \o r)[i] = r[i - Len(q)]
          BY <2>5, <3>2
        <4>2. r[i - Len(q)] # "/" /\ (r[i - Len(q)] = "%" => (i - Len(q)) + 2 <= Len(r))
          BY <2>6, <4>1
        <4> QED
          BY <2>5, <4>1, <4>2
      <3> QED
        BY <3>1, <3>2
    <2>8. q \o r \in Slashless /\ Complete(q \o r)
      <3>1. DOMAIN (q \o r) = 1 .. Len(q) + Len(r)
        BY <2>5 DEF Text
      <3> QED
        BY <2>5, <2>7, <3>1 DEF Slashless, Complete
    <2> QED
      BY <2>2, <2>3, <2>4, <2>5, <2>8
  <1> HIDE DEF T
  <1>3. Text \subseteq T
    BY <1>1, <1>2, SeqSet DEF Text
  <1> QED
    BY <1>3 DEF T

\* A text without a percent sign means itself.
LEMMA UnquotePlain ==
    ASSUME NEW s \in Text, \A i \in DOMAIN s : s[i] # "%"
    PROVE  Unquote(s) = s
  <1> DEFINE T == {t \in Text : (\A i \in DOMAIN t : t[i] # "%") => Unquote(t) = t}
  <1>1. <<>> \in T
    <2>1. <<>> \in Text
      BY DEF Text
    <2>2. Pieces(<<>>) = <<>>
      BY DEF Pieces
    <2> QED
      BY <2>1, <2>2, PiecesType, FlatEmpty
  <1>2. ASSUME NEW t \in Text, NEW c \in Characters, t \in T PROVE Append(t, c) \in T
    <2>1. /\ Append(t, c) = t \o <<c>> /\ Append(t, c) \in Text /\ <<c>> \in Text
          /\ DOMAIN t = 1 .. Len(t) /\ Len(t) \in Nat /\ DOMAIN Append(t, c) = 1 .. Len(t) + 1
          /\ \A i \in 1 .. Len(t) : Append(t, c)[i] = t[i]
      BY DEF Text
    <2>2. ASSUME \A i \in DOMAIN Append(t, c) : Append(t, c)[i] # "%"
          PROVE  Unquote(Append(t, c)) = Append(t, c)
      <3>1. \A i \in DOMAIN t : t[i] # "%"
        <4>1. \A i \in 1 .. Len(t) : i \in 1 .. Len(t) + 1
          BY <2>1
        <4> QED
          BY <2>1, <2>2, <4>1
      <3>2. Complete(t) /\ Unquote(t) = t
        BY <1>2, <2>1, <3>1 DEF Complete
      <3>3. Unquote(t \o <<c>>) = t \o <<c>>
        BY <2>1, <3>2, UnquoteConcat, UnquoteOne
      <3> QED
        BY <2>1, <3>3
    <2> QED
      BY <2>1, <2>2
  <1> HIDE DEF T
  <1>3. Text \subseteq T
    BY <1>1, <1>2, SeqSet DEF Text
  <1> QED
    BY <1>3 DEF T

-----------------------------------------------------------------------------
(***************************************************************************)
(* The parts of a ref.  What is well formed is what a parser of a part     *)
(* gives, and is given back by it.                                         *)
(***************************************************************************)

NameCharacters == LowerCase \cup Digits \cup {"-"}
TagCharacters == Alphanumeric \cup {"_", ".", "-"}

IsName(n, reserved) ==
    /\ n \in Seq(NameCharacters) /\ n # <<>> /\ Len(n) \in NameMin .. NameMax
    /\ n[1] \in LowerCase /\ n \notin reserved
IsTag(t) ==
    /\ t \in Seq(TagCharacters) /\ Len(t) \in 1 .. TagMax
    /\ t[1] \in Alphanumeric \cup {"_"}
IsDigest(d) ==
    \E h \in Seq(HexDigits) : Len(h) \in 1 .. DigestMax /\ d \in {h, Algorithm \o h}

\* The characters of each part, and what they are not.
LEMMA Alphabets ==
    /\ NameCharacters \subseteq Characters /\ NameCharacters \cap UpperCase = {}
    /\ NameCharacters \cap {"/", "@", ":"} = {}
    /\ TagCharacters \subseteq Characters /\ TagCharacters \cap {"/", "@", ":"} = {}
    /\ HexDigits \subseteq Characters /\ HexDigits \cap UpperCase = {}
    /\ HexDigits \cap {"/", "@", ":"} = {}
    /\ {"b", "3", ":"} \subseteq Characters /\ {"b", "3", ":"} \cap UpperCase = {}
    /\ LowerCase \subseteq Characters /\ LowerCase \cap UpperCase = {}
    /\ UpperCase \subseteq Characters
  BY CharactersAssumption
     DEF NameCharacters, TagCharacters, HexDigits, Alphanumeric, Punctuation

LEMMA LowerIs ==
    ASSUME NEW s \in Text
    PROVE  /\ Lower(s) \in Text /\ Len(Lower(s)) = Len(s)
           /\ (\A i \in DOMAIN s : s[i] \notin UpperCase) => Lower(s) = s
           /\ Lower(Lower(s)) = Lower(s)
           /\ \A i \in DOMAIN s : Lower(s)[i] \notin UpperCase
  <1>1. Len(s) \in Nat /\ DOMAIN s = 1 .. Len(s) /\ \A i \in 1 .. Len(s) : s[i] \in Characters
    BY ElementOfSeq, LenProperties DEF Text
  <1>2. \A c \in UpperCase : LowerOf[c] \in Characters /\ LowerOf[c] \notin UpperCase
    BY CharactersAssumption, Alphabets
  <1>3. Lower(s) \in [1 .. Len(s) -> Characters]
    BY <1>1, <1>2 DEF Lower
  <1>4. Lower(s) \in Text
    BY <1>1, <1>3, SeqDef DEF Text
  <1>5. Len(Lower(s)) = Len(s) /\ DOMAIN Lower(s) = 1 .. Len(s)
    BY <1>1, <1>3, <1>4, LenProperties DEF Text
  <1>6. \A i \in DOMAIN s : Lower(s)[i] \notin UpperCase
    BY <1>1, <1>2 DEF Lower
  <1>7. ASSUME NEW t \in Text, \A i \in DOMAIN t : t[i] \notin UpperCase PROVE Lower(t) = t
    <2>1. t = [i \in DOMAIN t |-> t[i]]
      BY DEF Text
    <2> QED
      BY <1>7, <2>1 DEF Lower
  <1>8. Lower(Lower(s)) = Lower(s)
    BY <1>1, <1>4, <1>5, <1>6, <1>7
  <1> QED
    BY <1>4, <1>5, <1>6, <1>7, <1>8

LEMMA RangeSeq ==
    ASSUME NEW s \in Text, NEW S, Range(s) \subseteq S
    PROVE  s \in Seq(S)
  <1>1. Len(s) \in Nat /\ DOMAIN s = 1 .. Len(s) /\ s = [i \in DOMAIN s |-> s[i]]
    BY DEF Text
  <1>2. s \in [1 .. Len(s) -> S]
    BY <1>1 DEF Range
  <1> QED
    BY <1>1, <1>2, SeqDef

LEMMA SeqRange ==
    ASSUME NEW S, NEW s \in Seq(S)
    PROVE  Range(s) \subseteq S
  BY ElementOfSeq, LenProperties DEF Range

\* A part differs from what is none.
LEMMA IsSomething ==
    ASSUME NEW s \in Text
    PROVE  s # None /\ s # Raises
  <1>1. ASSUME s \in {None, Raises} PROVE FALSE
    <2>1. Len(s) = 1 /\ s[1] \in {"none", "raises"}
      BY <1>1 DEF None, Raises
    <2>2. s[1] \in Characters
      BY <2>1, ElementOfSeq DEF Text
    <2> QED
      BY <2>1, <2>2, Letters
  <1> QED
    BY <1>1

LEMMA NameIs ==
    ASSUME NEW s \in Text, NEW reserved
    PROVE  Name(s, reserved) = Raises \/ IsName(Name(s, reserved), reserved)
  <1> DEFINE n == Lower(s)
  <1>1. n \in Text
    BY LowerIs
  <1>2. ASSUME Name(s, reserved) # Raises PROVE IsName(Name(s, reserved), reserved)
    <2>1. /\ Name(s, reserved) = n
          /\ Len(n) \in NameMin .. NameMax /\ n # <<>> /\ n[1] \in LowerCase
          /\ Range(n) \subseteq NameCharacters /\ n \notin reserved
      BY <1>2 DEF Name, NameCharacters
    <2> HIDE DEF n
    <2>2. n \in Seq(NameCharacters)
      BY <1>1, <2>1, RangeSeq
    <2> QED
      BY <2>1, <2>2 DEF IsName
  <1> QED
    BY <1>2

LEMMA NameKept ==
    ASSUME NEW n, NEW reserved, IsName(n, reserved)
    PROVE  /\ n \in Slashless /\ Name(n, reserved) = n
           /\ \A i \in DOMAIN n : n[i] \notin {"/", "@", ":"}
  <1>1. n \in Seq(NameCharacters)
    BY DEF IsName
  <1>2. n \in Text
    BY <1>1, Alphabets, SeqMonotonic DEF Text
  <1>3. \A i \in DOMAIN n : n[i] \in NameCharacters
    BY <1>1, ElementOfSeq, LenProperties
  <1>4. Lower(n) = n
    BY <1>2, <1>3, Alphabets, LowerIs
  <1>5. Range(n) \subseteq NameCharacters
    BY <1>1, SeqRange
  <1>6. Name(n, reserved) = n
    BY <1>4, <1>5 DEF Name, IsName, NameCharacters
  <1> QED
    BY <1>2, <1>3, <1>6, Alphabets DEF Slashless

LEMMA TagIs ==
    ASSUME NEW s \in Text
    PROVE  Tag(s) = Raises \/ IsTag(Tag(s))
  <1>1. ASSUME Tag(s) # Raises PROVE IsTag(Tag(s))
    <2>1. /\ Tag(s) = s /\ Len(s) \in 1 .. TagMax /\ s[1] \in Alphanumeric \cup {"_"}
          /\ Range(s) \subseteq TagCharacters
      BY <1>1 DEF Tag, TagCharacters
    <2>2. s \in Seq(TagCharacters)
      BY <2>1, RangeSeq
    <2> QED
      BY <2>1, <2>2 DEF IsTag
  <1> QED
    BY <1>1

LEMMA TagKept ==
    ASSUME NEW t, IsTag(t)
    PROVE  /\ t \in Slashless /\ Tag(t) = t
           /\ \A i \in DOMAIN t : t[i] \notin {"/", "@", ":"}
  <1>1. t \in Seq(TagCharacters)
    BY DEF IsTag
  <1>2. t \in Text
    BY <1>1, Alphabets, SeqMonotonic DEF Text
  <1>3. \A i \in DOMAIN t : t[i] \in TagCharacters
    BY <1>1, ElementOfSeq, LenProperties
  <1>4. Range(t) \subseteq TagCharacters
    BY <1>1, SeqRange
  <1>5. Tag(t) = t
    BY <1>4 DEF Tag, IsTag, TagCharacters
  <1> QED
    BY <1>2, <1>3, <1>5, Alphabets DEF Slashless

LEMMA PrefixRemoved ==
    ASSUME NEW s \in Text, NEW prefix \in Text
    PROVE  /\ RemovePrefix(prefix \o s, prefix) = s
           /\ RemovePrefix(s, prefix) \in Text
           /\ RemovePrefix(s, prefix) = s \/ s = prefix \o RemovePrefix(s, prefix)
  <1>1. Len(prefix) \in Nat /\ Len(s) \in Nat
    BY DEF Text
  <1>2. RemovePrefix(prefix \o s, prefix) = s
    <2>1. prefix \o s \in Text /\ Len(prefix \o s) = Len(prefix) + Len(s)
      BY DEF Text
    <2>2. SubSeq(prefix \o s, 1, Len(prefix)) = SubSeq(prefix, 1, Len(prefix))
      BY <1>1 DEF Text
    <2>3. SubSeq(prefix \o s, Len(prefix) + 1, Len(prefix) + Len(s)) = s
      BY <1>1 DEF Text
    <2>4. IsPrefix(prefix, prefix \o s)
      BY <1>1, <2>1, <2>2 DEF IsPrefix
    <2> QED
      BY <2>1, <2>3, <2>4 DEF RemovePrefix, Beyond
  <1>3. CASE ~ IsPrefix(prefix, s)
    BY <1>2, <1>3 DEF RemovePrefix
  <1>4. CASE IsPrefix(prefix, s)
    <2> DEFINE r == SubSeq(s, Len(prefix) + 1, Len(s))
    <2>1. RemovePrefix(s, prefix) = r
      BY <1>4 DEF RemovePrefix, Beyond
    <2>2. Len(prefix) <= Len(s) /\ SubSeq(prefix, 1, Len(prefix)) = SubSeq(s, 1, Len(prefix))
      BY <1>4 DEF IsPrefix
    <2>3. r \in Text /\ Len(r) = Len(s) - Len(prefix)
          /\ \A i \in 1 .. Len(s) - Len(prefix) : r[i] = s[Len(prefix) + i]
      BY <1>1, <2>2 DEF Text
    <2>4. \A i \in 1 .. Len(prefix) : prefix[i] = s[i]
      <3>1. \A i \in 1 .. Len(prefix) : SubSeq(prefix, 1, Len(prefix))[i] = prefix[i]
        BY <1>1 DEF Text
      <3>2. \A i \in 1 .. Len(prefix) : SubSeq(s, 1, Len(prefix))[i] = s[i]
        BY <1>1, <2>2 DEF Text
      <3> QED
        BY <2>2, <3>1, <3>2
    <2> HIDE DEF r
    <2>5. s = prefix \o r
      <3>1. /\ prefix \o r \in Text /\ Len(prefix \o r) = Len(s)
            /\ \A i \in 1 .. Len(s) :
                   (prefix \o r)[i] = IF i <= Len(prefix) THEN prefix[i] ELSE r[i - Len(prefix)]
        BY <1>1, <2>2, <2>3 DEF Text
      <3>2. ASSUME NEW i \in 1 .. Len(s) PROVE (prefix \o r)[i] = s[i]
        <4>1. CASE i <= Len(prefix)
          BY <1>1, <2>4, <3>1, <4>1
        <4>2. CASE ~ (i <= Len(prefix))
          <5>1. i - Len(prefix) \in 1 .. Len(s) - Len(prefix)
                /\ Len(prefix) + (i - Len(prefix)) = i
            BY <1>1, <2>2, <4>2
          <5> QED
            BY <2>3, <3>1, <4>2, <5>1
        <4> QED
          BY <4>1, <4>2
      <3> QED
        BY <3>1, <3>2, SeqEqual DEF Text
    <2> QED
      BY <1>2, <2>1, <2>3, <2>5
  <1> QED
    BY <1>3, <1>4

LEMMA AlgorithmText == Algorithm \in Text /\ Len(Algorithm) = 3 /\ Algorithm[3] = ":"
  BY Letters DEF Algorithm, Text

LEMMA HexIs ==
    ASSUME NEW h \in Seq(HexDigits)
    PROVE  /\ h \in Text /\ HexOf(h) = h /\ HexOf(Algorithm \o h) = h
           /\ Lower(h) = h /\ Lower(Algorithm \o h) = Algorithm \o h
           /\ h \in Slashless /\ Algorithm \o h \in Slashless
  <1>1. /\ Len(h) \in Nat /\ DOMAIN h = 1 .. Len(h)
        /\ \A i \in 1 .. Len(h) : h[i] \in HexDigits
    BY ElementOfSeq, LenProperties
  <1>2. h \in Text
    BY Alphabets, SeqMonotonic DEF Text
  <1>3. ~ IsPrefix(Algorithm, h)
    <2> SUFFICES ASSUME IsPrefix(Algorithm, h) PROVE FALSE
      OBVIOUS
    <2>1. Len(h) >= 3 /\ SubSeq(Algorithm, 1, 3) = SubSeq(h, 1, 3)
      BY AlgorithmText DEF IsPrefix
    <2>2. SubSeq(Algorithm, 1, 3)[3] = ":"
      BY AlgorithmText DEF Text
    <2>3. SubSeq(h, 1, 3)[3] = h[3]
      BY <1>1, <2>1
    <2>4. h[3] \in HexDigits
      BY <1>1, <2>1
    <2> QED
      BY <2>1, <2>2, <2>3, <2>4, Alphabets
  <1>4. HexOf(h) = h /\ HexOf(Algorithm \o h) = h
    BY <1>2, <1>3, AlgorithmText, PrefixRemoved DEF HexOf, RemovePrefix
  <1> DEFINE d == Algorithm \o h
  <1>5. /\ d \in Text /\ Len(d) = 3 + Len(h)
        /\ \A i \in 1 .. 3 + Len(h) : d[i] = IF i <= 3 THEN Algorithm[i] ELSE h[i - 3]
    <2>1. /\ d \in Text /\ Len(d) = Len(Algorithm) + Len(h)
          /\ \A i \in 1 .. Len(Algorithm) + Len(h) :
                 d[i] = IF i <= Len(Algorithm) THEN Algorithm[i] ELSE h[i - Len(Algorithm)]
      BY <1>2, AlgorithmText, ConcatProperties DEF Text
    <2> HIDE DEF d
    <2> QED
      BY <2>1, AlgorithmText
  <1>6. DOMAIN d = 1 .. 3 + Len(h)
    BY <1>5, LenProperties DEF Text
  <1> HIDE DEF d
  <1>7. ASSUME NEW i \in 1 .. 3 + Len(h) PROVE d[i] \notin UpperCase /\ d[i] # "/"
    <2>1. CASE i <= 3
      <3>1. i \in {1, 2, 3}
        BY <1>1, <2>1
      <3>2. Algorithm[1] = "b" /\ Algorithm[2] = "3" /\ Algorithm[3] = ":"
        BY DEF Algorithm
      <3>3. d[i] \in {"b", "3", ":"}
        BY <1>5, <2>1, <3>1, <3>2
      <3> QED
        BY <3>3, Alphabets
    <2>2. CASE ~ (i <= 3)
      <3>1. i - 3 \in 1 .. Len(h)
        BY <1>1, <2>2
      <3> QED
        BY <1>1, <1>5, <2>2, <3>1, Alphabets
    <2> QED
      BY <2>1, <2>2
  <1>8. Lower(d) = d /\ d \in Slashless
    BY <1>5, <1>6, <1>7, LowerIs DEF Slashless
  <1>9. Lower(h) = h /\ h \in Slashless
    BY <1>1, <1>2, Alphabets, LowerIs DEF Slashless
  <1> QED
    BY <1>2, <1>4, <1>8, <1>9 DEF d

LEMMA DigestIs ==
    ASSUME NEW s \in Text
    PROVE  Digest(s) = Raises \/ IsDigest(Digest(s))
  <1> DEFINE d == Lower(s)
             h == HexOf(d)
  <1>1. d \in Text
    BY LowerIs
  <1>2. h \in Text /\ (h = d \/ d = Algorithm \o h)
    BY <1>1, AlgorithmText, PrefixRemoved DEF HexOf
  <1>3. ASSUME Digest(s) # Raises PROVE IsDigest(Digest(s))
    <2>1. Digest(s) = d /\ Len(h) \in 1 .. DigestMax /\ Range(h) \subseteq HexDigits
      BY <1>3 DEF Digest
    <2> HIDE DEF d, h
    <2>2. h \in Seq(HexDigits)
      BY <1>2, <2>1, RangeSeq
    <2> QED
      BY <1>2, <2>1, <2>2 DEF IsDigest
  <1> QED
    BY <1>3

LEMMA DigestKept ==
    ASSUME NEW d, IsDigest(d)
    PROVE  /\ d \in Slashless /\ Digest(d) = d
           /\ HexOf(d) \in Seq(HexDigits) /\ Len(HexOf(d)) \in 1 .. DigestMax
  <1>1. PICK h \in Seq(HexDigits) : Len(h) \in 1 .. DigestMax /\ d \in {h, Algorithm \o h}
    BY DEF IsDigest
  <1>2. HexOf(d) = h /\ Lower(d) = d /\ d \in Slashless
    BY <1>1, HexIs
  <1>3. Range(h) \subseteq HexDigits
    BY SeqRange
  <1>4. Digest(d) = d
    BY <1>1, <1>2, <1>3 DEF Digest
  <1> QED
    BY <1>1, <1>2, <1>4

-----------------------------------------------------------------------------
(***************************************************************************)
(* Searching and trimming.                                                 *)
(***************************************************************************)

LEMMA FindIs ==
    ASSUME NEW s \in Text, NEW c, NEW i \in 1 .. Len(s), s[i] = c,
           \A j \in 1 .. i - 1 : s[j] # c
    PROVE  Find(s, c) = i
  <1> DEFINE I == {j \in 1 .. Len(s) : s[j] = c}
  <1>1. Find(s, c) = Min(I)
    BY DEF Find, SelectInSeq
  <1>2. Len(s) \in Nat /\ I \subseteq 1 .. Len(s) /\ i \in I
    BY DEF Text
  <1>3. \A j \in I : i <= j
    BY <1>2
  <1>4. \A m \in I : (\A j \in I : m <= j) => m = i
    BY <1>2, <1>3
  <1> HIDE DEF I
  <1>5. Min(I) = i
    BY <1>2, <1>3, <1>4 DEF Min
  <1> QED
    BY <1>1, <1>5

LEMMA FindNothing ==
    ASSUME NEW s \in Text, NEW c, \A i \in DOMAIN s : s[i] # c
    PROVE  Find(s, c) = 0
  <1>1. {j \in 1 .. Len(s) : s[j] = c} = {}
    BY LenProperties DEF Text
  <1> QED
    BY <1>1 DEF Find, SelectInSeq

\* What Find finds.
LEMMA FindSome ==
    ASSUME NEW s \in Text, NEW c, Find(s, c) # 0
    PROVE  Find(s, c) \in 1 .. Len(s)
  <1> DEFINE I == {j \in 1 .. Len(s) : s[j] = c}
  <1>1. Len(s) \in Nat /\ I \subseteq Nat
    BY DEF Text
  <1>2. I # {} /\ Find(s, c) = Min(I)
    BY DEF Find, SelectInSeq
  <1>3. I \subseteq 1 .. Len(s)
    OBVIOUS
  <1> HIDE DEF I
  <1>4. \E x \in I : \A y \in I : x <= y
    BY <1>1, <1>2, Smallest
  <1>5. Min(I) \in I
    BY <1>4 DEF Min
  <1> QED
    BY <1>2, <1>3, <1>5

LEMMA TrimmedIs ==
    ASSUME NEW s \in Text
    PROVE  /\ Trimmed(s) \in Text
           /\ s = <<>> => Trimmed(s) = <<>>
           /\ s # <<>> /\ s[Len(s)] # "/" => Trimmed(s) = s
  <1> DEFINE I == {j \in 1 .. Len(s) : s[j] # "/"}
             last == SelectLastInSeq(s, LAMBDA c : c # "/")
  <1>1. Len(s) \in Nat /\ I \subseteq 1 .. Len(s) /\ I \subseteq Nat
    BY DEF Text
  <1>2. last = IF I # {} THEN Max(I) ELSE 0
    BY DEF SelectLastInSeq
  <1>3. Trimmed(s) = SubSeq(s, 1, last)
    BY DEF Trimmed
  <1>4. Len(s) \in I => Max(I) = Len(s)
    <2> SUFFICES ASSUME Len(s) \in I PROVE Max(I) = Len(s)
      OBVIOUS
    <2>1. \A j \in I : Len(s) >= j
      BY <1>1
    <2>2. \A m \in I : (\A j \in I : m >= j) => m = Len(s)
      BY <1>1, <2>1
    <2> HIDE DEF I
    <2> QED
      BY <2>1, <2>2 DEF Max
  <1>5. I # {} => Max(I) \in I
    <2> SUFFICES ASSUME I # {} PROVE Max(I) \in I
      OBVIOUS
    <2> DEFINE D == {Len(s) - j : j \in I}
    <2>1. D \subseteq Nat /\ D # {}
      BY <1>1
    <2> HIDE DEF D
    <2>2. PICK x \in D : \A y \in D : x <= y
      BY <2>1, Smallest
    <2>3. PICK m \in I : x = Len(s) - m
      BY <2>2 DEF D
    <2>4. \A j \in I : Len(s) - j \in D
      BY DEF D
    <2> HIDE DEF I
    <2>5. \A j \in I : m >= j
      <3>1. ASSUME NEW j \in I PROVE m >= j
        <4>1. x <= Len(s) - j
          BY <2>2, <2>4
        <4>2. m \in Nat /\ j \in Nat
          BY <1>1, <2>3, <3>1
        <4> QED
          BY <1>1, <2>3, <4>1, <4>2
      <3> QED
        BY <3>1
    <2> QED
      BY <2>3, <2>5 DEF Max
  <1>6. s # <<>> => Len(s) \in 1 .. Len(s)
    BY <1>1 DEF Text
  <1>7. s # <<>> /\ s[Len(s)] # "/" => Len(s) \in I
    BY <1>6
  <1> HIDE DEF I, last
  <1>8. last \in 0 .. Len(s)
    <2>1. CASE I = {}
      BY <1>1, <1>2, <2>1
    <2>2. CASE I # {}
      <3>1. last \in I
        BY <1>2, <1>5, <2>2
      <3>2. last \in 1 .. Len(s)
        BY <1>1, <3>1
      <3> QED
        BY <1>1, <3>2
    <2> QED
      BY <2>1, <2>2
  <1>9. Trimmed(s) \in Text
    BY <1>1, <1>3, <1>8 DEF Text
  <1>10. s = <<>> => Trimmed(s) = <<>>
    <2> SUFFICES ASSUME s = <<>> PROVE Trimmed(s) = <<>>
      OBVIOUS
    <2>1. last = 0
      BY <1>8, EmptySeq
    <2> QED
      BY <1>3, <2>1, SubSeqEmpty
  <1>11. s # <<>> /\ s[Len(s)] # "/" => Trimmed(s) = s
    <2> SUFFICES ASSUME s # <<>>, s[Len(s)] # "/" PROVE Trimmed(s) = s
      OBVIOUS
    <2>1. last = Len(s)
      BY <1>2, <1>4, <1>7
    <2> QED
      BY <1>3, <2>1, SubSeqFull DEF Text
  <1> QED
    BY <1>9, <1>10, <1>11

-----------------------------------------------------------------------------
(***************************************************************************)
(* Paths.                                                                  *)
(***************************************************************************)

\* The names a path is made of.
GoodNames == {h \in Slashless : Usable(h)}

IsPath(p) ==
    \/ p = <<"/">>
    \/ \E names \in Seq(GoodNames) : names # <<>> /\ p = Slashed(names)

LEMMA NamesSlashless ==
    /\ GoodNames \subseteq Slashless /\ Seq(GoodNames) \subseteq Seq(Slashless)
    /\ \A h \in GoodNames : h # <<>>
  <1>1. GoodNames \subseteq Slashless /\ \A h \in GoodNames : h # <<>>
    BY DEF GoodNames, Usable
  <1>2. ASSUME NEW names \in Seq(GoodNames) PROVE names \in Seq(Slashless)
    BY <1>1, SeqMonotonic
  <1> QED
    BY <1>1, <1>2

\* A path whose last part is no empty one does not end with a slash.
LEMMA LastCharacter ==
    ASSUME NEW parts \in Seq(Slashless), parts # <<>>, parts[Len(parts)] # <<>>,
           NEW t \in Text, Slashed(parts) = <<"/">> \o t
    PROVE  t # <<>> /\ t[Len(t)] # "/"
  <1>1. PICK ps \in Seq(Slashless), x \in Slashless : parts = Append(ps, x)
    BY SequenceEmptyOrAppend
  <1>2. parts[Len(parts)] = x
    BY <1>1, AppendProperties
  <1>3. ps \in Seq(Text) /\ x \in Text
    BY SlashlessText
  <1> DEFINE u == Append(Slashed(ps), "/")
  <1>4. u \in Text /\ Len(u) \in Nat /\ Len(u) >= 1
    <2>1. Slashed(ps) \in Text
      BY <1>3, SlashedType
    <2> QED
      BY <2>1, Letters, AppendProperties, LenProperties DEF Text
  <1>5. u \o x = <<"/">> \o t
    BY <1>1, <1>3, SlashedAppend
  <1> HIDE DEF u
  <1>6. /\ Len(x) \in Nat /\ Len(x) >= 1
        /\ Len(u \o x) = Len(u) + Len(x) /\ (u \o x)[Len(u) + Len(x)] = x[Len(x)]
        /\ x[Len(x)] # "/"
    <2>1. Len(x) \in Nat /\ Len(x) # 0
      BY <1>2, <1>3, EmptySeq DEF Text
    <2>2. Len(x) \in DOMAIN x
      BY <1>3, <2>1 DEF Text
    <2>3. x[Len(x)] # "/"
      BY <2>2 DEF Slashless
    <2> QED
      BY <1>3, <1>4, <2>1, <2>3 DEF Text
  <1>7. /\ Len(t) \in Nat /\ Len(<<"/">> \o t) = Len(t) + 1
        /\ \A i \in 1 .. Len(t) : (<<"/">> \o t)[i + 1] = t[i]
    BY Letters DEF Text
  <1>8. Len(t) + 1 = Len(u) + Len(x)
    BY <1>5, <1>6, <1>7
  <1>9. Len(t) \in 1 .. Len(t) /\ (<<"/">> \o t)[Len(t) + 1] = t[Len(t)]
    BY <1>4, <1>6, <1>7, <1>8
  <1> QED
    BY <1>5, <1>6, <1>8, <1>9, EmptySeq

\* _path of parts that decode to names is the path of these.
LEMMA PathOf ==
    ASSUME NEW parts \in Seq(Slashless), parts # <<>>, NEW names \in Seq(GoodNames),
           Len(names) = Len(parts),
           \A i \in 1 .. Len(parts) : parts[i] # <<>> /\ Unquote(parts[i]) = names[i],
           NEW t \in Text, Slashed(parts) = <<"/">> \o t
    PROVE  Path(t) = Slashed(names)
  <1>1. Len(parts) \in Nat /\ Len(parts) >= 1 /\ DOMAIN parts = 1 .. Len(parts)
    BY EmptySeq, LenProperties
  <1>2. Split(t) = parts
    <2>1. PICK w \in Text : Slashed(parts) = <<"/">> \o w /\ Split(w) = parts
      BY PathParts
    <2>2. w = t
      <3>1. <<"/">> \in Seq(Characters) /\ w \in Seq(Characters) /\ t \in Seq(Characters)
        BY Letters DEF Text
      <3> QED
        BY <2>1, <3>1, ConcatSimplifications, Zenon
    <2> QED
      BY <2>1, <2>2
  <1>3. parts[Len(parts)] # <<>>
    BY <1>1
  <1>4. t # <<>> /\ Trimmed(t) = t
    BY <1>3, LastCharacter, TrimmedIs
  <1> DEFINE decoded == [i \in DOMAIN parts |-> Unquote(parts[i])]
  <1>5. decoded = names
    <2>1. names = [i \in 1 .. Len(names) |-> names[i]]
      OBVIOUS
    <2> QED
      BY <1>1, <2>1
  <1>6. \A i \in DOMAIN names : "/" \notin Range(names[i]) /\ Usable(names[i])
    <2>1. ASSUME NEW i \in DOMAIN names PROVE names[i] \in GoodNames
      BY ElementOfSeq, LenProperties
    <2> QED
      BY <2>1 DEF GoodNames, Slashless, Range
  <1>7. Path(t) = IF \E i \in DOMAIN decoded : "/" \in Range(decoded[i]) \/ ~ Usable(decoded[i])
                  THEN Raises ELSE Slashed(decoded)
    BY <1>2, <1>4 DEF Path
  <1> HIDE DEF decoded
  <1> QED
    BY <1>5, <1>6, <1>7

LEMMA PathIs ==
    ASSUME NEW rest \in Text
    PROVE  Path(rest) = Raises \/ IsPath(Path(rest))
  <1> DEFINE parts == Split(Trimmed(rest))
             decoded == [i \in DOMAIN parts |-> Unquote(parts[i])]
  <1>1. parts \in Seq(Slashless) /\ parts # <<>>
    BY TrimmedIs, SplitType
  <1>2. Len(parts) \in Nat /\ Len(parts) # 0 /\ DOMAIN parts = 1 .. Len(parts)
    BY <1>1, EmptySeq, LenProperties
  <1>3. CASE Trimmed(rest) = <<>>
    BY <1>3 DEF Path, IsPath
  <1>4. CASE Trimmed(rest) # <<>>
    <2>1. Path(rest) = IF \E i \in DOMAIN decoded : "/" \in Range(decoded[i]) \/ ~ Usable(decoded[i])
                       THEN Raises ELSE Slashed(decoded)
      BY <1>4 DEF Path
    <2> HIDE DEF parts
    <2>2. CASE \A i \in DOMAIN decoded : "/" \notin Range(decoded[i]) /\ Usable(decoded[i])
      <3>1. ASSUME NEW i \in 1 .. Len(parts) PROVE decoded[i] \in GoodNames
        <4>1. parts[i] \in Text
          BY <1>1, SlashlessText, ElementOfSeq
        <4>2. decoded[i] \in Text
          BY <1>2, <4>1, PiecesType
        <4> QED
          BY <1>2, <2>2, <4>2 DEF GoodNames, Slashless, Range
      <3>2. decoded \in [1 .. Len(parts) -> GoodNames]
        BY <1>2, <3>1
      <3>3. decoded \in Seq(GoodNames) /\ Len(decoded) = Len(parts)
        <4>1. DOMAIN decoded = 1 .. Len(parts)
          BY <1>2
        <4> HIDE DEF decoded
        <4>2. decoded \in Seq(GoodNames)
          BY <1>2, <3>2, SeqDef
        <4> QED
          BY <1>2, <4>1, <4>2, LenProperties
      <3> HIDE DEF decoded
      <3>4. decoded # <<>>
        BY <1>2, <3>3, EmptySeq
      <3> QED
        BY <2>1, <2>2, <3>3, <3>4 DEF IsPath
    <2>3. CASE ~ \A i \in DOMAIN decoded : "/" \notin Range(decoded[i]) /\ Usable(decoded[i])
      BY <2>1, <2>3
    <2> QED
      BY <2>2, <2>3
  <1> QED
    BY <1>3, <1>4

\* What a path is printed as, and what it parses to.
PathText(path) ==
    LET segments == Tail(Split(path))
    IN  CASE path = None -> <<>>
          [] path = <<"/">> -> <<"/">>
          [] OTHER -> Slashed([i \in DOMAIN segments |-> Quote(segments[i])])

LEMMA PathPrinted ==
    ASSUME NEW p, IsPath(p)
    PROVE  /\ p \in Text
           /\ \E t \in Text : PathText(p) = <<"/">> \o t /\ Path(t) = p
  <1>1. CASE p = <<"/">>
    <2>1. p \in Text /\ <<>> \in Text
      BY <1>1, Letters DEF Text
    <2>2. p # None
      BY <2>1, IsSomething
    <2>3. PathText(p) = <<"/">>
      BY <1>1, <2>2 DEF PathText
    <2>4. Path(<<>>) = <<"/">>
      BY <2>1, TrimmedIs DEF Path
    <2>5. <<"/">> = <<"/">> \o <<>>
      OBVIOUS
    <2> QED
      BY <1>1, <2>1, <2>3, <2>4, <2>5
  <1>2. CASE p # <<"/">>
    <2>1. PICK names \in Seq(GoodNames) : names # <<>> /\ p = Slashed(names)
      BY <1>2 DEF IsPath
    <2>2. names \in Seq(Slashless) /\ Len(names) \in Nat /\ DOMAIN names = 1 .. Len(names)
      BY NamesSlashless, LenProperties
    <2>3. p \in Text /\ Tail(Split(p)) = names
      BY <2>1, <2>2, PathParts
    <2>4. p # None
      BY <2>3, IsSomething
    <2> DEFINE quoted == [i \in DOMAIN names |-> Quote(names[i])]
    <2>5. PathText(p) = Slashed(quoted)
      BY <1>2, <2>3, <2>4 DEF PathText
    <2>6. ASSUME NEW i \in 1 .. Len(names)
          PROVE  quoted[i] \in Slashless /\ quoted[i] # <<>> /\ Unquote(quoted[i]) = names[i]
      <3>1. names[i] \in Slashless /\ names[i] \in Text /\ names[i] # <<>>
        BY ElementOfSeq, NamesSlashless, SlashlessText
      <3>2. quoted[i] = Quote(names[i])
        BY <2>2
      <3> HIDE DEF quoted
      <3> QED
        BY <3>1, <3>2, UnquoteQuote
    <2>7. quoted \in Seq(Slashless) /\ Len(quoted) = Len(names)
      <3>1. quoted \in [1 .. Len(names) -> Slashless] /\ DOMAIN quoted = 1 .. Len(names)
        BY <2>2, <2>6
      <3> HIDE DEF quoted
      <3>2. quoted \in Seq(Slashless)
        BY <2>2, <3>1, SeqDef
      <3> QED
        BY <2>2, <3>1, <3>2, LenProperties
    <2> HIDE DEF quoted
    <2>8. quoted # <<>>
      BY <2>1, <2>2, <2>7, EmptySeq
    <2>9. PICK t \in Text : Slashed(quoted) = <<"/">> \o t
      BY <2>7, <2>8, PathParts
    <2>10. Path(t) = Slashed(names)
      BY <2>6, <2>7, <2>8, <2>9, PathOf
    <2> QED
      BY <2>1, <2>3, <2>5, <2>9, <2>10
  <1> QED
    BY <1>1, <1>2

-----------------------------------------------------------------------------
(***************************************************************************)
(* Refs.                                                                   *)
(***************************************************************************)

IsRef(r) ==
    /\ r = Fields(r.namespace, r.volume, r.tag, r.digest, r.path)
    /\ IsName(r.namespace, ReservedNamespaces)
    /\ r.volume = None \/ IsName(r.volume, ReservedVolumes)
    /\ r.volume = None => r.tag = None /\ r.digest = None /\ r.path = None
    /\ r.tag = None \/ IsTag(r.tag)
    /\ r.digest = None \/ IsDigest(r.digest)
    /\ r.path = None \/ IsPath(r.path)
    /\ r.tag = None \/ r.digest = None

\* No part of a ref is none, and none raises.
LEMMA PartsAreSomething ==
    ASSUME NEW x
    PROVE  /\ \A reserved : IsName(x, reserved) => x # None /\ x # Raises
           /\ IsTag(x) => x # None /\ x # Raises
           /\ IsDigest(x) => x # None /\ x # Raises
           /\ IsPath(x) => x # None /\ x # Raises
           /\ None # Raises
  <1>1. None # Raises
    BY DEF None, Raises
  <1>2. x \in Text => x # None /\ x # Raises
    BY IsSomething
  <1>3. \A reserved : IsName(x, reserved) => x \in Text
    BY NameKept, SlashlessText
  <1>4. IsTag(x) => x \in Text
    BY TagKept, SlashlessText
  <1>5. IsDigest(x) => x \in Text
    BY DigestKept, SlashlessText
  <1>6. IsPath(x) => x \in Text
    BY PathPrinted
  <1> QED
    BY <1>1, <1>2, <1>3, <1>4, <1>5, <1>6

\* The constructor raises, or has a ref of the parts it is given.
LEMMA RefIs ==
    ASSUME NEW n, NEW v, NEW t, NEW d, NEW p,
           n = Raises \/ IsName(n, ReservedNamespaces),
           v \in {None, Raises} \/ IsName(v, ReservedVolumes),
           t \in {None, Raises} \/ IsTag(t),
           d \in {None, Raises} \/ IsDigest(d),
           p \in {None, Raises} \/ IsPath(p)
    PROVE  \/ Ref(n, v, t, d, p) = NotARef
           \/ IsRef(Ref(n, v, t, d, p)) /\ Ref(n, v, t, d, p) = Fields(n, v, t, d, p)
  <1> SUFFICES ASSUME Ref(n, v, t, d, p) # NotARef
               PROVE  IsRef(Ref(n, v, t, d, p)) /\ Ref(n, v, t, d, p) = Fields(n, v, t, d, p)
    OBVIOUS
  <1>1. /\ Raises \notin {n, v, t, d, p}
        /\ ~ (v = None /\ {t, d, p} # {None})
        /\ ~ (t # None /\ d # None)
        /\ Ref(n, v, t, d, p) = Fields(n, v, t, d, p)
    BY DEF Ref
  <1>2. v = None => t = None /\ d = None /\ p = None
    BY <1>1
  <1> DEFINE r == Fields(n, v, t, d, p)
  <1>3. r.namespace = n /\ r.volume = v /\ r.tag = t /\ r.digest = d /\ r.path = p
    BY DEF Fields
  <1> HIDE DEF r
  <1>4. IsRef(r)
    <2>1. r = Fields(r.namespace, r.volume, r.tag, r.digest, r.path)
      BY <1>3 DEF r
    <2> QED
      BY <2>1, <1>1, <1>2, <1>3 DEF IsRef
  <1> QED
    BY <1>1, <1>4 DEF r

\* A ref is neither what raised nor what the caller starts with, and it is
\* made of its own parts.
LEMMA RefKept ==
    ASSUME NEW r, IsRef(r)
    PROVE  /\ r # NotARef /\ r # NoRef
           /\ Ref(r.namespace, r.volume, r.tag, r.digest, r.path) = r
  <1>1. r.namespace # None /\ r.namespace # Raises
    BY PartsAreSomething DEF IsRef
  <1>2. NotARef.namespace = Raises /\ NoRef.namespace = None
    BY DEF NotARef, NoRef, Fields
  <1>3. /\ r.volume # Raises /\ r.tag # Raises /\ r.digest # Raises /\ r.path # Raises
    BY PartsAreSomething DEF IsRef
  <1>4. Raises \notin {r.namespace, r.volume, r.tag, r.digest, r.path}
    BY <1>1, <1>3
  <1>5. /\ ~ (r.volume = None /\ {r.tag, r.digest, r.path} # {None})
        /\ ~ (r.tag # None /\ r.digest # None)
        /\ r = Fields(r.namespace, r.volume, r.tag, r.digest, r.path)
    BY DEF IsRef
  <1>6. Ref(r.namespace, r.volume, r.tag, r.digest, r.path) = r
    BY <1>4, <1>5 DEF Ref
  <1> QED
    BY <1>1, <1>2, <1>6

-----------------------------------------------------------------------------
(***************************************************************************)
(* Parsing.                                                                *)
(***************************************************************************)

\* What is before and after a character.
LEMMA AroundIt ==
    ASSUME NEW s \in Text, NEW i \in 1 .. Len(s)
    PROVE  Until(s, i) \in Text /\ Beyond(s, i) \in Text
  <1>1. Len(s) \in Nat
    BY DEF Text
  <1> QED
    BY <1>1, SubSeqProperties DEF Until, Beyond, Text

\* The second segment gives a name, and a tag or a digest, or raises.
LEMMA SelectorIs ==
    ASSUME NEW s \in Text
    PROVE  /\ Selector(s).name \in Text
           /\ Selector(s).tag \in {None, Raises} \/ IsTag(Selector(s).tag)
           /\ Selector(s).digest \in {None, Raises} \/ IsDigest(Selector(s).digest)
  <1> DEFINE a == Find(s, "@")
             c == Find(s, ":")
  <1>1. a # 0 => a \in 1 .. Len(s)
    BY FindSome
  <1>2. c # 0 => c \in 1 .. Len(s)
    BY FindSome
  <1>3. Selector(s) = CASE a # 0 -> [name |-> Until(s, a), tag |-> None,
                                     digest |-> Digest(Beyond(s, a))]
                        [] a = 0 /\ c # 0 -> [name |-> Until(s, c), tag |-> Tag(Beyond(s, c)),
                                              digest |-> None]
                        [] OTHER -> [name |-> s, tag |-> None, digest |-> None]
    BY DEF Selector
  <1> HIDE DEF a, c
  <1>4. CASE a # 0
    <2>1. Until(s, a) \in Text /\ Beyond(s, a) \in Text
      BY <1>1, <1>4, AroundIt
    <2>2. Digest(Beyond(s, a)) = Raises \/ IsDigest(Digest(Beyond(s, a)))
      BY <2>1, DigestIs
    <2>3. Selector(s) = [name |-> Until(s, a), tag |-> None, digest |-> Digest(Beyond(s, a))]
      BY <1>3, <1>4
    <2> QED
      BY <2>1, <2>2, <2>3
  <1>5. CASE a = 0 /\ c # 0
    <2>1. Until(s, c) \in Text /\ Beyond(s, c) \in Text
      BY <1>2, <1>5, AroundIt
    <2>2. Tag(Beyond(s, c)) = Raises \/ IsTag(Tag(Beyond(s, c)))
      BY <2>1, TagIs
    <2>3. Selector(s) = [name |-> Until(s, c), tag |-> Tag(Beyond(s, c)), digest |-> None]
      BY <1>3, <1>5
    <2> QED
      BY <2>1, <2>2, <2>3
  <1>6. CASE a = 0 /\ c = 0
    BY <1>3, <1>6
  <1> QED
    BY <1>4, <1>5, <1>6

\* What is beyond a position, be there any or not.
LEMMA BeyondType ==
    ASSUME NEW s \in Text, NEW k \in Nat
    PROVE  Beyond(s, k) \in Text
  <1>1. Len(s) \in Nat /\ k + 1 \in Int
    BY DEF Text
  <1>2. \A i \in k + 1 .. Len(s) : s[i] \in Characters
    BY <1>1, ElementOfSeq DEF Text
  <1> QED
    BY <1>1, <1>2, SubSeqProperties DEF Beyond, Text

LEMMA JoinedAt ==
    ASSUME NEW s \in Text, NEW t \in Text
    PROVE  SubSeq(s \o t, 1, Len(s)) = s /\ Beyond(s \o t, Len(s)) = t
  <1>1. Len(s) \in Nat /\ Len(t) \in Nat /\ Len(s \o t) = Len(s) + Len(t)
    BY DEF Text
  <1>2. SubSeq(s \o t, 1, Len(s)) = s
    BY <1>1 DEF Text
  <1>3. SubSeq(s \o t, Len(s) + 1, Len(s) + Len(t)) = t
    BY <1>1 DEF Text
  <1> QED
    BY <1>1, <1>2, <1>3 DEF Beyond

\* A character that is not in what is before it is found, and what is around
\* it taken apart again.
LEMMA AroundFound ==
    ASSUME NEW v \in Text, NEW c \in Characters, NEW x \in Text,
           \A i \in DOMAIN v : v[i] # c
    PROVE  LET s == v \o (<<c>> \o x)
           IN  /\ s \in Text /\ Find(s, c) = Len(v) + 1
               /\ Until(s, Len(v) + 1) = v /\ Beyond(s, Len(v) + 1) = x
  <1> DEFINE y == <<c>> \o x
             s == v \o y
  <1>1. /\ <<c>> \in Text /\ Len(<<c>>) = 1
        /\ Len(v) \in Nat /\ Len(x) \in Nat /\ DOMAIN v = 1 .. Len(v)
    BY DEF Text
  <1>2. y \in Text /\ Len(y) = Len(x) + 1 /\ y[1] = c
    BY <1>1 DEF Text
  <1>3. s = Append(v, c) \o x
    <2>1. v \o <<c>> = Append(v, c)
      BY AppendIsConcat DEF Text
    <2>2. v \o (<<c>> \o x) = (v \o <<c>>) \o x
      BY <1>1, ConcatAssociative DEF Text
    <2> QED
      BY <2>1, <2>2
  <1> HIDE DEF y
  <1>4. /\ s \in Text /\ Len(s) = Len(v) + 1 + Len(x)
        /\ s[Len(v) + 1] = c
        /\ \A i \in 1 .. Len(v) : s[i] = v[i]
    BY <1>1, <1>2 DEF Text
  <1>5. Until(s, Len(v) + 1) = v
    <2>1. SubSeq(s, 1, Len(v)) = v
      BY <1>2, JoinedAt
    <2>2. Len(v) + 1 - 1 = Len(v)
      BY <1>1
    <2> HIDE DEF s
    <2> QED
      BY <2>1, <2>2 DEF Until
  <1>6. Beyond(s, Len(v) + 1) = x
    <2>1. Append(v, c) \in Text /\ Len(Append(v, c)) = Len(v) + 1
      BY AppendProperties DEF Text
    <2> DEFINE a == Append(v, c)
    <2>2. s = a \o x
      BY <1>3
    <2>3. a \in Text /\ Len(a) = Len(v) + 1
      BY <2>1
    <2> HIDE DEF a, s
    <2>4. Beyond(a \o x, Len(a)) = x
      BY <2>3, JoinedAt
    <2> QED
      BY <2>2, <2>3, <2>4
  <1> HIDE DEF s
  <1>7. Len(v) + 1 \in 1 .. Len(s) /\ \A j \in 1 .. (Len(v) + 1) - 1 : s[j] # c
    BY <1>1, <1>4
  <1>8. Find(s, c) = Len(v) + 1
    BY <1>4, <1>7, FindIs
  <1> QED
    BY <1>4, <1>5, <1>6, <1>8 DEF s, y

LEMMA ParseIs ==
    ASSUME NEW text \in Text
    PROVE  Parse(text) = NotARef \/ IsRef(Parse(text))
  <1>0. PICK segments : segments = Split(text)
    OBVIOUS
  <1> DEFINE namespace == Name(segments[1], ReservedNamespaces)
             point == Selector(segments[2])
             rest == Beyond(text, Len(segments[1]) + Len(segments[2]) + 2)
             path == IF Len(segments) > 2 THEN Path(rest) ELSE None
  <1>1. segments \in Seq(Slashless) /\ segments # <<>>
    BY <1>0, SplitType
  <1>2. Parse(text) =
          IF Len(segments) = 1 \/ Tail(segments) = << <<>> >>
          THEN Ref(namespace, None, None, None, None)
          ELSE Ref(namespace, Name(point.name, ReservedVolumes), point.tag, point.digest, path)
    BY <1>0 DEF Parse
  <1>3. Len(segments) \in Nat /\ Len(segments) >= 1
    BY <1>1, EmptySeq
  <1>4. segments[1] \in Text
    BY <1>1, <1>3, ElementOfSeq, SlashlessText
  <1>5. namespace = Raises \/ IsName(namespace, ReservedNamespaces)
    BY <1>4, NameIs
  <1>6. CASE Len(segments) = 1 \/ Tail(segments) = << <<>> >>
    <2> HIDE DEF namespace
    <2> QED
      BY <1>2, <1>5, <1>6, RefIs
  <1>7. CASE ~ (Len(segments) = 1 \/ Tail(segments) = << <<>> >>)
    <2>0. 2 \in 1 .. Len(segments)
      <3>1. Len(segments) # 1
        BY <1>7
      <3>2. \A m \in Nat : m >= 1 /\ m # 1 => 2 \in 1 .. m
        OBVIOUS
      <3> QED
        BY <1>3, <3>1, <3>2
    <2>1. segments[2] \in Text
      BY <1>1, <2>0, ElementOfSeq, SlashlessText
    <2>2. /\ point.name \in Text
          /\ point.tag \in {None, Raises} \/ IsTag(point.tag)
          /\ point.digest \in {None, Raises} \/ IsDigest(point.digest)
      BY <2>1, SelectorIs
    <2>3. rest \in Text
      <3>1. Len(segments[1]) \in Nat /\ Len(segments[2]) \in Nat
        BY <1>4, <2>1 DEF Text
      <3>2. \A m, n \in Nat : m + n + 2 \in Nat
        OBVIOUS
      <3>3. Len(segments[1]) + Len(segments[2]) + 2 \in Nat
        BY <3>1, <3>2
      <3> QED
        BY <3>3, BeyondType
    <2>4. path \in {None, Raises} \/ IsPath(path)
      <3> HIDE DEF rest
      <3>1. Path(rest) = Raises \/ IsPath(Path(rest))
        BY <2>3, PathIs
      <3>2. path = Path(rest) \/ path = None
        OBVIOUS
      <3> HIDE DEF path
      <3> QED
        BY <3>1, <3>2
    <2> DEFINE volume == Name(point.name, ReservedVolumes)
    <2> HIDE DEF point, path, namespace
    <2>5. volume \in {None, Raises} \/ IsName(volume, ReservedVolumes)
      BY <2>2, NameIs
    <2>6. Parse(text) = Ref(namespace, volume, point.tag, point.digest, path)
      BY <1>2, <1>7
    <2> HIDE DEF volume
    <2> QED
      BY <1>5, <2>2, <2>4, <2>5, <2>6, RefIs
  <1> QED
    BY <1>6, <1>7

-----------------------------------------------------------------------------
(***************************************************************************)
(* What a ref is printed as parses to it.                                  *)
(***************************************************************************)

PointText(tag, digest) ==
    CASE digest # None -> <<"@">> \o digest
      [] digest = None /\ tag # None -> <<":">> \o tag
      [] OTHER -> <<>>

\* A volume and its version are one segment, and read back.
LEMMA SelectorOf ==
    ASSUME NEW v, IsName(v, ReservedVolumes),
           NEW t, t = None \/ IsTag(t),
           NEW d, d = None \/ IsDigest(d), t = None \/ d = None
    PROVE  /\ v \o PointText(t, d) \in Slashless
           /\ Selector(v \o PointText(t, d)).name = v
           /\ Selector(v \o PointText(t, d)).tag = t
           /\ Selector(v \o PointText(t, d)).digest = d
  <1>1. /\ v \in Slashless /\ v \in Text
        /\ \A i \in DOMAIN v : v[i] \notin {"/", "@", ":"}
    BY NameKept, SlashlessText
  <1>2. ASSUME NEW c \in {"@", ":"}, NEW x \in Slashless
        PROVE  v \o (<<c>> \o x) \in Slashless
    <2>1. c \in Characters /\ c # "/"
      BY Letters
    <2>2. x \in Text /\ Len(v) \in Nat /\ Len(x) \in Nat /\ DOMAIN v = 1 .. Len(v)
          /\ DOMAIN x = 1 .. Len(x)
      BY <1>1, SlashlessText DEF Text
    <2> DEFINE y == <<c>> \o x
    <2>3. y \in Text /\ Len(y) = 1 + Len(x) /\ y[1] = c
          /\ \A i \in 1 .. Len(x) : y[1 + i] = x[i]
      BY <2>1, <2>2 DEF Text
    <2> HIDE DEF y
    <2>4. \A i \in 1 .. Len(y) : y[i] # "/"
      <3> SUFFICES ASSUME NEW i \in 1 .. Len(y) PROVE y[i] # "/"
        OBVIOUS
      <3>1. CASE i = 1
        BY <2>1, <2>3, <3>1
      <3>2. CASE i # 1
        <4>1. i - 1 \in 1 .. Len(x) /\ 1 + (i - 1) = i
          BY <2>2, <2>3, <3>2
        <4>2. y[i] = x[i - 1]
          BY <2>3, <4>1
        <4> QED
          BY <2>2, <4>1, <4>2 DEF Slashless
      <3> QED
        BY <3>1, <3>2
    <2>5. /\ v \o y \in Text /\ Len(v \o y) = Len(v) + Len(y) /\ Len(y) \in Nat
          /\ DOMAIN (v \o y) = 1 .. Len(v \o y)
          /\ \A i \in 1 .. Len(v) : (v \o y)[i] = v[i]
          /\ \A i \in 1 .. Len(y) : (v \o y)[Len(v) + i] = y[i]
      <3>1. v \in Text /\ y \in Text
        BY <1>1, <2>3
      <3>2. v \o y \in Text /\ Len(v \o y) = Len(v) + Len(y) /\ Len(y) \in Nat
        BY <3>1 DEF Text
      <3>3. /\ \A i \in 1 .. Len(v) : (v \o y)[i] = v[i]
            /\ \A i \in 1 .. Len(y) : (v \o y)[Len(v) + i] = y[i]
        BY <3>1 DEF Text
      <3> QED
        BY <3>2, <3>3, LenProperties DEF Text
    <2>6. ASSUME NEW i \in 1 .. Len(v \o y) PROVE (v \o y)[i] # "/"
      <3>1. CASE i <= Len(v)
        <4>1. i \in 1 .. Len(v)
          BY <2>2, <2>5, <3>1
        <4> QED
          BY <1>1, <2>2, <2>5, <4>1
      <3>2. CASE ~ (i <= Len(v))
        <4>1. i - Len(v) \in 1 .. Len(y) /\ Len(v) + (i - Len(v)) = i
          BY <2>2, <2>5, <3>2
        <4> QED
          BY <2>4, <2>5, <4>1
      <3> QED
        BY <3>1, <3>2
    <2> QED
      BY <2>5, <2>6 DEF Slashless, y
  <1>3. CASE d # None
    <2> DEFINE s == v \o (<<"@">> \o d)
    <2>1. IsDigest(d) /\ t = None
      BY <1>3
    <2>2. d \in Slashless /\ d \in Text /\ Digest(d) = d
      BY <2>1, DigestKept, SlashlessText
    <2>3. v \o PointText(t, d) = s
      BY <1>3 DEF PointText
    <2>4. s \in Slashless
      BY <1>2, <2>2
    <2>5. /\ Find(s, "@") = Len(v) + 1
          /\ Until(s, Len(v) + 1) = v /\ Beyond(s, Len(v) + 1) = d
      BY <1>1, <2>2, Letters, AroundFound
    <2>6. Len(v) + 1 # 0
      BY <1>1 DEF Text
    <2> HIDE DEF s
    <2>7. Selector(s) = [name |-> v, tag |-> None, digest |-> d]
      BY <2>2, <2>5, <2>6 DEF Selector
    <2> QED
      BY <2>1, <2>3, <2>4, <2>7
  <1>4. CASE d = None /\ t # None
    <2> DEFINE s == v \o (<<":">> \o t)
    <2>1. IsTag(t)
      BY <1>4
    <2>2. t \in Slashless /\ t \in Text /\ Tag(t) = t
          /\ \A i \in DOMAIN t : t[i] \notin {"/", "@", ":"}
      BY <2>1, TagKept, SlashlessText
    <2>3. v \o PointText(t, d) = s
      BY <1>4 DEF PointText
    <2>4. s \in Slashless
      BY <1>2, <2>2
    <2>5. /\ Find(s, ":") = Len(v) + 1
          /\ Until(s, Len(v) + 1) = v /\ Beyond(s, Len(v) + 1) = t
      BY <1>1, <2>2, Letters, AroundFound
    <2>6. Len(v) + 1 # 0
      BY <1>1 DEF Text
    <2>7. Find(s, "@") = 0
      <3>1. /\ s \in Text /\ DOMAIN s = 1 .. Len(s)
            /\ Len(s) = Len(v) + 1 + Len(t) /\ Len(v) \in Nat /\ Len(t) \in Nat
            /\ DOMAIN v = 1 .. Len(v) /\ DOMAIN t = 1 .. Len(t)
            /\ \A i \in 1 .. Len(v) : s[i] = v[i]
            /\ s[Len(v) + 1] = ":"
            /\ \A i \in 1 .. Len(t) : s[Len(v) + 1 + i] = t[i]
        BY <1>1, <2>2, Letters DEF Text
      <3> HIDE DEF s
      <3>2. ASSUME NEW i \in 1 .. Len(s) PROVE s[i] # "@"
        <4>1. CASE i <= Len(v)
          <5>1. i \in 1 .. Len(v)
            BY <3>1, <4>1
          <5> QED
            BY <1>1, <3>1, <5>1
        <4>2. CASE i = Len(v) + 1
          BY <3>1, <4>2
        <4>3. CASE i > Len(v) + 1
          <5>1. i - (Len(v) + 1) \in 1 .. Len(t) /\ Len(v) + 1 + (i - (Len(v) + 1)) = i
            BY <3>1, <4>3
          <5>2. s[i] = t[i - (Len(v) + 1)]
            BY <3>1, <5>1
          <5>3. t[i - (Len(v) + 1)] # "@"
            BY <2>2, <3>1, <5>1
          <5> QED
            BY <5>2, <5>3
        <4> QED
          BY <3>1, <4>1, <4>2, <4>3
      <3> QED
        BY <3>1, <3>2, FindNothing
    <2> HIDE DEF s
    <2>8. Selector(s) = [name |-> v, tag |-> t, digest |-> None]
      BY <2>2, <2>5, <2>6, <2>7 DEF Selector
    <2> QED
      BY <1>4, <2>3, <2>4, <2>8
  <1>5. CASE d = None /\ t = None
    <2>1. v \o PointText(t, d) = v
      BY <1>1, <1>5 DEF PointText, Text
    <2>2. Find(v, "@") = 0 /\ Find(v, ":") = 0
      BY <1>1, FindNothing
    <2>3. Selector(v) = [name |-> v, tag |-> None, digest |-> None]
      BY <2>2 DEF Selector
    <2> QED
      BY <1>1, <1>5, <2>1, <2>3
  <1> QED
    BY <1>3, <1>4, <1>5

LEMMA JoinedTwice ==
    ASSUME NEW s \in Text, NEW t \in Text, NEW u \in Text
    PROVE  (s \o t) \o u = s \o (t \o u)
  BY ConcatAssociative DEF Text

LEMMA OnePart ==
    ASSUME NEW x \in Text
    PROVE  << x >> \in Seq(Text) /\ Len(<< x >>) = 1 /\ << x >>[1] = x
  OBVIOUS

LEMMA TailJoined ==
    ASSUME NEW x \in Text, NEW ss \in Seq(Text)
    PROVE  /\ << x >> \o ss \in Seq(Text) /\ Len(<< x >> \o ss) = Len(ss) + 1
           /\ (<< x >> \o ss)[1] = x /\ Tail(<< x >> \o ss) = ss
           /\ \A i \in 1 .. Len(ss) : (<< x >> \o ss)[i + 1] = ss[i]
  <1> DEFINE tt == << x >> \o ss
  <1>1. << x >> \in Seq(Text) /\ Len(<< x >>) = 1 /\ Len(ss) \in Nat
    OBVIOUS
  <1>2. /\ tt \in Seq(Text) /\ Len(tt) = Len(ss) + 1 /\ tt[1] = x
        /\ \A i \in 1 .. Len(ss) : tt[i + 1] = ss[i]
    BY <1>1
  <1> HIDE DEF tt
  <1>3. tt # <<>>
    BY <1>1, <1>2
  <1>4. /\ Tail(tt) \in Seq(Text) /\ Len(Tail(tt)) = Len(ss)
        /\ \A i \in 1 .. Len(ss) : Tail(tt)[i] = tt[i + 1]
    BY <1>1, <1>2, <1>3, HeadTailProperties
  <1>5. Tail(tt) = ss
    BY <1>1, <1>2, <1>4, SeqEqual
  <1> QED
    BY <1>2, <1>5 DEF tt

\* A printed namespace.
LEMMA NamespaceParses ==
    ASSUME NEW n, IsName(n, ReservedNamespaces)
    PROVE  Parse((n \o <<"/">>) \o <<>>) = Ref(n, None, None, None, None)
  <1>1. n \in Slashless /\ n \in Text /\ Name(n, ReservedNamespaces) = n
    BY NameKept, SlashlessText
  <1>2. PICK text : text = (n \o <<"/">>) \o <<>>
    OBVIOUS
  <1>3. text = Append(n, "/") \o <<>>
    BY <1>1, <1>2, AppendIsConcat, Letters DEF Text
  <1>4. <<>> \in Text
    BY DEF Text
  <1>5. Split(text) = << n >> \o << <<>> >>
    <2>1. Split(n) = <<n>>
      BY <1>1, SplitSlashless
    <2> QED
      BY <1>1, <1>3, <1>4, <2>1, SplitConcat, SplitEmpty
  <1>6. Split(text)[1] = n /\ Tail(Split(text)) = << <<>> >>
    <2> DEFINE e == << <<>> >>
    <2>0. e \in Seq(Text)
      BY <1>4, OnePart
    <2> HIDE DEF e
    <2>1. PICK ss \in Seq(Text) : ss = e
      BY <2>0
    <2>2. (<< n >> \o ss)[1] = n /\ Tail(<< n >> \o ss) = ss
      BY <1>1, TailJoined
    <2> QED
      BY <1>5, <2>1, <2>2 DEF e
  <1> QED
    BY <1>1, <1>2, <1>6 DEF Parse

\* A printed volume, with its version.
LEMMA VolumeParses ==
    ASSUME NEW n, IsName(n, ReservedNamespaces), NEW w \in Slashless, w # <<>>
    PROVE  Parse((n \o <<"/">>) \o w) =
               Ref(n, Name(Selector(w).name, ReservedVolumes), Selector(w).tag,
                   Selector(w).digest, None)
  <1>1. n \in Slashless /\ n \in Text /\ Name(n, ReservedNamespaces) = n /\ w \in Text
    BY NameKept, SlashlessText
  <1>2. PICK text : text = (n \o <<"/">>) \o w
    OBVIOUS
  <1>3. text = Append(n, "/") \o w
    BY <1>1, <1>2, AppendIsConcat, Letters DEF Text
  <1>4. Split(text) = << n >> \o << w >>
    BY <1>1, <1>3, SplitConcat, SplitSlashless
  <1>5. PICK segments : segments = Split(text)
    OBVIOUS
  <1>6. PICK ss \in Seq(Text) : ss = << w >> /\ Len(ss) = 1 /\ ss[1] = w
    <2> DEFINE e == << w >>
    <2>1. e \in Seq(Text) /\ Len(e) = 1 /\ e[1] = w
      BY <1>1, OnePart
    <2> HIDE DEF e
    <2> QED
      BY <2>1 DEF e
  <1>7. /\ Len(segments) = 2 /\ segments[1] = n /\ segments[2] = w
        /\ Tail(segments) = << w >>
    <2>1. /\ Len(<< n >> \o ss) = Len(ss) + 1 /\ (<< n >> \o ss)[1] = n
          /\ Tail(<< n >> \o ss) = ss
          /\ \A i \in 1 .. Len(ss) : (<< n >> \o ss)[i + 1] = ss[i]
      BY <1>1, TailJoined
    <2>2. segments = << n >> \o ss
      BY <1>4, <1>5, <1>6
    <2> QED
      BY <1>6, <2>1, <2>2
  <1>8. Tail(segments) # << <<>> >> /\ ~ (Len(segments) > 2) /\ Len(segments) # 1
    <2>1. << w >>[1] # << <<>> >>[1]
      OBVIOUS
    <2> QED
      BY <1>7, <2>1
  <1> QED
    BY <1>1, <1>2, <1>5, <1>7, <1>8 DEF Parse

\* A printed volume with a path.
LEMMA VolumePathParses ==
    ASSUME NEW n, IsName(n, ReservedNamespaces), NEW w \in Slashless, NEW t \in Text
    PROVE  Parse((n \o <<"/">>) \o (w \o (<<"/">> \o t))) =
               Ref(n, Name(Selector(w).name, ReservedVolumes), Selector(w).tag,
                   Selector(w).digest, Path(t))
  <1>1. n \in Slashless /\ n \in Text /\ Name(n, ReservedNamespaces) = n /\ w \in Text
    BY NameKept, SlashlessText
  <1>2. PICK text : text = (n \o <<"/">>) \o (w \o (<<"/">> \o t))
    OBVIOUS
  <1> DEFINE a == Append(n, "/")
             b == Append(w, "/")
  <1>3. /\ a \in Text /\ Len(a) = Len(n) + 1 /\ b \in Text /\ Len(b) = Len(w) + 1
        /\ Len(n) \in Nat /\ Len(w) \in Nat
    BY <1>1, Letters, AppendProperties DEF Text
  <1>4. text = a \o (b \o t)
    <2>1. n \o <<"/">> = a
      BY <1>1, AppendIsConcat, Letters DEF Text
    <2>2. w \o <<"/">> = b
      BY <1>1, AppendIsConcat, Letters DEF Text
    <2>3. w \o (<<"/">> \o t) = (w \o <<"/">>) \o t
      <3>1. <<"/">> \in Text
        BY Letters DEF Text
      <3> QED
        BY <1>1, <3>1, JoinedTwice
    <2> QED
      BY <1>2, <2>1, <2>2, <2>3
  <1>5. Split(text) = << n >> \o (<< w >> \o Split(t))
    <2>1. Split(a \o (b \o t)) = Split(n) \o Split(b \o t)
      <3> DEFINE u == b \o t
      <3>1. u \in Text
        BY <1>3 DEF Text
      <3> HIDE DEF u, b
      <3>2. Split(a \o u) = Split(n) \o Split(u)
        BY <1>1, <3>1, SplitConcat
      <3> QED
        BY <3>2 DEF u
    <2>2. Split(b \o t) = Split(w) \o Split(t)
      BY <1>1, SplitConcat
    <2> HIDE DEF a, b
    <2> QED
      BY <1>1, <1>4, <2>1, <2>2, SplitSlashless
  <1> HIDE DEF a, b
  <1>6. PICK segments : segments = Split(text)
    OBVIOUS
  <1>7. PICK k \in Nat : k > 0 /\ Len(Split(t)) = k /\ Split(t) \in Seq(Text)
    <2>1. Split(t) \in Seq(Slashless) /\ Split(t) # <<>>
      BY SplitType
    <2> DEFINE p == Split(t)
    <2>2. p \in Seq(Text)
      BY <2>1, SlashlessText
    <2> HIDE DEF p
    <2>3. Len(p) \in Nat /\ Len(p) # 0
      BY <2>1, <2>2, EmptySeq DEF p
    <2> QED
      BY <2>2, <2>3 DEF p
  <1>8. /\ Len(segments) = k + 2 /\ segments[1] = n /\ segments[2] = w
        /\ Len(Tail(segments)) = k + 1
    <2>1. PICK p \in Seq(Text) : p = Split(t)
      BY <1>7
    <2>2. << n >> \in Seq(Text) /\ << w >> \in Seq(Text)
      BY <1>1
    <2>3. segments = << n >> \o (<< w >> \o p) /\ Len(p) = k
      BY <1>5, <1>6, <1>7, <2>1
    <2> DEFINE q == << w >> \o p
    <2>4. q \in Seq(Text) /\ Len(q) = k + 1 /\ q[1] = w
      BY <2>1, <2>2, <2>3
    <2> HIDE DEF q
    <2>5. /\ << n >> \o q \in Seq(Text) /\ Len(<< n >> \o q) = k + 2
          /\ (<< n >> \o q)[1] = n /\ (<< n >> \o q)[2] = q[1]
      BY <1>7, <2>2, <2>4
    <2>6. segments = << n >> \o q
      BY <2>3 DEF q
    <2>7. Len(Tail(segments)) = k + 1
      BY <1>7, <2>5, <2>6
    <2> QED
      BY <2>4, <2>5, <2>6, <2>7
  <1>9. Len(segments) # 1 /\ Tail(segments) # << <<>> >> /\ Len(segments) > 2
    <2>1. Len(<< <<>> >>) = 1
      OBVIOUS
    <2> QED
      BY <1>7, <1>8, <2>1
  <1>10. Beyond(text, Len(n) + Len(w) + 2) = t
    <2> DEFINE ab == a \o b
    <2>1. /\ ab \in Text /\ Len(ab) = Len(n) + Len(w) + 2
      BY <1>3 DEF Text
    <2>2. text = ab \o t
      BY <1>3, <1>4, JoinedTwice
    <2> HIDE DEF ab
    <2>3. Beyond(ab \o t, Len(ab)) = t
      BY <2>1, JoinedAt
    <2> QED
      BY <2>1, <2>2, <2>3
  <1> QED
    BY <1>1, <1>2, <1>6, <1>8, <1>9, <1>10 DEF Parse

LEMMA StrParses ==
    ASSUME NEW r, IsRef(r)
    PROVE  Parse(Str(r)) = r
  <1> DEFINE n == r.namespace
             w == r.volume \o PointText(r.tag, r.digest)
  <1>1. IsName(n, ReservedNamespaces)
    BY DEF IsRef
  <1>2. Ref(r.namespace, r.volume, r.tag, r.digest, r.path) = r
    BY RefKept
  <1>3. CASE r.volume = None
    <2>1. Str(r) = (n \o <<"/">>) \o <<>>
      BY <1>3 DEF Str, IsNamespace
    <2>2. r.tag = None /\ r.digest = None /\ r.path = None
      BY <1>3 DEF IsRef
    <2> HIDE DEF n
    <2>3. Parse(Str(r)) = Ref(n, None, None, None, None)
      BY <1>1, <2>1, NamespaceParses
    <2> QED
      BY <1>2, <1>3, <2>2, <2>3 DEF n
  <1>4. CASE r.volume # None
    <2>1. /\ IsName(r.volume, ReservedVolumes)
          /\ r.tag = None \/ IsTag(r.tag)
          /\ r.digest = None \/ IsDigest(r.digest)
          /\ r.tag = None \/ r.digest = None
      BY <1>4 DEF IsRef
    <2>2. /\ w \in Slashless
          /\ Selector(w).name = r.volume /\ Selector(w).tag = r.tag
          /\ Selector(w).digest = r.digest
      BY <2>1, SelectorOf
    <2>3. Name(r.volume, ReservedVolumes) = r.volume
      BY <2>1, NameKept
    <2>4. w # <<>>
      <3>1. r.volume \in Text /\ r.volume # <<>>
        BY <2>1, NameKept, SlashlessText DEF IsName
      <3>2. PointText(r.tag, r.digest) \in Text
        <4>1. r.tag # None => r.tag \in Text
          BY <2>1, TagKept, SlashlessText
        <4>2. r.digest # None => r.digest \in Text
          BY <2>1, DigestKept, SlashlessText
        <4>3. \A x \in Text : <<"@">> \o x \in Text /\ <<":">> \o x \in Text
          BY Letters DEF Text
        <4>4. <<>> \in Text
          BY DEF Text
        <4> QED
          BY <4>1, <4>2, <4>3, <4>4 DEF PointText
      <3>3. \A x, y \in Text : x # <<>> => x \o y # <<>>
        BY DEF Text
      <3> QED
        BY <3>1, <3>2, <3>3
    <2>5. Str(r) = (n \o <<"/">>) \o (w \o PathText(r.path))
      BY <1>4 DEF Str, IsNamespace, PointText, PathText
    <2> HIDE DEF n, w
    <2>6. CASE r.path = None
      <3>1. w \o PathText(r.path) = w
        <4>1. PathText(r.path) = <<>>
          <5>1. <<"/">> \in Text
            BY Letters DEF Text
          <5>2. None # <<"/">>
            BY <5>1, IsSomething
          <5> QED
            BY <2>6, <5>2 DEF PathText
        <4>2. w \in Text
          BY <2>2, SlashlessText
        <4> QED
          BY <4>1, <4>2 DEF Text
      <3>2. Parse(Str(r)) =
              Ref(n, Name(Selector(w).name, ReservedVolumes), Selector(w).tag,
                  Selector(w).digest, None)
        BY <1>1, <2>2, <2>4, <2>5, <3>1, VolumeParses
      <3> QED
        BY <1>2, <2>2, <2>3, <2>6, <3>2 DEF n
    <2>7. CASE r.path # None
      <3>1. IsPath(r.path)
        BY <2>7 DEF IsRef
      <3>2. PICK t \in Text : PathText(r.path) = <<"/">> \o t /\ Path(t) = r.path
        BY <3>1, PathPrinted
      <3>3. Parse(Str(r)) =
              Ref(n, Name(Selector(w).name, ReservedVolumes), Selector(w).tag,
                  Selector(w).digest, Path(t))
        BY <1>1, <2>2, <2>5, <3>2, VolumePathParses
      <3> QED
        BY <1>2, <2>2, <2>3, <3>2, <3>3 DEF n
    <2> QED
      BY <2>6, <2>7
  <1> QED
    BY <1>3, <1>4

\* A shorthand keeps all but the end of the digest.
LEMMA ShorthandParses ==
    ASSUME NEW r, IsRef(r)
    PROVE  LET short == Parse(Shorthand(r))
           IN  /\ short # NotARef
               /\ [short EXCEPT !.digest = r.digest] = r
               /\ r.digest # None => IsPrefix(HexOf(short.digest), HexOf(r.digest))
  <1>1. r = Fields(r.namespace, r.volume, r.tag, r.digest, r.path)
    BY DEF IsRef
  <1> DEFINE full == r.digest # None /\ Len(HexOf(r.digest)) = DigestMax
  <1>2. CASE ~ full
    <2>1. Parse(Shorthand(r)) = r
      BY <1>2, StrParses DEF Shorthand
    <2>2. [r EXCEPT !.digest = r.digest] = r
      BY <1>1 DEF Fields
    <2>3. r # NotARef
      BY RefKept
    <2>4. r.digest # None => IsPrefix(HexOf(r.digest), HexOf(r.digest))
      <3> SUFFICES ASSUME r.digest # None
                   PROVE  IsPrefix(HexOf(r.digest), HexOf(r.digest))
        OBVIOUS
      <3>1. IsDigest(r.digest)
        BY DEF IsRef
      <3>2. HexOf(r.digest) \in Seq(HexDigits)
        BY <3>1, DigestKept
      <3> QED
        BY <3>2 DEF IsPrefix
    <2> QED
      BY <2>1, <2>2, <2>3, <2>4
  <1>3. CASE full
    <2> DEFINE h == HexOf(r.digest)
               k == DigestShorthand
               x == SubSeq(h, 1, k)
               s == Fields(r.namespace, r.volume, r.tag, x, r.path)
    <2>1. IsDigest(r.digest) /\ Len(h) = DigestMax
      BY <1>3 DEF IsRef
    <2>2. h \in Seq(HexDigits) /\ k \in 1 .. Len(h) /\ Len(h) \in Nat
      BY <2>1, DigestKept, LimitsAssumption
    <2>3. [r EXCEPT !.digest = SubSeq(HexOf(@), 1, DigestShorthand)] = s
      <3>1. \A y : [r EXCEPT !.digest = y]
                      = Fields(r.namespace, r.volume, r.tag, y, r.path)
        BY <1>1 DEF Fields
      <3> QED
        BY <3>1
    <2>4. Shorthand(r) = Str(s)
      BY <1>3, <2>3 DEF Shorthand
    <2> HIDE DEF h, k
    <2>5. x \in Seq(HexDigits) /\ Len(x) = k /\ Len(x) \in 1 .. DigestMax
      BY <2>1, <2>2
    <2>6. IsPrefix(x, h)
      <3>1. SubSeq(x, 1, k) = x
        BY <2>5
      <3> HIDE DEF x
      <3>2. Len(x) <= Len(h) /\ SubSeq(x, 1, Len(x)) = x /\ SubSeq(h, 1, Len(x)) = x
        BY <2>2, <2>5, <3>1 DEF x
      <3> QED
        BY <3>2 DEF IsPrefix
    <2> HIDE DEF x
    <2>7. IsDigest(x) /\ HexOf(x) = x
      BY <2>5, HexIs DEF IsDigest
    <2>8. /\ s.namespace = r.namespace /\ s.volume = r.volume /\ s.tag = r.tag
          /\ s.digest = x /\ s.path = r.path
          /\ s = Fields(s.namespace, s.volume, s.tag, s.digest, s.path)
          /\ [s EXCEPT !.digest = r.digest] =
                 Fields(r.namespace, r.volume, r.tag, r.digest, r.path)
      BY DEF Fields
    <2>9. IsRef(s)
      <3>1. r.digest # None
        BY <1>3
      <3> HIDE DEF s
      <3> QED
        BY <2>7, <2>8, <3>1 DEF IsRef
    <2> HIDE DEF s
    <2>10. Parse(Shorthand(r)) = s /\ s # NotARef
      BY <2>4, <2>9, StrParses, RefKept
    <2>11. [s EXCEPT !.digest = r.digest] = r
      BY <1>1, <2>8
    <2> QED
      BY <2>6, <2>7, <2>8, <2>10, <2>11 DEF h
  <1> QED
    BY <1>2, <1>3

-----------------------------------------------------------------------------
(***************************************************************************)
(* The refs made from a ref.                                               *)
(***************************************************************************)

LEMMA PinnedIs ==
    ASSUME NEW r, IsRef(r)
    PROVE  Pinned(r, FullDigest) = NotARef \/ IsRef(Pinned(r, FullDigest))
  <1> SUFFICES ASSUME Len(HexOf(FullDigest)) = DigestMax
               PROVE  Pinned(r, FullDigest) = NotARef \/ IsRef(Pinned(r, FullDigest))
    BY DEF Pinned
  <1> DEFINE h == HexOf(FullDigest)
             d == Algorithm \o Lower(h)
  <1>1. h \in Text
    BY DigestAssumption, AlgorithmText, PrefixRemoved DEF HexOf, Text
  <1>2. Range(Lower(h)) \subseteq HexDigits /\ Len(h) = DigestMax
    BY DigestAssumption
  <1>3. Pinned(r, FullDigest) = Ref(r.namespace, r.volume, None, d, None)
    BY DEF Pinned
  <1> HIDE DEF h
  <1>4. Lower(h) \in Text /\ Len(Lower(h)) = DigestMax
    BY <1>1, <1>2, LowerIs
  <1>5. Lower(h) \in Seq(HexDigits)
    BY <1>2, <1>4, RangeSeq
  <1>6. DigestMax \in 1 .. DigestMax
    BY LimitsAssumption
  <1>7. IsDigest(d)
    BY <1>4, <1>5, <1>6 DEF IsDigest
  <1> HIDE DEF d
  <1>8. IsName(r.namespace, ReservedNamespaces)
        /\ (r.volume = None \/ IsName(r.volume, ReservedVolumes))
    BY DEF IsRef
  <1> QED
    BY <1>3, <1>7, <1>8, RefIs

LEMMA WithPathIs ==
    ASSUME NEW r, IsRef(r), NEW path \in Text
    PROVE  WithPath(r, path) = NotARef \/ IsRef(WithPath(r, path))
  <1> DEFINE rest == RemovePrefix(path, <<"/">>)
             p == Path(rest)
  <1>1. rest \in Text
    <2>1. <<"/">> \in Text
      BY Letters DEF Text
    <2> QED
      BY <2>1, PrefixRemoved
  <1> HIDE DEF rest
  <1>2. p = Raises \/ IsPath(p)
    BY <1>1, PathIs
  <1>3. WithPath(r, path) = Ref(r.namespace, r.volume, r.tag, r.digest, p)
    BY DEF WithPath, rest
  <1> HIDE DEF p
  <1>4. /\ IsName(r.namespace, ReservedNamespaces)
        /\ r.volume = None \/ IsName(r.volume, ReservedVolumes)
        /\ r.tag = None \/ IsTag(r.tag)
        /\ r.digest = None \/ IsDigest(r.digest)
    BY DEF IsRef
  <1> QED
    BY <1>2, <1>3, <1>4, RefIs

LEMMA WithoutPathIs ==
    ASSUME NEW r, IsRef(r)
    PROVE  IsRef(WithoutPath(r))
  <1>1. r = Fields(r.namespace, r.volume, r.tag, r.digest, r.path)
    BY DEF IsRef
  <1>2. WithoutPath(r) = Fields(r.namespace, r.volume, r.tag, r.digest, None)
    BY <1>1 DEF WithoutPath, Fields
  <1> DEFINE s == Fields(r.namespace, r.volume, r.tag, r.digest, None)
  <1>3. /\ s.namespace = r.namespace /\ s.volume = r.volume /\ s.tag = r.tag
        /\ s.digest = r.digest /\ s.path = None
        /\ s = Fields(s.namespace, s.volume, s.tag, s.digest, s.path)
    BY DEF Fields
  <1> HIDE DEF s
  <1>4. IsRef(s)
    BY <1>3 DEF IsRef
  <1> QED
    BY <1>2, <1>4 DEF s

LEMMA TailOfPath ==
    ASSUME NEW p \in Text
    PROVE  /\ <<"/">> \o p \in Text /\ Tail(<<"/">> \o p) = p
           /\ RemovePrefix(<<"/">> \o p, <<"/">>) = p
  <1> DEFINE q == <<"/">> \o p
  <1>1. <<"/">> \in Text /\ Len(p) \in Nat
    BY Letters DEF Text
  <1>2. /\ q \in Text /\ Len(q) = Len(p) + 1
        /\ \A i \in 1 .. Len(p) : q[i + 1] = p[i]
    BY <1>1 DEF Text
  <1>3. RemovePrefix(q, <<"/">>) = p
    BY <1>1, PrefixRemoved
  <1> HIDE DEF q
  <1>4. q # <<>>
    BY <1>1, <1>2 DEF Text
  <1>5. /\ Tail(q) \in Text /\ Len(Tail(q)) = Len(p)
        /\ \A i \in 1 .. Len(p) : Tail(q)[i] = q[i + 1]
    BY <1>1, <1>2, <1>4, HeadTailProperties DEF Text
  <1>6. Tail(q) = p
    BY <1>2, <1>5, SeqEqual DEF Text
  <1> QED
    BY <1>2, <1>3, <1>6 DEF q

-----------------------------------------------------------------------------
(***************************************************************************)
(* The invariant: whatever ref the caller has is one the parser could have *)
(* made, and what it was shown is of the version its ref names.            *)
(***************************************************************************)

IInv ==
    /\ entries \in Volumes
    /\ ref = NoRef \/ IsRef(ref)
    /\ listing # NoListing =>
           IsRef(ref) /\ ref.volume # None /\ listing \subseteq PublicEntries(entries)

LEMMA Initially ==
    ASSUME Init
    PROVE  IInv
  BY DEF Init, IInv

\* The refs a call of the caller gives it.
LEMMA HaveKeeps ==
    ASSUME IInv, NEW r, r = NotARef \/ IsRef(r), Have(r)
    PROVE  IInv'
  <1>1. r # NotARef /\ ref' = r /\ listing' = NoListing /\ entries' = entries
    BY DEF Have
  <1>2. IsRef(ref')
    BY <1>1
  <1> QED
    BY <1>1, <1>2 DEF IInv

\* An entry, with and without its slash.
LEMMA EntryIs ==
    ASSUME IInv, listing # NoListing, NEW path \in listing
    PROVE  \E p \in entries : path = <<"/">> \o p /\ p \in Text
  <1>1. path \in PublicEntries(entries) /\ entries \in Volumes
    BY DEF IInv
  <1>2. PICK p \in entries : path = <<"/">> \o p
    BY <1>1, Zenon DEF PublicEntries
  <1>3. p \in Text
    BY <1>1, <1>2, VolumesAssumption DEF Text
  <1> QED
    BY <1>2, <1>3

LEMMA NextKeeps ==
    ASSUME IInv, [Next]_vars
    PROVE  IInv'
  <1>1. CASE ParseText
    <2>1. PICK text \in Texts : Have(Parse(text))
      BY <1>1 DEF ParseText
    <2>2. text \in Text
      BY <2>1, TextsAssumption DEF Text
    <2>3. Parse(text) = NotARef \/ IsRef(Parse(text))
      BY <2>2, ParseIs
    <2> QED
      BY <2>1, <2>3, HaveKeeps
  <1>2. CASE FetchManifest
    <2> DEFINE selected == SelectPaths(entries, RefInclude(ref))
    <2>1. /\ ref # NoRef /\ ref.volume # None
          /\ listing' = PublicEntries(selected)
          /\ ref' = ref /\ entries' = entries
      BY <1>2 DEF FetchManifest, IsNamespace
    <2>2. selected \subseteq entries
      BY DEF SelectPaths
    <2> HIDE DEF selected
    <2>3. PublicEntries(selected) \subseteq PublicEntries(entries)
      BY <2>2 DEF PublicEntries
    <2>4. IsRef(ref) /\ entries \in Volumes
      BY <2>1 DEF IInv
    <2>5. IsRef(ref')
      BY <2>1, <2>4
    <2>6. ref'.volume # None
      BY <2>1
    <2>7. listing' \subseteq PublicEntries(entries')
      <3>1. PublicEntries(entries') = PublicEntries(entries)
        BY <2>1 DEF PublicEntries
      <3> QED
        BY <2>1, <2>3, <3>1
    <2> QED
      BY <2>1, <2>4, <2>5, <2>6, <2>7 DEF IInv
  <1>3. CASE TakeVersionRef
    <2>1. listing # NoListing /\ Have(Pinned(ref, FullDigest))
      BY <1>3 DEF TakeVersionRef
    <2>2. IsRef(ref)
      BY <2>1 DEF IInv
    <2>3. Pinned(ref, FullDigest) = NotARef \/ IsRef(Pinned(ref, FullDigest))
      BY <2>2, PinnedIs
    <2> QED
      BY <2>1, <2>3, HaveKeeps
  <1>4. CASE TakeEntry
    <2>1. listing # NoListing
      BY <1>4 DEF TakeEntry
    <2>2. PICK path \in listing : Have(WithPath(ref, path))
      BY <1>4 DEF TakeEntry
    <2>3. IsRef(ref)
      BY <2>1 DEF IInv
    <2>4. path \in Text
      BY <2>1, <2>2, EntryIs, TailOfPath
    <2>5. WithPath(ref, path) = NotARef \/ IsRef(WithPath(ref, path))
      BY <2>3, <2>4, WithPathIs
    <2> QED
      BY <2>2, <2>5, HaveKeeps
  <1>5. CASE DropPath
    <2>1. IsRef(ref) /\ Have(WithoutPath(ref))
      BY <1>5 DEF DropPath, IInv
    <2>2. IsRef(WithoutPath(ref))
      BY <2>1, WithoutPathIs
    <2> QED
      BY <2>1, <2>2, HaveKeeps
  <1>6. CASE UNCHANGED vars
    <2>1. ref' = ref /\ entries' = entries /\ listing' = listing
      BY <1>6 DEF vars
    <2>2. IsRef(ref) => IsRef(ref')
      BY <2>1
    <2>3. listing' # NoListing => IsRef(ref') /\ ref'.volume # None
      BY <2>1, <2>2 DEF IInv
    <2>4. PublicEntries(entries') = PublicEntries(entries)
      BY <2>1 DEF PublicEntries
    <2>5. listing' # NoListing => listing' \subseteq PublicEntries(entries')
      BY <2>1, <2>4 DEF IInv
    <2> QED
      BY <2>1, <2>2, <2>3, <2>5 DEF IInv
  <1> QED
    BY <1>1, <1>2, <1>3, <1>4, <1>5, <1>6 DEF Next

LEMMA Invariance == Spec => []IInv
  <1>1. Init => IInv
    BY Initially
  <1>2. IInv /\ [Next]_vars => IInv'
    BY NextKeeps
  <1> QED
    BY <1>1, <1>2, PTL DEF Spec

-----------------------------------------------------------------------------
(***************************************************************************)
(* What the invariant gives.                                               *)
(***************************************************************************)

LEMMA WellFormed == IInv => TypeOK
  <1> SUFFICES ASSUME IInv PROVE TypeOK
    OBVIOUS
  <1>1. ASSUME ref # NoRef
        PROVE  /\ ref.namespace # <<>>
               /\ ref.volume = None => {ref.tag, ref.digest, ref.path} = {None}
               /\ ref.path \notin {None, <<"/">>} =>
                      /\ Head(ref.path) = "/"
                      /\ \A i \in DOMAIN Tail(Split(ref.path)) :
                             Usable(Tail(Split(ref.path))[i])
    <2>1. IsRef(ref)
      BY <1>1 DEF IInv
    <2>2. ref.namespace # <<>>
      BY <2>1 DEF IsRef, IsName
    <2>3. ref.volume = None => {ref.tag, ref.digest, ref.path} = {None}
      BY <2>1 DEF IsRef
    <2>4. ASSUME ref.path \notin {None, <<"/">>}
          PROVE  /\ Head(ref.path) = "/"
                 /\ \A i \in DOMAIN Tail(Split(ref.path)) : Usable(Tail(Split(ref.path))[i])
      <3>1. IsPath(ref.path)
        BY <2>1, <2>4 DEF IsRef
      <3>2. PICK names \in Seq(GoodNames) : names # <<>> /\ ref.path = Slashed(names)
        BY <2>4, <3>1 DEF IsPath
      <3>3. Tail(Split(ref.path)) = names /\ Head(ref.path) = "/"
        BY <3>2, NamesSlashless, PathParts
      <3>4. \A i \in DOMAIN names : names[i] \in GoodNames
        BY ElementOfSeq, LenProperties
      <3> QED
        BY <3>3, <3>4 DEF GoodNames
    <2> QED
      BY <2>2, <2>3, <2>4
  <1>2. ASSUME listing # NoListing, NEW path \in listing PROVE Tail(path) \in entries
    <2>1. PICK p \in entries : path = <<"/">> \o p /\ p \in Text
      BY <1>2, EntryIs
    <2> QED
      BY <2>1, TailOfPath
  <1> QED
    BY <1>1, <1>2 DEF TypeOK, IInv

LEMMA ReadsBack == IInv => RoundTrip
  <1> SUFFICES ASSUME IInv, ref # NoRef
               PROVE  /\ Parse(Str(ref)) = ref
                      /\ LET short == Parse(Shorthand(ref))
                         IN  /\ short # NotARef
                             /\ [short EXCEPT !.digest = ref.digest] = ref
                             /\ ref.digest # None =>
                                    IsPrefix(HexOf(short.digest), HexOf(ref.digest))
    BY DEF RoundTrip
  <1>1. IsRef(ref)
    BY DEF IInv
  <1> QED
    BY <1>1, StrParses, ShorthandParses

\* A name without a percent sign says of a path what the entry says.
LEMMA FindsEntry == IInv => PlainPathNamesEntry
  <1> SUFFICES ASSUME IInv, listing # NoListing, NEW path \in listing,
                      "%" \notin Range(path)
               PROVE  Names(WithPath(ref, path), path)
    BY DEF PlainPathNamesEntry
  <1>1. PICK p \in entries : path = <<"/">> \o p /\ p \in Text
    BY EntryIs
  <1>2. \A i \in DOMAIN Split(p) : Usable(Split(p)[i])
    BY <1>1, VolumesAssumption DEF IInv
  <1>3. \A i \in DOMAIN p : p[i] # "%"
    <2>1. \A i \in 1 .. Len(p) : path[i + 1] = p[i] /\ i + 1 \in DOMAIN path
      BY <1>1, Letters DEF Text
    <2> QED
      BY <1>1, <2>1, LenProperties DEF Range, Text
  <1>4. PICK parts \in Seq(Slashless) : parts = Split(p) /\ parts # <<>>
    BY <1>1, SplitType
  <1>5. parts \in Seq(GoodNames)
    <2>1. \A i \in 1 .. Len(parts) : parts[i] \in GoodNames
      BY <1>2, <1>4, ElementOfSeq, LenProperties DEF GoodNames
    <2> QED
      BY <1>4, <2>1, LenProperties, SeqDef
  <1>6. Slashed(parts) = <<"/">> \o p
    BY <1>1, <1>4, SlashedSplit
  <1>7. ASSUME NEW i \in 1 .. Len(parts)
        PROVE  parts[i] # <<>> /\ Unquote(parts[i]) = parts[i]
    <2>1. parts[i] \in GoodNames /\ parts[i] \in Text /\ parts[i] # <<>>
      BY <1>5, ElementOfSeq, NamesSlashless, SlashlessText
    <2>2. \A k \in DOMAIN parts[i] : parts[i][k] # "%"
      <3> DEFINE S == Characters \ {"%"}
      <3>1. p \in Seq(S)
        <4>1. Range(p) \subseteq S
          BY <1>1, <1>3, SeqRange DEF Text, Range
        <4> HIDE DEF S
        <4> QED
          BY <1>1, <4>1, RangeSeq
      <3>2. parts \in Seq(Seq(S))
        <4>1. S \subseteq Characters
          OBVIOUS
        <4> HIDE DEF S
        <4> QED
          BY <1>4, <3>1, <4>1, SplitWithin
      <3>3. parts[i] \in Seq(S)
        BY <3>2, ElementOfSeq
      <3> HIDE DEF S
      <3>4. \A k \in DOMAIN parts[i] : parts[i][k] \in S
        BY <3>3, ElementOfSeq, LenProperties
      <3> QED
        BY <3>4 DEF S
    <2> QED
      BY <2>1, <2>2, UnquotePlain
  <1>8. Path(p) = path
    BY <1>1, <1>4, <1>5, <1>6, <1>7, PathOf
  <1>9. path # Raises /\ path # None
    BY <1>1, TailOfPath, IsSomething
  <1>10. WithPath(ref, path) = Ref(ref.namespace, ref.volume, ref.tag, ref.digest, path)
    BY <1>1, <1>8, TailOfPath DEF WithPath
  <1>11. /\ IsRef(ref) /\ ref.volume # None
    BY DEF IInv
  <1>12. /\ ref.namespace # Raises /\ ref.volume # Raises /\ ref.tag # Raises
         /\ ref.digest # Raises /\ ~ (ref.tag # None /\ ref.digest # None)
    BY <1>11, PartsAreSomething DEF IsRef
  <1>13. WithPath(ref, path) = Fields(ref.namespace, ref.volume, ref.tag, ref.digest, path)
    BY <1>9, <1>10, <1>11, <1>12 DEF Ref
  <1>14. WithPath(ref, path).path = path /\ WithPath(ref, path) # NotARef
    BY <1>9, <1>13 DEF Fields, NotARef
  <1> QED
    BY <1>14 DEF Names

\* A ref a caller can have is well formed: one version is named in a volume,
\* and its path is the root or names no segment of which is empty, "." or
\* ".."; what fetch_manifest returned are entries of the version.
THEOREM ListingType == Spec => []TypeOK
  BY Invariance, WellFormed, PTL

\* "a ref printed by one tool can be pasted into another": what __str__ prints
\* of a ref parses to that ref, and its shorthand to all but the digest's end.
THEOREM ListingRoundTrip == Spec => []RoundTrip
  BY Invariance, ReadsBack, PTL

\* with_path finds each entry fetch_manifest returned by the path it was
\* returned with, if that has no percent sign.
THEOREM ListingPlainPaths == Spec => []PlainPathNamesEntry
  BY Invariance, FindsEntry, PTL

=============================================================================
