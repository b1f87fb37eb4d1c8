---------------------------- MODULE SequenceLemmas ----------------------------
(***************************************************************************)
(* Induction over the natural numbers, with it what the recursion behind   *)
(* FlattenSeq computes, and how sequences are taken apart.  The induction  *)
(* is stated for sets: a statement about n becomes the set of the n it     *)
(* holds for.                                                              *)
(***************************************************************************)
EXTENDS Integers, SequencesExt, SequenceTheorems, WellFoundedInduction, TLAPS

LEMMA NatSetInduction ==
    ASSUME NEW S, 0 \in S, \A n \in Nat : n \in S => n + 1 \in S
    PROVE  Nat \subseteq S
<1> DEFINE T == Nat \ S
           R == {ss \in Nat \X Nat : ss[1] < ss[2]}
<1> SUFFICES ASSUME T # {} PROVE FALSE
  OBVIOUS
<1>1. IsWellFoundedOn(R, Nat)
  BY NatLessThanWellFounded DEF OpToRel
<1>2. PICK x \in T : \A y \in T : ~ (<<y, x>> \in R)
  <2> HIDE DEF R
  <2> QED
    BY <1>1, WFMin
<1>3. x \in Nat /\ x # 0 /\ x - 1 \in Nat /\ (x - 1) + 1 = x
  OBVIOUS
<1>4. <<x - 1, x>> \in R
  BY <1>3
<1>5. x - 1 \in S
  BY <1>2, <1>3, <1>4
<1> QED
  BY <1>3, <1>5

-----------------------------------------------------------------------------
(***************************************************************************)
(* FlattenSeq.                                                             *)
(***************************************************************************)
\* f holds what the first n sequences of ss come to, for every n up to m.
Flattens(f, ss, m) == f = [i \in 1..m |-> IF i = 1 THEN ss[i] ELSE f[i - 1] \o ss[i]]

\* What it comes to at i, and when two functions agree up to m.
Grows(f, ss, i) == (i = 1 => f[i] = ss[i]) /\ (i # 1 => f[i] = f[i - 1] \o ss[i])
Agree(f, g, m) == \A i \in 1..m : f[i] = g[i]

LEMMA FlattensAt ==
    ASSUME NEW f, NEW ss, NEW m \in Nat, Flattens(f, ss, m), NEW i \in 1..m
    PROVE  Grows(f, ss, i)
<1>1. f[i] = IF i = 1 THEN ss[i] ELSE f[i - 1] \o ss[i]
  BY DEF Flattens
<1> QED
  BY <1>1 DEF Grows

LEMMA FlatteningExists ==
    ASSUME NEW ss, NEW m \in Nat PROVE \E f : Flattens(f, ss, m)
<1> DEFINE S == {n \in Nat : \E f : Flattens(f, ss, n)}
<1>1. 0 \in S
  <2>1. [i \in 1..0 |-> ss[i]] = [i \in 1..0 |-> IF i = 1 THEN ss[i] ELSE [j \in 1..0 |-> ss[j]][i - 1] \o ss[i]]
    OBVIOUS
  <2>2. Flattens([i \in 1..0 |-> ss[i]], ss, 0)
    BY <2>1 DEF Flattens
  <2> QED
    BY <2>2
<1>2. ASSUME NEW n \in Nat, n \in S PROVE n + 1 \in S
  <2>1. PICK f : Flattens(f, ss, n)
    BY <1>2
  <2> DEFINE last == IF n = 0 THEN ss[1] ELSE f[n] \o ss[n + 1]
             g == [i \in 1..(n + 1) |-> IF i = n + 1 THEN last ELSE f[i]]
  <2> HIDE DEF last
  <2>3. /\ g = [i \in 1..(n + 1) |-> g[i]] /\ g[n + 1] = last
        /\ \A i \in 1..n : g[i] = f[i]
    OBVIOUS
  <2> HIDE DEF g
  <2>4. ASSUME NEW i \in 1..(n + 1) PROVE g[i] = IF i = 1 THEN ss[i] ELSE g[i - 1] \o ss[i]
    <3>1. CASE i = n + 1
      <4>1. CASE n = 0
        BY <2>3, <3>1, <4>1 DEF last
      <4>2. CASE n # 0
        <5>1. n \in 1..n /\ i # 1 /\ i - 1 = n
          BY <3>1, <4>2
        <5>2. g[i - 1] = f[n]
          BY <2>3, <5>1
        <5>3. last = f[n] \o ss[i]
          BY <3>1, <4>2 DEF last
        <5> QED
          BY <2>3, <3>1, <5>1, <5>2, <5>3
      <4> QED
        BY <4>1, <4>2
    <3>2. CASE i # n + 1
      <4>1. i \in 1..n /\ (i # 1 => i - 1 \in 1..n)
        BY <3>2
      <4>2. Grows(f, ss, i)
        BY <2>1, <4>1, FlattensAt, Zenon
      <4>3. g[i] = f[i] /\ (i # 1 => g[i - 1] = f[i - 1])
        BY <2>3, <4>1
      <4> QED
        BY <4>2, <4>3 DEF Grows
    <3> QED
      BY <3>1, <3>2
  <2>5. Flattens(g, ss, n + 1)
    BY <2>3, <2>4 DEF Flattens
  <2> QED
    BY <2>5
<1>3. Nat \subseteq S
  <2> HIDE DEF S
  <2> QED
    BY <1>1, <1>2, NatSetInduction
<1> QED
  BY <1>3

LEMMA FlattenSeqIs ==
    ASSUME NEW ss, Len(ss) \in Nat \ {0}
    PROVE  \E f : Flattens(f, ss, Len(ss)) /\ FlattenSeq(ss) = f[Len(ss)]
<1> DEFINE F == CHOOSE f : Flattens(f, ss, Len(ss))
<1>1. Flattens(F, ss, Len(ss))
  BY FlatteningExists
<1>2. FlattenSeq(ss) = F[Len(ss)]
  BY DEF FlattenSeq, Flattens
<1> QED
  BY <1>1, <1>2

\* Two flattenings agree as far as their sequences do.
LEMMA FlatteningsAgree ==
    ASSUME NEW ss, NEW tt, NEW f, NEW g, NEW m \in Nat, NEW n \in Nat, m <= n,
           Flattens(f, ss, m), Flattens(g, tt, n), Agree(ss, tt, m)
    PROVE  Agree(f, g, m)
<1> DEFINE S == {k \in Nat : k \in 1..m => f[k] = g[k]}
<1>2. 0 \in S
  OBVIOUS
<1>3. ASSUME NEW k \in Nat, k \in S PROVE k + 1 \in S
  <2> DEFINE j == k + 1
  <2> SUFFICES ASSUME j \in 1..m PROVE f[j] = g[j]
    OBVIOUS
  <2>1. j \in 1..n /\ ss[j] = tt[j] /\ (j # 1 => j - 1 \in 1..m /\ j - 1 = k)
    BY DEF Agree
  <2>2. j # 1 => f[j - 1] = g[j - 1]
    BY <1>3, <2>1
  <2> HIDE DEF j, S
  <2>3. Grows(f, ss, j) /\ Grows(g, tt, j)
    BY <2>1, FlattensAt, Zenon
  <2> QED
    BY <2>1, <2>2, <2>3 DEF Grows
<1>4. Nat \subseteq S
  <2> HIDE DEF S
  <2> QED
    BY <1>2, <1>3, NatSetInduction
<1> QED
  BY <1>4 DEF Agree

LEMMA FlattenEmpty == FlattenSeq(<<>>) = <<>>
  BY DEF FlattenSeq

\* One sequence more at the end.
LEMMA FlattenLast ==
    ASSUME NEW A, NEW ss \in Seq(Seq(A)), NEW s \in Seq(A)
    PROVE  FlattenSeq(Append(ss, s)) = FlattenSeq(ss) \o s
<1> DEFINE longer == Append(ss, s)
           len == Len(ss)
<1>1. /\ len \in Nat /\ Len(longer) = len + 1 /\ longer[len + 1] = s /\ \A i \in 1..len : longer[i] = ss[i]
  BY AppendProperties, LenProperties
<1> HIDE DEF longer
<1>2. PICK g : Flattens(g, longer, len + 1) /\ FlattenSeq(longer) = g[len + 1]
  BY <1>1, FlattenSeqIs
<1>3. Grows(g, longer, len + 1)
  <2>1. len + 1 \in Nat /\ len + 1 \in 1..(len + 1)
    BY <1>1
  <2> QED
    BY <1>2, <2>1, FlattensAt, Zenon
<1>4. CASE len = 0
  <2>1. ss = <<>>
    BY <1>4, EmptySeq
  <2>2. <<>> \o s = s
    BY ConcatEmptySeq
  <2> QED
    BY <1>1, <1>2, <1>3, <1>4, <2>1, <2>2, FlattenEmpty DEF longer, Grows
<1>5. CASE len # 0
  <2>1. PICK f : Flattens(f, ss, len) /\ FlattenSeq(ss) = f[len]
    BY <1>1, <1>5, FlattenSeqIs
  <2>2. f[len] = g[len]
    <3> DEFINE l == len + 1
    <3>1. Agree(f, g, len)
      <4>1. len \in Nat /\ l \in Nat /\ len <= l /\ Agree(ss, longer, len)
        BY <1>1 DEF Agree
      <4>2. Flattens(f, ss, len) /\ Flattens(g, longer, l)
        BY <1>2, <2>1
      <4> HIDE DEF len, l
      <4> QED
        BY <4>1, <4>2, FlatteningsAgree, Zenon
    <3> QED
      BY <1>1, <1>5, <3>1 DEF Agree
  <2> QED
    BY <1>1, <1>2, <1>3, <1>5, <2>1, <2>2 DEF longer, Grows
<1> QED
  BY <1>4, <1>5

\* Sequences of sequences, from the shortest up.
LEMMA SeqSetInduction ==
    ASSUME NEW B, NEW P, <<>> \in P,
           \A t \in Seq(B) : \A b \in B : t \in P => Append(t, b) \in P
    PROVE  Seq(B) \subseteq P
<1> DEFINE S == {n \in Nat : \A t \in Seq(B) : Len(t) = n => t \in P}
<1>1. 0 \in S
  BY EmptySeq
<1>2. ASSUME NEW n \in Nat, n \in S PROVE n + 1 \in S
  <2> SUFFICES ASSUME NEW t \in Seq(B), Len(t) = n + 1 PROVE t \in P
    OBVIOUS
  <2> DEFINE u == SubSeq(t, 1, n)
  <2>1. \A i \in 1..n : t[i] \in B
    BY ElementOfSeq
  <2>2. /\ u \in Seq(B) /\ Len(u) = (IF 1 <= n THEN n - 1 + 1 ELSE 0)
        /\ \A i \in 1..(n - 1 + 1) : u[i] = t[1 + i - 1]
    BY <2>1, SubSeqProperties
  <2>3. Len(u) = n /\ \A i \in 1..n : u[i] = t[i]
    BY <2>2
  <2>4. t[n + 1] \in B
    BY ElementOfSeq
  <2> HIDE DEF u
  <2>5. u \in P
    BY <1>2, <2>2, <2>3
  <2>6. /\ Append(u, t[n + 1]) \in Seq(B) /\ Len(Append(u, t[n + 1])) = n + 1
        /\ \A i \in 1..n : Append(u, t[n + 1])[i] = t[i]
        /\ Append(u, t[n + 1])[n + 1] = t[n + 1]
    BY <2>2, <2>3, <2>4, AppendProperties
  <2>7. Append(u, t[n + 1]) = t
    <3>1. \A i \in 1..(n + 1) : Append(u, t[n + 1])[i] = t[i]
      BY <2>6
    <3> QED
      BY <2>6, <3>1, SeqEqual
  <2> QED
    BY <2>2, <2>4, <2>5, <2>7
<1> HIDE DEF S
<1>3. Nat \subseteq S
  BY <1>1, <1>2, NatSetInduction
<1>4. ASSUME NEW t \in Seq(B) PROVE t \in P
  BY <1>3, LenProperties DEF S
<1> QED
  BY <1>4

LEMMA FlattenType ==
    ASSUME NEW A PROVE \A ss \in Seq(Seq(A)) : FlattenSeq(ss) \in Seq(A)
<1> DEFINE P == {ss \in Seq(Seq(A)) : FlattenSeq(ss) \in Seq(A)}
<1>1. <<>> \in P
  BY FlattenEmpty, EmptySeq
<1>2. ASSUME NEW t \in Seq(Seq(A)), NEW b \in Seq(A), t \in P PROVE Append(t, b) \in P
  <2>1. FlattenSeq(Append(t, b)) = FlattenSeq(t) \o b /\ Append(t, b) \in Seq(Seq(A))
    BY FlattenLast, AppendProperties
  <2> QED
    BY <1>2, <2>1, ConcatProperties
<1> HIDE DEF P
<1>3. Seq(Seq(A)) \subseteq P
  BY <1>1, <1>2, SeqSetInduction
<1> QED
  BY <1>3 DEF P

\* One sequence more in front.
LEMMA FlattenFirst ==
    ASSUME NEW A, NEW s \in Seq(A)
    PROVE  \A ss \in Seq(Seq(A)) : FlattenSeq(<<s>> \o ss) = s \o FlattenSeq(ss)
<1> DEFINE P == {ss \in Seq(Seq(A)) : FlattenSeq(<<s>> \o ss) = s \o FlattenSeq(ss)}
<1>1. <<>> \in P
  <2>1. <<s>> \in Seq(Seq(A)) /\ <<>> \in Seq(Seq(A)) /\ <<>> \in Seq(A)
    BY EmptySeq
  <2>2. <<s>> \o <<>> = Append(<<>>, s)
    BY <2>1, ConcatEmptySeq
  <2>3. FlattenSeq(Append(<<>>, s)) = <<>> \o s
    BY <2>1, FlattenLast, FlattenEmpty
  <2>4. <<>> \o s = s /\ s \o <<>> = s
    BY ConcatEmptySeq
  <2> QED
    BY <2>1, <2>2, <2>3, <2>4, FlattenEmpty
<1>2. ASSUME NEW t \in Seq(Seq(A)), NEW b \in Seq(A), t \in P PROVE Append(t, b) \in P
  <2>1. <<s>> \in Seq(Seq(A))
    OBVIOUS
  <2>2. <<s>> \o Append(t, b) = Append(<<s>> \o t, b) /\ <<s>> \o t \in Seq(Seq(A))
    BY <2>1, ConcatProperties
  <2>3. FlattenSeq(Append(<<s>> \o t, b)) = FlattenSeq(<<s>> \o t) \o b
    BY <2>2, FlattenLast
  <2>4. FlattenSeq(<<s>> \o t) = s \o FlattenSeq(t)
    BY <1>2
  <2>5. FlattenSeq(Append(t, b)) = FlattenSeq(t) \o b /\ Append(t, b) \in Seq(Seq(A))
    BY FlattenLast, AppendProperties
  <2>6. (s \o FlattenSeq(t)) \o b = s \o (FlattenSeq(t) \o b)
    BY FlattenType, ConcatAssociative
  <2>7. FlattenSeq(<<s>> \o Append(t, b)) = (s \o FlattenSeq(t)) \o b
    BY <2>2, <2>3, <2>4, Zenon
  <2>8. FlattenSeq(<<s>> \o Append(t, b)) = s \o FlattenSeq(Append(t, b))
    BY <2>5, <2>6, <2>7, Zenon
  <2> QED
    BY <2>5, <2>8
<1> HIDE DEF P
<1>3. Seq(Seq(A)) \subseteq P
  BY <1>1, <1>2, SeqSetInduction
<1> QED
  BY <1>3 DEF P

-----------------------------------------------------------------------------
(***************************************************************************)
(* Sequences taken apart and put together.                                 *)
(***************************************************************************)
LEMMA SeqWider == ASSUME NEW A, NEW D \in SUBSET A PROVE Seq(D) \subseteq Seq(A)
<1> SUFFICES ASSUME NEW d \in Seq(D) PROVE d \in Seq(A)
  OBVIOUS
<1>1. Len(d) \in Nat /\ d \in [1..Len(d) -> D]
  BY LenProperties
<1>2. d \in [1..Len(d) -> A]
  BY <1>1
<1> QED
  BY <1>1, <1>2

LEMMA OneInFront ==
    ASSUME NEW A, NEW c \in A, NEW r \in Seq(A)
    PROVE  /\ <<c>> \o r \in Seq(A) /\ <<c>> \o r # <<>>
           /\ Head(<<c>> \o r) = c /\ Tail(<<c>> \o r) = r
  OBVIOUS

LEMMA HeadInFront == ASSUME NEW A, NEW d \in Seq(A), d # <<>> PROVE d = <<Head(d)>> \o Tail(d)
  OBVIOUS

\* The sequences of A may be concatenated from either end.
Joint(s, t) == s \o t

LEMMA JointProperties ==
    ASSUME NEW A
    PROVE  /\ \A s \in Seq(A) : \A t \in Seq(A) : Joint(s, t) \in Seq(A)
           /\ \A s \in Seq(A) : \A t \in Seq(A) : \A u \in Seq(A) :
                 Joint(Joint(s, t), u) = Joint(s, Joint(t, u))
<1>1. ASSUME NEW s \in Seq(A), NEW t \in Seq(A), NEW u \in Seq(A)
      PROVE  Joint(Joint(s, t), u) = Joint(s, Joint(t, u))
  BY ConcatAssociative DEF Joint
<1>2. ASSUME NEW s \in Seq(A), NEW t \in Seq(A) PROVE Joint(s, t) \in Seq(A)
  BY ConcatProperties DEF Joint
<1> QED
  BY <1>1, <1>2

FromLeft(a, b, c, d, e, f, g) == (((((a \o b) \o c) \o d) \o e) \o f) \o g
FromRight(a, b, c, d, e, f, g) == a \o (b \o (c \o (d \o (e \o (f \o g)))))

AllSequences(a, b, c, d, e, f, g, A) == {a, b, c, d, e, f, g} \subseteq Seq(A)

LEMMA Regroup ==
    ASSUME NEW A, NEW a, NEW b, NEW c, NEW d, NEW e, NEW f, NEW g, AllSequences(a, b, c, d, e, f, g, A)
    PROVE  FromLeft(a, b, c, d, e, f, g) = FromRight(a, b, c, d, e, f, g)
<1> DEFINE ab == Joint(a, b)
           abc == Joint(ab, c)
           abcd == Joint(abc, d)
           abcde == Joint(abcd, e)
           fg == Joint(f, g)
           efg == Joint(e, fg)
           defg == Joint(d, efg)
           cdefg == Joint(c, defg)
<1>0. /\ a \in Seq(A) /\ b \in Seq(A) /\ c \in Seq(A) /\ d \in Seq(A) /\ e \in Seq(A)
      /\ f \in Seq(A) /\ g \in Seq(A)
  BY DEF AllSequences
<1>1. ab \in Seq(A) /\ abc \in Seq(A) /\ abcd \in Seq(A) /\ abcde \in Seq(A)
  BY <1>0, JointProperties
<1>2. fg \in Seq(A) /\ efg \in Seq(A) /\ defg \in Seq(A) /\ cdefg \in Seq(A)
  BY <1>0, JointProperties
<1>3. Joint(Joint(abcde, f), g) = Joint(abcde, fg)
  BY <1>0, <1>1, JointProperties
<1>4. Joint(Joint(abcd, e), fg) = Joint(abcd, efg)
  BY <1>0, <1>1, <1>2, JointProperties
<1>5. Joint(Joint(abc, d), efg) = Joint(abc, defg)
  BY <1>0, <1>1, <1>2, JointProperties
<1>6. Joint(Joint(ab, c), defg) = Joint(ab, cdefg)
  BY <1>0, <1>1, <1>2, JointProperties
<1>7. Joint(Joint(a, b), cdefg) = Joint(a, Joint(b, cdefg))
  BY <1>0, <1>1, <1>2, JointProperties
<1> QED
  BY <1>3, <1>4, <1>5, <1>6, <1>7, Zenon DEF Joint, FromLeft, FromRight

LEMMA NatStrongInduction ==
    ASSUME NEW S, \A n \in Nat : (\A i \in 0..(n - 1) : i \in S) => n \in S
    PROVE  Nat \subseteq S
<1> DEFINE T == {n \in Nat : \A i \in 0..n : i \in S}
<1>1. 0 \in T
  <2>1. 0 \in S
    OBVIOUS
  <2> QED
    BY <2>1
<1>2. ASSUME NEW n \in Nat, n \in T PROVE n + 1 \in T
  <2>1. \A i \in 0..((n + 1) - 1) : i \in S
    BY <1>2
  <2>2. n + 1 \in S
    BY <2>1
  <2>3. \A i \in 0..(n + 1) : i \in 0..n \/ i = n + 1
    OBVIOUS
  <2> QED
    BY <1>2, <2>2, <2>3
<1>3. Nat \subseteq T
  <2> HIDE DEF T
  <2> QED
    BY <1>1, <1>2, NatSetInduction
<1> QED
  BY <1>3

\* The beginning of a concatenation.
LEMMA FirstOf ==
    ASSUME NEW A, NEW f \in Seq(A), NEW r \in Seq(A), f # <<>>
    PROVE  f \o r # <<>> /\ Head(f \o r) = Head(f) /\ Tail(f \o r) = Tail(f) \o r
<1> DEFINE h == Head(f)
           t == Tail(f)
<1>1. h \in A /\ t \in Seq(A) /\ f = <<h>> \o t
  BY HeadInFront, HeadTailProperties
<1> HIDE DEF h, t
<1>2. <<h>> \in Seq(A)
  BY <1>1
<1> DEFINE q == t \o r
<1>3. f \o r = <<h>> \o q /\ q \in Seq(A)
  BY <1>1, <1>2, ConcatAssociative, ConcatProperties
<1> HIDE DEF q
<1>4. <<h>> \o q # <<>> /\ Head(<<h>> \o q) = h /\ Tail(<<h>> \o q) = q
  BY <1>1, <1>3, OneInFront
<1> QED
  BY <1>3, <1>4 DEF q, h, t
=============================================================================
