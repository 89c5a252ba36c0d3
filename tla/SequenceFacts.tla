--------------------------- MODULE SequenceFacts ----------------------------
(***************************************************************************)
(* Facts about sequences whose elements have no common type, such as the   *)
(* records on a connection and the frames a handler sends, and about their *)
(* concatenation.                                                          *)
(***************************************************************************)
EXTENDS Integers, SequencesExt, SequenceTheorems, WellFoundedInduction, TLAPS

\* A set of numbers that is not empty has a least element.
LEMMA LeastNumber ==
    ASSUME NEW T, T \subseteq Nat, T # {}
    PROVE  \E n \in T : \A m \in T : n <= m
<1> DEFINE R == OpToRel(<, Nat)
<1>1. IsWellFoundedOn(R, Nat)
  BY NatLessThanWellFounded
<1>2. \A x, y \in Nat : y < x => <<y, x>> \in R
  BY DEF OpToRel
<1> HIDE DEF R
<1>3. PICK n \in T : \A y \in T : ~ (<<y, n>> \in R)
  BY <1>1, WFMin
<1>4. ASSUME NEW m \in T
      PROVE  n <= m
  <2>1. ~ (m < n)
    BY <1>2, <1>3
  <2> QED BY <2>1
<1> QED BY <1>4

-----------------------------------------------------------------------------
(* Sequences.                                                              *)

\* s is a sequence, of whatever it holds.
IsSeq(s) == s \in Seq(ToSet(s))

\* A sequence of anything is a sequence of what it holds, and this is the set of
\* its elements.
LEMMA SeqIsSeq ==
    ASSUME NEW S, NEW s \in Seq(S)
    PROVE  /\ IsSeq(s)
           /\ DOMAIN s = 1..Len(s)
           /\ Len(s) \in Nat
           /\ ToSet(s) \subseteq S
           /\ \A i \in 1..Len(s) : s[i] \in ToSet(s)
<1>1. Len(s) \in Nat /\ DOMAIN s = 1..Len(s)
  BY LenProperties
<1>2. \A i \in 1..Len(s) : s[i] \in ToSet(s)
  BY <1>1 DEF ToSet
<1>3. s \in Seq(ToSet(s))
  BY <1>1, <1>2, LenProperties
<1>4. ToSet(s) \subseteq S
  BY <1>1, ElementOfSeq DEF ToSet
<1> QED BY <1>1, <1>2, <1>3, <1>4 DEF IsSeq

LEMMA IsSeqFacts ==
    ASSUME NEW s, IsSeq(s)
    PROVE  /\ DOMAIN s = 1..Len(s)
           /\ Len(s) \in Nat
           /\ \A i \in 1..Len(s) : s[i] \in ToSet(s)
<1>1. s \in Seq(ToSet(s))
  BY DEF IsSeq
<1> QED BY <1>1, SeqIsSeq

LEMMA EmptyIsSeq == IsSeq(<<>>) /\ ToSet(<<>>) = {}
  BY DEF IsSeq, ToSet

LEMMA TailIsSeq ==
    ASSUME NEW s, IsSeq(s), s # <<>>
    PROVE  /\ IsSeq(Tail(s))
           /\ Head(s) \in ToSet(s)
           /\ ToSet(Tail(s)) \subseteq ToSet(s)
           /\ Len(Tail(s)) = Len(s) - 1
           /\ \A i \in 1..(Len(s) - 1) : Tail(s)[i] = s[i + 1]
<1>1. s \in Seq(ToSet(s)) /\ Len(s) \in Nat /\ DOMAIN s = 1..Len(s)
  BY IsSeqFacts DEF IsSeq
<1>2. /\ Head(s) \in ToSet(s)
      /\ Tail(s) \in Seq(ToSet(s))
      /\ Len(Tail(s)) = Len(s) - 1
      /\ \A i \in 1..(Len(s) - 1) : Tail(s)[i] = s[i + 1]
  BY <1>1, HeadTailProperties
<1>3. IsSeq(Tail(s)) /\ ToSet(Tail(s)) \subseteq ToSet(s)
  BY <1>2, SeqIsSeq
<1> QED BY <1>2, <1>3

LEMMA ConcatIsSeq ==
    ASSUME NEW s, NEW t, IsSeq(s), IsSeq(t)
    PROVE  /\ IsSeq(s \o t)
           /\ ToSet(s \o t) \subseteq ToSet(s) \cup ToSet(t)
           /\ Len(s \o t) = Len(s) + Len(t)
           /\ \A i \in 1..(Len(s) + Len(t)) :
                 (s \o t)[i] = IF i <= Len(s) THEN s[i] ELSE t[i - Len(s)]
<1> DEFINE S == ToSet(s) \cup ToSet(t)
<1>1. s \in Seq(S) /\ t \in Seq(S)
  BY SeqMonotonic DEF IsSeq
<1> HIDE DEF S
<1>2. s \o t \in Seq(S)
  BY <1>1, ConcatProperties
<1>3. IsSeq(s \o t) /\ ToSet(s \o t) \subseteq S
  BY <1>2, SeqIsSeq
<1>4. /\ Len(s \o t) = Len(s) + Len(t)
      /\ \A i \in 1..(Len(s) + Len(t)) :
            (s \o t)[i] = IF i <= Len(s) THEN s[i] ELSE t[i - Len(s)]
  BY <1>1, ConcatProperties
<1> QED BY <1>3, <1>4 DEF S

LEMMA ConcatSet ==
    ASSUME NEW s, NEW t, IsSeq(s), IsSeq(t)
    PROVE  IsSeq(s \o t) /\ ToSet(s \o t) = ToSet(s) \cup ToSet(t)
<1>1. /\ IsSeq(s \o t)
      /\ ToSet(s \o t) \subseteq ToSet(s) \cup ToSet(t)
      /\ Len(s \o t) = Len(s) + Len(t)
      /\ \A i \in 1..(Len(s) + Len(t)) :
            (s \o t)[i] = IF i <= Len(s) THEN s[i] ELSE t[i - Len(s)]
  BY ConcatIsSeq
<1>2. /\ DOMAIN s = 1..Len(s) /\ Len(s) \in Nat
      /\ DOMAIN t = 1..Len(t) /\ Len(t) \in Nat
      /\ \A i \in 1..(Len(s) + Len(t)) : (s \o t)[i] \in ToSet(s \o t)
  BY <1>1, IsSeqFacts
<1>3. ASSUME NEW x \in ToSet(s) PROVE x \in ToSet(s \o t)
  <2>1. PICK i \in 1..Len(s) : s[i] = x
    BY <1>2 DEF ToSet
  <2>2. i \in 1..(Len(s) + Len(t)) /\ (s \o t)[i] = x
    BY <1>1, <1>2, <2>1
  <2> QED BY <1>2, <2>2
<1>4. ASSUME NEW x \in ToSet(t) PROVE x \in ToSet(s \o t)
  <2>1. PICK i \in 1..Len(t) : t[i] = x
    BY <1>2 DEF ToSet
  <2>2. Len(s) + i \in 1..(Len(s) + Len(t)) /\ ~ (Len(s) + i <= Len(s))
        /\ (Len(s) + i) - Len(s) = i
    BY <1>2
  <2>3. (s \o t)[Len(s) + i] = x
    BY <1>1, <2>1, <2>2
  <2> QED BY <1>2, <2>2, <2>3
<1> QED BY <1>1, <1>3, <1>4

LEMMA SingleIsSeq ==
    ASSUME NEW e
    PROVE  IsSeq(<<e>>) /\ ToSet(<<e>>) = {e} /\ Len(<<e>>) = 1
<1>1. ToSet(<<e>>) = {e}
  BY DEF ToSet
<1> QED BY <1>1 DEF IsSeq

LEMMA PairIsSeq ==
    ASSUME NEW d, NEW e
    PROVE  IsSeq(<<d, e>>) /\ ToSet(<<d, e>>) = {d, e}
<1>1. ToSet(<<d, e>>) = {d, e}
  <2>1. DOMAIN <<d, e>> = {1, 2}
    OBVIOUS
  <2> QED BY <2>1 DEF ToSet
<1> QED BY <1>1 DEF IsSeq

LEMMA AppendSet ==
    ASSUME NEW s, IsSeq(s), NEW e
    PROVE  /\ IsSeq(Append(s, e))
           /\ ToSet(Append(s, e)) = ToSet(s) \cup {e}
           /\ Len(Append(s, e)) = Len(s) + 1
           /\ \A i \in 1..Len(s) : Append(s, e)[i] = s[i]
           /\ Append(s, e)[Len(s) + 1] = e
<1> DEFINE S == ToSet(s) \cup {e}
<1>1. s \in Seq(S) /\ e \in S /\ Len(s) \in Nat /\ DOMAIN s = 1..Len(s)
  BY SeqMonotonic, IsSeqFacts DEF IsSeq
<1> HIDE DEF S
<1>2. /\ Append(s, e) \in Seq(S)
      /\ Len(Append(s, e)) = Len(s) + 1
      /\ \A i \in 1..Len(s) : Append(s, e)[i] = s[i]
      /\ Append(s, e)[Len(s) + 1] = e
  BY <1>1, AppendProperties
<1>3. IsSeq(Append(s, e)) /\ DOMAIN Append(s, e) = 1..(Len(s) + 1)
  BY <1>2, SeqIsSeq
<1>4. 1..(Len(s) + 1) = 1..Len(s) \cup {Len(s) + 1}
  BY <1>1
<1>5. /\ ToSet(Append(s, e)) = {Append(s, e)[i] : i \in 1..(Len(s) + 1)}
      /\ ToSet(s) = {s[i] : i \in 1..Len(s)}
  BY <1>1, <1>3 DEF ToSet
<1>6. ToSet(Append(s, e)) = ToSet(s) \cup {e}
  BY <1>2, <1>4, <1>5
<1> QED BY <1>2, <1>3, <1>6

LEMMA HeadTailSet ==
    ASSUME NEW s, IsSeq(s), s # <<>>
    PROVE  IsSeq(Tail(s)) /\ ToSet(s) = {Head(s)} \cup ToSet(Tail(s))
<1>1. s \in Seq(ToSet(s)) /\ Len(s) \in Nat /\ DOMAIN s = 1..Len(s)
  BY IsSeqFacts DEF IsSeq
<1>2. /\ IsSeq(Tail(s))
      /\ Head(s) \in ToSet(s)
      /\ ToSet(Tail(s)) \subseteq ToSet(s)
      /\ Len(Tail(s)) = Len(s) - 1
      /\ \A i \in 1..(Len(s) - 1) : Tail(s)[i] = s[i + 1]
  BY TailIsSeq
<1>3. \A i \in 1..(Len(s) - 1) : Tail(s)[i] \in ToSet(Tail(s))
  BY <1>2, IsSeqFacts
<1>4. Head(s) = s[1]
  BY <1>1
<1>5. ASSUME NEW x \in ToSet(s), x # Head(s) PROVE x \in ToSet(Tail(s))
  <2>1. PICK i \in 1..Len(s) : s[i] = x
    BY <1>1 DEF ToSet
  <2>2. i # 1 /\ i - 1 \in 1..(Len(s) - 1) /\ (i - 1) + 1 = i
    BY <1>1, <1>4, <1>5, <2>1
  <2>3. Tail(s)[i - 1] = x
    BY <1>2, <2>1, <2>2
  <2> QED BY <1>3, <2>2, <2>3
<1> QED BY <1>2, <1>5

LEMMA SubIsSeq ==
    ASSUME NEW s, IsSeq(s), NEW m \in 1..(Len(s) + 1), NEW n \in (m - 1)..Len(s)
    PROVE  IsSeq(SubSeq(s, m, n)) /\ ToSet(SubSeq(s, m, n)) \subseteq ToSet(s)
<1>1. s \in Seq(ToSet(s)) /\ Len(s) \in Nat
  BY IsSeqFacts DEF IsSeq
<1>2. SubSeq(s, m, n) \in Seq(ToSet(s))
  BY <1>1, SubSeqProperties
<1> QED BY <1>2, SeqIsSeq

\* Records that are lost, repeated, changed or exchanged leave a sequence of
\* records that were there, or of what one was changed into.
LEMMA LostIsSeq ==
    ASSUME NEW s, IsSeq(s), NEW i \in DOMAIN s
    PROVE  IsSeq(RemoveAt(s, i)) /\ ToSet(RemoveAt(s, i)) \subseteq ToSet(s)
<1>1. Len(s) \in Nat /\ i \in 1..Len(s)
  BY IsSeqFacts
<1> DEFINE a == SubSeq(s, 1, i - 1)
           b == SubSeq(s, i + 1, Len(s))
<1>2. IsSeq(a) /\ ToSet(a) \subseteq ToSet(s)
  BY <1>1, SubIsSeq
<1>3. IsSeq(b) /\ ToSet(b) \subseteq ToSet(s)
  <2>1. i + 1 \in 1..(Len(s) + 1) /\ Len(s) \in ((i + 1) - 1)..Len(s)
    BY <1>1
  <2> QED BY <2>1, SubIsSeq
<1> HIDE DEF a, b
<1>4. IsSeq(a \o b) /\ ToSet(a \o b) \subseteq ToSet(s)
  BY <1>2, <1>3, ConcatIsSeq
<1> QED BY <1>4 DEF RemoveAt, a, b

LEMMA RepeatedIsSeq ==
    ASSUME NEW s, IsSeq(s), NEW i \in DOMAIN s
    PROVE  IsSeq(InsertAt(s, i, s[i])) /\ ToSet(InsertAt(s, i, s[i])) \subseteq ToSet(s)
<1>1. Len(s) \in Nat /\ i \in 1..Len(s) /\ s[i] \in ToSet(s)
  BY IsSeqFacts
<1> DEFINE a == SubSeq(s, 1, i - 1)
           b == <<s[i]>>
           c == SubSeq(s, i, Len(s))
<1>2. IsSeq(a) /\ ToSet(a) \subseteq ToSet(s)
  BY <1>1, SubIsSeq
<1>3. IsSeq(b) /\ ToSet(b) \subseteq ToSet(s)
  BY <1>1, SingleIsSeq
<1>4. IsSeq(c) /\ ToSet(c) \subseteq ToSet(s)
  BY <1>1, SubIsSeq
<1> HIDE DEF a, b, c
<1>5. IsSeq(a \o b) /\ ToSet(a \o b) \subseteq ToSet(s)
  BY <1>2, <1>3, ConcatIsSeq
<1>6. IsSeq((a \o b) \o c) /\ ToSet((a \o b) \o c) \subseteq ToSet(s)
  BY <1>4, <1>5, ConcatIsSeq
<1> QED BY <1>6 DEF InsertAt, a, b, c

LEMMA ChangedIsSeq ==
    ASSUME NEW s, IsSeq(s), NEW i \in DOMAIN s, NEW e
    PROVE  /\ IsSeq([s EXCEPT ![i] = e])
           /\ ToSet([s EXCEPT ![i] = e]) \subseteq ToSet(s) \cup {e}
<1>1. Len(s) \in Nat /\ DOMAIN s = 1..Len(s) /\ i \in 1..Len(s)
  BY IsSeqFacts
<1> DEFINE S == ToSet(s) \cup {e}
<1>2. s \in Seq(S) /\ e \in S
  BY SeqMonotonic DEF IsSeq
<1> HIDE DEF S
<1>3. [s EXCEPT ![i] = e] \in Seq(S)
  BY <1>1, <1>2, ExceptSeq
<1> QED BY <1>3, SeqIsSeq DEF S

-----------------------------------------------------------------------------
(* FlattenSeq.                                                             *)

\* f puts the first n members of seqs one after the other.
Concats(f, seqs, n) ==
    f = [i \in 1..n |-> IF i = 1 THEN seqs[i] ELSE f[i - 1] \o seqs[i]]

LEMMA ConcatsExist ==
    ASSUME NEW seqs, NEW n \in Nat
    PROVE  \E f : Concats(f, seqs, n)
<1> DEFINE T == {k \in Nat : ~ \E f : Concats(f, seqs, k)}
<1> SUFFICES ASSUME T # {} PROVE FALSE
  OBVIOUS
<1>1. PICK k \in T : \A m \in T : k <= m
  <2>1. T \subseteq Nat
    OBVIOUS
  <2> HIDE DEF T
  <2> QED BY <2>1, LeastNumber
<1>2. k # 0
  <2>1. Concats([i \in 1..0 |-> 0], seqs, 0)
    BY DEF Concats
  <2> QED BY <2>1
<1>3. PICK f : Concats(f, seqs, k - 1)
  BY <1>1, <1>2
<1>4. PICK last : last = IF k = 1 THEN seqs[k] ELSE f[k - 1] \o seqs[k]
  OBVIOUS
<1>5. PICK g : g = [i \in 1..k |-> IF i = k THEN last ELSE f[i]]
  OBVIOUS
<1>6. Concats(g, seqs, k)
  <2>1. k \in Nat \ {0} /\ g = [i \in 1..k |-> g[i]]
    BY <1>1, <1>2, <1>5
  <2>2. ASSUME NEW i \in 1..k PROVE g[i] = IF i = 1 THEN seqs[i] ELSE g[i - 1] \o seqs[i]
    <3>1. CASE i = k /\ k = 1
      BY <3>1, <1>4, <1>5
    <3>2. CASE i = k /\ k # 1
      <4>1. k - 1 \in 1..k /\ k - 1 # k
        BY <3>2, <2>1
      <4>2. g[k - 1] = f[k - 1]
        BY <4>1, <1>5
      <4>3. g[k] = f[k - 1] \o seqs[k]
        BY <3>2, <1>4, <1>5
      <4> QED BY <3>2, <4>2, <4>3
    <3>3. CASE i # k
      <4>1. i \in 1..(k - 1)
        BY <3>3, <2>1
      <4>2. f[i] = IF i = 1 THEN seqs[i] ELSE f[i - 1] \o seqs[i]
        BY <4>1, <1>3 DEF Concats
      <4>3. g[i] = f[i] /\ (i # 1 => g[i - 1] = f[i - 1])
        BY <4>1, <2>1, <1>5
      <4> QED BY <4>2, <4>3
    <3> QED BY <3>1, <3>2, <3>3
  <2> QED BY <2>1, <2>2 DEF Concats
<1> QED BY <1>1, <1>6

LEMMA FlattenMeaning ==
    ASSUME NEW seqs, Len(seqs) \in Nat, Len(seqs) # 0
    PROVE  \E f : Concats(f, seqs, Len(seqs)) /\ FlattenSeq(seqs) = f[Len(seqs)]
<1> DEFINE f == CHOOSE g : Concats(g, seqs, Len(seqs))
<1>1. Concats(f, seqs, Len(seqs))
  BY ConcatsExist
<1>2. FlattenSeq(seqs) = f[Len(seqs)]
  BY DEF FlattenSeq, Concats
<1> QED BY <1>1, <1>2

\* The first n sequences, one after the other, hold what each of them holds.
Holds(q, seqs, n) ==
    /\ IsSeq(q)
    /\ ToSet(q) = UNION {ToSet(seqs[i]) : i \in 1..n}

\* FlattenSeq holds what each of the sequences holds.
LEMMA Flattened ==
    ASSUME NEW seqs, IsSeq(seqs), \A i \in DOMAIN seqs : IsSeq(seqs[i])
    PROVE  /\ IsSeq(FlattenSeq(seqs))
           /\ ToSet(FlattenSeq(seqs)) = UNION {ToSet(seqs[i]) : i \in DOMAIN seqs}
<1>1. Len(seqs) \in Nat /\ DOMAIN seqs = 1..Len(seqs)
  BY IsSeqFacts
<1>2. CASE Len(seqs) = 0
  <2>1. FlattenSeq(seqs) = <<>> /\ DOMAIN seqs = {}
    BY <1>1, <1>2 DEF FlattenSeq, IsSeq
  <2> QED BY <2>1, EmptyIsSeq
<1>3. CASE Len(seqs) # 0
  <2>1. PICK f : Concats(f, seqs, Len(seqs)) /\ FlattenSeq(seqs) = f[Len(seqs)]
    BY <1>1, <1>3, FlattenMeaning
  <2> DEFINE T == {k \in 1..Len(seqs) : ~ Holds(f[k], seqs, k)}
  <2>2. ASSUME T # {} PROVE FALSE
    <3>1. PICK k \in T : \A m \in T : k <= m
      <4>1. T \subseteq Nat /\ T # {}
        BY <1>1, <2>2
      <4> HIDE DEF T
      <4> QED BY <4>1, LeastNumber
    <3>2. k \in 1..Len(seqs) /\ ~ Holds(f[k], seqs, k) /\ IsSeq(seqs[k])
      BY <1>1
    <3>3. CASE k = 1
      <4>1. f[1] = seqs[1] /\ 1..1 = {1}
        BY <2>1, <3>2, <3>3 DEF Concats
      <4>2. Holds(seqs[1], seqs, 1)
        BY <3>2, <3>3, <4>1 DEF Holds
      <4> QED BY <3>2, <3>3, <4>1, <4>2
    <3>4. CASE k # 1
      <4>1. f[k] = f[k - 1] \o seqs[k]
        BY <2>1, <3>2, <3>4 DEF Concats
      <4>2. k - 1 \in 1..Len(seqs) /\ k - 1 \notin T
        BY <1>1, <3>1, <3>2, <3>4
      <4>3. Holds(f[k - 1], seqs, k - 1)
        BY <4>2
      <4>4. /\ IsSeq(f[k - 1] \o seqs[k])
            /\ ToSet(f[k - 1] \o seqs[k]) = ToSet(f[k - 1]) \cup ToSet(seqs[k])
        BY <3>2, <4>3, ConcatSet DEF Holds
      <4>5. 1..k = 1..(k - 1) \cup {k}
        BY <1>1, <3>2
      <4>6. UNION {ToSet(seqs[i]) : i \in 1..k}
              = (UNION {ToSet(seqs[i]) : i \in 1..(k - 1)}) \cup ToSet(seqs[k])
        BY <4>5
      <4> QED BY <3>2, <4>1, <4>3, <4>4, <4>6 DEF Holds
    <3> QED BY <3>3, <3>4
  <2>3. Holds(f[Len(seqs)], seqs, Len(seqs))
    BY <1>1, <1>3, <2>2
  <2> QED BY <1>1, <2>1, <2>3 DEF Holds
<1> QED BY <1>2, <1>3
=============================================================================
