---------------------------- MODULE ProofLemmas -----------------------------
(***************************************************************************)
(* Lemmas that are about no part of the system: induction, and sequences.  *)
(***************************************************************************)
EXTENDS Integers, SequencesExt, FiniteSetTheorems, SequenceTheorems, TLAPS

-----------------------------------------------------------------------------
(* Induction over the naturals with a set in the place of a predicate, and *)
(* what follows from it: the least element of a set, the existence of a    *)
(* function that is defined by recursion.  The lemmas rest on the strict   *)
(* subset relation being well-founded on finite sets.                      *)

\* A set that holds 0 and, with every number, the next one holds them all.
LEMMA SetInduction ==
  ASSUME NEW S, 0 \in S, \A n \in Nat : n \in S => n + 1 \in S
  PROVE  Nat \subseteq S
<1> DEFINE Bad == Nat \ S
           T == {1..n : n \in Bad}
<1>1. SUFFICES ASSUME Bad # {} PROVE FALSE
  OBVIOUS
<1>2. T \subseteq FiniteSubsetsOf(Nat) /\ T # {}
  <2>1. \A n \in Bad : 1..n \in SUBSET Nat /\ IsFiniteSet(1..n)
    BY FS_Interval
  <2> QED
    BY <1>1, <2>1 DEF FiniteSubsetsOf
<1>3. PICK U \in T : \A V \in T : ~(<<V, U>> \in StrictSubsetOrdering(Nat))
  <2> HIDE DEF T
  <2> QED
    BY ONLY <1>2, FS_StrictSubsetOrderingWellFounded, WFMin
<1>4. PICK x \in Bad : U = 1..x
  OBVIOUS
<1>5. x # 0 /\ x - 1 \in Nat
  BY x \in Nat, 0 \in S
<1>6. 1..(x - 1) \subseteq 1..x /\ x \in 1..x /\ x \notin 1..(x - 1)
  BY <1>5
<1>7. <<1..(x - 1), U>> \in StrictSubsetOrdering(Nat)
  BY <1>4, <1>5, <1>6, 1..x \in SUBSET Nat, 1..(x - 1) \in SUBSET Nat
  DEF StrictSubsetOrdering
<1>8. x - 1 \in S
  BY <1>3, <1>5, <1>7
<1> QED
  BY <1>5, <1>8

\* A non-empty set of naturals has a least element.
LEMMA LeastElement ==
  ASSUME NEW S \in SUBSET Nat, S # {}
  PROVE  \E m \in S : \A j \in 0..(m - 1) : j \notin S
<1> DEFINE Below == {n \in Nat : \A j \in 0..n : j \notin S}
<1>1. SUFFICES ASSUME \A m \in S : \E j \in 0..(m - 1) : j \in S PROVE FALSE
  OBVIOUS
<1>2. 0 \in Below
  BY <1>1
<1>3. ASSUME NEW n \in Nat, n \in Below PROVE n + 1 \in Below
  <2>1. n + 1 \notin S
    BY <1>1, <1>3
  <2> QED
    BY <1>3, <2>1, \A j \in 0..(n + 1) : j \in 0..n \/ j = n + 1
<1>4. Nat \subseteq Below
  BY <1>2, <1>3, SetInduction
<1>5. PICK m \in S : m \in Nat
  OBVIOUS
<1> QED
  BY <1>4, <1>5

\* A function on 0..n can be defined from its value at 0, each value from
\* the one before it: F[k][v] is the value at k when v is the one at k - 1.
LEMMA FunctionByRecursion ==
  ASSUME NEW V, NEW v0 \in V, NEW n \in Nat, NEW F \in [1..n -> [V -> V]]
  PROVE  \E f \in [0..n -> V] :
           /\ f[0] = v0
           /\ \A k \in 1..n : f[k] = F[k][f[k - 1]]
<1> DEFINE Good(m, f) == /\ f \in [0..m -> V]
                         /\ f[0] = v0
                         /\ \A k \in 1..m : f[k] = F[k][f[k - 1]]
           Reach == {m \in Nat : m <= n => \E f \in [0..m -> V] : Good(m, f)}
<1>1. 0 \in Reach
  <2>1. Good(0, [k \in 0..0 |-> v0])
    OBVIOUS
  <2> QED
    BY <2>1
<1>2. ASSUME NEW m \in Nat, m \in Reach PROVE m + 1 \in Reach
  <2>1. SUFFICES ASSUME m + 1 <= n PROVE \E g : Good(m + 1, g)
    OBVIOUS
  <2>2. PICK f \in [0..m -> V] : Good(m, f)
    BY <1>2, <2>1
  <2> DEFINE g == [k \in 0..(m + 1) |->
                     IF k <= m THEN f[k] ELSE F[m + 1][f[m]]]
  <2>3. F[m + 1][f[m]] \in V
    BY <2>1
  <2>4. g \in [0..(m + 1) -> V] /\ g[0] = v0
    BY <2>2, <2>3
  <2>5. ASSUME NEW k \in 1..(m + 1) PROVE g[k] = F[k][g[k - 1]]
    <3>1. CASE k \in 1..m
      BY <2>2, <3>1
    <3>2. CASE k = m + 1
      <4>1. g[m + 1] = F[m + 1][f[m]] /\ g[m] = f[m]
        OBVIOUS
      <4>2. k - 1 = m
        BY <3>2
      <4> QED
        BY <3>2, <4>1, <4>2
    <3> QED
      BY <3>1, <3>2
  <2> QED
    BY <2>4, <2>5
<1>3. n \in Reach
  BY <1>1, <1>2, SetInduction
<1> QED
  BY <1>3

-----------------------------------------------------------------------------
(* Maps and short sequences.                                               *)

\* A map without keys is the empty one.
LEMMA EmptyMap ==
  ASSUME NEW f, f = [x \in DOMAIN f |-> f[x]], DOMAIN f = {}
  PROVE  f = <<>>
OBVIOUS

\* What is put at the end of a short sequence.
LEMMA Appending ==
  ASSUME NEW x, NEW y
  PROVE  Append(<<>>, x) = <<x>> /\ Append(<<x>>, y) = <<x, y>>
<1> DEFINE S == {x, y}
           s == Append(<<x>>, y)
           t == <<x, y>>
<1>1. s \in Seq(S) /\ t \in Seq(S) /\ Len(s) = 2 /\ Len(t) = 2
  OBVIOUS
<1>2. s[1] = t[1] /\ s[2] = t[2]
  OBVIOUS
<1>3. \A i \in 1..Len(s) : s[i] = t[i]
  <2> HIDE DEF s, t
  <2> QED
    BY <1>1, <1>2
<1>4. s = t
  <2> HIDE DEF s, t, S
  <2> QED
    BY <1>1, <1>3, SeqEqual
<1>5. Append(<<>>, x) = <<x>>
  OBVIOUS
<1> QED
  BY <1>4, <1>5

\* What is taken from its head, and which short sequences are different.
LEMMA Taking ==
  ASSUME NEW x, NEW y
  PROVE  /\ Head(<<x>>) = x /\ Tail(<<x>>) = <<>>
         /\ Head(<<x, y>>) = x /\ Tail(<<x, y>>) = <<y>>
         /\ <<x>> # <<>> /\ <<x, y>> # <<>>
         /\ <<x>> = <<y>> => x = y
         /\ \A z : <<x, y>> # <<z>>
OBVIOUS

\* Short sequences put behind each other.
LEMMA Joining ==
  ASSUME NEW x, NEW y
  PROVE  /\ <<>> \o <<>> = <<>> /\ <<x>> \o <<>> = <<x>> /\ <<>> \o <<x>> = <<x>>
         /\ <<x>> \o <<y>> = <<x, y>>
<1> DEFINE S == {x, y}
           s == <<x>> \o <<y>>
           t == <<x, y>>
<1>1. <<x>> \in Seq(S) /\ <<y>> \in Seq(S) /\ t \in Seq(S) /\ Len(t) = 2
  OBVIOUS
<1>2. s \in Seq(S) /\ Len(s) = 2
  BY <1>1, ConcatProperties
<1>3. s[1] = t[1] /\ s[2] = t[2]
  BY <1>1, ConcatProperties
<1>4. \A i \in 1..Len(s) : s[i] = t[i]
  <2> HIDE DEF s, t
  <2> QED
    BY <1>1, <1>2, <1>3
<1>5. s = t
  <2> HIDE DEF s, t, S
  <2> QED
    BY <1>1, <1>2, <1>4, SeqEqual
<1>6. <<x>> \o <<>> = <<x>> /\ <<>> \o <<x>> = <<x>>
  BY <1>1, ConcatEmptySeq
<1>7. <<>> \o <<>> = <<>>
  BY EmptySeq, ConcatEmptySeq
<1> QED
  BY <1>5, <1>6, <1>7

\* A sequence of at most one element.
LEMMA ShortSequence ==
  ASSUME NEW M, NEW x, x = <<>> \/ \E m \in M : x = <<m>>
  PROVE  x \in Seq(M) /\ Len(x) <= 1
<1>1. CASE x = <<>>
  BY <1>1
<1>2. CASE \E m \in M : x = <<m>>
  <2>1. PICK m \in M : x = <<m>>
    BY <1>2
  <2>2. <<m>> \in Seq(M) /\ Len(<<m>>) = 1
    OBVIOUS
  <2> QED
    BY <2>1, <2>2
<1> QED
  BY <1>1, <1>2

\* Joining and appending, in either order.
LEMMA JoinAppend ==
  ASSUME NEW S, NEW s \in Seq(S), NEW t \in Seq(S), NEW x \in S
  PROVE  s \o Append(t, x) = Append(s \o t, x)
<1>1. <<x>> \in Seq(S) /\ s \o t \in Seq(S)
  BY ConcatProperties
<1>2. Append(t, x) = t \o <<x>> /\ Append(s \o t, x) = (s \o t) \o <<x>>
  BY <1>1, AppendIsConcat
<1> QED
  BY <1>1, <1>2, ConcatAssociative

\* A sequence is its head before its tail.
LEMMA HeadAndTail ==
  ASSUME NEW S, NEW s \in Seq(S), s # <<>>
  PROVE  s = <<Head(s)>> \o Tail(s)
<1> DEFINE h == <<Head(s)>>
<1>1. /\ Head(s) \in S /\ Tail(s) \in Seq(S) /\ Len(s) \in Nat \ {0}
      /\ Len(Tail(s)) = Len(s) - 1 /\ Head(s) = s[1]
      /\ \A i \in 1..Len(Tail(s)) : Tail(s)[i] = s[i + 1]
  BY HeadTailProperties
<1>2. h \in Seq(S) /\ Len(h) = 1 /\ h[1] = s[1]
  BY <1>1
<1> HIDE DEF h
<1>3. /\ h \o Tail(s) \in Seq(S) /\ Len(h \o Tail(s)) = Len(s)
      /\ (h \o Tail(s))[1] = s[1]
      /\ \A i \in 1..Len(Tail(s)) : (h \o Tail(s))[1 + i] = s[i + 1]
  <2>1. /\ h \o Tail(s) \in Seq(S) /\ Len(h \o Tail(s)) = Len(h) + Len(Tail(s))
        /\ \A i \in 1..(Len(h) + Len(Tail(s))) :
             (h \o Tail(s))[i] = IF i <= Len(h) THEN h[i] ELSE Tail(s)[i - Len(h)]
    BY ONLY <1>1, <1>2, ConcatProperties
  <2>2. Len(h) + Len(Tail(s)) = Len(s) /\ 1 \in 1..Len(s)
    BY <1>1, <1>2
  <2>3. (h \o Tail(s))[1] = s[1]
    BY <1>2, <2>1, <2>2
  <2>4. ASSUME NEW i \in 1..Len(Tail(s)) PROVE (h \o Tail(s))[1 + i] = s[i + 1]
    <3>1. 1 + i \in 1..Len(s) /\ ~(1 + i <= Len(h)) /\ (1 + i) - Len(h) = i
      BY <1>1, <1>2
    <3>2. (h \o Tail(s))[1 + i] = Tail(s)[i]
      BY ONLY <2>1, <2>2, <3>1
    <3> QED
      BY <1>1, <3>2
  <2> QED
    BY <2>1, <2>2, <2>3, <2>4
<1>4. \A i \in 1..Len(s) : (h \o Tail(s))[i] = s[i]
  <2>1. TAKE i \in 1..Len(s)
  <2>2. CASE i = 1
    BY <1>3, <2>2
  <2>3. CASE i # 1
    <3>1. i - 1 \in 1..Len(Tail(s)) /\ 1 + (i - 1) = i /\ (i - 1) + 1 = i
      BY <1>1, <2>3
    <3> QED
      BY <1>3, <3>1
  <2> QED
    BY <2>2, <2>3
<1> QED
  BY <1>3, <1>4, SeqEqual DEF h

-----------------------------------------------------------------------------
(* Sequences that lose, gain or move an element.                           *)

\* Taking an element out of a sequence.
LEMMA ElementRemoved ==
  ASSUME NEW S, NEW s \in Seq(S), NEW i \in 1..Len(s)
  PROVE  /\ RemoveAt(s, i) \in Seq(S) /\ Len(RemoveAt(s, i)) = Len(s) - 1
         /\ \A k \in 1..(Len(s) - 1) : RemoveAt(s, i)[k] = IF k < i THEN s[k] ELSE s[k + 1]
<1> DEFINE a == SubSeq(s, 1, i - 1)
           b == SubSeq(s, i + 1, Len(s))
<1>1. Len(s) \in Nat
  OBVIOUS
<1>2. a \in Seq(S) /\ Len(a) = i - 1 /\ \A k \in 1..(i - 1) : a[k] = s[k]
  BY <1>1, SubSeqProperties
<1>3. b \in Seq(S) /\ Len(b) = Len(s) - i /\ \A k \in 1..(Len(s) - i) : b[k] = s[i + k]
  BY <1>1, SubSeqProperties
<1> HIDE DEF a, b
<1>4. a \o b \in Seq(S) /\ Len(a \o b) = Len(s) - 1
  <2>1. a \o b \in Seq(S) /\ Len(a \o b) = Len(a) + Len(b)
    BY <1>2, <1>3, ConcatProperties
  <2> QED
    BY <1>1, <1>2, <1>3, <2>1
<1>5. ASSUME NEW k \in 1..(Len(s) - 1)
      PROVE  (a \o b)[k] = IF k < i THEN s[k] ELSE s[k + 1]
  <2>1. (a \o b)[k] = IF k <= Len(a) THEN a[k] ELSE b[k - Len(a)]
    BY <1>1, <1>2, <1>3, ConcatProperties
  <2> QED
    BY <1>1, <1>2, <1>3, <2>1
<1> QED
  BY <1>4, <1>5 DEF RemoveAt, a, b

\* Putting an element into a sequence.
LEMMA ElementInserted ==
  ASSUME NEW S, NEW s \in Seq(S), NEW x \in S, NEW i \in 1..(Len(s) + 1)
  PROVE  /\ InsertAt(s, i, x) \in Seq(S) /\ Len(InsertAt(s, i, x)) = Len(s) + 1
         /\ \A k \in 1..(Len(s) + 1) :
              InsertAt(s, i, x)[k] = IF k < i THEN s[k] ELSE IF k = i THEN x ELSE s[k - 1]
<1> DEFINE a == SubSeq(s, 1, i - 1)
           b == SubSeq(s, i, Len(s))
           c == a \o <<x>>
<1>1. Len(s) \in Nat
  OBVIOUS
<1>2. a \in Seq(S) /\ Len(a) = i - 1 /\ \A k \in 1..(i - 1) : a[k] = s[k]
  BY <1>1, SubSeqProperties
<1>3. b \in Seq(S) /\ Len(b) = Len(s) + 1 - i /\ \A k \in 1..(Len(s) + 1 - i) : b[k] = s[i + k - 1]
  <2>1. CASE i = Len(s) + 1
    BY <1>1, <2>1, SubSeqProperties
  <2>2. CASE i \in 1..Len(s)
    BY <1>1, <2>2, SubSeqProperties
  <2> QED
    BY <1>1, <2>1, <2>2
<1>4. <<x>> \in Seq(S) /\ Len(<<x>>) = 1 /\ <<x>>[1] = x
  OBVIOUS
<1> HIDE DEF a, b
<1>5. c \in Seq(S) /\ Len(c) = i /\ c[i] = x /\ \A k \in 1..(i - 1) : c[k] = s[k]
  <2>1. c \in Seq(S) /\ Len(c) = i
    BY <1>1, <1>2, <1>4, ConcatProperties
  <2>2. ASSUME NEW k \in 1..i PROVE c[k] = IF k <= Len(a) THEN a[k] ELSE <<x>>[k - Len(a)]
    BY <1>1, <1>2, <1>4, ConcatProperties
  <2> QED
    BY <1>1, <1>2, <1>4, <2>1, <2>2
<1> HIDE DEF c
<1>6. c \o b \in Seq(S) /\ Len(c \o b) = Len(s) + 1
  BY <1>1, <1>3, <1>5, ConcatProperties
<1>7. ASSUME NEW k \in 1..(Len(s) + 1)
      PROVE  (c \o b)[k] = IF k < i THEN s[k] ELSE IF k = i THEN x ELSE s[k - 1]
  <2>1. (c \o b)[k] = IF k <= Len(c) THEN c[k] ELSE b[k - Len(c)]
    BY <1>1, <1>3, <1>5, ConcatProperties
  <2> QED
    BY <1>1, <1>3, <1>5, <2>1
<1> QED
  BY <1>6, <1>7 DEF InsertAt, a, b, c

\* The elements of t are those of s at the places m.
Picks(t, s, m) ==
  /\ m \in [DOMAIN t -> DOMAIN s] /\ IsInjective(m)
  /\ \A k \in DOMAIN t : t[k] = s[m[k]]

\* What is left is what was there but for one place.
LEMMA RemovedPicks ==
  ASSUME NEW S, NEW s \in Seq(S), NEW i \in 1..Len(s)
  PROVE  \E m : Picks(RemoveAt(s, i), s, m) /\ Range(m) = DOMAIN s \ {i}
<1> DEFINE t == RemoveAt(s, i)
           m == [k \in 1..(Len(s) - 1) |-> IF k < i THEN k ELSE k + 1]
<1>1. /\ DOMAIN s = 1..Len(s) /\ Len(s) \in Nat
      /\ DOMAIN t = 1..(Len(s) - 1)
      /\ \A k \in 1..(Len(s) - 1) : t[k] = IF k < i THEN s[k] ELSE s[k + 1]
  BY ElementRemoved, LenProperties
<1> HIDE DEF t
<1>2. m \in [DOMAIN t -> DOMAIN s] /\ IsInjective(m)
  BY <1>1 DEF IsInjective
<1>3. \A k \in DOMAIN t : t[k] = s[m[k]]
  BY <1>1
<1>4. Range(m) = DOMAIN s \ {i}
  <2>1. \A x \in Range(m) : x \in DOMAIN s \ {i}
    BY <1>1 DEF Range
  <2>2. ASSUME NEW x \in DOMAIN s \ {i} PROVE x \in Range(m)
    <3> DEFINE k == IF x < i THEN x ELSE x - 1
    <3>1. k \in 1..(Len(s) - 1) /\ x = IF k < i THEN k ELSE k + 1
      BY <1>1
    <3> HIDE DEF k
    <3>2. k \in DOMAIN m /\ m[k] = x
      BY <3>1
    <3> HIDE DEF m
    <3> QED
      BY <3>2 DEF Range
  <2> QED
    BY <2>1, <2>2
<1> QED
  BY <1>2, <1>3, <1>4 DEF Picks, t

\* An element that is moved to another place: all are still there.
LEMMA MovedPicks ==
  ASSUME NEW S, NEW s \in Seq(S), NEW i \in 1..Len(s), NEW j \in 1..Len(s)
  PROVE  LET t == InsertAt(RemoveAt(s, i), j, s[i])
         IN  /\ t \in Seq(S) /\ Len(t) = Len(s)
             /\ \E m : Picks(t, s, m) /\ Range(m) = DOMAIN s
<1> DEFINE r == RemoveAt(s, i)
           t == InsertAt(r, j, s[i])
           m == [k \in 1..Len(s) |-> IF k = j THEN i
                                     ELSE LET l == IF k < j THEN k ELSE k - 1
                                          IN  IF l < i THEN l ELSE l + 1]
<1>1. /\ DOMAIN s = 1..Len(s) /\ Len(s) \in Nat /\ s[i] \in S
      /\ r \in Seq(S) /\ Len(r) = Len(s) - 1
      /\ \A k \in 1..(Len(s) - 1) : r[k] = IF k < i THEN s[k] ELSE s[k + 1]
  BY ElementRemoved, LenProperties
<1> HIDE DEF r
<1>2. j \in 1..(Len(r) + 1) /\ Len(r) + 1 = Len(s)
  BY <1>1
<1>3. /\ t \in Seq(S) /\ Len(t) = Len(s)
      /\ \A k \in 1..Len(s) : t[k] = IF k < j THEN r[k] ELSE IF k = j THEN s[i] ELSE r[k - 1]
  BY <1>1, <1>2, ElementInserted
<1>4. DOMAIN t = 1..Len(s)
  BY <1>3, LenProperties
<1> HIDE DEF t
<1>5. m \in [DOMAIN t -> DOMAIN s] /\ IsInjective(m)
  BY <1>1, <1>4 DEF IsInjective
<1>6. ASSUME NEW k \in DOMAIN t PROVE t[k] = s[m[k]]
  <2>1. CASE k < j
    <3>1. t[k] = r[k] /\ k \in 1..(Len(s) - 1)
      BY <1>1, <1>3, <1>4, <2>1
    <3> QED
      BY <1>1, <1>4, <2>1, <3>1
  <2>2. CASE k > j
    <3>1. t[k] = r[k - 1] /\ k - 1 \in 1..(Len(s) - 1)
      BY <1>1, <1>3, <1>4, <2>2
    <3> QED
      BY <1>1, <1>4, <2>2, <3>1
  <2>3. CASE k = j
    BY <1>1, <1>3, <1>4, <2>3
  <2> QED
    BY <1>1, <1>4, <2>1, <2>2, <2>3
<1>7. Range(m) = DOMAIN s
  <2>1. \A x \in Range(m) : x \in DOMAIN s
    BY <1>1, <1>4, <1>5 DEF Range
  <2>2. ASSUME NEW x \in DOMAIN s PROVE x \in Range(m)
    <3> DEFINE l == IF x < i THEN x ELSE x - 1
               k == IF x = i THEN j ELSE IF l < j THEN l ELSE l + 1
    <3>1. k \in 1..Len(s)
      BY <1>1
    <3>2. x = IF k = j THEN i
              ELSE LET n == IF k < j THEN k ELSE k - 1
                   IN  IF n < i THEN n ELSE n + 1
      BY <1>1
    <3> HIDE DEF k
    <3>3. k \in DOMAIN m /\ m[k] = x
      BY <3>1, <3>2
    <3> HIDE DEF m
    <3> QED
      BY <3>3 DEF Range
  <2> QED
    BY <2>1, <2>2
<1> QED
  <2>1. Picks(t, s, m)
    BY <1>5, <1>6 DEF Picks
  <2> HIDE DEF m
  <2> QED
    BY <1>3, <1>7, <2>1 DEF t, r

\* The elements that are left, and those with one more.
LEMMA RemovedSet ==
  ASSUME NEW S, NEW s \in Seq(S), NEW i \in 1..Len(s), IsInjective(s)
  PROVE  /\ ToSet(RemoveAt(s, i)) = ToSet(s) \ {s[i]}
         /\ IsInjective(RemoveAt(s, i))
<1> DEFINE t == RemoveAt(s, i)
<1>1. PICK m : Picks(t, s, m) /\ Range(m) = DOMAIN s \ {i}
  BY RemovedPicks
<1>2. DOMAIN s = 1..Len(s) /\ i \in DOMAIN s
  BY LenProperties
<1> HIDE DEF t
<1>3. \A k \in DOMAIN t : m[k] \in DOMAIN s \ {i} /\ t[k] = s[m[k]]
  BY <1>1 DEF Picks, Range
<1>4. \A k \in DOMAIN s \ {i} : \E l \in DOMAIN t : k = m[l]
  BY <1>1 DEF Picks, Range
<1>5. ToSet(t) = ToSet(s) \ {s[i]}
  <2>1. ASSUME NEW x \in ToSet(t) PROVE x \in ToSet(s) \ {s[i]}
    BY <1>2, <1>3, <2>1 DEF ToSet, IsInjective
  <2>2. ASSUME NEW x \in ToSet(s) \ {s[i]} PROVE x \in ToSet(t)
    BY <1>3, <1>4, <2>2 DEF ToSet
  <2> QED
    BY <2>1, <2>2
<1>6. IsInjective(t)
  BY <1>1, <1>3 DEF IsInjective, Picks
<1> QED
  BY <1>5, <1>6 DEF t

\* Inserting adds the element to the set of elements and repeats none.
LEMMA InsertedSet ==
  ASSUME NEW S, NEW s \in Seq(S), NEW i \in 1..(Len(s) + 1), NEW x \in S
  PROVE  /\ ToSet(InsertAt(s, i, x)) = ToSet(s) \cup {x}
         /\ IsInjective(s) /\ x \notin ToSet(s) => IsInjective(InsertAt(s, i, x))
<1> DEFINE t == InsertAt(s, i, x)
<1>1. /\ t \in Seq(S) /\ DOMAIN t = 1..(Len(s) + 1) /\ DOMAIN s = 1..Len(s) /\ Len(s) \in Nat
      /\ \A k \in 1..(Len(s) + 1) : t[k] = IF k < i THEN s[k] ELSE IF k = i THEN x ELSE s[k - 1]
  <2>1. /\ t \in Seq(S) /\ Len(t) = Len(s) + 1
        /\ \A k \in 1..(Len(s) + 1) : t[k] = IF k < i THEN s[k] ELSE IF k = i THEN x ELSE s[k - 1]
    BY ElementInserted
  <2> HIDE DEF t
  <2> QED
    BY <2>1, LenProperties
<1> HIDE DEF t
<1>2. ToSet(t) = ToSet(s) \cup {x}
  <2>1. ASSUME NEW y \in ToSet(t) PROVE y \in ToSet(s) \cup {x}
    <3>1. PICK k \in 1..(Len(s) + 1) : y = t[k]
      BY <1>1, <2>1 DEF ToSet
    <3>2. k < i => k \in DOMAIN s
      BY <1>1
    <3>3. k > i => k - 1 \in DOMAIN s
      BY <1>1
    <3>4. y = x \/ \E l \in DOMAIN s : y = s[l]
      BY <1>1, <3>1, <3>2, <3>3
    <3> QED
      BY <3>4 DEF ToSet
  <2>2. x \in ToSet(t)
    BY <1>1 DEF ToSet
  <2>3. ASSUME NEW y \in ToSet(s) PROVE y \in ToSet(t)
    <3>1. PICK k \in 1..Len(s) : y = s[k]
      BY <1>1, <2>3 DEF ToSet
    <3>2. k < i => t[k] = s[k] /\ k \in DOMAIN t
      BY <1>1
    <3>3. k >= i => t[k + 1] = s[k] /\ k + 1 \in DOMAIN t
      BY <1>1
    <3> QED
      BY <1>1, <3>1, <3>2, <3>3 DEF ToSet
  <2> QED
    BY <2>1, <2>2, <2>3
<1>3. ASSUME IsInjective(s), x \notin ToSet(s) PROVE IsInjective(t)
  <2>1. \A k \in 1..Len(s) : s[k] # x
    BY <1>1, <1>3 DEF ToSet
  <2>2. \A k, l \in 1..Len(s) : s[k] = s[l] => k = l
    BY <1>1, <1>3 DEF IsInjective
  <2>3. ASSUME NEW k \in DOMAIN t, NEW l \in DOMAIN t, t[k] = t[l] PROVE k = l
    BY <1>1, <2>1, <2>2, <2>3
  <2> QED
    BY <2>3 DEF IsInjective
<1> QED
  BY <1>2, <1>3 DEF t

-----------------------------------------------------------------------------
(* Sequences put behind each other.                                        *)

\* Joining sequences joins their elements, and repeats none of different ones.
LEMMA JoinedSet ==
  ASSUME NEW S, NEW s \in Seq(S), NEW t \in Seq(S)
  PROVE  /\ s \o t \in Seq(S) /\ ToSet(s \o t) = ToSet(s) \cup ToSet(t)
         /\ IsInjective(s) /\ IsInjective(t) /\ ToSet(s) \cap ToSet(t) = {} => IsInjective(s \o t)
<1> DEFINE r == s \o t
<1>1. /\ r \in Seq(S) /\ DOMAIN r = 1..(Len(s) + Len(t))
      /\ DOMAIN s = 1..Len(s) /\ DOMAIN t = 1..Len(t) /\ Len(s) \in Nat /\ Len(t) \in Nat
      /\ \A k \in 1..Len(s) : r[k] = s[k]
      /\ \A k \in 1..Len(t) : r[Len(s) + k] = t[k]
  BY ConcatProperties, LenProperties
<1> HIDE DEF r
<1>2. \A k \in DOMAIN r : \/ k \in 1..Len(s) /\ r[k] = s[k]
                          \/ k - Len(s) \in 1..Len(t) /\ r[k] = t[k - Len(s)]
  <2> TAKE k \in DOMAIN r
  <2>1. CASE k <= Len(s)
    BY <1>1, <2>1
  <2>2. CASE k > Len(s)
    <3>1. k - Len(s) \in 1..Len(t) /\ Len(s) + (k - Len(s)) = k
      BY <1>1, <2>2
    <3> QED
      BY <1>1, <3>1
  <2> QED
    BY <1>1, <2>1, <2>2
<1>3. ToSet(r) = ToSet(s) \cup ToSet(t)
  <2>1. ASSUME NEW x \in ToSet(r) PROVE x \in ToSet(s) \cup ToSet(t)
    BY <1>1, <1>2 DEF ToSet
  <2>2. ASSUME NEW x \in ToSet(s) PROVE x \in ToSet(r)
    <3>1. PICK k \in 1..Len(s) : x = s[k]
      BY <1>1 DEF ToSet
    <3>2. k \in DOMAIN r /\ r[k] = x
      BY <1>1, <3>1
    <3> QED
      BY <3>2 DEF ToSet
  <2>3. ASSUME NEW x \in ToSet(t) PROVE x \in ToSet(r)
    <3>1. PICK k \in 1..Len(t) : x = t[k]
      BY <1>1 DEF ToSet
    <3>2. Len(s) + k \in DOMAIN r /\ r[Len(s) + k] = x
      BY <1>1, <3>1
    <3> QED
      BY <3>2 DEF ToSet
  <2> QED
    BY <2>1, <2>2, <2>3
<1>4. ASSUME IsInjective(s), IsInjective(t), ToSet(s) \cap ToSet(t) = {}
      PROVE  IsInjective(r)
  <2>1. \A k \in 1..Len(s), l \in 1..Len(t) : s[k] # t[l]
    BY <1>1, <1>4 DEF ToSet
  <2>2. ASSUME NEW k \in DOMAIN r, NEW l \in DOMAIN r, r[k] = r[l] PROVE k = l
    <3>1. /\ \A i, j \in 1..Len(s) : s[i] = s[j] => i = j
          /\ \A i, j \in 1..Len(t) : t[i] = t[j] => i = j
      BY <1>1, <1>4 DEF IsInjective
    <3>2. k \in Int /\ l \in Int
      BY <1>1
    <3>3. CASE k \in 1..Len(s) /\ l \in 1..Len(s)
      BY <1>1, <2>2, <3>1, <3>3
    <3>4. CASE k \in 1..Len(s) /\ l \notin 1..Len(s)
      BY <1>1, <1>2, <2>1, <2>2, <3>4
    <3>5. CASE k \notin 1..Len(s) /\ l \in 1..Len(s)
      BY <1>1, <1>2, <2>1, <2>2, <3>5
    <3>6. CASE k \notin 1..Len(s) /\ l \notin 1..Len(s)
      <4>1. k - Len(s) \in 1..Len(t) /\ l - Len(s) \in 1..Len(t)
        BY <1>2, <3>6
      <4>2. t[k - Len(s)] = t[l - Len(s)]
        BY <1>2, <2>2, <3>6
      <4>3. k - Len(s) = l - Len(s)
        BY <3>1, <4>1, <4>2
      <4> QED
        BY <1>1, <3>2, <4>3
    <3> QED
      BY <3>3, <3>4, <3>5, <3>6
  <2> QED
    BY <2>2 DEF IsInjective
<1> QED
  BY <1>1, <1>3, <1>4 DEF r

\* What the recursion of FlattenSeq says.
LEMMA FlattenIs ==
  ASSUME NEW S, NEW ss, ss \in Seq(Seq(S)), Len(ss) # 0
  PROVE  \E f \in [0..Len(ss) -> Seq(S)] :
           /\ f[0] = <<>> /\ FlattenSeq(ss) = f[Len(ss)]
           /\ \A k \in 1..Len(ss) : f[k] = f[k - 1] \o ss[k]
<1> DEFINE N == Len(ss)
           V == Seq(S)
           F == [k \in 1..N |-> [v \in V |-> v \o ss[k]]]
           zero == <<>>
<1>1. N \in Nat \ {0} /\ zero \in V /\ \A k \in 1..N : ss[k] \in V
  BY LenProperties
<1>2. F \in [1..N -> [V -> V]]
  <2>1. ASSUME NEW k \in 1..N, NEW v \in V PROVE v \o ss[k] \in V
    BY <1>1, ConcatProperties
  <2> QED
    BY <2>1
<1>3. PICK f \in [0..N -> V] : f[0] = zero /\ \A k \in 1..N : f[k] = F[k][f[k - 1]]
  <2>1. zero \in V /\ N \in Nat /\ F \in [1..N -> [V -> V]]
    BY <1>1, <1>2
  <2> HIDE DEF F, N, V, zero
  <2> QED
    BY ONLY <2>1, FunctionByRecursion
<1>4. ASSUME NEW k \in 1..N PROVE f[k] = f[k - 1] \o ss[k]
  <2>1. k - 1 \in 0..N
    BY <1>1
  <2>2. f[k - 1] \in V
    BY <2>1
  <2> QED
    BY <1>3, <2>2
<1>5. f[1] = ss[1]
  <2>1. 1 \in 1..N /\ 1 - 1 = 0
    BY <1>1
  <2>2. f[1] = zero \o ss[1] /\ ss[1] \in V
    BY <1>1, <1>3, <1>4, <2>1
  <2> QED
    BY <2>2, ConcatEmptySeq
<1> DEFINE Turns(g) == g = [i \in 1..N |-> IF i = 1 THEN ss[i] ELSE g[i - 1] \o ss[i]]
           flat == CHOOSE g : Turns(g)
           h == [i \in 1..N |-> f[i]]
<1>6. Turns(h)
  <2> DEFINE g == [i \in 1..N |-> IF i = 1 THEN ss[i] ELSE h[i - 1] \o ss[i]]
  <2>1. ASSUME NEW i \in 1..N PROVE h[i] = g[i]
    <3>1. CASE i = 1
      BY <1>5, <3>1
    <3>2. CASE i # 1
      <4>1. i - 1 \in 1..N
        BY <1>1, <3>2
      <4> QED
        BY <1>4, <3>2, <4>1
    <3> QED
      BY <3>1, <3>2
  <2>2. h = [i \in 1..N |-> h[i]] /\ g = [i \in 1..N |-> g[i]]
    OBVIOUS
  <2> HIDE DEF h, g
  <2>3. h = g
    BY <2>1, <2>2
  <2> QED
    BY <2>3 DEF g
<1>7. Turns(flat)
  <2> HIDE DEF Turns, h
  <2> QED
    BY <1>6
<1>8. FlattenSeq(ss) = flat[N]
  BY Zenon DEF FlattenSeq
<1> HIDE DEF flat, h
<1> DEFINE R == {k \in Nat : k + 1 <= N => flat[k + 1] = f[k + 1]}
<1>9. 0 \in R
  BY <1>1, <1>5, <1>7
<1>10. ASSUME NEW k \in Nat, k \in R PROVE k + 1 \in R
  <2>1. SUFFICES ASSUME k + 2 <= N PROVE flat[k + 2] = f[k + 2]
    OBVIOUS
  <2>2. /\ k + 2 \in 1..N /\ k + 2 # 1 /\ (k + 2) - 1 = k + 1 /\ k + 1 <= N
    BY <1>1, <2>1
  <2>3. flat[k + 2] = flat[k + 1] \o ss[k + 2]
    BY <1>7, <2>2
  <2>4. f[k + 2] = f[k + 1] \o ss[k + 2]
    BY <1>4, <2>2
  <2> QED
    BY <1>10, <2>2, <2>3, <2>4
<1>11. N - 1 \in R
  <2> HIDE DEF R
  <2>1. Nat \subseteq R
    BY <1>9, <1>10, SetInduction
  <2> QED
    BY <1>1, <2>1
<1>12. flat[N] = f[N]
  BY <1>1, <1>11
<1> QED
  BY <1>3, <1>4, <1>8, <1>12

\* Joining all sequences of a sequence, of which no two share an element.
LEMMA FlattenedSet ==
  ASSUME NEW S, NEW ss, ss \in Seq(Seq(S)), \A i \in DOMAIN ss : IsInjective(ss[i]),
         \A i, j \in DOMAIN ss : i # j => ToSet(ss[i]) \cap ToSet(ss[j]) = {}
  PROVE  /\ FlattenSeq(ss) \in Seq(S) /\ IsInjective(FlattenSeq(ss))
         /\ ToSet(FlattenSeq(ss)) = UNION {ToSet(ss[i]) : i \in DOMAIN ss}
<1>1. /\ DOMAIN ss = 1..Len(ss) /\ Len(ss) \in Nat
      /\ \A k \in 1..Len(ss) : ss[k] \in Seq(S)
  BY LenProperties
<1>2. CASE Len(ss) = 0
  <2>1. FlattenSeq(ss) = <<>>
    BY <1>2, EmptySeq DEF FlattenSeq
  <2>2. <<>> \in Seq(S) /\ DOMAIN <<>> = {}
    OBVIOUS
  <2>3. IsInjective(<<>>) /\ ToSet(<<>>) = {}
    BY <2>2 DEF IsInjective, ToSet
  <2>4. DOMAIN ss = {}
    BY <1>1, <1>2
  <2> QED
    BY <2>1, <2>2, <2>3, <2>4
<1>3. CASE Len(ss) # 0
  <2>1. PICK f \in [0..Len(ss) -> Seq(S)] :
          /\ f[0] = <<>> /\ FlattenSeq(ss) = f[Len(ss)]
          /\ \A k \in 1..Len(ss) : f[k] = f[k - 1] \o ss[k]
    BY <1>3, FlattenIs
  <2> DEFINE Upto(n) == UNION {ToSet(ss[i]) : i \in 1..n}
             Sofar(n) == f[n] \in Seq(S) /\ IsInjective(f[n]) /\ ToSet(f[n]) = Upto(n)
             R == {n \in Nat : n <= Len(ss) => Sofar(n)}
  <2>2. 0 \in R
    <3>1. DOMAIN <<>> = {} /\ <<>> \in Seq(S)
      OBVIOUS
    <3>2. IsInjective(<<>>) /\ ToSet(<<>>) = {}
      BY <3>1 DEF IsInjective, ToSet
    <3>3. Upto(0) = {}
      OBVIOUS
    <3> QED
      BY <2>1, <3>1, <3>2, <3>3
  <2>3. ASSUME NEW n \in Nat, n \in R, n + 1 <= Len(ss) PROVE Sofar(n + 1)
    <3>1. n + 1 \in 1..Len(ss) /\ (n + 1) - 1 = n /\ n <= Len(ss)
      BY <1>1, <2>3
    <3>2. Sofar(n)
      BY <2>3, <3>1
    <3>3. f[n + 1] = f[n] \o ss[n + 1] /\ ss[n + 1] \in Seq(S) /\ IsInjective(ss[n + 1])
      BY <1>1, <2>1, <3>1
    <3>4. Upto(n) \cap ToSet(ss[n + 1]) = {}
      <4>1. \A i \in 1..n : i \in DOMAIN ss /\ n + 1 \in DOMAIN ss /\ i # n + 1
        BY <1>1, <3>1
      <4> QED
        BY <4>1
    <3>5. Upto(n + 1) = Upto(n) \cup ToSet(ss[n + 1])
      <4>1. 1..(n + 1) = (1..n) \cup {n + 1}
        OBVIOUS
      <4> QED
        BY <4>1
    <3> HIDE DEF Upto
    <3> DEFINE s == f[n]
               t == ss[n + 1]
    <3>6. s \in Seq(S) /\ t \in Seq(S) /\ IsInjective(s) /\ IsInjective(t) /\ ToSet(s) = Upto(n)
      BY <3>2, <3>3
    <3>7. ToSet(s) \cap ToSet(t) = {} /\ f[n + 1] = s \o t /\ Upto(n + 1) = ToSet(s) \cup ToSet(t)
      BY <3>3, <3>4, <3>5, <3>6
    <3> HIDE DEF s, t
    <3>8. s \o t \in Seq(S) /\ IsInjective(s \o t) /\ ToSet(s \o t) = ToSet(s) \cup ToSet(t)
      BY ONLY <3>6, <3>7, JoinedSet
    <3> QED
      BY <3>7, <3>8
  <2>4. \A n \in Nat : n \in R => n + 1 \in R
    <3> HIDE DEF Sofar
    <3> QED
      BY <2>3
  <2>5. Nat \subseteq R
    <3> HIDE DEF R
    <3> QED
      BY <2>2, <2>4, SetInduction
  <2>6. Sofar(Len(ss))
    <3> HIDE DEF Sofar
    <3> QED
      BY <1>1, <2>5
  <2> QED
    BY <1>1, <2>1, <2>6
<1> QED
  BY <1>2, <1>3

=============================================================================
