---------------------------- MODULE SequenceFacts ----------------------------
(***************************************************************************)
(* What the proofs need of numbers and sequences, whatever the component:  *)
(* a least member, the smallest number of a set, sequences put together,   *)
(* and what FlattenSeq makes of a sequence of sequences.                   *)
(***************************************************************************)
EXTENDS SequencesExt, FiniteSetsExt, Functions, SequenceTheorems, WellFoundedInduction, TLAPS

\* A set of naturals has a least member: what an induction over data needs.
LEMMA LeastOf == ASSUME NEW T, T \subseteq Nat, T # {} PROVE \E x \in T : \A y \in T : x <= y
<1>1. IsWellFoundedOn({ss \in Nat \X Nat : ss[1] < ss[2]}, Nat)
  BY NatLessThanWellFounded, Zenon DEF OpToRel
<1>2. PICK x \in T : \A y \in T : ~(<<y, x>> \in {ss \in Nat \X Nat : ss[1] < ss[2]})
  BY <1>1, WFMin
<1>3. ASSUME NEW y \in T PROVE x <= y
  <2>1. ~(y < x)
    BY <1>2
  <2> QED BY <2>1
<1> QED BY <1>3

\* The function that FlattenSeq chooses, by its equation, exists up to every index;
Flattened(seqs, g, i) == IF i = 1 THEN seqs[i] ELSE g[i-1] \o seqs[i]
FlatUpto(S, seqs, k) == \E h \in [1..k -> Seq(S)] : \A i \in 1..k : h[i] = Flattened(seqs, h, i)

LEMMA FlatExists ==
    ASSUME NEW S, NEW seqs \in Seq(Seq(S)), NEW n \in Nat, n = Len(seqs)
    PROVE  FlatUpto(S, seqs, n)
<1> DEFINE T == {k \in 0..n : ~FlatUpto(S, seqs, k)}
<1> SUFFICES ASSUME T # {} PROVE FALSE
  OBVIOUS
<1>1. T \subseteq Nat
  OBVIOUS
<1>2. PICK k \in T : \A j \in T : k <= j
  <2> HIDE DEF T
  <2> QED BY <1>1, LeastOf
<1>3. k # 0
  <2>1. [i \in 1..0 |-> <<>>] \in [1..0 -> Seq(S)] /\ 1..0 = {}
    OBVIOUS
  <2>2. FlatUpto(S, seqs, 0)
    BY <2>1 DEF FlatUpto
  <2> QED BY <2>2
<1>4. k \in 1..n /\ k - 1 \in 0..n /\ k - 1 \notin T
  BY <1>2, <1>3
<1>5. PICK h \in [1..(k - 1) -> Seq(S)] : \A i \in 1..(k - 1) : h[i] = Flattened(seqs, h, i)
  BY <1>4 DEF FlatUpto
<1> DEFINE e == [i \in 1..k |-> IF i = k THEN Flattened(seqs, h, k) ELSE h[i]]
<1>6. Flattened(seqs, h, k) \in Seq(S)
  <2>1. seqs[k] \in Seq(S)
    BY <1>4
  <2>2. k # 1 => h[k - 1] \in Seq(S)
    BY <1>4, <1>5
  <2> QED BY <2>1, <2>2 DEF Flattened
<1>7. e \in [1..k -> Seq(S)]
  BY <1>4, <1>5, <1>6
<1>8. ASSUME NEW i \in 1..k PROVE e[i] = Flattened(seqs, e, i)
  <2>1. i # 1 => e[i - 1] = h[i - 1]
    BY <1>4
  <2>2. e[i] = Flattened(seqs, h, i)
    <3>1. CASE i = k
      BY <3>1
    <3>2. CASE i # k
      <4>1. i \in 1..(k - 1)
        BY <1>4, <3>2
      <4> QED BY <1>5, <3>2, <4>1
    <3> QED BY <3>1, <3>2
  <2> HIDE DEF e
  <2> QED BY <2>1, <2>2 DEF Flattened
<1>9. FlatUpto(S, seqs, k)
  <2> HIDE DEF e
  <2> QED BY <1>7, <1>8 DEF FlatUpto
<1> QED BY <1>9

\* so what it flattens is a sequence of the same elements.
LEMMA FlattenedIn ==
    ASSUME NEW S, NEW seqs \in Seq(Seq(S))
    PROVE  FlattenSeq(seqs) \in Seq(S)
<1>1. PICK n \in Nat : n = Len(seqs)
  OBVIOUS
<1>2. PICK h \in [1..n -> Seq(S)] : \A i \in 1..n : h[i] = Flattened(seqs, h, i)
  BY <1>1, FlatExists DEF FlatUpto
<1>3. h = [i \in 1..n |-> Flattened(seqs, h, i)]
  BY <1>2
<1> DEFINE F == CHOOSE g : g = [i \in 1..Len(seqs) |-> IF i = 1 THEN seqs[i] ELSE g[i-1] \o seqs[i]]
<1>4. F = [i \in 1..n |-> Flattened(seqs, F, i)]
  <2>1. h = [i \in 1..Len(seqs) |-> IF i = 1 THEN seqs[i] ELSE h[i-1] \o seqs[i]]
    BY <1>1, <1>3 DEF Flattened
  <2>2. F = [i \in 1..Len(seqs) |-> IF i = 1 THEN seqs[i] ELSE F[i-1] \o seqs[i]]
    BY <2>1, Zenon
  <2> HIDE DEF F
  <2> QED BY <1>1, <2>2 DEF Flattened
<1>5. FlattenSeq(seqs) = IF n = 0 THEN seqs ELSE F[n]
  <2>1. FlattenSeq(seqs) = IF Len(seqs) = 0 THEN seqs ELSE F[Len(seqs)]
    BY Zenon DEF FlattenSeq
  <2> HIDE DEF F
  <2> QED BY <1>1, <2>1
<1>6. PICK f : f = F
  OBVIOUS
<1>7. \A i \in 1..n : f[i] = Flattened(seqs, f, i)
  <2> HIDE DEF F
  <2>1. f = [i \in 1..n |-> Flattened(seqs, f, i)]
    BY <1>4, <1>6
  <2> QED BY <2>1
<1>8. \A i \in 1..n : f[i] \in Seq(S)
  <2> DEFINE T == {i \in 1..n : f[i] \notin Seq(S)}
  <2> SUFFICES ASSUME T # {} PROVE FALSE
    OBVIOUS
  <2>1. T \subseteq Nat
    OBVIOUS
  <2>2. PICK k \in T : \A j \in T : k <= j
    <3> HIDE DEF T
    <3> QED BY <2>1, LeastOf
  <2>3. seqs[k] \in Seq(S)
    BY <1>1
  <2>4. k # 1 => f[k - 1] \in Seq(S)
    BY <2>2
  <2>5. f[k] \in Seq(S)
    <3>1. k \in 1..n /\ f[k] = Flattened(seqs, f, k)
      BY <1>7
    <3>2. CASE k = 1
      BY <2>3, <3>1, <3>2 DEF Flattened
    <3>3. CASE k # 1
      BY <2>3, <2>4, <3>1, <3>3 DEF Flattened
    <3> QED BY <3>2, <3>3
  <2> QED BY <2>5
<1> QED
  <2>1. CASE n = 0
    <3>1. FlattenSeq(seqs) = seqs
      <4> HIDE DEF F
      <4> QED BY <1>5, <2>1
    <3>2. seqs = <<>>
      BY <1>1, <2>1, EmptySeq
    <3>3. <<>> \in Seq(S)
      BY EmptySeq
    <3> QED BY <3>1, <3>2, <3>3
  <2>2. CASE n # 0
    <3>1. n \in 1..n
      BY <2>2
    <3> HIDE DEF F
    <3> QED BY <1>5, <1>6, <1>8, <2>2, <3>1
  <2> QED BY <2>1, <2>2

LEMMA SeqOfMore == ASSUME NEW S, NEW T, S \subseteq T, NEW s \in Seq(S) PROVE s \in Seq(T)
<1>1. s = [i \in 1..Len(s) |-> s[i]] /\ Len(s) \in Nat /\ \A i \in 1..Len(s) : s[i] \in S
  OBVIOUS
<1>2. s \in [1..Len(s) -> T]
  BY <1>1
<1> QED BY <1>1, <1>2, SeqDef

LEMMA CatIn ==
    ASSUME NEW S, NEW T, NEW s \in Seq(S), NEW t \in Seq(T)
    PROVE  s \o t \in Seq(S \cup T)
<1>1. s \in Seq(S \cup T) /\ t \in Seq(S \cup T)
  BY SeqOfMore
<1> QED BY <1>1

LEMMA MinIn == ASSUME NEW T, T \subseteq Nat, T # {} PROVE Min(T) \in T
BY LeastOf DEF Min

\* A stack: its top, what is below it, and another top.
LEMMA TopOf ==
    ASSUME NEW S, NEW s \in Seq(S), s # <<>>
    PROVE  /\ Len(s) \in Nat \ {0} /\ Last(s) = s[Len(s)] /\ Last(s) \in S
           /\ Front(s) \in Seq(S) /\ Len(Front(s)) = Len(s) - 1
           /\ \A i \in 1..Len(s) - 1 : Front(s)[i] = s[i]
<1>1. Len(s) \in Nat /\ Len(s) # 0
  BY EmptySeq
<1>2. Front(s) = SubSeq(s, 1, Len(s) - 1) /\ Last(s) = s[Len(s)]
  BY DEF Front, Last
<1>3. s[Len(s)] \in S
  BY <1>1
<1>4. /\ SubSeq(s, 1, Len(s) - 1) \in Seq(S) /\ Len(SubSeq(s, 1, Len(s) - 1)) = Len(s) - 1
      /\ \A i \in 1..Len(s) - 1 : SubSeq(s, 1, Len(s) - 1)[i] = s[i]
  <2>1. 1 \in Int /\ Len(s) - 1 \in Int /\ \A i \in 1..Len(s) - 1 : s[i] \in S
    BY <1>1
  <2>2. PICK n \in Int : n = Len(s) - 1
    BY <2>1
  <2>3. /\ SubSeq(s, 1, n) \in Seq(S) /\ Len(SubSeq(s, 1, n)) = IF 1 <= n THEN n - 1 + 1 ELSE 0
        /\ \A i \in 1..n - 1 + 1 : SubSeq(s, 1, n)[i] = s[1 + i - 1]
    BY <2>1, <2>2, SubSeqProperties
  <2>4. n \in Nat
    BY <1>1, <2>2
  <2>5. \A i \in 1..n : i \in 1..n - 1 + 1 /\ s[1 + i - 1] = s[i]
    BY <2>4
  <2> QED BY <2>2, <2>3, <2>4, <2>5
<1> QED BY <1>1, <1>2, <1>3, <1>4

LEMMA NewTop ==
    ASSUME NEW S, NEW s \in Seq(S), s # <<>>, NEW T, NEW f \in T
    PROVE  LET t == Append(Front(s), f) IN
           /\ t \in Seq(S \cup T) /\ t # <<>> /\ Len(t) = Len(s) /\ Last(t) = f
           /\ \A i \in 1..Len(s) - 1 : t[i] = s[i]
<1>1. Front(s) \in Seq(S \cup T) /\ f \in S \cup T
  BY TopOf, SeqOfMore
<1>2. Len(Front(s)) = Len(s) - 1 /\ Len(s) \in Nat \ {0} /\ \A i \in 1..Len(s) - 1 : Front(s)[i] = s[i]
  BY TopOf
<1> DEFINE t == Append(Front(s), f)
<1>3. /\ t \in Seq(S \cup T) /\ Len(t) = Len(s) /\ t[Len(s)] = f
      /\ \A i \in 1..Len(s) - 1 : t[i] = Front(s)[i]
  BY <1>1, <1>2
<1> HIDE DEF t
<1>4. t # <<>> /\ Last(t) = f
  BY <1>2, <1>3 DEF Last
<1> QED BY <1>2, <1>3, <1>4 DEF t

\* Sequences by what they hold: Seq(Range(s)).
LEMMA RangeOf ==
    ASSUME NEW S, NEW s \in Seq(S)
    PROVE  s \in Seq(Range(s)) /\ Range(s) \subseteq S /\ \A x \in Range(s) : \E i \in 1..Len(s) : x = s[i]
<1>1. DOMAIN s = 1..Len(s) /\ Len(s) \in Nat /\ \A i \in 1..Len(s) : s[i] \in S
  OBVIOUS
<1>2. \A i \in 1..Len(s) : s[i] \in Range(s)
  BY <1>1 DEF Range
<1>3. s \in [1..Len(s) -> Range(s)]
  BY <1>1, <1>2
<1>4. s \in Seq(Range(s))
  BY <1>1, <1>3, SeqDef
<1> QED BY <1>1, <1>4 DEF Range

LEMMA HeldIn == ASSUME NEW s, s \in Seq(Range(s)), NEW i \in 1..Len(s) PROVE s[i] \in Range(s)
OBVIOUS

LEMMA HeldByNone == Range(<<>>) = {} /\ <<>> \in Seq(Range(<<>>))
<1>1. DOMAIN <<>> = {}
  OBVIOUS
<1>2. Range(<<>>) = {}
  BY <1>1 DEF Range
<1> QED BY <1>2, EmptySeq

LEMMA HeldByOne == ASSUME NEW x PROVE Range(<<x>>) = {x} /\ <<x>> \in Seq(Range(<<x>>))
<1>1. <<x>> \in Seq({x}) /\ Len(<<x>>) = 1 /\ <<x>>[1] = x
  OBVIOUS
<1>2. Range(<<x>>) \subseteq {x} /\ <<x>> \in Seq(Range(<<x>>))
  BY <1>1, RangeOf
<1>3. x \in Range(<<x>>)
  BY <1>1, <1>2, HeldIn
<1> QED BY <1>2, <1>3

LEMMA HeldByBoth ==
    ASSUME NEW s, NEW t, s \in Seq(Range(s)), t \in Seq(Range(t))
    PROVE  s \o t \in Seq(Range(s \o t)) /\ Range(s \o t) = Range(s) \cup Range(t)
<1>1. s \o t \in Seq(Range(s) \cup Range(t))
  BY CatIn
<1>2. s \o t \in Seq(Range(s \o t)) /\ Range(s \o t) \subseteq Range(s) \cup Range(t)
  BY <1>1, RangeOf
<1>3. s \in Seq(Range(s) \cup Range(t)) /\ t \in Seq(Range(s) \cup Range(t))
  BY SeqOfMore
<1>4. /\ Len(s \o t) = Len(s) + Len(t) /\ Len(s) \in Nat /\ Len(t) \in Nat
      /\ \A i \in 1..Len(s) : (s \o t)[i] = s[i]
      /\ \A i \in 1..Len(t) : (s \o t)[Len(s) + i] = t[i]
  BY <1>3
<1>5. ASSUME NEW x \in Range(s) PROVE x \in Range(s \o t)
  <2>1. PICK i \in 1..Len(s) : x = s[i]
    BY RangeOf
  <2>2. i \in 1..Len(s \o t) /\ (s \o t)[i] = x
    BY <1>4, <2>1
  <2> QED BY <1>2, <2>2, HeldIn
<1>6. ASSUME NEW x \in Range(t) PROVE x \in Range(s \o t)
  <2>1. PICK i \in 1..Len(t) : x = t[i]
    BY RangeOf
  <2>2. Len(s) + i \in 1..Len(s \o t) /\ (s \o t)[Len(s) + i] = x
    BY <1>4, <2>1
  <2> QED BY <1>2, <2>2, HeldIn
<1> QED BY <1>2, <1>5, <1>6

LEMMA HeldByMore ==
    ASSUME NEW s, NEW x, s \in Seq(Range(s))
    PROVE  /\ Append(s, x) \in Seq(Range(Append(s, x))) /\ Range(Append(s, x)) = Range(s) \cup {x}
           /\ Len(Append(s, x)) = Len(s) + 1 /\ Append(s, x)[Len(s) + 1] = x
           /\ \A i \in 1..Len(s) : Append(s, x)[i] = s[i]
           /\ Append(s, x) # <<>> /\ Last(Append(s, x)) = x
<1> DEFINE t == Append(s, x)
<1>1. s \in Seq(Range(s) \cup {x})
  BY SeqOfMore
<1>2. /\ t \in Seq(Range(s) \cup {x}) /\ Len(t) = Len(s) + 1 /\ t[Len(s) + 1] = x
      /\ \A i \in 1..Len(s) : t[i] = s[i]
      /\ Len(s) \in Nat
  BY <1>1
<1> HIDE DEF t
<1>3. t \in Seq(Range(t)) /\ Range(t) \subseteq Range(s) \cup {x}
  BY <1>2, RangeOf
<1>4. \A i \in 1..Len(t) : t[i] \in Range(t)
  BY <1>3, HeldIn
<1>5. x \in Range(t)
  BY <1>2, <1>4
<1>6. ASSUME NEW y \in Range(s) PROVE y \in Range(t)
  <2>1. PICK i \in 1..Len(s) : y = s[i]
    BY RangeOf
  <2> QED BY <1>2, <1>4, <2>1
<1>7. t # <<>> /\ Last(t) = x
  BY <1>2 DEF Last
<1> QED BY <1>2, <1>3, <1>5, <1>6, <1>7 DEF t

LEMMA HeldByRest ==
    ASSUME NEW s, s \in Seq(Range(s)), s # <<>>
    PROVE  /\ Head(s) \in Range(s) /\ Head(s) = s[1] /\ Tail(s) \in Seq(Range(Tail(s)))
           /\ Range(s) = {Head(s)} \cup Range(Tail(s))
<1>1. Len(s) \in Nat /\ Len(s) # 0 /\ Head(s) = s[1]
  BY EmptySeq
<1>2. Head(s) \in Range(s)
  BY <1>1, HeldIn
<1>3. Tail(s) \in Seq(Range(s)) /\ Len(Tail(s)) = Len(s) - 1
      /\ \A i \in 1..Len(s) - 1 : Tail(s)[i] = s[i + 1]
  BY <1>1
<1>4. Tail(s) \in Seq(Range(Tail(s))) /\ Range(Tail(s)) \subseteq Range(s)
  BY <1>3, RangeOf
<1>5. ASSUME NEW x \in Range(s), x # Head(s) PROVE x \in Range(Tail(s))
  <2>1. PICK i \in 1..Len(s) : x = s[i]
    BY RangeOf
  <2>2. i # 1
    BY <1>1, <1>5, <2>1
  <2>3. i - 1 \in 1..Len(Tail(s)) /\ Tail(s)[i - 1] = s[i]
    BY <1>1, <1>3, <2>1, <2>2
  <2> QED BY <1>4, <2>1, <2>3, HeldIn
<1> QED BY <1>1, <1>2, <1>4, <1>5

LEMMA HeldByTop ==
    ASSUME NEW s, s \in Seq(Range(s)), s # <<>>
    PROVE  /\ Len(s) \in Nat \ {0} /\ Last(s) = s[Len(s)] /\ Last(s) \in Range(s)
           /\ Front(s) \in Seq(Range(Front(s))) /\ Range(Front(s)) \subseteq Range(s)
           /\ Len(Front(s)) = Len(s) - 1 /\ \A i \in 1..Len(s) - 1 : Front(s)[i] = s[i]
<1>1. /\ Len(s) \in Nat \ {0} /\ Last(s) = s[Len(s)] /\ Last(s) \in Range(s)
      /\ Front(s) \in Seq(Range(s)) /\ Len(Front(s)) = Len(s) - 1
      /\ \A i \in 1..Len(s) - 1 : Front(s)[i] = s[i]
  BY TopOf
<1> QED BY <1>1, RangeOf

LEMMA HeldByNewTop ==
    ASSUME NEW s, s \in Seq(Range(s)), s # <<>>, NEW f
    PROVE  LET t == Append(Front(s), f) IN
           /\ t \in Seq(Range(t)) /\ t # <<>> /\ Range(t) \subseteq Range(s) \cup {f}
           /\ Len(t) = Len(s) /\ t[Len(s)] = f /\ Last(t) = f
           /\ \A i \in 1..Len(s) - 1 : t[i] = s[i]
<1>1. /\ Len(s) \in Nat \ {0} /\ Front(s) \in Seq(Range(Front(s))) /\ Range(Front(s)) \subseteq Range(s)
      /\ Len(Front(s)) = Len(s) - 1 /\ \A i \in 1..Len(s) - 1 : Front(s)[i] = s[i]
  BY HeldByTop
<1> DEFINE t == Append(Front(s), f)
<1>2. /\ t \in Seq(Range(t)) /\ Range(t) = Range(Front(s)) \cup {f}
      /\ Len(t) = Len(Front(s)) + 1 /\ t[Len(Front(s)) + 1] = f
      /\ \A i \in 1..Len(Front(s)) : t[i] = Front(s)[i]
      /\ t # <<>> /\ Last(t) = f
  BY <1>1, HeldByMore
<1> HIDE DEF t
<1> QED BY <1>1, <1>2 DEF t

\* What FlattenSeq holds, its parts hold.
LEMMA HeldByParts ==
    ASSUME NEW seqs, seqs \in Seq(Range(seqs)), \A s \in Range(seqs) : s \in Seq(Range(s))
    PROVE  /\ FlattenSeq(seqs) \in Seq(Range(FlattenSeq(seqs)))
           /\ \A x \in Range(FlattenSeq(seqs)) : \E s \in Range(seqs) : x \in Range(s)
<1> DEFINE S == UNION {Range(s) : s \in Range(seqs)}
<1>1. ASSUME NEW s \in Range(seqs) PROVE s \in Seq(S)
  <2>1. Range(s) \subseteq S
    OBVIOUS
  <2> HIDE DEF S
  <2> QED BY <2>1, SeqOfMore
<1>2. Range(seqs) \subseteq Seq(S)
  <2> HIDE DEF S
  <2> QED BY <1>1
<1>3. seqs \in Seq(Seq(S))
  <2> HIDE DEF S
  <2> QED BY <1>2, SeqOfMore
<1>4. FlattenSeq(seqs) \in Seq(S)
  <2> HIDE DEF S
  <2> QED BY <1>3, FlattenedIn
<1>5. FlattenSeq(seqs) \in Seq(Range(FlattenSeq(seqs))) /\ Range(FlattenSeq(seqs)) \subseteq S
  <2> HIDE DEF S
  <2> QED BY <1>4, RangeOf
<1> QED BY <1>5
=============================================================================
