--------------------------- MODULE ChordJoin_proofs ---------------------------
(***************************************************************************)
(* ChordJoin, for any number of header tasks, executors, faults and        *)
(* losses: types, and that the body of a saved group is whole.  Where no   *)
(* delivery is repeated and every result is stored, the chord implements   *)
(* ChordBarrier, whatever round trips fail, before or after their effect.  *)
(* Both rest on what ZRANGE returns: a set of entries of any size, in the  *)
(* order of the header.                                                    *)
(***************************************************************************)
EXTENDS ChordJoin, SequenceFacts, FunctionTheorems, FiniteSetTheorems

-----------------------------------------------------------------------------
(* The order of the journal *)

\* Entries are ordered as numbers are.
Key(p) == 2 * p[1] + IF p[2] = "ok" THEN 1 ELSE 0

LEMMA KeyIs ==
    /\ \A p \in Entries : Key(p) \in 0..(2 * Size + 1)
    /\ \A p, q \in Entries : Precedes(p, q) <=> Key(p) < Key(q)
    /\ \A p, q \in Entries : Key(p) = Key(q) => p = q
<1>1. ASSUME NEW p \in Entries
      PROVE  \E i \in Header, o \in {"ok", "bad"} : p = <<i, o>> /\ p[1] = i /\ p[2] = o
  BY DEF Entries
<1>2. \A i \in Header : i \in Nat /\ 1 <= i /\ i <= Size
  BY SizeAssumption DEF Header
<1>3. ASSUME NEW p \in Entries PROVE Key(p) \in 0..(2 * Size + 1)
  BY <1>1, <1>2, SizeAssumption DEF Key
<1>4. ASSUME NEW p \in Entries, NEW q \in Entries
      PROVE  (Precedes(p, q) <=> Key(p) < Key(q)) /\ (Key(p) = Key(q) => p = q)
  <2>1. PICK i \in Header, o \in {"ok", "bad"} : p = <<i, o>> /\ p[1] = i /\ p[2] = o
    BY <1>1
  <2>2. PICK j \in Header, u \in {"ok", "bad"} : q = <<j, u>> /\ q[1] = j /\ q[2] = u
    BY <1>1
  <2>3. /\ Key(p) = 2 * i + IF o = "ok" THEN 1 ELSE 0
        /\ Key(q) = 2 * j + IF u = "ok" THEN 1 ELSE 0
        /\ Precedes(p, q) <=> i < j \/ (i = j /\ o = "bad" /\ u = "ok")
    BY <2>1, <2>2 DEF Key, Precedes
  <2>4. i \in Nat /\ j \in Nat
    BY <1>2
  <2>5. (i < j \/ (i = j /\ o = "bad" /\ u = "ok")) <=> Key(p) < Key(q)
    BY <2>3, <2>4
  <2>6. Key(p) = Key(q) => i = j /\ o = u
    BY <2>3, <2>4
  <2> QED BY <2>1, <2>2, <2>3, <2>5, <2>6
<1> QED BY <1>3, <1>4

Sorted(s, n) == \A i, j \in 1..n : i < j => Precedes(s[i], s[j])
Below(T, k) == {p \in T : Key(p) < k}

\* The entries of T with a key below k can be put in order.
Sortable(T, k) ==
    \E n \in Nat : \E s \in [1..n -> Below(T, k)] :
        Sorted(s, n) /\ \A p \in Below(T, k) : \E i \in 1..n : s[i] = p

LEMMA SortedUpto ==
    ASSUME NEW T, T \subseteq Entries, NEW m \in Nat
    PROVE  Sortable(T, m)
<1> DEFINE Bad == {k \in Nat : ~Sortable(T, k)}
<1> SUFFICES ASSUME Bad # {} PROVE FALSE
  OBVIOUS
<1>1. Bad \subseteq Nat
  OBVIOUS
<1>2. PICK k \in Bad : \A j \in Bad : k <= j
  <2> HIDE DEF Bad
  <2> QED BY <1>1, LeastOf
<1>3. \A p \in T : Key(p) \in Nat
  BY KeyIs, SizeAssumption
<1>4. k # 0
  <2>1. Below(T, 0) = {}
    BY <1>3 DEF Below
  <2>2. [i \in 1..0 |-> 0] \in [1..0 -> Below(T, 0)] /\ 1..0 = {}
    OBVIOUS
  <2>3. Sortable(T, 0)
    BY <2>1, <2>2 DEF Sortable, Sorted
  <2> QED BY <2>3
<1>5. k \in Nat /\ k - 1 \in Nat /\ Sortable(T, k - 1)
  BY <1>2, <1>4
<1>6. PICK n \in Nat : \E s \in [1..n -> Below(T, k - 1)] :
          Sorted(s, n) /\ \A p \in Below(T, k - 1) : \E i \in 1..n : s[i] = p
  BY <1>5 DEF Sortable
<1>7. PICK s \in [1..n -> Below(T, k - 1)] :
          Sorted(s, n) /\ \A p \in Below(T, k - 1) : \E i \in 1..n : s[i] = p
  BY <1>6
<1>8. CASE \E p \in T : Key(p) = k - 1
  <2>1. PICK p \in T : Key(p) = k - 1
    BY <1>8
  <2>2. Below(T, k) = Below(T, k - 1) \cup {p}
    <3>1. \A q \in T : Key(q) < k => Key(q) < k - 1 \/ q = p
      BY <1>3, <1>5, <2>1, KeyIs
    <3>2. \A q \in T : Key(q) < k - 1 => Key(q) < k
      BY <1>3, <1>5
    <3>3. Key(p) < k
      BY <1>5, <2>1
    <3> QED BY <3>1, <3>2, <3>3 DEF Below
  <2> DEFINE t == [i \in 1..(n + 1) |-> IF i = n + 1 THEN p ELSE s[i]]
  <2>3. /\ t \in [1..(n + 1) -> Below(T, k)]
        /\ t[n + 1] = p /\ \A i \in 1..n : t[i] = s[i]
    BY <1>7, <2>2
  <2> HIDE DEF t
  <2>4. ASSUME NEW i \in 1..(n + 1), NEW j \in 1..(n + 1), i < j PROVE Precedes(t[i], t[j])
    <3>1. i \in 1..n
      BY <2>4
    <3>2. CASE j = n + 1
      <4>1. s[i] \in Below(T, k - 1)
        BY <1>7, <3>1
      <4>2. s[i] \in Entries /\ p \in Entries /\ Key(s[i]) < Key(p)
        BY <2>1, <4>1 DEF Below
      <4> QED BY <2>3, <3>1, <3>2, <4>2, KeyIs
    <3>3. CASE j # n + 1
      <4>1. j \in 1..n
        BY <3>3
      <4> QED BY <1>7, <2>3, <2>4, <3>1, <4>1 DEF Sorted
    <3> QED BY <3>2, <3>3
  <2>5. ASSUME NEW q \in Below(T, k) PROVE \E i \in 1..(n + 1) : t[i] = q
    <3>1. CASE q = p
      BY <2>3, <3>1
    <3>2. CASE q \in Below(T, k - 1)
      <4>1. PICK i \in 1..n : s[i] = q
        BY <1>7, <3>2
      <4>2. i \in 1..(n + 1) /\ t[i] = q
        BY <2>3, <4>1
      <4> QED BY <4>2
    <3> QED BY <2>2, <2>5, <3>1, <3>2
  <2>6. Sortable(T, k)
    <3>1. n + 1 \in Nat /\ Sorted(t, n + 1)
      BY <2>4 DEF Sorted
    <3> QED BY <2>3, <2>5, <3>1 DEF Sortable
  <2> QED BY <2>6
<1>9. CASE ~ \E p \in T : Key(p) = k - 1
  <2>1. Below(T, k) = Below(T, k - 1)
    BY <1>3, <1>5, <1>9 DEF Below
  <2>2. Sortable(T, k)
    BY <1>5, <2>1 DEF Sortable
  <2> QED BY <2>2
<1> QED BY <1>8, <1>9

LEMMA EntriesFinite ==
    ASSUME NEW T, T \subseteq Entries
    PROVE  IsFiniteSet(T) /\ Cardinality(T) \in Nat
<1>1. IsFiniteSet(Header) /\ IsFiniteSet({"ok", "bad"})
  <2>1. IsFiniteSet(Header)
    BY SizeAssumption, FS_Interval DEF Header
  <2>2. IsFiniteSet({"ok"} \cup {"bad"})
    BY FS_Singleton, FS_AddElement
  <2>3. {"ok", "bad"} = {"ok"} \cup {"bad"}
    OBVIOUS
  <2> QED BY <2>1, <2>2, <2>3
<1>2. IsFiniteSet(Entries)
  BY <1>1, FS_Product DEF Entries
<1> QED BY <1>2, FS_Subset, FS_CardinalityType

\* What is in order holds every entry once.
LEMMA SortedOnce ==
    ASSUME NEW T, T \subseteq Entries, NEW n \in Nat, NEW s \in [1..n -> T], Sorted(s, n)
    PROVE  \A i, j \in 1..n : s[i] = s[j] => i = j
<1>1. ASSUME NEW i \in 1..n, NEW j \in 1..n, i < j PROVE s[i] # s[j]
  <2>1. Precedes(s[i], s[j]) /\ s[i] \in Entries /\ s[j] \in Entries
    BY <1>1 DEF Sorted
  <2>2. Key(s[i]) < Key(s[j]) /\ Key(s[i]) \in Nat
    BY <2>1, KeyIs, SizeAssumption
  <2> QED BY <2>2
<1> QED BY <1>1

\* What ZRANGE returns: every entry, in order.
LEMMA InOrderIs ==
    ASSUME NEW T, T \subseteq Entries
    PROVE  /\ InOrder(T) \in Seq(T) /\ Len(InOrder(T)) = Cardinality(T)
           /\ Sorted(InOrder(T), Cardinality(T))
           /\ Range(InOrder(T)) = T
<1> DEFINE c == Cardinality(T)
<1>1. IsFiniteSet(T) /\ c \in Nat
  BY EntriesFinite
<1>2. \E s \in [1..c -> T] : Sorted(s, c)
  <2>1. PICK m \in Nat : \A p \in T : Key(p) < m
    <3>1. 2 * Size + 2 \in Nat /\ \A p \in T : Key(p) < 2 * Size + 2
      BY KeyIs, SizeAssumption
    <3> QED BY <3>1
  <2>2. Below(T, m) = T
    BY <2>1 DEF Below
  <2>3. PICK n \in Nat : \E s \in [1..n -> T] :
            Sorted(s, n) /\ \A p \in T : \E i \in 1..n : s[i] = p
    <3>1. Sortable(T, m)
      BY <2>1, SortedUpto
    <3> QED BY <2>2, <3>1 DEF Sortable
  <2>4. PICK s \in [1..n -> T] : Sorted(s, n) /\ \A p \in T : \E i \in 1..n : s[i] = p
    BY <2>3
  <2>5. s \in Bijection(1..n, T)
    <3>1. n \in Nat /\ s \in [1..n -> T] /\ Sorted(s, n)
      BY <2>3, <2>4
    <3>2. \A i, j \in 1..n : s[i] = s[j] => i = j
      BY <3>1, SortedOnce, Zenon
    <3> QED BY <2>4, <3>2, Fun_IsBij
  <2>6. n = c
    <3>1. IsFiniteSet(1..n) /\ Cardinality(1..n) = n
      BY <2>3, FS_Interval
    <3>2. ExistsBijection(1..n, T)
      BY <2>5 DEF ExistsBijection
    <3> QED BY <3>1, <3>2, FS_Bijection
  <2> QED BY <2>4, <2>6
<1>3. InOrder(T) \in [1..c -> T] /\ Sorted(InOrder(T), c)
  BY <1>2 DEF InOrder, Sorted
<1> DEFINE s == InOrder(T)
<1> HIDE DEF s
<1>4. s \in Seq(T) /\ Len(s) = c
  BY <1>1, <1>3, SeqDef DEF s
<1>5. Range(s) = T
  <2>1. \A i, j \in 1..c : s[i] = s[j] => i = j
    BY <1>1, <1>3, SortedOnce DEF s
  <2>2. s \in Injection(1..c, T)
    BY <1>3, <2>1, Fun_IsInj DEF s
  <2>3. Cardinality(1..c) = c
    BY <1>1, FS_Interval
  <2>4. s \in Surjection(1..c, T)
    BY <1>1, <2>2, <2>3, FS_Injection
  <2>5. Range(s) = {s[i] : i \in 1..c}
    BY <1>3 DEF Range, s
  <2>6. \A i \in 1..c : s[i] \in T
    BY <1>3 DEF s
  <2>7. \A p \in T : \E i \in 1..c : s[i] = p
    BY <2>4 DEF Surjection
  <2> QED BY <2>5, <2>6, <2>7
<1> QED BY <1>3, <1>4, <1>5 DEF s

\* The entries of a header that succeeded, in order, are the arguments of a whole body.
Whole == [i \in Header |-> <<i, "ok">>]
AllOk == {<<i, "ok">> : i \in Header}

LEMMA WholeInOrder == InOrder(AllOk) = Whole
<1> DEFINE s == InOrder(AllOk)
<1>1. Size \in Nat \ {0} /\ Header = 1..Size
  BY SizeAssumption DEF Header
<1>2. AllOk \subseteq Entries
  BY DEF AllOk, Entries
<1>3. Cardinality(AllOk) = Size
  <2>1. IsFiniteSet(Header) /\ Cardinality(Header) = Size
    BY <1>1, FS_Interval
  <2> DEFINE f == [i \in Header |-> <<i, "ok">>]
  <2>2. f \in Bijection(Header, AllOk)
    <3>1. f \in [Header -> AllOk]
      BY DEF AllOk
    <3>2. \A i, j \in Header : f[i] = f[j] => i = j
      OBVIOUS
    <3>3. \A p \in AllOk : \E i \in Header : f[i] = p
      BY DEF AllOk
    <3> QED BY <3>1, <3>2, <3>3, Fun_IsBij
  <2>3. ExistsBijection(Header, AllOk)
    BY <2>2 DEF ExistsBijection
  <2> QED BY <2>1, <2>3, FS_Bijection
<1>4. /\ s \in Seq(AllOk) /\ Len(s) = Size
      /\ \A i, j \in Header : i < j => Precedes(s[i], s[j])
  BY <1>1, <1>2, <1>3, InOrderIs DEF Sorted
<1> HIDE DEF s
<1>5. \A i \in Header : s[i] \in AllOk
  BY <1>1, <1>4
<1>6. PICK f \in [Header -> Header] : \A i \in Header : s[i] = <<f[i], "ok">>
  <2>1. \A i \in Header : \E j \in Header : s[i] = <<j, "ok">>
    BY <1>5 DEF AllOk
  <2> DEFINE g == [i \in Header |-> CHOOSE j \in Header : s[i] = <<j, "ok">>]
  <2>2. g \in [Header -> Header] /\ \A i \in Header : s[i] = <<g[i], "ok">>
    BY <2>1
  <2> QED BY <2>2
<1>7. \A i, j \in Header : i < j => f[i] < f[j]
  <2>1. ASSUME NEW i \in Header, NEW j \in Header, i < j PROVE f[i] < f[j]
    <3>1. Precedes(<<f[i], "ok">>, <<f[j], "ok">>)
      BY <1>4, <1>6, <2>1
    <3> QED BY <3>1 DEF Precedes
  <2> QED BY <2>1
<1>8. \A i \in Header : i <= f[i]
  <2> DEFINE Bad == {i \in Header : ~(i <= f[i])}
  <2> SUFFICES ASSUME Bad # {} PROVE FALSE
    OBVIOUS
  <2>1. Bad \subseteq Nat
    BY <1>1
  <2>2. PICK i \in Bad : \A j \in Bad : i <= j
    <3> HIDE DEF Bad
    <3> QED BY <2>1, LeastOf
  <2>3. i \in 1..Size /\ f[i] \in 1..Size /\ f[i] < i
    BY <1>1, <1>6
  <2>4. i - 1 \in Header /\ i - 1 < i /\ ~(i <= i - 1)
    BY <1>1, <2>3
  <2>5. i - 1 <= f[i - 1] /\ f[i - 1] < f[i] /\ f[i - 1] \in 1..Size
    BY <1>1, <1>6, <1>7, <2>2, <2>4
  <2> QED BY <1>1, <2>3, <2>5
<1>9. \A i \in Header : f[i] <= i
  <2> DEFINE Bad == {k \in 0..Size : \E i \in Header : k = Size - i /\ ~(f[i] <= i)}
  <2> SUFFICES ASSUME NEW h \in Header, ~(f[h] <= h) PROVE FALSE
    OBVIOUS
  <2>1. Bad \subseteq Nat /\ Bad # {}
    <3>1. Size - h \in 0..Size
      BY <1>1
    <3>2. Size - h \in Bad
      BY <3>1
    <3>3. 0..Size \subseteq Nat
      BY <1>1
    <3> QED BY <3>2, <3>3
  <2>2. PICK k \in Bad : \A j \in Bad : k <= j
    <3> HIDE DEF Bad
    <3> QED BY <2>1, LeastOf
  <2>3. PICK i \in Header : k = Size - i /\ ~(f[i] <= i)
    BY <2>2
  <2>4. i \in 1..Size /\ f[i] \in 1..Size /\ i < f[i]
    BY <1>1, <1>6, <2>3
  <2>5. i + 1 \in Header /\ i < i + 1
    BY <1>1, <2>4
  <2>6. f[i] < f[i + 1] /\ f[i + 1] \in 1..Size
    BY <1>1, <1>6, <1>7, <2>5
  <2>7. ~(f[i + 1] <= i + 1) /\ Size - (i + 1) \in 0..Size
    BY <1>1, <2>4, <2>5, <2>6
  <2>8. Size - (i + 1) \in Bad
    BY <2>5, <2>7
  <2>9. k <= Size - (i + 1)
    BY <2>2, <2>8
  <2> QED BY <1>1, <2>3, <2>4, <2>9
<1>10. \A i \in Header : f[i] = i
  <2>1. \A i \in Header : f[i] \in Nat /\ i \in Nat
    BY <1>1, <1>6
  <2> QED BY <1>8, <1>9, <2>1
<1>11. \A i \in Header : s[i] = <<i, "ok">>
  BY <1>6, <1>10
<1>12. s = [i \in Header |-> s[i]]
  BY <1>1, <1>4
<1> QED BY <1>11, <1>12 DEF s, Whole

\* As many entries as header tasks, one of each: all of them have one.
Single(T) == \A p, q \in T : p[1] = q[1] => p = q

LEMMA EveryTask ==
    ASSUME NEW T, T \subseteq Entries, Single(T), Cardinality(T) = Size
    PROVE  \A i \in Header : \E p \in T : p[1] = i
<1> DEFINE f == [p \in T |-> p[1]]
<1>1. f \in Injection(T, Header)
  <2>1. f \in [T -> Header]
    BY DEF Entries
  <2>2. \A p, q \in T : f[p] = f[q] => p = q
    BY DEF Single
  <2> HIDE DEF f
  <2> QED BY <2>1, <2>2, Fun_IsInj
<1>2. IsFiniteSet(Header) /\ Cardinality(Header) = Size
  BY SizeAssumption, FS_Interval DEF Header
<1>3. f \in Surjection(T, Header)
  <2> HIDE DEF f
  <2> QED BY <1>1, <1>2, FS_Injection
<1> QED BY <1>3 DEF Surjection

-----------------------------------------------------------------------------
(* Types *)

Deliveries == [at : Steps, task : 0..Size, outcome : {"none", "ok", "bad"},
               parts : Seq(Entries), owns : BOOLEAN]

\* What is being executed is a task, and what was reported has an outcome.
Fit(a) ==
    /\ a \in Deliveries
    /\ a.at # "idle" => a.task \in Header
    /\ a.at \notin {"idle", "handler"} => a.outcome \in {"ok", "bad"}

Crew == work \in [Executors -> Deliveries] /\ \A e \in Executors : Fit(work[e])

RedisTypes ==
    /\ sent \in 0..Size /\ size \in {0, Size}
    /\ journal \subseteq Entries
    /\ meta \in [Header -> {"none", "ok", "bad"}]
    /\ saved \in BOOLEAN /\ ignores \subseteq MaySkip
StatusTypes == status \in [Header -> {"unsent", "ready", "unacked", "acked", "rejected"}]
BodyTypes ==
    /\ bodies \in Seq(Seq(Entries)) /\ doubt \in BOOLEAN
    /\ failures \in Nat /\ errbacks \in Nat
    /\ faults \in 0..MaxFaults /\ losses \in 0..MaxLosses

TypeInv == Crew /\ RedisTypes /\ StatusTypes /\ BodyTypes

Set(e, b) == work' = [work EXCEPT ![e] = b]
Same(e, b) == b.task = work[e].task /\ b.owns = work[e].owns

LEMMA CrewIs ==
    ASSUME TypeInv, NEW e \in Executors
    PROVE  /\ work[e] \in Deliveries /\ work[e].at \in Steps /\ work[e].task \in 0..Size
           /\ work[e].outcome \in {"none", "ok", "bad"} /\ work[e].parts \in Seq(Entries)
           /\ work[e].owns \in BOOLEAN
           /\ work[e].at # "idle" => work[e].task \in Header
           /\ work[e].at \notin {"idle", "handler"} => work[e].outcome \in {"ok", "bad"}
BY DEF TypeInv, Crew, Fit, Deliveries

LEMMA SetIs ==
    ASSUME TypeInv, NEW e \in Executors, NEW b, Set(e, b)
    PROVE  /\ work'[e] = b /\ \A f \in Executors \ {e} : work'[f] = work[f]
           /\ Fit(b) => Crew'
BY DEF TypeInv, Crew, Fit, Set

LEMMA GotoIs ==
    ASSUME TypeInv, NEW e \in Executors, NEW step \in Steps \ {"idle", "handler"},
           work[e].at \notin {"idle", "handler"}, Goto(e, step)
    PROVE  \E b : /\ Set(e, b) /\ Fit(b) /\ Same(e, b) /\ b.outcome = work[e].outcome
                  /\ b.at = step /\ b.parts = work[e].parts
<1>1. Set(e, [work[e] EXCEPT !.at = step])
  BY DEF Goto, Set, TypeInv, Crew
<1> DEFINE b == [work[e] EXCEPT !.at = step]
<1>2. Fit(b) /\ Same(e, b) /\ b.outcome = work[e].outcome /\ b.at = step /\ b.parts = work[e].parts
  BY CrewIs DEF Fit, Same, Deliveries
<1> QED BY <1>1, <1>2

LEMMA WithIs ==
    ASSUME TypeInv, NEW e \in Executors, NEW step \in Steps \ {"idle", "handler"},
           NEW parts \in Seq(Entries),
           work[e].at \notin {"idle", "handler"}, With(e, step, parts)
    PROVE  \E b : /\ Set(e, b) /\ Fit(b) /\ Same(e, b) /\ b.outcome = work[e].outcome
                  /\ b.at = step /\ b.parts = parts
<1>1. Set(e, [work[e] EXCEPT !.at = step, !.parts = parts])
  BY DEF With, Set, TypeInv, Crew
<1> DEFINE b == [work[e] EXCEPT !.at = step, !.parts = parts]
<1>2. Fit(b) /\ Same(e, b) /\ b.outcome = work[e].outcome /\ b.at = step /\ b.parts = parts
  BY CrewIs DEF Fit, Same, Deliveries
<1> QED BY <1>1, <1>2

LEMMA IdleFits ==
    /\ Fit(Idle) /\ Idle.at = "idle" /\ Idle.parts = <<>>
    /\ <<>> \in Seq(Entries) /\ Range(<<>>) = {}
<1>1. <<>> \in Seq(Entries) /\ Range(<<>>) = {}
  <2>1. <<>> \in Seq(Entries) /\ Len(<<>>) = 0
    BY EmptySeq
  <2>2. Range(<<>>) = {<<>>[i] : i \in 1..Len(<<>>)}
    BY <2>1, RangeEquality
  <2>3. 1..0 = {}
    OBVIOUS
  <2>4. Range(<<>>) = {<<>>[i] : i \in {}}
    BY <2>1, <2>2, <2>3
  <2> QED BY <2>1, <2>4
<1> QED BY <1>1, SizeAssumption DEF Idle, Fit, Deliveries, Steps

LEMMA EndIs ==
    ASSUME TypeInv, NEW e \in Executors, NEW outcome \in {"acked", "rejected", "requeued"},
           work[e].at # "idle", End(e, outcome)
    PROVE  /\ Set(e, Idle) /\ StatusTypes'
           /\ \A i \in Header \ {work[e].task} : status'[i] = status[i]
           /\ ~work[e].owns => status' = status
           /\ work[e].owns /\ outcome # "requeued" => status'[work[e].task] = outcome
<1>1. status \in [Header -> {"unsent", "ready", "unacked", "acked", "rejected"}]
  BY DEF TypeInv, StatusTypes
<1>2. work[e].task \in Header /\ work[e].owns \in BOOLEAN
  BY CrewIs
<1> QED BY <1>1, <1>2 DEF End, Set, StatusTypes

\* An idle executor takes a task, and a handler that reported has an outcome.
LEMMA TakeIs ==
    ASSUME TypeInv, NEW e \in Executors, NEW i \in Header, Take(e, i)
    PROVE  \E b : /\ Set(e, b) /\ Fit(b) /\ b.at = "handler" /\ b.task = i /\ b.owns
                  /\ b.parts = <<>>
<1> DEFINE b == [Idle EXCEPT !.at = "handler", !.task = i, !.owns = TRUE]
<1>1. i \in 0..Size
  BY SizeAssumption DEF Header
<1>2. b \in Deliveries
  <2>1. Idle \in Deliveries
    BY IdleFits DEF Fit
  <2> QED BY <1>1, <2>1 DEF Deliveries, Steps
<1>3. Fit(b) /\ b.at = "handler" /\ b.task = i /\ b.owns /\ b.parts = <<>>
  BY <1>2, IdleFits DEF Fit, Idle
<1> QED BY <1>3 DEF Take, Set

LEMMA ReportIs ==
    ASSUME TypeInv, NEW e \in Executors, NEW outcome \in {"ok", "bad"}, At(e, "handler"),
           work' = [work EXCEPT ![e].outcome = outcome,
                                ![e].at = IF work[e].task \in ignores THEN "record" ELSE "store"]
    PROVE  \E b : /\ Set(e, b) /\ Fit(b) /\ Same(e, b)
                  /\ b.at = (IF work[e].task \in ignores THEN "record" ELSE "store")
                  /\ b.parts = work[e].parts /\ b.outcome = outcome
<1>1. PICK step \in {"record", "store"} : step = IF work[e].task \in ignores THEN "record" ELSE "store"
  OBVIOUS
<1> DEFINE b == [work[e] EXCEPT !.outcome = outcome, !.at = step]
<1>2. Set(e, b)
  BY <1>1 DEF Set, TypeInv, Crew
<1>3. /\ Fit(b) /\ Same(e, b)
      /\ b.at = step /\ b.parts = work[e].parts /\ b.outcome = outcome
  BY CrewIs DEF Fit, Deliveries, Steps, At, Same
<1> QED BY <1>1, <1>2, <1>3

LEMMA OrderedIn ==
    ASSUME NEW T, T \subseteq Entries
    PROVE  InOrder(T) \in Seq(Entries) /\ Range(InOrder(T)) = T
<1>1. /\ InOrder(T) \in Seq(T) /\ Len(InOrder(T)) \in Nat
      /\ Range(InOrder(T)) = T
  BY InOrderIs, LenProperties
<1>2. /\ InOrder(T) = [i \in 1..Len(InOrder(T)) |-> InOrder(T)[i]]
      /\ \A i \in 1..Len(InOrder(T)) : InOrder(T)[i] \in T
  BY <1>1
<1>3. InOrder(T) \in [1..Len(InOrder(T)) -> Entries]
  BY <1>2
<1> QED BY <1>1, <1>3, SeqDef

LEMMA SingletonIs ==
    ASSUME NEW p \in Entries
    PROVE  <<p>> \in Seq(Entries) /\ Range(<<p>>) = {p}
<1>1. <<p>> \in Seq(Entries) /\ Len(<<p>>) = 1 /\ <<p>>[1] = p
  OBVIOUS
<1>2. Range(<<p>>) = {<<p>>[i] : i \in 1..Len(<<p>>)}
  BY <1>1, RangeEquality
<1>3. 1..1 = {1}
  OBVIOUS
<1> QED BY <1>1, <1>2, <1>3

\* What a join has found: what it kept, and what it reads now.
Fresh(e) == {i \in Header : meta[i] # "none" /\ \A p \in Range(work[e].parts) : p[1] # i}
Found(e) == Range(work[e].parts) \cup {<<i, meta[i]>> : i \in Fresh(e)}

LEMMA JoinIs ==
    ASSUME TypeInv, NEW e \in Executors, Join(e)
    PROVE  /\ Found(e) \subseteq Entries /\ Range(work[e].parts) \subseteq Entries
           /\ \/ \E p \in Found(e) : p[2] = "bad" /\ With(e, "decide", <<p>>)
              \/ /\ \A p \in Found(e) : p[2] # "bad"
                 /\ \/ Cardinality(Found(e)) = Size /\ With(e, "decide", InOrder(Found(e)))
                    \/ Cardinality(Found(e)) # Size /\ With(e, "join", InOrder(Found(e)))
<1>1. Range(work[e].parts) \subseteq Entries
  <2>1. work[e].parts \in Seq(Entries)
    BY CrewIs
  <2>2. Range(work[e].parts) = {work[e].parts[i] : i \in 1..Len(work[e].parts)}
    BY <2>1, RangeEquality
  <2>3. \A i \in 1..Len(work[e].parts) : work[e].parts[i] \in Entries
    BY <2>1
  <2> QED BY <2>2, <2>3
<1>2. Found(e) \subseteq Entries
  BY <1>1 DEF Found, Fresh, Entries, TypeInv, RedisTypes
<1> QED BY <1>1, <1>2, Zenon DEF Join, Found, Fresh, JoinAll

\* A step of an executor on its delivery.
Acts(e) ==
    \/ Handle(e) \/ Store(e) \/ Record(e) \/ Look(e) \/ Read(e) \/ Join(e) \/ JoinTimeout(e)
    \/ Decide(e) \/ StoreFailure(e) \/ Errback(e) \/ Clear(e) \/ Finish(e)
    \/ Lose(e) \/ Crash(e) \/ Fault(e)

LEMMA CrewStep ==
    ASSUME TypeInv, NEW e \in Executors, Acts(e)
    PROVE  Crew' /\ StatusTypes'
<1> USE DEF At
<1>1. ASSUME NEW b, Set(e, b), Fit(b) PROVE Crew'
  BY <1>1, SetIs
<1>2. ASSUME NEW outcome \in {"acked", "rejected", "requeued"}, work[e].at # "idle", End(e, outcome)
      PROVE  Crew' /\ StatusTypes'
  BY <1>2, EndIs, IdleFits, SetIs
<1>3. ASSUME NEW step \in Steps \ {"idle", "handler"}, work[e].at \notin {"idle", "handler"},
             Goto(e, step)
      PROVE  Crew'
  BY <1>1, <1>3, GotoIs
<1>4. UNCHANGED status => StatusTypes'
  BY DEF TypeInv, StatusTypes
<1>5. CASE Handle(e)
  <2>1. PICK outcome \in Outcomes :
           \/ /\ work' = [work EXCEPT ![e].outcome = outcome, ![e].at =
                              IF work[e].task \in ignores THEN "record" ELSE "store"]
              /\ UNCHANGED status
           \/ Raise(e)
    BY <1>5 DEF Handle
  <2>2. outcome \in {"ok", "bad"}
    BY OutcomeAssumption
  <2>3. CASE Raise(e)
    BY <1>2, <1>5, <2>3, PolicyAssumption DEF Raise, Handle
  <2> QED BY <1>1, <1>4, <1>5, <2>1, <2>2, <2>3, ReportIs DEF Handle
<1>6. CASE Store(e)
  BY <1>3, <1>4, <1>6 DEF Store, Steps
<1>7. CASE Record(e)
  BY <1>3, <1>4, <1>7 DEF Record, Steps
<1>8. CASE Look(e)
  BY <1>3, <1>4, <1>8 DEF Look, Steps
<1>9. CASE Read(e)
  <2>1. InOrder(journal) \in Seq(Entries)
    BY OrderedIn DEF TypeInv, RedisTypes
  <2>2. Crew'
    BY <1>1, <1>9, <2>1, WithIs DEF Read, Steps
  <2> QED BY <1>4, <1>9, <2>2 DEF Read
<1>10. CASE Join(e)
  <2>1. ASSUME NEW step \in {"decide", "join"}, NEW parts \in Seq(Entries), With(e, step, parts)
        PROVE  Crew'
    BY <1>1, <1>10, <2>1, WithIs DEF Join, Steps
  <2>2. InOrder(Found(e)) \in Seq(Entries) /\ \A p \in Found(e) : <<p>> \in Seq(Entries)
    BY <1>10, JoinIs, OrderedIn, SingletonIs
  <2>3. Crew'
    BY <1>10, <2>1, <2>2, JoinIs
  <2> QED BY <1>4, <1>10, <2>3 DEF Join
<1>11. CASE JoinTimeout(e)
  BY <1>3, <1>4, <1>11 DEF JoinTimeout, Steps
<1>12. CASE Decide(e)
  BY <1>3, <1>4, <1>12 DEF Decide, Steps
<1>13. CASE StoreFailure(e)
  BY <1>3, <1>4, <1>13 DEF StoreFailure, Steps
<1>14. CASE Errback(e)
  BY <1>3, <1>4, <1>14 DEF Errback, Steps
<1>15. CASE Clear(e)
  BY <1>3, <1>4, <1>15 DEF Clear, Steps
<1>16. CASE Finish(e)
  BY <1>2, <1>16, PolicyAssumption DEF Finish
<1>17. CASE Fault(e)
  BY <1>2, <1>17, PolicyAssumption DEF Fault, Raise
<1>18. CASE Lose(e)
  <2> DEFINE b == [work[e] EXCEPT !.owns = FALSE]
  <2>1. Set(e, b) /\ Fit(b)
    BY <1>18, CrewIs DEF Lose, Set, Fit, Deliveries, TypeInv, Crew
  <2>2. StatusTypes'
    BY <1>18 DEF Lose, TypeInv, StatusTypes
  <2> QED BY <1>1, <2>1, <2>2
<1>19. CASE Crash(e)
  <2>1. Set(e, Idle)
    BY <1>19 DEF Crash, Set
  <2>2. StatusTypes'
    <3>1. work[e].task \in Header
      BY <1>19, CrewIs DEF Crash
    <3> QED BY <1>19, <3>1 DEF Crash, TypeInv, StatusTypes
  <2> QED BY <1>1, <2>1, <2>2, IdleFits
<1> QED
  BY <1>5, <1>6, <1>7, <1>8, <1>9, <1>10, <1>11, <1>12, <1>13, <1>14, <1>15, <1>16, <1>17,
     <1>18, <1>19
  DEF Acts

LEMMA DataStep ==
    ASSUME TypeInv, NEW e \in Executors, Acts(e)
    PROVE  RedisTypes' /\ BodyTypes'
<1>1. /\ sent \in 0..Size /\ size \in {0, Size} /\ journal \subseteq Entries
      /\ meta \in [Header -> {"none", "ok", "bad"}]
      /\ saved \in BOOLEAN /\ ignores \subseteq MaySkip
      /\ bodies \in Seq(Seq(Entries)) /\ doubt \in BOOLEAN
      /\ failures \in Nat /\ errbacks \in Nat
      /\ faults \in 0..MaxFaults /\ losses \in 0..MaxLosses
  BY DEF TypeInv, RedisTypes, BodyTypes
<1>2. /\ UNCHANGED keys => UNCHANGED <<size, journal, meta>>
      /\ UNCHANGED body => UNCHANGED <<bodies, doubt, failures, errbacks>>
      /\ UNCHANGED given => UNCHANGED <<saved, ignores>>
  BY DEF keys, body, given
<1>3. MaxFaults \in Nat /\ MaxLosses \in Nat
  BY BoundAssumption
<1>4. UNCHANGED <<sent, given>>
  BY DEF Acts, Handle, Store, Record, Look, Read, Join, JoinTimeout, Decide, StoreFailure,
         Errback, Clear, Finish, Lose, Crash, Fault
<1>5. ASSUME work[e].at \notin {"idle", "handler"} PROVE Entry(e) \in Entries /\ work[e].outcome \in {"ok", "bad"}
  BY <1>5, CrewIs DEF Entry, Entries
<1>6. size' \in {0, Size}
  BY <1>1, <1>2 DEF Acts, Handle, Store, Record, Look, Read, Join, JoinTimeout, Decide, StoreFailure,
         Errback, Clear, Finish, Lose, Crash, Fault, SetMeta, AddEntry, Delete
<1>7. journal' \subseteq Entries
  <2>1. CASE Record(e) \/ Fault(e)
    BY <1>1, <1>2, <1>5, <2>1 DEF Record, Fault, SetMeta, AddEntry, Delete, At
  <2>2. CASE ~(Record(e) \/ Fault(e))
    BY <1>1, <1>2, <2>2 DEF Acts, Handle, Store, Look, Read, Join, JoinTimeout, Decide, StoreFailure,
         Errback, Clear, Finish, Lose, Crash, SetMeta, Delete
  <2> QED BY <2>1, <2>2
<1>8. meta' \in [Header -> {"none", "ok", "bad"}]
  <2>1. CASE SetMeta(e) /\ At(e, "store")
    BY <1>1, <1>5, <2>1 DEF SetMeta, At
  <2>2. CASE UNCHANGED meta
    BY <1>1, <2>2
  <2> QED
    BY <1>2, <2>1, <2>2 DEF Acts, Handle, Store, Record, Look, Read, Join, JoinTimeout, Decide,
         StoreFailure, Errback, Clear, Finish, Lose, Crash, Fault, AddEntry, Delete
<1>9. bodies' \in Seq(Seq(Entries))
  <2>1. CASE bodies' = Append(bodies, work[e].parts)
    BY <1>1, <2>1, CrewIs, AppendProperties
  <2>2. CASE UNCHANGED bodies
    BY <1>1, <2>2
  <2> QED
    BY <1>2, <2>1, <2>2 DEF Acts, Handle, Store, Record, Look, Read, Join, JoinTimeout, Decide,
         StoreFailure, Errback, Clear, Finish, Lose, Crash, Fault, PublishBody, SetFailure,
         PublishErrbacks
<1>10. failures' \in Nat /\ errbacks' \in Nat /\ doubt' \in BOOLEAN
  <2>1. /\ failures' \in {failures, failures + 1} /\ errbacks' \in {errbacks, errbacks + 1}
        /\ UNCHANGED doubt \/ doubt' = TRUE
    BY <1>2 DEF Acts, Handle, Store, Record, Look, Read, Join, JoinTimeout, Decide,
         StoreFailure, Errback, Clear, Finish, Lose, Crash, Fault, SetFailure, PublishErrbacks
  <2>2. doubt' \in BOOLEAN
    BY <1>1, <2>1, Zenon
  <2>3. failures' \in Nat /\ errbacks' \in Nat
    BY <1>1, <2>1
  <2> QED BY <2>2, <2>3
<1>11. faults' \in 0..MaxFaults
  <2>1. UNCHANGED faults \/ (faults < MaxFaults /\ faults' = faults + 1)
    BY DEF Acts, Handle, Store, Record, Look, Read, Join, JoinTimeout, Decide,
         StoreFailure, Errback, Clear, Finish, Lose, Crash, Fault, Raise
  <2> QED BY <1>1, <1>3, <2>1
<1>12. losses' \in 0..MaxLosses
  <2>1. UNCHANGED losses \/ (losses < MaxLosses /\ losses' = losses + 1)
    BY DEF Acts, Handle, Store, Record, Look, Read, Join, JoinTimeout, Decide,
         StoreFailure, Errback, Clear, Finish, Lose, Crash, Fault
  <2> QED BY <1>1, <1>3, <2>1
<1> QED
  BY <1>1, <1>2, <1>4, <1>6, <1>7, <1>8, <1>9, <1>10, <1>11, <1>12 DEF RedisTypes, BodyTypes

LEMMA NextIs ==
    Next <=> \/ SetSize \/ Send
             \/ \E e \in Executors : Acts(e) \/ \E i \in Header : Take(e, i)
BY Zenon DEF Next, Acts, Step

LEMMA TypeInit == Init => TypeInv
<1> SUFFICES ASSUME Init PROVE TypeInv
  OBVIOUS
<1>1. Crew
  BY IdleFits DEF Init, Crew, Fit
<1>2. RedisTypes /\ StatusTypes
  <2>1. saved \in BOOLEAN /\ ignores \subseteq MaySkip
    BY SwitchAssumption DEF Init
  <2>2. sent \in 0..Size /\ size \in {0, Size} /\ journal \subseteq Entries
    BY SizeAssumption DEF Init
  <2> QED BY <2>1, <2>2 DEF Init, RedisTypes, StatusTypes
<1>3. BodyTypes
  <2>1. <<>> \in Seq(Seq(Entries))
    BY EmptySeq
  <2>2. doubt \in BOOLEAN
    BY Zenon DEF Init
  <2> QED BY <2>1, <2>2, BoundAssumption DEF Init, BodyTypes
<1> QED BY <1>1, <1>2, <1>3 DEF TypeInv

LEMMA TypeStep == TypeInv /\ [Next]_vars => TypeInv'
<1> SUFFICES ASSUME TypeInv, [Next]_vars PROVE TypeInv'
  OBVIOUS
<1> USE DEF TypeInv, Crew, RedisTypes, StatusTypes, BodyTypes
<1>1. CASE SetSize
  BY <1>1 DEF SetSize, given, body
<1>2. CASE Send
  <2>1. sent' \in 0..Size /\ sent + 1 \in Header
    BY <1>2, SizeAssumption DEF Send, Header
  <2>2. StatusTypes'
    BY <1>2 DEF Send
  <2>3. UNCHANGED <<size, journal, meta, saved, ignores, work, body, faults, losses>>
    BY <1>2 DEF Send, keys, given
  <2> QED BY <2>1, <2>2, <2>3 DEF body
<1>3. ASSUME NEW e \in Executors, NEW i \in Header, Take(e, i) PROVE TypeInv'
  <2>1. Crew'
    BY <1>3, TakeIs, SetIs
  <2>2. StatusTypes'
    BY <1>3 DEF Take
  <2>3. RedisTypes' /\ BodyTypes'
    BY <1>3 DEF Take, keys, given, body
  <2> QED BY <2>1, <2>2, <2>3
<1>4. ASSUME NEW e \in Executors, Acts(e) PROVE TypeInv'
  BY <1>4, CrewStep, DataStep
<1>5. CASE UNCHANGED vars
  BY <1>5 DEF vars, keys, given, body
<1> QED BY <1>1, <1>2, <1>3, <1>4, <1>5, NextIs

-----------------------------------------------------------------------------
(* The body of a saved group *)

\* What a join has read are successes; what is decided is a failure or the whole group.
Good(parts) == \A p \in Range(parts) : p[2] = "ok"
Decided(parts) == Fails(parts) \/ parts = Whole
Joins(a) ==
    /\ a.at # "read"
    /\ a.at \in {"idle", "handler", "store", "record", "look", "join"} => Good(a.parts)
    /\ a.at = "decide" => Decided(a.parts)

SavedInv == saved => BodyIsWhole /\ \A e \in Executors : Joins(work[e])

LEMMA JoinsWhole ==
    ASSUME TypeInv, NEW e \in Executors, Joins(work[e]), Join(e)
    PROVE  \E b : Set(e, b) /\ Joins(b)
<1> DEFINE found == Found(e)
<1>1. /\ found \subseteq Entries
      /\ At(e, "join") /\ Good(work[e].parts)
      /\ \/ \E p \in found : p[2] = "bad" /\ With(e, "decide", <<p>>)
         \/ /\ \A p \in found : p[2] # "bad"
            /\ \/ Cardinality(found) = Size /\ With(e, "decide", InOrder(found))
               \/ Cardinality(found) # Size /\ With(e, "join", InOrder(found))
  BY JoinIs DEF Joins, At, Join
<1>2. ASSUME NEW step \in {"decide", "join"}, NEW parts \in Seq(Entries), With(e, step, parts),
             step = "join" => Good(parts), step = "decide" => Decided(parts)
      PROVE  \E b : Set(e, b) /\ Joins(b)
  <2>1. PICK b : Set(e, b) /\ b.at = step /\ b.parts = parts
    BY <1>1, <1>2, WithIs DEF Steps, At
  <2> QED BY <1>2, <2>1 DEF Joins
<1>3. ASSUME NEW p \in found, p[2] = "bad", With(e, "decide", <<p>>)
      PROVE  \E b : Set(e, b) /\ Joins(b)
  <2>1. <<p>> \in Seq(Entries) /\ Range(<<p>>) = {p}
    BY <1>1, SingletonIs
  <2>2. Decided(<<p>>)
    BY <1>3, <2>1 DEF Decided, Fails
  <2> QED BY <1>2, <1>3, <2>1, <2>2
<1>4. ASSUME \A p \in found : p[2] # "bad" PROVE \A p \in found : p[2] = "ok"
  BY <1>1, <1>4 DEF Entries
<1>5. InOrder(found) \in Seq(Entries) /\ Range(InOrder(found)) = found
  BY <1>1, OrderedIn
<1>6. ASSUME \A p \in found : p[2] = "ok", Cardinality(found) = Size PROVE InOrder(found) = Whole
  <2>1. \A p \in found : p[1] \in Header /\ p = <<p[1], "ok">>
    BY <1>1, <1>6 DEF Entries
  <2>2. Single(found)
    BY <2>1 DEF Single
  <2>3. \A i \in Header : \E p \in found : p[1] = i
    BY <1>1, <1>6, <2>2, EveryTask
  <2>4. found = AllOk
    <3>1. \A i \in Header : <<i, "ok">> \in found
      BY <2>1, <2>3
    <3> QED BY <2>1, <3>1 DEF AllOk
  <2> QED BY <2>4, WholeInOrder
<1> HIDE DEF found
<1>7. CASE \A p \in found : p[2] # "bad"
  <2>1. Good(InOrder(found))
    BY <1>4, <1>5, <1>7 DEF Good
  <2>2. Cardinality(found) = Size => Decided(InOrder(found))
    BY <1>4, <1>6, <1>7 DEF Decided
  <2> QED BY <1>1, <1>2, <1>5, <1>7, <2>1, <2>2
<1> QED BY <1>1, <1>3, <1>7

LEMMA SavedStep == TypeInv /\ SavedInv /\ [Next]_vars => SavedInv'
<1> SUFFICES ASSUME TypeInv, SavedInv, [Next]_vars, saved' PROVE SavedInv'
  BY DEF SavedInv
<1>1. saved /\ UNCHANGED saved /\ BodyIsWhole /\ \A e \in Executors : Joins(work[e])
  <2>1. UNCHANGED saved
    BY NextIs DEF Acts, SetSize, Send, Take, Handle, Store, Record, Look, Read, Join, JoinTimeout,
       Decide, StoreFailure, Errback, Clear, Finish, Lose, Crash, Fault, vars, given
  <2> QED BY <2>1 DEF SavedInv
<1>2. ASSUME UNCHANGED bodies PROVE BodyIsWhole'
  BY <1>1, <1>2 DEF BodyIsWhole
<1>3. ASSUME NEW e \in Executors, NEW b, Set(e, b), Joins(b) PROVE \A f \in Executors : Joins(work'[f])
  BY <1>1, <1>3, SetIs
<1>4. Joins(Idle)
  BY IdleFits DEF Joins, Good
<1>5. CASE SetSize \/ Send \/ UNCHANGED vars
  <2>1. UNCHANGED <<bodies, work>>
    BY <1>5 DEF SetSize, Send, vars, body
  <2> QED BY <1>1, <1>2, <2>1 DEF SavedInv
<1>6. ASSUME NEW e \in Executors, NEW i \in Header, Take(e, i) PROVE SavedInv'
  <2>1. PICK b : Set(e, b) /\ b.at = "handler" /\ b.parts = <<>>
    BY <1>6, TakeIs
  <2>2. Joins(b)
    BY <2>1, IdleFits DEF Joins, Good
  <2>3. UNCHANGED bodies
    BY <1>6 DEF Take, body
  <2> QED BY <1>2, <1>3, <2>1, <2>2, <2>3 DEF SavedInv
<1>7. ASSUME NEW e \in Executors, Acts(e) PROVE SavedInv'
  <2> USE DEF At
  <2>1. ASSUME NEW outcome \in {"acked", "rejected", "requeued"}, work[e].at # "idle",
               End(e, outcome)
        PROVE  \A f \in Executors : Joins(work'[f])
    BY <1>3, <1>4, <2>1, EndIs
  <2>2. ASSUME NEW step \in Steps \ {"idle", "handler"}, work[e].at \notin {"idle", "handler"},
               Goto(e, step), step \notin {"store", "read", "decide"},
               step \in {"record", "look", "join"} => work[e].at \in {"store", "record", "look"}
        PROVE  \A f \in Executors : Joins(work'[f])
    <3>1. PICK b : Set(e, b) /\ b.at = step /\ b.parts = work[e].parts
      BY <2>2, GotoIs
    <3>2. Joins(b)
      BY <1>1, <2>2, <3>1 DEF Joins
    <3> QED BY <1>3, <3>1, <3>2
  <2>3. CASE Handle(e)
    <3>1. UNCHANGED bodies
      BY <2>3 DEF Handle, body
    <3>2. CASE Raise(e)
      BY <1>2, <2>1, <2>3, <3>1, <3>2, PolicyAssumption DEF Raise, Handle, SavedInv
    <3>3. CASE ~Raise(e)
      <4>1. PICK outcome \in Outcomes :
                work' = [work EXCEPT ![e].outcome = outcome, ![e].at =
                              IF work[e].task \in ignores THEN "record" ELSE "store"]
        BY <2>3, <3>3 DEF Handle
      <4>2. PICK b : /\ Set(e, b) /\ b.parts = work[e].parts
                     /\ b.at = IF work[e].task \in ignores THEN "record" ELSE "store"
        BY <2>3, <4>1, OutcomeAssumption, ReportIs DEF Handle
      <4>3. Joins(b)
        BY <1>1, <2>3, <4>2 DEF Joins, Handle
      <4> QED BY <1>2, <1>3, <3>1, <4>2, <4>3 DEF SavedInv
    <3> QED BY <3>2, <3>3
  <2>4. CASE Store(e) \/ Record(e) \/ Look(e) \/ JoinTimeout(e) \/ StoreFailure(e) \/ Errback(e)
             \/ Clear(e)
    <3>1. UNCHANGED bodies
      BY <2>4 DEF Store, Record, Look, JoinTimeout, StoreFailure, Errback, Clear, body, SetFailure,
         PublishErrbacks
    <3>2. \A f \in Executors : Joins(work'[f])
      BY <1>1, <2>2, <2>4 DEF Store, Record, Look, JoinTimeout, StoreFailure, Errback, Clear, Steps
    <3> QED BY <1>2, <3>1, <3>2 DEF SavedInv
  <2>5. CASE Read(e)
    BY <1>1, <2>5 DEF Joins, Read
  <2>6. CASE Join(e)
    <3>1. UNCHANGED bodies
      BY <2>6 DEF Join, body
    <3> QED BY <1>1, <1>2, <1>3, <2>6, <3>1, JoinsWhole DEF SavedInv
  <2>7. CASE Decide(e)
    <3>1. \A f \in Executors : Joins(work'[f])
      BY <2>2, <2>7 DEF Decide, Steps
    <3>2. CASE UNCHANGED bodies
      BY <1>2, <3>1, <3>2 DEF SavedInv
    <3>3. CASE ~UNCHANGED bodies
      <4>1. bodies' = Append(bodies, Whole)
        BY <1>1, <2>7, <3>3 DEF Decide, PublishBody, Joins, Decided
      <4>2. bodies \in Seq(Seq(Entries)) /\ Whole \in Seq(Entries)
        <5>1. AllOk \subseteq Entries
          BY DEF AllOk, Entries
        <5> QED BY <5>1, OrderedIn, WholeInOrder DEF TypeInv, BodyTypes
      <4>3. BodyIsWhole'
        <5>1. /\ Len(bodies') = Len(bodies) + 1 /\ Len(bodies) \in Nat
              /\ bodies'[Len(bodies) + 1] = Whole
              /\ \A n \in 1..Len(bodies) : bodies'[n] = bodies[n]
          <6> HIDE DEF Whole
          <6> QED BY <4>1, <4>2, AppendProperties, LenProperties
        <5>2. \A n \in 1..Len(bodies) : bodies[n] = Whole
          BY <1>1 DEF BodyIsWhole, Whole
        <5>3. \A n \in 1..Len(bodies') : bodies'[n] = Whole
          BY <5>1, <5>2
        <5> QED BY <5>3 DEF BodyIsWhole, Whole
      <4> QED BY <3>1, <4>3 DEF SavedInv
    <3> QED BY <3>2, <3>3
  <2>8. CASE Finish(e) \/ Fault(e)
    <3>1. UNCHANGED bodies
      BY <2>8 DEF Finish, Fault, body, SetFailure, PublishErrbacks
    <3>2. \A f \in Executors : Joins(work'[f])
      BY <2>1, <2>8, PolicyAssumption DEF Finish, Fault, Raise
    <3> QED BY <1>2, <3>1, <3>2 DEF SavedInv
  <2>9. CASE Lose(e)
    <3> DEFINE b == [work[e] EXCEPT !.owns = FALSE]
    <3>1. Set(e, b) /\ b.at = work[e].at /\ b.parts = work[e].parts
      BY <2>9, CrewIs DEF Lose, Set, TypeInv, Crew, Deliveries
    <3>2. Joins(b)
      <4> HIDE DEF b
      <4> QED BY <1>1, <3>1 DEF Joins
    <3>3. UNCHANGED bodies
      BY <2>9 DEF Lose, body
    <3> QED BY <1>2, <1>3, <3>1, <3>2, <3>3 DEF SavedInv
  <2>10. CASE Crash(e)
    BY <1>2, <1>3, <1>4, <2>10 DEF Crash, Set, body, SavedInv
  <2> QED BY <1>7, <2>3, <2>4, <2>5, <2>6, <2>7, <2>8, <2>9, <2>10 DEF Acts
<1> QED BY <1>5, <1>6, <1>7, NextIs

-----------------------------------------------------------------------------
(* The barrier: one delivery of every task, one executor that decides *)

USE DEF body

Early(a) == a.at \in {"handler", "store", "record"}
Deciding(a) == a.at \in {"look", "read", "join", "decide", "fail", "errback", "clear"}

\* A task that was sent is executed once.
Delivered ==
    /\ \A i \in Header : i > sent => status[i] = "unsent"
    /\ \A e \in Executors :
          work[e].at # "idle" => work[e].owns /\ status[work[e].task] = "unacked"
    /\ \A e, f \in Executors :
          work[e].at # "idle" /\ work[f].at # "idle" /\ work[e].task = work[f].task => e = f

\* Redis knows nothing of a task before its outcome is stored, and of each task the one
\* outcome.
Unknown(i, known, entries) == known[i] = "none" /\ \A p \in entries : p[1] # i
Entered ==
    /\ \A i \in Header : status[i] \in {"unsent", "ready"} => Unknown(i, meta, journal)
    /\ \A e \in Executors :
          /\ work[e].at \in {"handler", "store"} => Unknown(work[e].task, meta, journal)
          /\ work[e].at = "record" => /\ meta[work[e].task] = work[e].outcome
                                      /\ \A p \in journal : p[1] # work[e].task
    /\ \A p \in journal : meta[p[1]] = p[2]

\* Every task has been executed, or failed; what the results are then.
Over ==
    /\ \A i \in Header : status[i] \notin {"unsent", "ready"}
    /\ \A e \in Executors : ~Early(work[e])
Results == {<<i, meta[i]>> : i \in Header}

\* What may have become of the body before each step of the executor that decides.
Open == bodies = <<>> /\ failures = 0 /\ errbacks = 0
Awaits(step) ==
    /\ step \in {"look", "read", "join", "decide"} => Open
    /\ step = "fail" => failures = 0 /\ errbacks = 0 /\ (bodies = <<>> \/ doubt)
    /\ step = "errback" => failures = 1 /\ errbacks = 0

\* One executor decides, when all is over, and knows every result.
OneDecides ==
    /\ ~Open => Over
    /\ \A e \in Executors : Deciding(work[e]) =>
          /\ Over /\ \A i \in Header : meta[i] # "none"
          /\ \A f \in Executors : Deciding(work[f]) => f = e
    /\ \A e \in Executors :
          /\ work[e].at \in {"look", "read"} => journal = Results
          /\ Early(work[e]) \/ work[e].at \in {"look", "join"} => work[e].parts = <<>>
          /\ work[e].at = "decide" =>
                \/ Fails(work[e].parts)
                \/ work[e].parts = Whole /\ \A i \in Header : meta[i] = "ok"
          /\ Awaits(work[e].at)

BarrierInv == Delivered /\ Entered /\ OneDecides

\* A step of an executor that holds a delivery: it goes on with it, or ends it for good.
GoesOn(e, b) ==
    /\ Set(e, b) /\ work[e].at # "idle"
    /\ \A i \in Header \ {work[e].task} : status'[i] = status[i]
    /\ \/ b.at # "idle" /\ Same(e, b) /\ status' = status
       \/ b = Idle /\ status'[work[e].task] \in {"acked", "rejected"}
    /\ UNCHANGED sent

LEMMA DeliveredKept ==
    ASSUME TypeInv, Delivered, NEW e \in Executors, NEW b, GoesOn(e, b)
    PROVE  Delivered'
<1>1. /\ work'[e] = b /\ \A f \in Executors \ {e} : work'[f] = work[f]
  BY SetIs DEF GoesOn
<1>2. work[e].task \in Header /\ status[work[e].task] = "unacked" /\ work[e].owns
  BY CrewIs DEF GoesOn, Delivered
<1>3. ASSUME NEW i \in Header, i > sent PROVE status'[i] = "unsent"
  BY <1>2, <1>3 DEF Delivered, GoesOn
<1>4. ASSUME NEW f \in Executors, work'[f].at # "idle" PROVE work'[f].owns /\ status'[work'[f].task] = "unacked"
  <2>1. CASE f = e
    BY <1>1, <1>2, <1>4, <2>1, IdleFits DEF GoesOn, Same
  <2>2. CASE f # e
    <3>1. work'[f] = work[f] /\ work[f].task \in Header /\ work[f].task # work[e].task
      BY <1>1, <1>4, <2>2, CrewIs DEF Delivered, GoesOn
    <3> QED BY <1>4, <3>1 DEF Delivered, GoesOn
  <2> QED BY <2>1, <2>2
<1>5. ASSUME NEW f \in Executors, NEW g \in Executors, work'[f].at # "idle", work'[g].at # "idle",
             work'[f].task = work'[g].task
      PROVE  f = g
  <2>1. ASSUME NEW h \in Executors, work'[h].at # "idle"
        PROVE  work[h].at # "idle" /\ work'[h].task = work[h].task
    BY <1>1, <2>1, IdleFits DEF GoesOn, Same
  <2> QED BY <1>5, <2>1 DEF Delivered
<1> QED BY <1>3, <1>4, <1>5 DEF Delivered, GoesOn

\* What a step leaves in Redis of its own task; of the others it changes nothing.
LeavesOther(e) ==
    /\ \A i \in Header \ {work[e].task} : meta'[i] = meta[i]
    /\ \A p \in journal' : p \in journal \/ p[1] = work[e].task

LEMMA EnteredKept ==
    ASSUME TypeInv, TypeInv', Delivered, Entered, NEW e \in Executors, NEW b, GoesOn(e, b), LeavesOther(e),
           b.at \in {"handler", "store"} => Unknown(work[e].task, meta', journal'),
           b.at = "record" => /\ meta'[work[e].task] = b.outcome
                              /\ \A p \in journal' : p[1] # work[e].task,
           \A p \in journal' : p[1] = work[e].task => meta'[p[1]] = p[2]
    PROVE  Entered'
<1>1. /\ work'[e] = b /\ \A f \in Executors \ {e} : work'[f] = work[f]
  BY SetIs DEF GoesOn
<1>2. work[e].task \in Header /\ status[work[e].task] = "unacked"
  BY CrewIs DEF GoesOn, Delivered
<1>3. ASSUME NEW i \in Header \ {work[e].task}, Unknown(i, meta, journal) PROVE Unknown(i, meta', journal')
  BY <1>3 DEF Unknown, LeavesOther
<1>4. ASSUME NEW i \in Header, status'[i] \in {"unsent", "ready"} PROVE Unknown(i, meta', journal')
  <2>1. i # work[e].task /\ status'[i] = status[i]
    BY <1>2, <1>4 DEF GoesOn
  <2> QED BY <1>3, <1>4, <2>1 DEF Entered
<1>5. ASSUME NEW f \in Executors
      PROVE  /\ work'[f].at \in {"handler", "store"} => Unknown(work'[f].task, meta', journal')
             /\ work'[f].at = "record" => /\ meta'[work'[f].task] = work'[f].outcome
                                          /\ \A p \in journal' : p[1] # work'[f].task
  <2>1. CASE f = e
    <3>1. b.at # "idle" => b.task = work[e].task
      BY IdleFits DEF GoesOn, Same
    <3> QED BY <1>1, <2>1, <3>1
  <2>2. CASE f # e
    <3>1. SUFFICES ASSUME work[f].at # "idle"
                   PROVE  /\ work[f].at \in {"handler", "store"} => Unknown(work[f].task, meta', journal')
                          /\ work[f].at = "record" => /\ meta'[work[f].task] = work[f].outcome
                                                      /\ \A p \in journal' : p[1] # work[f].task
      BY <1>1, <2>2
    <3>2. work[f].task \in Header \ {work[e].task}
      BY <2>2, <3>1, CrewIs DEF Delivered, GoesOn
    <3>3. work[f].at \in {"handler", "store"} => Unknown(work[f].task, meta', journal')
      BY <1>3, <3>2 DEF Entered
    <3>4. work[f].at = "record" => /\ meta'[work[f].task] = work[f].outcome
                                   /\ \A p \in journal' : p[1] # work[f].task
      BY <3>2 DEF Entered, LeavesOther
    <3> QED BY <3>3, <3>4
  <2> QED BY <2>1, <2>2
<1>6. ASSUME NEW p \in journal' PROVE meta'[p[1]] = p[2]
  <2>1. CASE p[1] = work[e].task
    BY <1>6, <2>1
  <2>2. CASE p[1] # work[e].task
    <3>1. p \in journal /\ p[1] \in Header
      BY <1>6, <2>2 DEF LeavesOther, TypeInv, RedisTypes, Entries
    <3> QED BY <2>2, <3>1 DEF Entered, LeavesOther
  <2> QED BY <2>1, <2>2
<1> QED BY <1>4, <1>5, <1>6 DEF Entered

\* Before all is over nobody decides.
LEMMA EarlyDecides ==
    ASSUME OneDecides, ~Over, UNCHANGED body,
           \A f \in Executors : ~Deciding(work'[f]) /\ (Early(work'[f]) => work'[f].parts = <<>>)
    PROVE  OneDecides'
<1>1. Open'
  BY DEF OneDecides, Open
<1>2. \A f \in Executors : Awaits(work[f].at)'
  BY <1>1 DEF Deciding, Awaits, Open
<1> QED BY <1>1, <1>2 DEF OneDecides, Deciding

LEMMA EarlyMoves ==
    ASSUME TypeInv, OneDecides, NEW e \in Executors, NEW b, Set(e, b), ~Over, ~Deciding(b),
           Early(b) => b.parts = <<>>, UNCHANGED body
    PROVE  OneDecides'
<1>1. \A f \in Executors : ~Deciding(work'[f]) /\ (Early(work'[f]) => work'[f].parts = <<>>)
  BY SetIs DEF OneDecides
<1> QED BY <1>1, EarlyDecides

LEMMA OverStays ==
    ASSUME TypeInv, NEW e \in Executors, NEW b, GoesOn(e, b), ~Early(b), Over
    PROVE  Over'
<1>1. /\ work'[e] = b /\ \A f \in Executors \ {e} : work'[f] = work[f]
  BY SetIs DEF GoesOn
<1>2. \A i \in Header : status'[i] \notin {"unsent", "ready"}
  BY DEF Over, GoesOn
<1> QED BY <1>1, <1>2 DEF Over

\* The one that decides goes on,
LEMMA DecidingMoves ==
    ASSUME TypeInv, OneDecides, NEW e \in Executors, NEW b, GoesOn(e, b),
           Deciding(work[e]), Deciding(b), UNCHANGED <<meta, journal>>,
           b.at \in {"look", "read"} => work[e].at \in {"look", "read"},
           b.at \in {"look", "join"} => b.parts = <<>>,
           b.at = "decide" => \/ Fails(b.parts)
                              \/ b.parts = Whole /\ \A i \in Header : meta[i] = "ok",
           Awaits(b.at)'
    PROVE  OneDecides'
<1>1. /\ work'[e] = b /\ \A f \in Executors \ {e} : work'[f] = work[f]
  BY SetIs DEF GoesOn
<1>2. Over /\ Over' /\ ~Early(b)
  BY OverStays DEF OneDecides, Deciding, Early
<1>3. \A f \in Executors \ {e} : ~Deciding(work'[f])
  BY <1>1 DEF OneDecides
<1>4. \A i \in Header : meta'[i] # "none"
  BY DEF OneDecides
<1>5. \A f \in Executors : Deciding(work'[f]) =>
          /\ Over' /\ \A i \in Header : meta'[i] # "none"
          /\ \A g \in Executors : Deciding(work'[g]) => g = f
  BY <1>2, <1>3, <1>4
<1>6. ASSUME NEW f \in Executors
      PROVE  /\ work'[f].at \in {"look", "read"} => journal' = Results'
             /\ Early(work'[f]) \/ work'[f].at \in {"look", "join"} => work'[f].parts = <<>>
             /\ work'[f].at = "decide" =>
                   \/ Fails(work'[f].parts)
                   \/ work'[f].parts = Whole /\ \A i \in Header : meta'[i] = "ok"
             /\ Awaits(work[f].at)'
  <2>1. CASE f = e
    BY <1>1, <1>2, <2>1 DEF OneDecides, Results, Awaits, Open
  <2>2. CASE f # e
    BY <1>1, <1>3, <2>2 DEF OneDecides, Deciding, Awaits
  <2> QED BY <2>1, <2>2
<1> QED BY <1>2, <1>5, <1>6 DEF OneDecides

\* or has decided; who is past its part disturbs nobody.
LEMMA Retires ==
    ASSUME TypeInv, OneDecides, NEW e \in Executors, NEW b, GoesOn(e, b), ~Early(work[e]),
           ~Early(b), ~Deciding(b), UNCHANGED meta,
           UNCHANGED <<journal, body>> \/ Deciding(work[e])
    PROVE  OneDecides'
<1>1. /\ work'[e] = b /\ \A f \in Executors \ {e} : work'[f] = work[f]
  BY SetIs DEF GoesOn
<1>2. Over => Over'
  BY OverStays
<1>3. ASSUME NEW f \in Executors, Deciding(work'[f]) PROVE UNCHANGED <<journal, body>>
  BY <1>1, <1>3 DEF OneDecides
<1>4. \A f \in Executors : Deciding(work'[f]) =>
          /\ Over' /\ \A i \in Header : meta'[i] # "none"
          /\ \A g \in Executors : Deciding(work'[g]) => g = f
  BY <1>1, <1>2 DEF OneDecides
<1>5. ASSUME NEW f \in Executors
      PROVE  /\ work'[f].at \in {"look", "read"} => journal' = Results'
             /\ Early(work'[f]) \/ work'[f].at \in {"look", "join"} => work'[f].parts = <<>>
             /\ work'[f].at = "decide" =>
                   \/ Fails(work'[f].parts)
                   \/ work'[f].parts = Whole /\ \A i \in Header : meta'[i] = "ok"
             /\ Awaits(work[f].at)'
  <2>1. CASE f = e
    BY <1>1, <2>1 DEF Deciding, Awaits
  <2>2. CASE f # e
    BY <1>1, <1>3, <2>2 DEF OneDecides, Results, Deciding, Awaits, Open
  <2> QED BY <2>1, <2>2
<1>6. ~Open' => Over'
  BY <1>2 DEF OneDecides, Open
<1> QED BY <1>4, <1>5, <1>6 DEF OneDecides

\* Each task is delivered once, each outcome is stored: nobody loses a delivery, no
\* task has ignore_result, and what fails is not requeued.
Once == MaxLosses = 0 /\ MaySkip = {} /\ OnError = "rejected"

LEMMA ResultsAre ==
    ASSUME TypeInv, \A i \in Header : meta[i] # "none"
    PROVE  /\ Results \subseteq Entries
           /\ Cardinality(Results) = Size
           /\ (\A p \in Results : p[2] # "bad") =>
                 /\ \A i \in Header : meta[i] = "ok"
                 /\ InOrder(Results) = Whole
<1>1. \A i \in Header : meta[i] \in {"ok", "bad"}
  BY DEF TypeInv, RedisTypes
<1>2. Results \subseteq Entries
  BY <1>1 DEF Results, Entries
<1>3. Cardinality(Results) = Size
  <2>1. IsFiniteSet(Header) /\ Cardinality(Header) = Size
    BY SizeAssumption, FS_Interval DEF Header
  <2> DEFINE f == [i \in Header |-> <<i, meta[i]>>]
  <2>2. f \in Bijection(Header, Results)
    <3>1. f \in [Header -> Results]
      BY DEF Results
    <3>2. \A i, j \in Header : f[i] = f[j] => i = j
      OBVIOUS
    <3>3. \A p \in Results : \E i \in Header : f[i] = p
      BY DEF Results
    <3> QED BY <3>1, <3>2, <3>3, Fun_IsBij
  <2>3. ExistsBijection(Header, Results)
    BY <2>2 DEF ExistsBijection
  <2> QED BY <2>1, <2>3, FS_Bijection
<1>4. ASSUME \A p \in Results : p[2] # "bad"
      PROVE  (\A i \in Header : meta[i] = "ok") /\ InOrder(Results) = Whole
  <2>1. ASSUME NEW i \in Header PROVE meta[i] = "ok"
    <3>1. <<i, meta[i]>> \in Results /\ <<i, meta[i]>>[2] = meta[i]
      BY DEF Results
    <3> QED BY <1>1, <1>4, <3>1
  <2>2. Results = AllOk
    BY <2>1 DEF Results, AllOk
  <2> QED BY <2>1, <2>2, WholeInOrder
<1> QED BY <1>2, <1>3, <1>4

LEMMA EnteredLate ==
    ASSUME TypeInv, TypeInv', Delivered, Entered, NEW e \in Executors, NEW b, GoesOn(e, b),
           ~Early(b), UNCHANGED meta, journal' \subseteq journal
    PROVE  Entered'
<1>1. LeavesOther(e)
  BY DEF LeavesOther
<1>2. \A p \in journal' : meta'[p[1]] = p[2]
  BY DEF Entered
<1> QED BY <1>1, <1>2, EnteredKept DEF Early

\* A delivery that ends is settled for good.
LEMMA EndGoes ==
    ASSUME TypeInv, Delivered, NEW e \in Executors, NEW outcome \in {"acked", "rejected"},
           work[e].at # "idle", End(e, outcome), UNCHANGED sent
    PROVE  GoesOn(e, Idle)
BY EndIs DEF GoesOn, Delivered

LEMMA GotoGoes ==
    ASSUME TypeInv, NEW e \in Executors, NEW step \in Steps \ {"idle", "handler"},
           work[e].at \notin {"idle", "handler"}, Goto(e, step), UNCHANGED <<sent, status>>
    PROVE  \E b : /\ GoesOn(e, b) /\ Fit(b) /\ b.outcome = work[e].outcome
                  /\ b.at = step /\ b.parts = work[e].parts
<1>1. PICK b : /\ Set(e, b) /\ Fit(b) /\ Same(e, b) /\ b.outcome = work[e].outcome
               /\ b.at = step /\ b.parts = work[e].parts
  BY GotoIs
<1> QED BY <1>1 DEF GoesOn

LEMMA WithGoes ==
    ASSUME TypeInv, NEW e \in Executors, NEW step \in Steps \ {"idle", "handler"},
           NEW parts \in Seq(Entries),
           work[e].at \notin {"idle", "handler"}, With(e, step, parts), UNCHANGED <<sent, status>>
    PROVE  \E b : GoesOn(e, b) /\ Fit(b) /\ b.at = step /\ b.parts = parts
<1>1. PICK b : Set(e, b) /\ Fit(b) /\ Same(e, b) /\ b.at = step /\ b.parts = parts
  BY WithIs
<1> QED BY <1>1 DEF GoesOn

LEMMA HandleBarrier ==
    ASSUME Once, TypeInv, TypeInv', BarrierInv, NEW e \in Executors, Handle(e)
    PROVE  BarrierInv' /\ UNCHANGED <<meta, body>>
<1>1. work[e].at = "handler" /\ ~Over /\ UNCHANGED <<sent, journal, meta, body>>
  BY DEF Handle, At, Over, Early, keys, body
<1>2. PICK outcome \in {"ok", "bad"} :
         /\ work' = [work EXCEPT ![e].outcome = outcome, ![e].at =
                              IF work[e].task \in ignores THEN "record" ELSE "store"]
         /\ UNCHANGED status
  BY OutcomeAssumption DEF Handle, Once, Reports
<1>3. work[e].task \notin ignores
  BY DEF Once, TypeInv, RedisTypes
<1>4. PICK b : /\ Set(e, b) /\ Fit(b) /\ Same(e, b) /\ b.at = "store" /\ b.parts = work[e].parts
  BY <1>1, <1>2, <1>3, ReportIs DEF At
<1>5. GoesOn(e, b)
  BY <1>1, <1>2, <1>4 DEF GoesOn
<1>6. Delivered'
  BY <1>5, DeliveredKept DEF BarrierInv
<1>7. Entered'
  <2>1. Unknown(work[e].task, meta', journal') /\ LeavesOther(e)
    BY <1>1 DEF BarrierInv, Entered, LeavesOther, Unknown
  <2> QED BY <1>4, <1>5, <2>1, EnteredKept DEF BarrierInv, Unknown
<1>8. OneDecides'
  BY <1>1, <1>4, EarlyMoves DEF BarrierInv, OneDecides, Early, Deciding
<1> QED BY <1>1, <1>6, <1>7, <1>8 DEF BarrierInv

\* The outcome of a task becomes its result, once.
LEMMA StoreBarrier ==
    ASSUME TypeInv, TypeInv', BarrierInv, NEW e \in Executors, NEW b, GoesOn(e, b),
           At(e, "store"), SetMeta(e), UNCHANGED body,
           \/ b = Idle
           \/ b.at = "record" /\ b.parts = work[e].parts /\ b.outcome = work[e].outcome
    PROVE  /\ BarrierInv'
           /\ \E i \in Header, outcome \in {"ok", "bad"} :
                 meta[i] = "none" /\ meta' = [meta EXCEPT ![i] = outcome]
<1>1. /\ work[e].task \in Header /\ work[e].outcome \in {"ok", "bad"} /\ ~Over
      /\ Unknown(work[e].task, meta, journal)
  BY CrewIs DEF At, Over, Early, BarrierInv, Entered
<1>2. /\ meta' = [meta EXCEPT ![work[e].task] = work[e].outcome] /\ journal' = journal
      /\ meta'[work[e].task] = work[e].outcome
  BY <1>1 DEF SetMeta, TypeInv, RedisTypes
<1>3. Delivered'
  BY DeliveredKept DEF BarrierInv
<1>4. Entered'
  <2>1. LeavesOther(e)
    BY <1>2 DEF LeavesOther, TypeInv, RedisTypes
  <2>2. \A p \in journal' : p[1] # work[e].task
    BY <1>1, <1>2 DEF Unknown
  <2>3. b.at \notin {"handler", "store"}
    BY IdleFits
  <2>4. b.at = "record" => meta'[work[e].task] = b.outcome
    BY <1>2, IdleFits
  <2> QED BY <2>1, <2>2, <2>3, <2>4, EnteredKept DEF BarrierInv
<1>5. OneDecides'
  <2>1. ~Deciding(b) /\ b.parts = <<>>
    BY IdleFits DEF BarrierInv, OneDecides, Deciding, Early, At
  <2> QED BY <1>1, <2>1, EarlyMoves DEF BarrierInv, GoesOn
<1>6. meta[work[e].task] = "none"
  BY <1>1 DEF Unknown
<1> QED BY <1>1, <1>2, <1>3, <1>4, <1>5, <1>6 DEF BarrierInv

\* An entry of the journal is the result of its task; the one that completes it decides.
LEMMA RecordBarrier ==
    ASSUME TypeInv, TypeInv', BarrierInv, NEW e \in Executors, NEW b, GoesOn(e, b),
           At(e, "record"), AddEntry(e), UNCHANGED body,
           \/ b = Idle \/ b.at = "settle"
           \/ /\ b.at = "look" /\ b.parts = work[e].parts
              /\ Ready(journal \cup {Entry(e)}, Entry(e))
    PROVE  BarrierInv'
<1>1. /\ work[e].task \in Header /\ work[e].outcome \in {"ok", "bad"} /\ ~Over
      /\ meta[work[e].task] = work[e].outcome /\ \A p \in journal : p[1] # work[e].task
  BY CrewIs DEF At, Over, Early, BarrierInv, Entered
<1>2. /\ meta' = meta /\ journal' = journal \cup {Entry(e)}
      /\ Entry(e)[1] = work[e].task /\ Entry(e)[2] = work[e].outcome
  BY DEF AddEntry, Entry
<1>3. Delivered'
  BY DeliveredKept DEF BarrierInv
<1>4. Entered'
  <2>1. LeavesOther(e)
    BY <1>2 DEF LeavesOther
  <2>2. \A p \in journal' : p[1] = work[e].task => meta'[p[1]] = p[2]
    BY <1>1, <1>2
  <2>3. b.at \notin {"handler", "store", "record"}
    BY IdleFits
  <2> QED BY <2>1, <2>2, <2>3, EnteredKept DEF BarrierInv
<1>5. CASE b = Idle \/ b.at = "settle"
  <2>1. ~Deciding(b) /\ ~Early(b)
    BY <1>5, IdleFits DEF Deciding, Early
  <2>2. OneDecides'
    BY <1>1, <2>1, EarlyMoves DEF BarrierInv, GoesOn
  <2> QED BY <1>3, <1>4, <2>2 DEF BarrierInv
<1>6. CASE /\ b.at = "look" /\ b.parts = work[e].parts
           /\ Ready(journal \cup {Entry(e)}, Entry(e))
  <2>1. /\ work'[e] = b /\ \A f \in Executors \ {e} : work'[f] = work[f]
    BY SetIs DEF GoesOn
  <2>2. /\ journal' \subseteq Entries /\ Cardinality(journal') = Size
        /\ \A i \in Header : meta'[i] \in {"none", "ok", "bad"}
    BY <1>2, <1>6 DEF Ready, TypeInv, RedisTypes
  <2>3. \A p \in journal' : p = <<p[1], meta'[p[1]]>> /\ p[1] \in Header /\ p[2] \in {"ok", "bad"}
    BY <1>4, <2>2 DEF Entered, Entries
  <2>4. \A i \in Header : \E p \in journal' : p[1] = i
    <3>1. Single(journal')
      BY <2>3 DEF Single
    <3> QED BY <2>2, <3>1, EveryTask
  <2>5. journal' = Results' /\ \A i \in Header : meta'[i] # "none"
    <3>1. \A i \in Header : <<i, meta'[i]>> \in journal' /\ meta'[i] # "none"
      <4>1. ASSUME NEW i \in Header PROVE <<i, meta'[i]>> \in journal' /\ meta'[i] # "none"
        <5>1. PICK p \in journal' : p[1] = i
          BY <2>4
        <5>2. p = <<i, meta'[i]>> /\ meta'[i] = p[2] /\ p[2] # "none"
          BY <1>4, <2>3, <5>1 DEF Entered
        <5> QED BY <5>1, <5>2
      <4> QED BY <4>1
    <3>2. \A p \in journal' : \E i \in Header : p = <<i, meta'[i]>>
      BY <2>3
    <3> QED BY <3>1, <3>2 DEF Results
  <2>6. Over'
    <3>1. \A i \in Header : status'[i] \notin {"unsent", "ready"}
      BY <1>4, <2>4 DEF Entered, Unknown
    <3>2. ASSUME NEW f \in Executors, Early(work'[f]) PROVE FALSE
      <4>1. f # e /\ work'[f] = work[f]
        BY <1>6, <2>1, <3>2 DEF Early
      <4>2. work'[f].task \in Header
        BY <3>2, <4>1, CrewIs DEF Early
      <4>3. \A p \in journal' : p[1] # work'[f].task
        BY <1>4, <3>2 DEF Entered, Unknown, Early
      <4> QED BY <2>4, <4>2, <4>3
    <3> QED BY <3>1, <3>2 DEF Over
  <2>7. b.parts = <<>> /\ Open' /\ Awaits(b.at)'
    BY <1>1, <1>6 DEF BarrierInv, OneDecides, Early, At, Open, Awaits
  <2>8. \A f \in Executors \ {e} : ~Deciding(work'[f]) /\ ~Early(work'[f])
    BY <1>1, <2>1, <2>6 DEF BarrierInv, OneDecides, Over
  <2>9. OneDecides'
    <3>1. ~Early(b) /\ Deciding(b)
      BY <1>6 DEF Early, Deciding
    <3>2. \A f \in Executors : Deciding(work'[f]) =>
          /\ Over' /\ \A i \in Header : meta'[i] # "none"
          /\ \A g \in Executors : Deciding(work'[g]) => g = f
      BY <2>1, <2>5, <2>6, <2>8
    <3>3. ASSUME NEW f \in Executors
          PROVE  /\ work'[f].at \in {"look", "read"} => journal' = Results'
                 /\ Early(work'[f]) \/ work'[f].at \in {"look", "join"} => work'[f].parts = <<>>
                 /\ work'[f].at = "decide" =>
                       \/ Fails(work'[f].parts)
                       \/ work'[f].parts = Whole /\ \A i \in Header : meta'[i] = "ok"
                 /\ Awaits(work[f].at)'
      BY <1>6, <2>1, <2>5, <2>7, <2>8, <3>1 DEF Deciding, Awaits
    <3> QED BY <2>6, <3>2, <3>3 DEF OneDecides
  <2> QED BY <1>3, <1>4, <2>9 DEF BarrierInv
<1> QED BY <1>5, <1>6

\* A step of the executor that decides.
LEMMA DecidingBarrier ==
    ASSUME TypeInv, TypeInv', BarrierInv, NEW e \in Executors,
           Look(e) \/ Read(e) \/ Join(e) \/ Decide(e) \/ StoreFailure(e) \/ Errback(e)
    PROVE  BarrierInv' /\ UNCHANGED meta
<1> USE DEF At
<1>1. /\ Deciding(work[e]) /\ Over /\ \A i \in Header : meta[i] # "none"
      /\ UNCHANGED <<sent, status, meta, journal>>
      /\ work[e].at # "idle" /\ work[e].at # "handler"
  BY DEF Look, Read, Join, Decide, StoreFailure, Errback, Deciding, BarrierInv, OneDecides, keys
<1>2. ASSUME NEW b, GoesOn(e, b), Deciding(b),
             b.at \in {"look", "read"} => work[e].at \in {"look", "read"},
             b.at \in {"look", "join"} => b.parts = <<>>,
             b.at = "decide" => \/ Fails(b.parts)
                                \/ b.parts = Whole /\ \A i \in Header : meta[i] = "ok",
             Awaits(b.at)'
      PROVE  BarrierInv'
  <2>1. OneDecides'
    BY <1>1, <1>2, DecidingMoves DEF BarrierInv
  <2>2. ~Early(b)
    BY <1>2 DEF Early, Deciding
  <2> QED BY <1>1, <1>2, <2>1, <2>2, DeliveredKept, EnteredLate DEF BarrierInv
<1>3. Awaits(work[e].at)
  BY DEF BarrierInv, OneDecides
<1>4. /\ Results \subseteq Entries /\ Cardinality(Results) = Size
      /\ (\A p \in Results : p[2] # "bad") =>
            (\A i \in Header : meta[i] = "ok") /\ InOrder(Results) = Whole
      /\ InOrder(Results) \in Seq(Entries) /\ Range(InOrder(Results)) = Results
  BY <1>1, ResultsAre, OrderedIn
<1>5. CASE Look(e)
  <2>1. UNCHANGED body /\ work[e].at = "look" /\ work[e].parts = <<>>
    BY <1>5 DEF Look, body, BarrierInv, OneDecides
  <2>2. PICK b : GoesOn(e, b) /\ b.at \in {"join", "read"} /\ b.parts = <<>>
    BY <1>1, <1>5, <2>1, GotoGoes DEF Look, Steps
  <2> QED BY <1>1, <1>2, <1>3, <2>1, <2>2 DEF Deciding, Awaits, Open
<1>6. CASE Read(e)
  <2>1. UNCHANGED body /\ work[e].at = "read" /\ journal = Results
    BY <1>6 DEF Read, body, BarrierInv, OneDecides
  <2>2. PICK b : GoesOn(e, b) /\ b.at = "decide" /\ b.parts = InOrder(Results)
    BY <1>1, <1>4, <1>6, <2>1, WithGoes DEF Read, Steps
  <2>3. Fails(b.parts) \/ (b.parts = Whole /\ \A i \in Header : meta[i] = "ok")
    <3>1. CASE \A p \in Results : p[2] # "bad"
      BY <1>4, <2>2, <3>1
    <3>2. CASE ~\A p \in Results : p[2] # "bad"
      BY <1>4, <2>2, <3>2 DEF Fails
    <3> QED BY <3>1, <3>2
  <2> QED BY <1>1, <1>2, <1>3, <2>1, <2>2, <2>3 DEF Deciding, Awaits, Open
<1>7. CASE Join(e)
  <2>1. UNCHANGED body /\ work[e].at = "join" /\ work[e].parts = <<>>
    BY <1>7 DEF Join, body, BarrierInv, OneDecides
  <2>2. Found(e) = Results
    BY <1>1, <2>1, IdleFits DEF Found, Fresh, Results
  <2>3. \E parts \in Seq(Entries) :
           /\ With(e, "decide", parts)
           /\ Fails(parts) \/ (parts = Whole /\ \A i \in Header : meta[i] = "ok")
    <3>1. CASE \E p \in Results : p[2] = "bad" /\ With(e, "decide", <<p>>)
      <4>1. PICK p \in Results : p[2] = "bad" /\ With(e, "decide", <<p>>)
        BY <3>1
      <4>2. <<p>> \in Seq(Entries) /\ Fails(<<p>>)
        BY <1>4, <4>1, SingletonIs DEF Fails
      <4> QED BY <4>1, <4>2
    <3>2. CASE (\A p \in Results : p[2] # "bad") /\ With(e, "decide", InOrder(Results))
      BY <1>4, <3>2
    <3> QED BY <1>4, <1>7, <2>2, <3>1, <3>2, JoinIs
  <2>4. PICK b : /\ GoesOn(e, b) /\ b.at = "decide"
                 /\ Fails(b.parts) \/ (b.parts = Whole /\ \A i \in Header : meta[i] = "ok")
    BY <1>1, <2>3, WithGoes DEF Steps
  <2> QED BY <1>1, <1>2, <1>3, <2>1, <2>4 DEF Deciding, Awaits, Open
<1>8. CASE Decide(e)
  <2>1. work[e].at = "decide" /\ Open /\ UNCHANGED <<failures, errbacks>>
    BY <1>3, <1>8 DEF Decide, Awaits
  <2>2. PICK step \in {"fail", "clear"} :
           Goto(e, step) /\ (step = "fail" => UNCHANGED bodies \/ doubt' = TRUE)
    BY <1>8 DEF Decide
  <2>3. PICK b : GoesOn(e, b) /\ b.at = step
    BY <1>1, <2>2, GotoGoes DEF Steps
  <2>4. Awaits(b.at)'
    BY <2>1, <2>2, <2>3 DEF Awaits, Open
  <2> QED BY <1>1, <1>2, <2>2, <2>3, <2>4 DEF Deciding
<1>9. CASE StoreFailure(e)
  <2>1. PICK b : GoesOn(e, b) /\ b.at = "errback"
    BY <1>1, <1>9, GotoGoes DEF StoreFailure, Steps
  <2>2. Awaits(b.at)'
    BY <1>3, <1>9, <2>1 DEF StoreFailure, SetFailure, Awaits
  <2> QED BY <1>1, <1>2, <2>1, <2>2 DEF Deciding
<1>10. CASE Errback(e)
  <2>1. PICK b : GoesOn(e, b) /\ b.at = "clear"
    BY <1>1, <1>10, GotoGoes DEF Errback, Steps
  <2>2. Awaits(b.at)'
    BY <2>1 DEF Awaits
  <2> QED BY <1>1, <1>2, <2>1, <2>2 DEF Deciding
<1> QED BY <1>1, <1>5, <1>6, <1>7, <1>8, <1>9, <1>10

\* A step that leaves the decision, or what follows it.
LEMMA LeavingBarrier ==
    ASSUME TypeInv, TypeInv', BarrierInv, NEW e \in Executors, NEW b, GoesOn(e, b),
           ~Early(work[e]), ~Early(b), ~Deciding(b), UNCHANGED meta,
           journal' \in {journal, {}}, UNCHANGED <<journal, body>> \/ Deciding(work[e])
    PROVE  BarrierInv'
<1>1. OneDecides'
  BY Retires DEF BarrierInv
<1>2. journal' \subseteq journal
  OBVIOUS
<1> QED BY <1>1, <1>2, DeliveredKept, EnteredLate DEF BarrierInv

\* What ChordBarrier sees of a step: a result, or what is done with the body.
NewResult ==
    /\ \E i \in Header, outcome \in {"ok", "bad"} :
          meta[i] = "none" /\ meta' = [meta EXCEPT ![i] = outcome]
    /\ UNCHANGED body
Published ==
    /\ bodies = <<>> /\ failures = 0 /\ \A i \in Header : meta[i] = "ok"
    /\ bodies' = Append(bodies, Whole)
    /\ doubt' \in {doubt, TRUE}
    /\ UNCHANGED <<meta, failures, errbacks>>
FailedOnce ==
    /\ failures = 0 /\ (bodies = <<>> \/ doubt) /\ \A i \in Header : meta[i] # "none"
    /\ failures' = 1
    /\ UNCHANGED <<meta, bodies, doubt, errbacks>>
ErrbackedOnce ==
    /\ failures = 1 /\ errbacks = 0
    /\ errbacks' = 1
    /\ UNCHANGED <<meta, bodies, doubt, failures>>
Seen == NewResult \/ Published \/ FailedOnce \/ ErrbackedOnce \/ UNCHANGED <<meta, body>>

\* The failure of the body and its errbacks are seen once, whether the step that
\* stores or publishes them returns or raises.
LEMMA FailureSeen ==
    ASSUME BarrierInv, NEW e \in Executors, UNCHANGED meta,
           \/ At(e, "fail") /\ SetFailure
           \/ At(e, "errback") /\ PublishErrbacks
    PROVE  Seen
<1>1. Awaits(work[e].at) /\ (Deciding(work[e]) => \A i \in Header : meta[i] # "none")
  BY DEF BarrierInv, OneDecides
<1>2. CASE At(e, "fail") /\ SetFailure
  BY <1>1, <1>2 DEF At, SetFailure, Awaits, Deciding, Seen, FailedOnce
<1>3. CASE At(e, "errback") /\ PublishErrbacks
  BY <1>1, <1>3 DEF At, PublishErrbacks, Awaits, Seen, ErrbackedOnce
<1> QED BY <1>2, <1>3

LEMMA FaultBarrier ==
    ASSUME Once, TypeInv, TypeInv', BarrierInv, NEW e \in Executors, Fault(e)
    PROVE  BarrierInv' /\ Seen
<1>1. UNCHANGED sent
  BY DEF Fault
<1>2. GoesOn(e, Idle)
  BY <1>1, EndGoes DEF Fault, Raise, Once, BarrierInv
<1>3. ~Early(Idle) /\ ~Deciding(Idle)
  BY IdleFits DEF Early, Deciding
<1>4. CASE UNCHANGED <<keys, body>>
  <2>1. UNCHANGED <<meta, journal, body>>
    BY <1>4 DEF keys
  <2>2. CASE Early(work[e])
    <3>1. ~Over
      BY <2>2 DEF Over
    <3>2. OneDecides'
      BY <1>2, <1>3, <2>1, <3>1, EarlyMoves DEF BarrierInv, GoesOn
    <3> QED BY <1>2, <1>3, <2>1, <3>2, DeliveredKept, EnteredLate DEF BarrierInv, Seen
  <2>3. CASE ~Early(work[e])
    BY <1>2, <1>3, <2>1, <2>3, LeavingBarrier DEF Seen
  <2> QED BY <2>2, <2>3
<1>5. CASE At(e, "store") /\ SetMeta(e) /\ UNCHANGED body
  BY <1>2, <1>5, StoreBarrier DEF Seen, NewResult
<1>6. CASE At(e, "record") /\ AddEntry(e) /\ UNCHANGED body
  BY <1>2, <1>6, RecordBarrier DEF AddEntry, Seen
<1>7. CASE At(e, "clear") /\ Delete(e) /\ UNCHANGED body
  <2>1. ~Early(work[e]) /\ Deciding(work[e]) /\ journal' = {} /\ UNCHANGED <<meta, body>>
    BY <1>7 DEF Early, Deciding, At, Delete
  <2> QED BY <1>2, <1>3, <2>1, LeavingBarrier DEF Seen
<1>8. CASE /\ UNCHANGED keys
           /\ (At(e, "fail") /\ SetFailure) \/ (At(e, "errback") /\ PublishErrbacks)
  <2>1. ~Early(work[e]) /\ Deciding(work[e]) /\ UNCHANGED <<meta, journal>>
    BY <1>8 DEF Early, Deciding, At, keys
  <2> QED BY <1>2, <1>3, <1>8, <2>1, LeavingBarrier, FailureSeen
<1> QED BY <1>4, <1>5, <1>6, <1>7, <1>8 DEF Fault

LEMMA TakeBarrier ==
    ASSUME TypeInv, TypeInv', BarrierInv, NEW e \in Executors, NEW i \in Header, Take(e, i)
    PROVE  BarrierInv'
<1>1. PICK b : Set(e, b) /\ b.at = "handler" /\ b.task = i /\ b.owns /\ b.parts = <<>>
  BY TakeIs
<1>2. /\ work'[e] = b /\ \A f \in Executors \ {e} : work'[f] = work[f]
  BY <1>1, SetIs
<1>3. /\ work[e].at = "idle" /\ status[i] = "ready"
      /\ status'[i] = "unacked" /\ \A j \in Header \ {i} : status'[j] = status[j]
      /\ UNCHANGED <<sent, journal, meta, body>>
  BY DEF Take, At, keys, body, TypeInv, StatusTypes
<1>4. ASSUME NEW f \in Executors, work[f].at # "idle" PROVE work[f].task \in Header \ {i}
  BY <1>3, <1>4, CrewIs DEF BarrierInv, Delivered
<1>5. Delivered'
  BY <1>1, <1>2, <1>3, <1>4 DEF BarrierInv, Delivered
<1>6. Unknown(i, meta, journal)
  BY <1>3 DEF BarrierInv, Entered
<1>7. Entered'
  BY <1>1, <1>2, <1>3, <1>4, <1>6 DEF BarrierInv, Entered, Unknown
<1>8. ~Over /\ ~Deciding(b)
  BY <1>1, <1>3 DEF Over, Deciding
<1>9. OneDecides'
  BY <1>1, <1>3, <1>8, EarlyMoves DEF BarrierInv
<1> QED BY <1>5, <1>7, <1>9 DEF BarrierInv

LEMMA ClientBarrier ==
    ASSUME TypeInv, BarrierInv, SetSize \/ Send
    PROVE  BarrierInv'
<1>1. UNCHANGED <<work, journal, meta, body>>
  BY DEF SetSize, Send, keys, body
<1>2. sent < Size /\ sent + 1 \in Header /\ sent \in Nat
  BY SizeAssumption DEF SetSize, Send, Header, TypeInv, RedisTypes
<1>3. ~Over
  <2>1. sent < sent + 1
    BY <1>2
  <2> QED BY <1>2, <2>1 DEF Over, BarrierInv, Delivered
<1>4. \A f \in Executors : ~Deciding(work[f])
  BY <1>3 DEF BarrierInv, OneDecides
<1>5. OneDecides'
  BY <1>1, <1>3, <1>4, EarlyDecides DEF BarrierInv, OneDecides
<1>6. CASE SetSize
  <2>1. UNCHANGED <<sent, status>>
    BY <1>6 DEF SetSize
  <2> QED BY <1>1, <1>5, <2>1 DEF BarrierInv, Delivered, Entered, Unknown
<1>7. CASE Send
  <2>1. /\ sent' = sent + 1 /\ status'[sent + 1] = "ready" /\ status[sent + 1] = "unsent"
        /\ \A i \in Header \ {sent + 1} : status'[i] = status[i]
    <3>1. sent < sent + 1
      BY <1>2
    <3> QED BY <1>2, <1>7, <3>1 DEF Send, TypeInv, StatusTypes, BarrierInv, Delivered
  <2>2. ASSUME NEW f \in Executors, work[f].at # "idle" PROVE work[f].task \in Header \ {sent + 1}
    BY <2>1, <2>2, CrewIs DEF BarrierInv, Delivered
  <2>3. Delivered'
    <3>1. ASSUME NEW i \in Header, i > sent' PROVE status'[i] = "unsent"
      <4>1. i # sent + 1 /\ i > sent
        BY <1>2, <2>1, <3>1 DEF Header
      <4> QED BY <2>1, <4>1 DEF BarrierInv, Delivered
    <3> QED BY <1>1, <2>1, <2>2, <3>1 DEF BarrierInv, Delivered
  <2>4. Entered'
    BY <1>1, <2>1 DEF BarrierInv, Entered, Unknown
  <2> QED BY <1>5, <2>3, <2>4 DEF BarrierInv
<1> QED BY <1>6, <1>7

LEMMA BarrierInit == Init => BarrierInv
<1> SUFFICES ASSUME Init PROVE BarrierInv
  OBVIOUS
<1>1. \A e \in Executors : work[e] = Idle /\ work[e].at = "idle"
  BY IdleFits DEF Init
<1>2. /\ Open /\ journal = {}
      /\ \A i \in Header : status[i] = "unsent" /\ meta[i] = "none"
  BY DEF Init, Open
<1>3. Delivered
  BY <1>1, <1>2 DEF Delivered
<1>4. Entered
  BY <1>1, <1>2 DEF Entered, Unknown
<1>5. OneDecides
  BY <1>1, <1>2, IdleFits DEF OneDecides, Early, Deciding, Awaits
<1> QED BY <1>3, <1>4, <1>5 DEF BarrierInv

LEMMA ActsBarrier ==
    ASSUME Once, TypeInv, TypeInv', BarrierInv, NEW e \in Executors, Acts(e)
    PROVE  BarrierInv' /\ Seen
<1> USE DEF At
<1>1. CASE Handle(e)
  BY <1>1, HandleBarrier DEF Seen
<1>2. CASE Store(e)
  <2>1. UNCHANGED <<sent, status, body>>
    BY <1>2 DEF Store, body
  <2>2. PICK b : GoesOn(e, b) /\ b.at = "record" /\ b.parts = work[e].parts /\ b.outcome = work[e].outcome
    BY <1>2, <2>1, GotoGoes DEF Store, Steps
  <2>3. /\ BarrierInv'
        /\ \E i \in Header, outcome \in {"ok", "bad"} :
              meta[i] = "none" /\ meta' = [meta EXCEPT ![i] = outcome]
    BY <1>2, <2>1, <2>2, StoreBarrier DEF Store
  <2> QED BY <2>1, <2>3 DEF Seen, NewResult
<1>3. CASE Record(e)
  <2>1. UNCHANGED <<sent, status, meta, body>>
    BY <1>3 DEF Record, AddEntry, body
  <2>2. PICK step \in {"look", "settle"} :
           Goto(e, step) /\ (step = "look" => Ready(journal \cup {Entry(e)}, Entry(e)))
    BY <1>3 DEF Record
  <2>3. PICK b : GoesOn(e, b) /\ b.at = step /\ b.parts = work[e].parts
    BY <1>3, <2>1, <2>2, GotoGoes DEF Record, Steps
  <2>4. BarrierInv'
    BY <1>3, <2>1, <2>2, <2>3, RecordBarrier DEF Record
  <2> QED BY <2>1, <2>4 DEF Seen
<1>4. CASE Look(e) \/ Read(e) \/ Join(e)
  <2>1. UNCHANGED body
    BY <1>4 DEF Look, Read, Join, body
  <2> QED BY <1>4, <2>1, DecidingBarrier DEF Seen
<1>5. CASE JoinTimeout(e)
  <2>1. \A i \in Header : meta[i] # "none"
    BY <1>5 DEF JoinTimeout, BarrierInv, OneDecides, Deciding
  <2>2. {i \in Header : meta[i] # "none"} = Header
    BY <2>1
  <2>3. Cardinality(Header) = Size
    BY SizeAssumption, FS_Interval DEF Header
  <2> QED BY <1>5, <2>2, <2>3 DEF JoinTimeout
<1>6. CASE Decide(e)
  <2>1. BarrierInv' /\ Open /\ UNCHANGED <<meta, failures, errbacks>>
    BY <1>6, DecidingBarrier DEF Decide, BarrierInv, OneDecides, Awaits
  <2>2. \/ UNCHANGED <<bodies, doubt>>
        \/ /\ ~Fails(work[e].parts) /\ bodies' = Append(bodies, work[e].parts)
           /\ doubt' \in {doubt, TRUE}
    BY <1>6 DEF Decide, PublishBody
  <2>3. ~Fails(work[e].parts) => work[e].parts = Whole /\ \A i \in Header : meta[i] = "ok"
    BY <1>6 DEF Decide, BarrierInv, OneDecides
  <2> QED BY <2>1, <2>2, <2>3 DEF Seen, Published, Open
<1>7. CASE StoreFailure(e) \/ Errback(e)
  <2>1. BarrierInv' /\ UNCHANGED meta
    BY <1>7, DecidingBarrier
  <2> QED BY <1>7, <2>1, FailureSeen DEF StoreFailure, Errback
<1>8. CASE Clear(e)
  <2>1. /\ UNCHANGED <<sent, status, meta, body>> /\ journal' = {}
        /\ ~Early(work[e]) /\ Deciding(work[e])
    BY <1>8 DEF Clear, Delete, body, Early, Deciding
  <2>2. PICK b : GoesOn(e, b) /\ b.at = "settle"
    BY <1>8, <2>1, GotoGoes DEF Clear, Steps
  <2>3. ~Early(b) /\ ~Deciding(b)
    BY <2>2 DEF Early, Deciding
  <2>4. BarrierInv'
    BY <2>1, <2>2, <2>3, LeavingBarrier
  <2> QED BY <2>1, <2>4 DEF Seen
<1>9. CASE Finish(e)
  <2>1. /\ UNCHANGED <<sent, meta, journal, body>>
        /\ ~Early(work[e]) /\ ~Early(Idle) /\ ~Deciding(Idle)
    BY <1>9, IdleFits DEF Finish, body, keys, Early, Deciding
  <2>2. GoesOn(e, Idle)
    BY <1>9, <2>1, EndGoes DEF Finish, Once, BarrierInv
  <2> QED BY <2>1, <2>2, LeavingBarrier DEF Seen
<1>10. CASE Fault(e)
  BY <1>10, FaultBarrier
<1>11. CASE Lose(e) \/ Crash(e)
  <2>1. losses \in 0..MaxLosses /\ MaxLosses = 0 /\ losses < MaxLosses
    BY <1>11 DEF Lose, Crash, Once, TypeInv, BodyTypes
  <2> QED BY <2>1
<1> QED
  BY <1>1, <1>2, <1>3, <1>4, <1>5, <1>6, <1>7, <1>8, <1>9, <1>10, <1>11 DEF Acts

LEMMA BarrierStep ==
    ASSUME Once, TypeInv, TypeInv', BarrierInv, [Next]_vars
    PROVE  BarrierInv' /\ Seen
<1>1. CASE SetSize \/ Send
  BY <1>1, ClientBarrier DEF SetSize, Send, Seen, keys, body
<1>2. ASSUME NEW e \in Executors, NEW i \in Header, Take(e, i) PROVE BarrierInv' /\ Seen
  BY <1>2, TakeBarrier DEF Take, Seen, keys, body
<1>3. ASSUME NEW e \in Executors, Acts(e) PROVE BarrierInv' /\ Seen
  BY <1>3, ActsBarrier
<1>4. CASE UNCHANGED vars
  <2>1. UNCHANGED <<sent, size, journal, meta, status, work, body>>
    BY <1>4 DEF vars, keys, body
  <2>2. BarrierInv'
    BY <2>1 DEF BarrierInv, Delivered, Entered, Unknown, OneDecides, Over, Results, Open, Awaits
  <2> QED BY <2>1, <2>2 DEF Seen
<1> QED BY <1>1, <1>2, <1>3, <1>4, NextIs

\* What is seen of a step is a step of ChordBarrier, or nothing.
LEMMA SeenIs ==
    ASSUME TypeInv, Seen
    PROVE  [Abstract!Next]_Abstract!vars
<1>1. bodies \in Seq(Seq(Entries)) /\ doubt \in BOOLEAN /\ failures \in Nat
      /\ meta \in [Header -> {"none", "ok", "bad"}]
  BY DEF TypeInv, BodyTypes, RedisTypes
<1>2. CASE NewResult
  <2>1. \E i \in Header : Abstract!Finish(i)
    BY <1>2 DEF NewResult, Abstract!Finish
  <2> QED BY <2>1 DEF Abstract!Next, Abstract!Header, Header
<1>3. CASE Published
  <2>1. doubt' \in BOOLEAN
    BY <1>1, <1>3, Zenon DEF Published
  <2>2. bodies' = <<Whole>>
    <3> HIDE DEF Whole
    <3> QED BY <1>3 DEF Published
  <2>3. Abstract!Publish
    BY <1>3, <2>1, <2>2 DEF Published, Abstract!Publish, Abstract!Header, Header, Whole
  <2> QED BY <2>3 DEF Abstract!Next
<1>4. CASE FailedOnce
  <2>1. Abstract!Fail
    BY <1>4 DEF FailedOnce, Abstract!Fail, Abstract!Complete, Abstract!Header, Header
  <2> QED BY <2>1 DEF Abstract!Next
<1>5. CASE ErrbackedOnce
  <2>1. Abstract!Errback
    BY <1>5 DEF ErrbackedOnce, Abstract!Errback
  <2> QED BY <2>1 DEF Abstract!Next
<1>6. CASE UNCHANGED <<meta, body>>
  BY <1>6 DEF Abstract!vars
<1> QED BY <1>2, <1>3, <1>4, <1>5, <1>6 DEF Seen

-----------------------------------------------------------------------------
(* Theorems *)

\* Every state has its type, however many tasks, executors, faults and losses: what an
\* executor reads and publishes are sequences of entries, whoever clears the journal.
THEOREM ChordTypes == Spec => []TypeOK
<1>1. TypeInv => TypeOK
  BY DEF TypeInv, Crew, RedisTypes, StatusTypes, BodyTypes, TypeOK, Deliveries
<1> QED BY TypeInit, TypeStep, <1>1, PTL DEF Spec

\* The body of a saved group gets every result in header order, whatever is redelivered,
\* lost or cleared meanwhile: join_group reads each result from its own key.
THEOREM SavedGroupIsWhole == Spec => []SavedBodyIsWhole
<1>1. Init => SavedInv
  <2> SUFFICES ASSUME Init PROVE SavedInv
    OBVIOUS
  <2>1. \A e \in Executors : Joins(work[e])
    BY IdleFits DEF Init, Joins, Good
  <2>2. BodyIsWhole
    BY DEF Init, BodyIsWhole
  <2> QED BY <2>1, <2>2 DEF SavedInv
<1>2. SavedInv => SavedBodyIsWhole
  BY DEF SavedInv, SavedBodyIsWhole
<1> QED BY TypeInit, TypeStep, SavedStep, <1>1, <1>2, PTL DEF Spec

\* Where every task is delivered once and every outcome is stored, the body is published
\* at most once, when all results are successes, whole and in header order; its failure is
\* stored at most once, when all results are there, and never of a body whose publication
\* returned; its errbacks are published at most once, after that -- whichever round trips
\* fail, before or after their effect (on_chord_part, _fail_chord, record_chord_part).
THEOREM ChordIsABarrier == ASSUME Once PROVE Spec => ImplementsBarrier
<1>1. Init => Abstract!Init
  BY DEF Init, Abstract!Init, Abstract!Header, Header
<1>2. TypeInv /\ BarrierInv /\ [Next]_vars => TypeInv' /\ BarrierInv'
  BY TypeStep, BarrierStep
<1>3. TypeInv /\ BarrierInv /\ [Next]_vars => [Abstract!Next]_Abstract!vars
  BY TypeStep, BarrierStep, SeenIs
<1>4. Spec => [](TypeInv /\ BarrierInv)
  BY TypeInit, BarrierInit, <1>2, PTL DEF Spec
<1> QED BY <1>1, <1>3, <1>4, PTL DEF Spec, ImplementsBarrier, Abstract!Spec

=============================================================================
