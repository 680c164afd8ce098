-------------------------- MODULE ThreadPoolProofs --------------------------
(***************************************************************************)
(* Proofs about ThreadPool, for any number of elements and threads and any *)
(* nesting of callbacks.                                                   *)
(***************************************************************************)
EXTENDS ThreadPool, SequenceTheorems, FiniteSetTheorems, TLAPS

-----------------------------------------------------------------------------
(* Lists (QTAILQ and singly linked ones) are sequences: what linking and   *)
(* unlinking do to the elements a list holds (ToSet) and to each being in  *)
(* it once (IsInjective).                                                  *)

ToSet(s) == {s[i] : i \in DOMAIN s}
Front(s) == SubSeq(s, 1, Len(s) - 1)
Last(s) == s[Len(s)]

\* ToSet and IsInjective in terms of positions.
LEMMA ListSets ==
  ASSUME NEW S, NEW s \in Seq(S)
  PROVE  /\ Len(s) \in Nat /\ DOMAIN s = 1 .. Len(s)
         /\ \A i \in 1 .. Len(s) : s[i] \in S
         /\ ToSet(s) = {s[i] : i \in 1 .. Len(s)}
         /\ \A x : x \in ToSet(s) <=> \E i \in 1 .. Len(s) : s[i] = x
         /\ IsInjective(s) <=> \A i, j \in 1 .. Len(s) : s[i] = s[j] => i = j
         /\ ToSet(s) \subseteq S
<1>1. /\ Len(s) \in Nat /\ DOMAIN s = 1 .. Len(s)
      /\ \A i \in 1 .. Len(s) : s[i] \in S
  BY LenProperties, ElementOfSeq, Zenon
<1>2. ToSet(s) = {s[i] : i \in 1 .. Len(s)}
  BY <1>1, Zenon DEF ToSet
<1>3. IsInjective(s) <=> \A i, j \in 1 .. Len(s) : s[i] = s[j] => i = j
  BY <1>1, Zenon DEF IsInjective
<1> QED
  BY <1>1, <1>2, <1>3, Zenon

\* The list that holds nothing.
LEMMA ListEmpty ==
  ASSUME NEW S
  PROVE  /\ <<>> \in Seq(S) /\ ToSet(<<>>) = {} /\ IsInjective(<<>>)
         /\ Len(<<>>) = 0
         /\ \A s \in Seq(S) : s = <<>> <=> ToSet(s) = {}
<1>1. <<>> \in Seq(S) /\ Len(<<>>) = 0
  BY EmptySeq, Zenon
<1>2. 1 .. Len(<<>>) = {}
  BY <1>1
<1>3. ToSet(<<>>) = {} /\ IsInjective(<<>>)
  BY <1>1, <1>2, ListSets, Zenon
<1>4. ASSUME NEW s \in Seq(S), s # <<>>
      PROVE  ToSet(s) # {}
  <2>1. 1 \in 1 .. Len(s)
    BY <1>4, EmptySeq
  <2> QED
    BY <2>1, ListSets
<1> QED
  BY <1>1, <1>3, <1>4, Zenon

\* QTAILQ_INSERT_TAIL, and pushing on a stack.
LEMMA ListAppend ==
  ASSUME NEW S, NEW s \in Seq(S), NEW e \in S
  PROVE  /\ Append(s, e) \in Seq(S) /\ Append(s, e) # <<>>
         /\ Len(Append(s, e)) = Len(s) + 1
         /\ ToSet(Append(s, e)) = ToSet(s) \cup {e}
         /\ IsInjective(s) /\ e \notin ToSet(s) => IsInjective(Append(s, e))
<1> DEFINE a == Append(s, e)
<1>1. /\ a \in Seq(S) /\ a # <<>> /\ Len(a) = Len(s) + 1
      /\ \A i \in 1 .. Len(s) : a[i] = s[i]
      /\ a[Len(s) + 1] = e
  BY AppendProperties
<1> HIDE DEF a
<1>2. /\ Len(s) \in Nat
      /\ \A x : x \in ToSet(s) <=> \E i \in 1 .. Len(s) : s[i] = x
      /\ IsInjective(s) <=> \A i, j \in 1 .. Len(s) : s[i] = s[j] => i = j
  BY ListSets, Zenon
<1>3. /\ \A x : x \in ToSet(a) <=> \E i \in 1 .. Len(a) : a[i] = x
      /\ IsInjective(a) <=> \A i, j \in 1 .. Len(a) : a[i] = a[j] => i = j
  BY <1>1, ListSets, Zenon
<1>4. \A i : i \in 1 .. Len(a) <=> i \in 1 .. Len(s) \/ i = Len(s) + 1
  BY <1>1, <1>2
<1>5. ToSet(a) = ToSet(s) \cup {e}
  BY <1>1, <1>2, <1>3, <1>4
<1>6. ASSUME IsInjective(s), e \notin ToSet(s)
      PROVE  IsInjective(a)
  <2>1. ASSUME NEW i \in 1 .. Len(a), NEW j \in 1 .. Len(a), a[i] = a[j]
        PROVE  i = j
    <3>1. CASE i \in 1 .. Len(s) /\ j \in 1 .. Len(s)
      BY <1>1, <1>2, <1>6, <2>1, <3>1, Zenon
    <3>2. CASE i \in 1 .. Len(s) /\ j = Len(s) + 1
      BY <1>1, <1>2, <1>6, <2>1, <3>2, Zenon
    <3>3. CASE i = Len(s) + 1 /\ j \in 1 .. Len(s)
      BY <1>1, <1>2, <1>6, <2>1, <3>3, Zenon
    <3> QED
      BY <1>4, <2>1, <3>1, <3>2, <3>3, Zenon
  <2> QED
    BY <1>3, <2>1, Zenon
<1> QED
  BY <1>1, <1>5, <1>6, Zenon DEF a

\* QTAILQ_FIRST and QTAILQ_REMOVE of it.
LEMMA ListTail ==
  ASSUME NEW S, NEW s \in Seq(S), s # <<>>
  PROVE  /\ Head(s) \in S /\ Head(s) \in ToSet(s)
         /\ Tail(s) \in Seq(S) /\ Len(Tail(s)) = Len(s) - 1 /\ Len(s) \in Nat
         /\ ToSet(s) = ToSet(Tail(s)) \cup {Head(s)}
         /\ IsInjective(s) => /\ IsInjective(Tail(s))
                              /\ Head(s) \notin ToSet(Tail(s))
<1> DEFINE t == Tail(s)
<1>1. /\ Head(s) \in S /\ t \in Seq(S) /\ Len(t) = Len(s) - 1
      /\ \A i \in 1 .. Len(t) : t[i] = s[i + 1]
      /\ Head(s) = s[1] /\ Len(s) \in Nat \ {0}
  BY HeadTailProperties, EmptySeq
<1> HIDE DEF t
<1>2. /\ \A x : x \in ToSet(s) <=> \E i \in 1 .. Len(s) : s[i] = x
      /\ IsInjective(s) <=> \A i, j \in 1 .. Len(s) : s[i] = s[j] => i = j
  BY ListSets, Zenon
<1>3. /\ \A x : x \in ToSet(t) <=> \E i \in 1 .. Len(t) : t[i] = x
      /\ IsInjective(t) <=> \A i, j \in 1 .. Len(t) : t[i] = t[j] => i = j
  <2>1. t \in Seq(S)
    BY <1>1, Zenon
  <2> QED
    BY ONLY <2>1, ListSets, Zenon
<1>4. /\ \A i \in 1 .. Len(t) : i + 1 \in 1 .. Len(s) /\ i + 1 # 1
      /\ \A i \in 1 .. Len(s) : i # 1 => i - 1 \in 1 .. Len(t) /\ t[i - 1] = s[i]
      /\ 1 \in 1 .. Len(s)
  BY <1>1
<1>5. ToSet(s) = ToSet(t) \cup {Head(s)}
  <2>1. ASSUME NEW x \in ToSet(s) PROVE x \in ToSet(t) \cup {Head(s)}
    BY <1>1, <1>2, <1>3, <1>4
  <2>2. ASSUME NEW x \in ToSet(t) PROVE x \in ToSet(s)
    BY <1>1, <1>2, <1>3, <1>4
  <2> QED
    BY <1>1, <1>2, <1>4, <2>1, <2>2
<1>6. ASSUME IsInjective(s)
      PROVE  IsInjective(t) /\ Head(s) \notin ToSet(t)
  <2>1. ASSUME NEW i \in 1 .. Len(t), NEW j \in 1 .. Len(t), t[i] = t[j]
        PROVE  i = j
    <3>1. i + 1 = j + 1
      BY <1>1, <1>2, <1>4, <1>6, <2>1
    <3> QED
      BY <3>1
  <2>2. Head(s) \notin ToSet(t)
    BY <1>1, <1>2, <1>3, <1>4, <1>6
  <2> QED
    BY <1>3, <2>1, <2>2, Zenon
<1> QED
  BY <1>1, <1>5, <1>6, Zenon DEF t

\* Popping a stack.
LEMMA ListFront ==
  ASSUME NEW S, NEW s \in Seq(S), s # <<>>
  PROVE  /\ Len(s) \in Nat \ {0} /\ Last(s) \in S /\ Last(s) = s[Len(s)]
         /\ Front(s) \in Seq(S) /\ Front(s) = SubSeq(s, 1, Len(s) - 1)
         /\ Len(Front(s)) = Len(s) - 1
         /\ \A k \in 1 .. Len(s) - 1 : Front(s)[k] = s[k]
         /\ ToSet(s) = ToSet(Front(s)) \cup {Last(s)}
         /\ IsInjective(s) => /\ IsInjective(Front(s))
                              /\ Last(s) \notin ToSet(Front(s))
<1> DEFINE f == Front(s)
           n == Len(s) - 1
<1>1. Len(s) \in Nat \ {0} /\ \A k \in 1 .. Len(s) : s[k] \in S
  BY EmptySeq, ElementOfSeq, Zenon
<1>2. n \in Nat /\ Len(s) = n + 1 /\ \A k \in 1 .. n : s[k] \in S
  BY <1>1
<1>3. f = SubSeq(s, 1, n) /\ Last(s) = s[Len(s)]
  BY Zenon DEF Front, Last
<1> HIDE DEF n, f
<1>4. /\ SubSeq(s, 1, n) \in Seq(S)
      /\ Len(SubSeq(s, 1, n)) = IF 1 <= n THEN n - 1 + 1 ELSE 0
      /\ \A k \in 1 .. n - 1 + 1 : SubSeq(s, 1, n)[k] = s[1 + k - 1]
  BY <1>2, SubSeqProperties
<1>5. f \in Seq(S) /\ Len(f) = n /\ \A k \in 1 .. n : f[k] = s[k]
  BY <1>2, <1>3, <1>4
<1>6. Last(s) \in S
  BY <1>1, <1>3
<1>7. /\ \A x : x \in ToSet(s) <=> \E i \in 1 .. Len(s) : s[i] = x
      /\ IsInjective(s) <=> \A i, j \in 1 .. Len(s) : s[i] = s[j] => i = j
  BY ListSets, Zenon
<1>8. /\ \A x : x \in ToSet(f) <=> \E i \in 1 .. n : f[i] = x
      /\ IsInjective(f) <=> \A i, j \in 1 .. n : f[i] = f[j] => i = j
  BY <1>5, ListSets
<1>9. \A i : i \in 1 .. Len(s) <=> i \in 1 .. n \/ i = Len(s)
  BY <1>1, <1>2
<1>10. \A i \in 1 .. n : i # Len(s)
  BY <1>1, <1>2
<1>11. ToSet(s) = ToSet(f) \cup {Last(s)}
  <2>1. Last(s) = s[Len(s)] /\ Len(s) \in 1 .. Len(s)
    BY <1>1, <1>3
  <2>2. ASSUME NEW x \in ToSet(s) PROVE x \in ToSet(f) \cup {Last(s)}
    BY ONLY <1>5, <1>7, <1>8, <1>9, <2>1, <2>2
  <2>3. ASSUME NEW x \in ToSet(f) PROVE x \in ToSet(s)
    BY ONLY <1>5, <1>7, <1>8, <1>9, <2>3
  <2> QED
    BY ONLY <1>7, <2>1, <2>2, <2>3, Zenon
<1>12. ASSUME IsInjective(s)
       PROVE  IsInjective(f) /\ Last(s) \notin ToSet(f)
  <2>1. \A i, j \in 1 .. Len(s) : s[i] = s[j] => i = j
    BY <1>7, <1>12, Zenon
  <2>2. \A i, j \in 1 .. n : f[i] = f[j] => i = j
    BY ONLY <1>5, <1>9, <2>1
  <2>3. \A i \in 1 .. n : f[i] # s[Len(s)]
    BY ONLY <1>5, <1>9, <1>10, <2>1, Zenon
  <2> QED
    BY ONLY <1>3, <1>8, <2>2, <2>3, Zenon
<1> QED
  BY <1>1, <1>3, <1>5, <1>6, <1>11, <1>12, Zenon DEF f, n

\* Unlinking an element from a queue.
LEMMA RemoveAtProperties ==
  ASSUME NEW S, NEW s \in Seq(S), NEW i \in 1 .. Len(s)
  PROVE  /\ QTAILQ_REMOVE(s, i) \in Seq(S)
         /\ Len(QTAILQ_REMOVE(s, i)) = Len(s) - 1
         /\ \A k \in 1 .. Len(s) - 1 :
              QTAILQ_REMOVE(s, i)[k] = IF k < i THEN s[k] ELSE s[k + 1]
<1> DEFINE a == SubSeq(s, 1, i - 1)
           b == SubSeq(s, i + 1, Len(s))
<1>1. Len(s) \in Nat /\ i \in Int /\ \A k \in 1 .. Len(s) : s[k] \in S
  BY ElementOfSeq, LenProperties
<1>2. /\ a \in Seq(S) /\ Len(a) = i - 1
      /\ \A k \in 1 .. i - 1 : a[k] = s[k]
  BY <1>1, SubSeqProperties
<1>3. /\ b \in Seq(S) /\ Len(b) = Len(s) - i
      /\ \A k \in 1 .. Len(s) - i : b[k] = s[k + i]
  <2>1. \A k \in i + 1 .. Len(s) : s[k] \in S
    BY <1>1
  <2> QED
    BY <1>1, <2>1, SubSeqProperties
<1> HIDE DEF a, b
<1>4. /\ a \o b \in Seq(S) /\ Len(a \o b) = Len(a) + Len(b)
      /\ \A k \in 1 .. Len(a) + Len(b) :
           (a \o b)[k] = IF k <= Len(a) THEN a[k] ELSE b[k - Len(a)]
  BY <1>2, <1>3, ConcatProperties, Zenon
<1>5. QTAILQ_REMOVE(s, i) = a \o b
  BY Zenon DEF QTAILQ_REMOVE, a, b
<1>6. Len(a) + Len(b) = Len(s) - 1
  BY <1>1, <1>2, <1>3
<1>7. ASSUME NEW k \in 1 .. Len(s) - 1
      PROVE  (a \o b)[k] = IF k < i THEN s[k] ELSE s[k + 1]
  <2>1. CASE k < i
    <3>1. k \in 1 .. i - 1 /\ k <= Len(a) /\ k \in 1 .. Len(a) + Len(b)
      BY <1>1, <1>2, <1>6, <2>1
    <3> QED
      BY <1>2, <1>4, <2>1, <3>1, Zenon
  <2>2. CASE ~(k < i)
    <3>1. /\ k - (i - 1) \in 1 .. Len(s) - i /\ ~(k <= Len(a))
          /\ k \in 1 .. Len(a) + Len(b)
      BY <1>1, <1>2, <1>6, <2>2
    <3>2. (a \o b)[k] = b[k - (i - 1)]
      BY <1>2, <1>4, <3>1, Zenon
    <3>3. b[k - (i - 1)] = s[k - (i - 1) + i] /\ k - (i - 1) + i = k + 1
      BY <1>1, <1>3, <3>1
    <3> QED
      BY <2>2, <3>2, <3>3, Zenon
  <2> QED
    BY <2>1, <2>2, Zenon
<1> QED
  BY <1>4, <1>5, <1>6, <1>7, Zenon

\* QTAILQ_REMOVE of an element that is in the list once.
LEMMA ListRemoveAt ==
  ASSUME NEW S, NEW s \in Seq(S), NEW i \in 1 .. Len(s), IsInjective(s)
  PROVE  /\ QTAILQ_REMOVE(s, i) \in Seq(S) /\ Len(QTAILQ_REMOVE(s, i)) = Len(s) - 1
         /\ ToSet(QTAILQ_REMOVE(s, i)) = ToSet(s) \ {s[i]}
         /\ IsInjective(QTAILQ_REMOVE(s, i))
<1> DEFINE r == QTAILQ_REMOVE(s, i)
<1>1. /\ r \in Seq(S) /\ Len(r) = Len(s) - 1
      /\ \A k \in 1 .. Len(s) - 1 : r[k] = IF k < i THEN s[k] ELSE s[k + 1]
  BY RemoveAtProperties, Zenon
<1> HIDE DEF r
<1>2. /\ Len(s) \in Nat /\ i \in Int
      /\ \A x : x \in ToSet(s) <=> \E k \in 1 .. Len(s) : s[k] = x
      /\ \A k, j \in 1 .. Len(s) : s[k] = s[j] => k = j
  BY ListSets
<1>3. /\ \A x : x \in ToSet(r) <=> \E k \in 1 .. Len(r) : r[k] = x
      /\ IsInjective(r) <=> \A k, j \in 1 .. Len(r) : r[k] = r[j] => k = j
  <2>1. r \in Seq(S)
    BY <1>1, Zenon
  <2> QED
    BY ONLY <2>1, ListSets, Zenon
<1> DEFINE at(k) == IF k < i THEN k ELSE k + 1
<1>4. /\ \A k \in 1 .. Len(r) : at(k) \in 1 .. Len(s) /\ at(k) # i /\ r[k] = s[at(k)]
      /\ \A k, j \in 1 .. Len(r) : at(k) = at(j) => k = j
  BY <1>1, <1>2
<1>5. \A k \in 1 .. Len(s) : k # i => \E j \in 1 .. Len(r) : at(j) = k
  <2>1. ASSUME NEW k \in 1 .. Len(s), k # i
        PROVE  \E j \in 1 .. Len(r) : at(j) = k
    <3>1. CASE k < i
      <4>1. k \in 1 .. Len(r) /\ at(k) = k
        BY <1>1, <1>2, <3>1
      <4> QED
        BY <4>1, Zenon
    <3>2. CASE ~(k < i)
      <4>1. k - 1 \in 1 .. Len(r) /\ at(k - 1) = k
        BY <1>1, <1>2, <2>1, <3>2
      <4> QED
        BY <4>1, Zenon
    <3> QED
      BY <3>1, <3>2, Zenon
  <2> QED
    BY <2>1, Zenon
<1> HIDE DEF at
<1>6. ASSUME NEW x \in ToSet(s), x # s[i] PROVE x \in ToSet(r)
  <2>1. PICK k \in 1 .. Len(s) : s[k] = x
    BY <1>2, Zenon
  <2>2. k # i
    BY <1>6, <2>1, Zenon
  <2>3. PICK j \in 1 .. Len(r) : at(j) = k
    BY <1>5, <2>2, Zenon
  <2>4. r[j] = x
    BY <1>4, <2>1, <2>3, Zenon
  <2> QED
    BY <1>3, <2>4, Zenon
<1>7. ASSUME NEW x \in ToSet(r) PROVE x \in ToSet(s) /\ x # s[i]
  BY <1>2, <1>3, <1>4, <1>7
<1>8. IsInjective(r)
  BY <1>2, <1>3, <1>4
<1>9. ToSet(r) = ToSet(s) \ {s[i]}
  BY <1>6, <1>7, Zenon
<1> QED
  BY <1>1, <1>8, <1>9, Zenon DEF r

\* How many threads a program-counter function f puts in a set of locations.
Count(f, at) == Cardinality({t \in Thread : f[t] \in at})

\* g counts like f except that one thread went from location `from' to `to'.
CountMoved(f, g, from, to) ==
  \A at : /\ Count(f, at) \in Nat
          /\ Count(g, at) \in Nat
          /\ to \in at /\ from \notin at => Count(g, at) = Count(f, at) + 1
          /\ to \notin at /\ from \in at => Count(g, at) = Count(f, at) - 1
          /\ (to \in at <=> from \in at) => Count(g, at) = Count(f, at)

\* Moving one thread changes the counts of what it enters and what it leaves.
LEMMA CountMove ==
  \A f \in [Thread -> PCs] : \A t \in Thread : \A x \in PCs :
    CountMoved(f, [f EXCEPT ![t] = x], f[t], x)
<1> SUFFICES ASSUME NEW f \in [Thread -> PCs], NEW t \in Thread, NEW x \in PCs
             PROVE  CountMoved(f, [f EXCEPT ![t] = x], f[t], x)
  BY Zenon
<1> DEFINE g == [f EXCEPT ![t] = x]
<1> SUFFICES ASSUME NEW at
             PROVE  /\ Count(f, at) \in Nat
                    /\ Count(g, at) \in Nat
                    /\ x \in at /\ f[t] \notin at => Count(g, at) = Count(f, at) + 1
                    /\ x \notin at /\ f[t] \in at => Count(g, at) = Count(f, at) - 1
                    /\ (x \in at <=> f[t] \in at) => Count(g, at) = Count(f, at)
  BY Zenon DEF CountMoved
<1> DEFINE S == {u \in Thread : f[u] \in at}
           T == {u \in Thread : g[u] \in at}
<1>1. IsFiniteSet(S) /\ IsFiniteSet(T)
  BY FS_Subset, ConstantsAssumption, Zenon
<1>2. Count(f, at) = Cardinality(S) /\ Count(g, at) = Cardinality(T)
  BY Zenon DEF Count
<1>3. ASSUME x \in at, f[t] \notin at
      PROVE  T = S \cup {t} /\ t \notin S
  BY <1>3, Zenon
<1>4. ASSUME x \notin at, f[t] \in at
      PROVE  T = S \ {t} /\ t \in S
  BY <1>4, Zenon
<1>5. ASSUME x \in at <=> f[t] \in at
      PROVE  T = S
  BY <1>5, Zenon
<1> HIDE DEF S, T, g
<1>6. Cardinality(S) \in Nat /\ Cardinality(T) \in Nat
  BY <1>1, FS_CardinalityType, Zenon
<1>7. x \in at /\ f[t] \notin at => Cardinality(T) = Cardinality(S) + 1
  BY <1>1, <1>3, FS_AddElement, Zenon
<1>8. x \notin at /\ f[t] \in at => Cardinality(T) = Cardinality(S) - 1
  BY <1>1, <1>4, FS_RemoveElement, Zenon
<1> QED
  BY <1>2, <1>5, <1>6, <1>7, <1>8, Zenon

\* A number of threads is a natural number.
LEMMA CountType ==
  ASSUME NEW f \in [Thread -> PCs], NEW at
  PROVE  Count(f, at) \in Nat
BY FS_Subset, FS_CardinalityType, ConstantsAssumption, Zenon DEF Count

Alive == PCs \ {"none"}
Idle  == {"waiting", "timedout", "claimed"}

\* do_spawn_thread moves one thread from the backlog to the created ones, or
\* does nothing.
LEMMA SpawnCounts ==
  ASSUME NEW pending \in Int, NEW workers \in [Thread -> PCs],
         new_threads \in Nat, do_spawn_thread(pending, workers)
  PROVE  /\ pc' \in [Thread -> PCs] /\ new_threads' \in Nat
         /\ new_threads' + Count(pc', Alive) = new_threads + Count(workers, Alive)
         /\ pending_threads' - Count(pc', {"created"})
              = pending - Count(workers, {"created"})
         /\ Count(pc', Idle) = Count(workers, Idle)
         /\ Count(pc', {"claimed"}) = Count(workers, {"claimed"})
         /\ pending_threads' \in {pending, pending + 1}
<1>1. CASE new_threads = 0
  <2>1. pc' = workers /\ pending_threads' = pending /\ new_threads' = 0
    BY <1>1, Zenon DEF do_spawn_thread
  <2> QED
    BY <1>1, <2>1, Zenon
<1>2. CASE new_threads # 0
  <2>1. PICK t \in Thread : /\ workers[t] = "none"
                            /\ pc' = [workers EXCEPT ![t] = "created"]
    BY <1>2, Zenon DEF do_spawn_thread
  <2>2. new_threads' = new_threads - 1 /\ pending_threads' = pending + 1
    BY <1>2, Zenon DEF do_spawn_thread
  <2>3. pc' \in [Thread -> PCs] /\ "created" \in PCs
    BY <2>1, Zenon DEF PCs
  <2>4. CountMoved(workers, pc', "none", "created")
    BY <2>1, <2>3, CountMove, Zenon
  <2>5. /\ Count(workers, Alive) \in Nat
        /\ Count(pc', Alive) = Count(workers, Alive) + 1
    BY <2>3, <2>4, Zenon DEF CountMoved, Alive
  <2>6. /\ Count(workers, {"created"}) \in Nat
        /\ Count(pc', {"created"}) = Count(workers, {"created"}) + 1
    BY <2>4, Zenon DEF CountMoved
  <2>7. /\ Count(pc', Idle) = Count(workers, Idle)
        /\ Count(pc', {"claimed"}) = Count(workers, {"claimed"})
    BY <2>4, Zenon DEF CountMoved, Idle
  <2> QED
    BY <1>2, <2>2, <2>3, <2>4, <2>5, <2>6, <2>7
<1> QED
  BY <1>1, <1>2, Zenon

-----------------------------------------------------------------------------
(* Types and counters *)

Counters ==
  /\ cur_threads = new_threads + Count(pc, Alive)
  /\ pending_threads = Count(pc, {"created"})
  /\ idle_threads = Count(pc, Idle)
  /\ cur_threads <= max_threads
  /\ pending_cancellations = IF mode = "cancel" THEN 1 ELSE 0

\* TypeOK is inductive only together with the counters: they are decremented.
CInv == TypeOK /\ Counters

\* What the counters see of a worker's step from one location to another.
LEMMA WorkerMoves ==
  ASSUME TypeOK, NEW t \in Thread, NEW x \in PCs, pc' = [pc EXCEPT ![t] = x]
  PROVE  pc' \in [Thread -> PCs] /\ CountMoved(pc, pc', pc[t], x)
BY CountMove, ZenonT(30) DEF TypeOK

\* The counters are right before any thread exists.
LEMMA CInvInit == Init => CInv
<1> SUFFICES ASSUME Init PROVE CInv
  BY Zenon
<1>1. TypeOK
  <2>1. calls \in Seq([elem : Req, ret : Ret]) /\ request_list \in Seq(Req)
    BY EmptySeq, Zenon DEF Init
  <2>2. notifier \in BOOLEAN /\ bh_scheduled \in BOOLEAN /\ woken \in BOOLEAN
    BY Zenon DEF Init
  <2> QED
    BY <2>1, <2>2, Zenon DEF Init, TypeOK, States, PCs, Modes
<1>2. ASSUME NEW at, "none" \notin at
      PROVE  Count(pc, at) = 0
  <2>1. {t \in Thread : pc[t] \in at} = {}
    BY <1>2, Zenon DEF Init
  <2> QED
    BY <2>1, FS_EmptySet, Zenon DEF Count
<1>3. Count(pc, Alive) = 0 /\ Count(pc, {"created"}) = 0 /\ Count(pc, Idle) = 0
  BY <1>2, Zenon DEF Alive, Idle
<1> QED
  BY <1>1, <1>3, ConstantsAssumption DEF Init, CInv, Counters

\* The steps of main that neither create threads nor touch the counters.
LEMMA CInvMain ==
  ASSUME CInv, NEW r,
         \/ submit_post \/ ready_begin \/ callback_return \/ scan_end
         \/ scan_skip(r) \/ scan_callback(r) \/ scan_remove(r)
         \/ cancel_steal(r) \/ cancel_wait(r) \/ cancel_woken
  PROVE  CInv'
<1> USE DEF CInv, TypeOK, Counters, elemVars, listVars, threadVars, workerVars,
            mainVars, cancelVars
<1>1. CASE submit_post
  BY <1>1, SMTT(20) DEF submit_post, Modes
<1>2. CASE ready_begin
  BY <1>2, Zenon DEF ready_begin, Modes
<1>3. CASE callback_return
  <2>1. calls' \in Seq([elem : Req, ret : Ret])
    <3>1. calls \in Seq([elem : Req, ret : Ret]) /\ calls # <<>>
      BY <1>3, Zenon DEF callback_return
    <3>2. ASSUME NEW S, calls \in Seq(S)
          PROVE  SubSeq(calls, 1, Len(calls) - 1) \in Seq(S)
      BY ONLY <3>1, <3>2, ListFront
    <3> QED
      BY <1>3, <3>1, <3>2, Zenon DEF callback_return
  <2> QED
    BY <1>3, <2>1, Zenon DEF callback_return, Modes, States
<1>4. CASE scan_end
  BY <1>4, Zenon DEF scan_end, Modes
<1>5. CASE scan_skip(r)
  BY <1>5, Zenon DEF scan_skip
<1>6. CASE scan_callback(r)
  <2>1. calls' \in Seq([elem : Req, ret : Ret])
    BY <1>6 DEF scan_callback
  <2> QED
    BY <1>6, <2>1, Zenon DEF scan_callback, Modes
<1>7. CASE scan_remove(r)
  BY <1>7, Zenon DEF scan_remove, States
<1>8. CASE cancel_steal(r)
  <2>1. request_list' \in Seq(Req)
    BY <1>8, RemoveAtProperties DEF cancel_steal
  <2> QED
    BY <1>8, <2>1 DEF cancel_steal, sem_trywait, States
<1>9. CASE cancel_wait(r)
  <2>1. woken' \in BOOLEAN
    BY <1>9, Zenon DEF cancel_wait
  <2> QED
    BY <1>9, <2>1 DEF cancel_wait, Cancellable, Modes
<1>10. CASE cancel_woken
  <2>1. woken' \in BOOLEAN
    BY <1>10, Zenon DEF cancel_woken
  <2> QED
    BY <1>10, <2>1 DEF cancel_woken, Modes
<1> QED
  BY <1>1, <1>2, <1>3, <1>4, <1>5, <1>6, <1>7, <1>8, <1>9, <1>10, ZenonT(30)

\* The steps of main that ask for a thread or create one.
LEMMA CInvSpawn ==
  ASSUME CInv,
         \/ spawn_thread_bh_fn
         \/ \E r \in Req : \E c \in BOOLEAN : thread_pool_submit_aio(r, c)
  PROVE  CInv'
<1> USE DEF CInv, elemVars, listVars, threadVars, workerVars, mainVars, cancelVars
<1>1. CASE spawn_thread_bh_fn
  <2>1. /\ pending_threads \in Int /\ pc \in [Thread -> PCs] /\ new_threads \in Nat
        /\ do_spawn_thread(pending_threads, pc)
    BY <1>1 DEF TypeOK, spawn_thread_bh_fn
  <2>2. /\ pc' \in [Thread -> PCs] /\ new_threads' \in Nat
        /\ new_threads' + Count(pc', Alive) = new_threads + Count(pc, Alive)
        /\ pending_threads' - Count(pc', {"created"})
             = pending_threads - Count(pc, {"created"})
        /\ Count(pc', Idle) = Count(pc, Idle)
        /\ pending_threads' \in {pending_threads, pending_threads + 1}
    BY <2>1, SpawnCounts, Zenon
  <2>3. Count(pc', {"created"}) \in Nat
    BY <2>2, CountType, Zenon
  <2>4. bh_scheduled' \in BOOLEAN
    BY <1>1, Zenon DEF spawn_thread_bh_fn
  <2>5. TypeOK'
    BY <1>1, <2>2, <2>4 DEF TypeOK, spawn_thread_bh_fn
  <2>6. Counters'
    BY <1>1, <2>2, <2>3 DEF TypeOK, Counters, spawn_thread_bh_fn
  <2> QED
    BY <2>5, <2>6, Zenon
<1>2. ASSUME NEW r \in Req, NEW c \in BOOLEAN, thread_pool_submit_aio(r, c)
      PROVE  CInv'
  <2>0. /\ cur_threads \in Nat /\ new_threads \in Nat /\ max_threads \in Nat
        /\ cur_threads <= max_threads /\ cur_threads = new_threads + Count(pc, Alive)
        /\ Count(pc, Alive) \in Nat
    BY ConstantsAssumption, CountType, Zenon DEF TypeOK, Counters
  <2>1. /\ cur_threads' = new_threads' + Count(pc, Alive)
        /\ cur_threads' \in Nat /\ new_threads' \in Nat /\ cur_threads' <= max_threads
    <3>1. CASE idle_threads = 0 /\ cur_threads < max_threads
      <4>1. cur_threads' = cur_threads + 1 /\ new_threads' = new_threads + 1
        BY <1>2, <3>1, Zenon DEF thread_pool_submit_aio, spawn_thread
      <4> QED
        BY <2>0, <3>1, <4>1
    <3>2. CASE ~(idle_threads = 0 /\ cur_threads < max_threads)
      <4>1. cur_threads' = cur_threads /\ new_threads' = new_threads
        BY <1>2, <3>2, Zenon DEF thread_pool_submit_aio
      <4> QED
        BY <2>0, <4>1, Zenon
    <3> QED
      BY <3>1, <3>2, Zenon
  <2>2. bh_scheduled' \in BOOLEAN
    BY <1>2, Zenon DEF TypeOK, thread_pool_submit_aio, spawn_thread
  <2>3. request_list' \in Seq(Req)
    BY <1>2 DEF TypeOK, thread_pool_submit_aio
  <2>4. TypeOK'
    BY <1>2, <2>1, <2>2, <2>3
    DEF TypeOK, thread_pool_submit_aio, States, Modes
  <2>5. /\ pc' = pc /\ pending_threads' = pending_threads
        /\ idle_threads' = idle_threads /\ mode = "run" /\ mode' = "post"
        /\ pending_cancellations' = pending_cancellations
    BY <1>2, Zenon DEF thread_pool_submit_aio
  <2>6. Counters'
    BY <2>1, <2>5, Zenon DEF Counters
  <2> QED
    BY <2>4, <2>6, Zenon
<1> QED
  BY <1>1, <1>2, Zenon

\* The steps of worker_thread.
LEMMA CInvWorker ==
  ASSUME CInv, NEW t \in Thread, worker_thread(t)
  PROVE  CInv'
<1> USE DEF CInv, elemVars, listVars, threadVars, workerVars, mainVars, cancelVars
<1>0. pc \in [Thread -> PCs] /\ \A at : Count(pc, at) \in Nat
  BY CountType, SMTT(20) DEF TypeOK
<1>1. CASE worker_start(t)
  <2> DEFINE w == [pc EXCEPT ![t] = "waiting"]
  <2>1. w \in [Thread -> PCs] /\ CountMoved(pc, w, "created", "waiting")
    BY <1>0, <1>1, CountMove, Zenon DEF PCs, worker_start
  <2>2. /\ Count(w, Alive) = Count(pc, Alive)
        /\ Count(w, {"created"}) = Count(pc, {"created"}) - 1
        /\ Count(w, {"created"}) \in Nat
        /\ Count(w, Idle) = Count(pc, Idle) + 1
    BY <2>1, ZenonT(30) DEF CountMoved, Alive, Idle, PCs
  <2>3. /\ pending_threads - 1 \in Int /\ new_threads \in Nat
        /\ do_spawn_thread(pending_threads - 1, w)
    BY <1>1 DEF TypeOK, worker_start
  <2> HIDE DEF w
  <2>4. /\ pc' \in [Thread -> PCs] /\ new_threads' \in Nat
        /\ new_threads' + Count(pc', Alive) = new_threads + Count(w, Alive)
        /\ pending_threads' - Count(pc', {"created"})
             = pending_threads - 1 - Count(w, {"created"})
        /\ Count(pc', Idle) = Count(w, Idle)
        /\ pending_threads' \in {pending_threads - 1, pending_threads - 1 + 1}
    BY <2>1, <2>3, SpawnCounts, Zenon
  <2>5. \A at : Count(pc', at) \in Nat
    BY <2>4, CountType, Zenon
  <2>0. /\ pending_threads = Count(pc, {"created"}) /\ idle_threads = Count(pc, Idle)
        /\ cur_threads = new_threads + Count(pc, Alive)
        /\ Count(pc, {"created"}) \in Nat /\ Count(pc, Idle) \in Nat
    BY <1>0, Zenon DEF Counters
  <2>6. pending_threads' = Count(pc', {"created"}) /\ pending_threads' \in Nat
    BY <2>0, <2>2, <2>4, <2>5
  <2>7. TypeOK'
    BY <1>1, <2>4, <2>6, SMTT(20) DEF TypeOK, worker_start
  <2>8. /\ cur_threads' = cur_threads /\ idle_threads' = idle_threads + 1
        /\ pending_cancellations' = pending_cancellations /\ mode' = mode
    BY <1>1, Zenon DEF worker_start
  <2>9. cur_threads' = new_threads' + Count(pc', Alive) /\ idle_threads' = Count(pc', Idle)
    BY <2>0, <2>2, <2>4, <2>8, Zenon
  <2>10. Counters'
    BY <2>6, <2>8, <2>9, SMTT(20) DEF Counters
  <2> QED
    BY <2>7, <2>10, SMTT(20)
<1>2. CASE sem_taken(t)
  <2>1. pc' \in [Thread -> PCs] /\ CountMoved(pc, pc', "waiting", "claimed")
    BY <1>0, <1>2, CountMove, Zenon DEF sem_taken, PCs
  <2>2. /\ Count(pc', Alive) = Count(pc, Alive)
        /\ Count(pc', {"created"}) = Count(pc, {"created"})
        /\ Count(pc', Idle) = Count(pc, Idle)
    BY <2>1, Zenon DEF CountMoved, Alive, Idle, PCs
  <2> QED
    BY <1>2, <2>1, <2>2, SMTT(20) DEF TypeOK, Counters, sem_taken
<1>3. CASE sem_timeout(t)
  <2>1. pc' \in [Thread -> PCs] /\ CountMoved(pc, pc', "waiting", "timedout")
    BY <1>0, <1>3, CountMove, Zenon DEF sem_timeout, PCs
  <2>2. /\ Count(pc', Alive) = Count(pc, Alive)
        /\ Count(pc', {"created"}) = Count(pc, {"created"})
        /\ Count(pc', Idle) = Count(pc, Idle)
    BY <2>1, Zenon DEF CountMoved, Alive, Idle, PCs
  <2> QED
    BY <1>3, <2>1, <2>2, SMTT(20) DEF TypeOK, Counters, sem_timeout
<1>4. CASE worker_take(t)
  <2>1. pc' \in [Thread -> PCs] /\ CountMoved(pc, pc', "claimed", "func")
    BY <1>0, <1>4, CountMove, Zenon DEF worker_take, PCs
  <2>2. /\ Count(pc', Alive) = Count(pc, Alive)
        /\ Count(pc', {"created"}) = Count(pc, {"created"})
        /\ Count(pc', Idle) = Count(pc, Idle) - 1
        /\ Count(pc', Idle) \in Nat
    BY <2>1, Zenon DEF CountMoved, Alive, Idle, PCs
  <2>3. Head(request_list) \in Req /\ request_list' \in Seq(Req)
    BY <1>4, HeadTailProperties, Zenon DEF TypeOK, worker_take
  <2> QED
    BY <1>4, <2>1, <2>2, <2>3, SMTT(20) DEF TypeOK, Counters, worker_take, States
<1>5. CASE worker_timedout(t)
  <2>1. CASE StayAfterTimeout
    <3>1. pc' \in [Thread -> PCs] /\ CountMoved(pc, pc', "timedout", "waiting")
      BY <1>0, <1>5, <2>1, CountMove, Zenon DEF worker_timedout, PCs
    <3>2. /\ Count(pc', Alive) = Count(pc, Alive)
          /\ Count(pc', {"created"}) = Count(pc, {"created"})
          /\ Count(pc', Idle) = Count(pc, Idle)
      BY <3>1, Zenon DEF CountMoved, Alive, Idle, PCs
    <3> QED
      BY <1>5, <2>1, <3>1, <3>2, Zenon DEF TypeOK, Counters, worker_timedout
  <2>2. CASE ~StayAfterTimeout
    <3>1. pc' \in [Thread -> PCs] /\ CountMoved(pc, pc', "timedout", "none")
      BY <1>0, <1>5, <2>2, CountMove, ZenonT(30) DEF worker_timedout, PCs
    <3>2. /\ Count(pc', Alive) = Count(pc, Alive) - 1
          /\ Count(pc', Alive) \in Nat
          /\ Count(pc', {"created"}) = Count(pc, {"created"})
          /\ Count(pc', Idle) = Count(pc, Idle) - 1
          /\ Count(pc', Idle) \in Nat
      BY <3>1, Zenon DEF CountMoved, Alive, Idle, PCs
    <3>3. cur_threads' \in Nat /\ idle_threads' \in Nat
      BY <1>0, <1>5, <2>2, <3>2 DEF TypeOK, Counters, worker_timedout
    <3>4. TypeOK'
      BY <1>5, <2>2, <3>1, <3>3, Zenon DEF TypeOK, worker_timedout
    <3>5. /\ cur_threads' = cur_threads - 1 /\ idle_threads' = idle_threads - 1
          /\ new_threads' = new_threads /\ pending_threads' = pending_threads
          /\ pending_cancellations' = pending_cancellations /\ mode' = mode
      BY <1>5, <2>2, Zenon DEF worker_timedout
    <3>6. /\ cur_threads = new_threads + Count(pc, Alive) /\ idle_threads = Count(pc, Idle)
          /\ cur_threads \in Nat /\ new_threads \in Nat /\ cur_threads <= max_threads
          /\ Count(pc, Alive) \in Nat /\ Count(pc, Idle) \in Nat /\ max_threads \in Nat
      BY <1>0, ConstantsAssumption, Zenon DEF TypeOK, Counters
    <3>7. /\ cur_threads' = new_threads' + Count(pc', Alive)
          /\ idle_threads' = Count(pc', Idle) /\ cur_threads' <= max_threads
      BY <3>2, <3>5, <3>6
    <3>8. Counters'
      BY <3>2, <3>5, <3>7, Zenon DEF Counters
    <3> QED
      BY <3>4, <3>8, Zenon
  <2> QED
    BY <2>1, <2>2, Zenon
<1>6. ASSUME NEW v \in Ret, worker_return(t, v)
      PROVE  CInv'
  <2>1. pc' \in [Thread -> PCs] /\ CountMoved(pc, pc', "func", "returned")
    BY <1>0, <1>6, CountMove, Zenon DEF worker_return, PCs
  <2>2. /\ Count(pc', Alive) = Count(pc, Alive)
        /\ Count(pc', {"created"}) = Count(pc, {"created"})
        /\ Count(pc', Idle) = Count(pc, Idle)
    BY <2>1, Zenon DEF CountMoved, Alive, Idle, PCs
  <2> QED
    BY <1>6, <2>1, <2>2, Zenon DEF TypeOK, Counters, worker_return
<1>7. CASE worker_store(t)
  <2>1. pc' \in [Thread -> PCs] /\ CountMoved(pc, pc', "returned", "stored")
    BY <1>0, <1>7, CountMove, Zenon DEF worker_store, PCs
  <2>2. /\ Count(pc', Alive) = Count(pc, Alive)
        /\ Count(pc', {"created"}) = Count(pc, {"created"})
        /\ Count(pc', Idle) = Count(pc, Idle)
    BY <2>1, Zenon DEF CountMoved, Alive, Idle, PCs
  <2> QED
    BY <1>7, <2>1, <2>2, Zenon DEF TypeOK, Counters, worker_store
<1>8. CASE worker_done(t)
  <2>1. pc' \in [Thread -> PCs] /\ CountMoved(pc, pc', "stored", "done")
    BY <1>0, <1>8, CountMove, Zenon DEF worker_done, PCs
  <2>2. /\ Count(pc', Alive) = Count(pc, Alive)
        /\ Count(pc', {"created"}) = Count(pc, {"created"})
        /\ Count(pc', Idle) = Count(pc, Idle)
    BY <2>1, Zenon DEF CountMoved, Alive, Idle, PCs
  <2> QED
    BY <1>8, <2>1, <2>2, Zenon DEF TypeOK, Counters, worker_done, States
<1>9. CASE worker_notify(t)
  <2>1. pc' \in [Thread -> PCs] /\ CountMoved(pc, pc', "done", "waiting")
    BY <1>0, <1>9, CountMove, Zenon DEF worker_notify, PCs
  <2>2. /\ Count(pc', Alive) = Count(pc, Alive)
        /\ Count(pc', {"created"}) = Count(pc, {"created"})
        /\ Count(pc', Idle) = Count(pc, Idle) + 1
    BY <2>1, SMTT(20) DEF CountMoved, Alive, Idle, PCs
  <2>3. woken' \in BOOLEAN /\ notifier' \in BOOLEAN
    BY <1>9, Zenon DEF worker_notify, broadcast_check_cancel
  <2> QED
    BY <1>9, <2>1, <2>2, <2>3 DEF TypeOK, Counters, worker_notify
<1> QED
  BY <1>1, <1>2, <1>3, <1>4, <1>5, <1>6, <1>7, <1>8, <1>9, Zenon DEF worker_thread

\* Every step of main and of the workers keeps the types and the counters.
LEMMA CInvNext == CInv /\ [Next]_vars => CInv'
<1> SUFFICES ASSUME CInv, [Next]_vars PROVE CInv'
  BY Zenon
<1>1. CASE Main
  BY <1>1, CInvMain, CInvSpawn, Zenon DEF Main
<1>2. ASSUME NEW t \in Thread, worker_thread(t) PROVE CInv'
  BY <1>2, CInvWorker, Zenon
<1>3. CASE UNCHANGED vars
  BY <1>3, Zenon DEF CInv, TypeOK, Counters, vars, elemVars, listVars, threadVars,
              workerVars, mainVars, cancelVars
<1> QED
  BY <1>1, <1>2, <1>3, Zenon DEF Next

\* The types and the counters of the pool are right in every reachable state:
\* the counters stay natural numbers only because they count threads.
THEOREM CInvHolds == Spec => []CInv
<1> QED
  BY CInvInit, CInvNext, PTL DEF Spec

\* Every variable of the pool keeps its type; no counter becomes negative.
THEOREM TypeCorrect == Spec => []TypeOK
<1>1. CInv => TypeOK
  BY Zenon DEF CInv
<1> QED
  BY <1>1, CInvHolds, PTL

\* cur_threads, idle_threads and pending_threads count the threads they are
\* named after, and never more than max_threads exist.
THEOREM ThreadsAreAccounted == Spec => []ThreadsAccounted
<1>1. CInv => ThreadsAccounted
  <2>1. \A at : Cardinality(Workers(at)) = Count(pc, at)
    BY Zenon DEF Workers, Count
  <2> QED
    BY <2>1, Zenon DEF CInv, Counters, ThreadsAccounted, Alive, Idle
<1> QED
  BY <1>1, CInvHolds, PTL

-----------------------------------------------------------------------------
(* Completions are not lost *)

\* No step of event_notifier_ready, of a callback or of a worker forgets a
\* settled request.
LEMMA NoLostCompletionNext ==
  CInv /\ NoLostCompletion /\ [Next]_vars => NoLostCompletion'
<1> SUFFICES ASSUME TypeOK, NoLostCompletion, [Next]_vars
             PROVE  NoLostCompletion'
  BY SMTT(20) DEF CInv
<1> USE DEF TypeOK, NoLostCompletion, Settled, elemVars, listVars, threadVars,
            workerVars, mainVars, cancelVars
<1>1. CASE spawn_thread_bh_fn
  BY <1>1 DEF spawn_thread_bh_fn, do_spawn_thread
<1>2. CASE submit_post
  BY <1>2, Zenon DEF submit_post
<1>3. CASE cancel_woken
  BY <1>3, Zenon DEF cancel_woken
<1>4. CASE ready_begin
  BY <1>4, Zenon DEF ready_begin
<1>5. CASE callback_return
  BY <1>5, Zenon DEF callback_return
<1>6. CASE scan_end
  BY <1>6, Zenon DEF scan_end
<1>7. ASSUME NEW r \in Req, NEW c \in BOOLEAN, thread_pool_submit_aio(r, c)
      PROVE  NoLostCompletion'
  BY <1>7 DEF thread_pool_submit_aio
<1>8. ASSUME NEW r \in Req, cancel_steal(r) PROVE NoLostCompletion'
  BY <1>8, Zenon DEF cancel_steal
<1>9. ASSUME NEW r \in Req, cancel_wait(r) PROVE NoLostCompletion'
  BY <1>9, Zenon DEF cancel_wait, Cancellable
<1>10. ASSUME NEW r \in Req, scan_skip(r) PROVE NoLostCompletion'
  BY <1>10, Zenon DEF scan_skip, Finished
<1>11. ASSUME NEW r \in Req, scan_callback(r) PROVE NoLostCompletion'
  <2> DEFINE frame == [elem |-> r, ret |-> ret[r]]
  <2>1. frame \in [elem : Req, ret : Ret] /\ calls \in Seq([elem : Req, ret : Ret])
    BY Zenon
  <2>2. calls' = Append(calls, frame)
    BY <1>11, Zenon DEF scan_callback
  <2> HIDE DEF frame
  <2>3. Append(calls, frame) # <<>>
    BY ONLY <2>1, ListAppend
  <2>4. calls' # <<>>
    BY ONLY <2>2, <2>3, Zenon
  <2> QED
    BY <2>4, Zenon
<1>12. ASSUME NEW r \in Req, scan_remove(r) PROVE NoLostCompletion'
  BY <1>12, Zenon DEF scan_remove
<1>13. ASSUME NEW t \in Thread, worker_start(t) PROVE NoLostCompletion'
  <2>1. \A u \in Thread : pc[u] = "done" => pc'[u] = "done"
    BY <1>13, Zenon DEF worker_start, do_spawn_thread
  <2> QED
    BY <1>13, <2>1, Zenon DEF worker_start
<1>14. ASSUME NEW t \in Thread, sem_taken(t) \/ sem_timeout(t) \/ worker_timedout(t)
       PROVE  NoLostCompletion'
  BY <1>14, Zenon DEF sem_taken, sem_timeout, worker_timedout
<1>15. ASSUME NEW t \in Thread, worker_take(t) PROVE NoLostCompletion'
  BY <1>15, Zenon DEF worker_take
<1>16. ASSUME NEW t \in Thread, NEW v \in Ret, worker_return(t, v)
       PROVE  NoLostCompletion'
  BY <1>16, Zenon DEF worker_return
<1>17. ASSUME NEW t \in Thread, worker_store(t) PROVE NoLostCompletion'
  BY <1>17, Zenon DEF worker_store
<1>18. ASSUME NEW t \in Thread, worker_done(t) PROVE NoLostCompletion'
  BY <1>18, Zenon DEF worker_done
<1>19. ASSUME NEW t \in Thread, worker_notify(t) PROVE NoLostCompletion'
  BY <1>19, Zenon DEF worker_notify
<1>20. CASE UNCHANGED vars
  BY <1>20, Zenon DEF vars
<1> QED
  BY <1>1, <1>2, <1>3, <1>4, <1>5, <1>6, <1>7, <1>8, <1>9, <1>10, <1>11, <1>12, ZenonT(30),
     <1>13, <1>14, <1>15, <1>16, <1>17, <1>18, <1>19, <1>20
  DEF Next, Main, worker_thread

\* No interleaving of workers, cancellations and nested polls leaves a finished
\* request on `head' with nobody going to look at it.
THEOREM CompletionsAreNotLost == Spec => []NoLostCompletion
<1>1. Init => NoLostCompletion
  BY Zenon DEF Init, NoLostCompletion
<1> QED
  BY <1>1, NoLostCompletionNext, CInvHolds, PTL DEF Spec

-----------------------------------------------------------------------------
(* Tokens of the semaphore *)

Tokens ==
  Len(request_list) =
    sem + Count(pc, {"claimed"}) + (IF mode = "post" THEN 1 ELSE 0)

\* A step that neither queues, takes nor moves a token keeps the balance.
LEMMA TokensKept ==
  ASSUME Tokens, request_list' = request_list, sem' = sem,
         Count(pc', {"claimed"}) = Count(pc, {"claimed"}),
         mode' = "post" <=> mode = "post"
  PROVE  Tokens'
BY Zenon DEF Tokens

\* The steps of main keep the balance of tokens and queued requests.
LEMMA TokensMain ==
  ASSUME CInv, Tokens, Main
  PROVE  Tokens'
<1> USE DEF elemVars, listVars, threadVars, workerVars, mainVars, cancelVars
<1>0. /\ request_list \in Seq(Req) /\ Len(request_list) \in Nat /\ sem \in Nat
      /\ pc \in [Thread -> PCs] /\ Count(pc, {"claimed"}) \in Nat
  BY CountType, LenProperties, Zenon DEF CInv, TypeOK
<1>1. CASE spawn_thread_bh_fn
  <2>1. /\ pending_threads \in Int /\ new_threads \in Nat
        /\ do_spawn_thread(pending_threads, pc)
    BY <1>1 DEF CInv, TypeOK, spawn_thread_bh_fn
  <2>2. Count(pc', {"claimed"}) = Count(pc, {"claimed"})
    BY <1>0, <2>1, SpawnCounts, Zenon
  <2> QED
    BY <1>1, <2>2, TokensKept, Zenon DEF spawn_thread_bh_fn
<1>2. CASE submit_post
  BY <1>0, <1>2 DEF submit_post, Tokens
<1>3. CASE cancel_woken \/ ready_begin \/ callback_return \/ scan_end
  BY <1>3, TokensKept, Zenon DEF cancel_woken, ready_begin, callback_return, scan_end
<1>4. ASSUME NEW r \in Req, NEW c \in BOOLEAN, thread_pool_submit_aio(r, c)
      PROVE  Tokens'
  <2>1. Len(request_list') = Len(request_list) + 1
    BY <1>0, <1>4, ListAppend, Zenon DEF thread_pool_submit_aio
  <2> QED
    BY <1>0, <1>4, <2>1 DEF thread_pool_submit_aio, Tokens
<1>5. ASSUME NEW r \in Req, cancel_steal(r)
      PROVE  Tokens'
  <2>1. Len(request_list') = Len(request_list) - 1
    BY <1>0, <1>5, RemoveAtProperties, SMTT(20) DEF cancel_steal
  <2> QED
    BY <1>0, <1>5, <2>1, SMTT(20) DEF cancel_steal, sem_trywait, Tokens
<1>6. ASSUME NEW r \in Req,
             cancel_wait(r) \/ scan_skip(r) \/ scan_callback(r) \/ scan_remove(r)
      PROVE  Tokens'
  BY <1>6, TokensKept, Zenon
  DEF cancel_wait, Cancellable, scan_skip, scan_callback, scan_remove
<1> QED
  BY <1>1, <1>2, <1>3, <1>4, <1>5, <1>6, Zenon DEF Main

\* So do the steps of a worker.
LEMMA TokensWorker ==
  ASSUME CInv, Tokens, NEW t \in Thread, worker_thread(t)
  PROVE  Tokens'
<1> USE DEF elemVars, listVars, threadVars, workerVars, mainVars, cancelVars
<1>0. /\ request_list \in Seq(Req) /\ Len(request_list) \in Nat /\ sem \in Nat
      /\ pc \in [Thread -> PCs] /\ Count(pc, {"claimed"}) \in Nat
  BY CountType, LenProperties, Zenon DEF CInv, TypeOK
<1>1. CASE worker_start(t)
  <2> DEFINE w == [pc EXCEPT ![t] = "waiting"]
  <2>1. w \in [Thread -> PCs] /\ CountMoved(pc, w, "created", "waiting")
    BY <1>0, <1>1, CountMove, Zenon DEF PCs, worker_start
  <2>2. Count(w, {"claimed"}) = Count(pc, {"claimed"})
    BY <2>1, ZenonT(30) DEF CountMoved
  <2>3. /\ pending_threads - 1 \in Int /\ new_threads \in Nat
        /\ do_spawn_thread(pending_threads - 1, w)
    BY <1>1 DEF CInv, TypeOK, worker_start
  <2> HIDE DEF w
  <2>4. Count(pc', {"claimed"}) = Count(w, {"claimed"})
    BY <2>1, <2>3, SpawnCounts, Zenon
  <2> QED
    BY <1>1, <2>2, <2>4, TokensKept, SMTT(20) DEF worker_start
<1>2. CASE sem_taken(t)
  <2>1. CountMoved(pc, pc', "waiting", "claimed")
    BY <1>0, <1>2, CountMove, Zenon DEF sem_taken, PCs
  <2>2. Count(pc', {"claimed"}) = Count(pc, {"claimed"}) + 1
    BY <2>1, Zenon DEF CountMoved
  <2> QED
    BY <1>0, <1>2, <2>2, SMTT(20) DEF sem_taken, Tokens
<1>3. CASE worker_take(t)
  <2>1. CountMoved(pc, pc', "claimed", "func")
    BY <1>0, <1>3, CountMove, Zenon DEF worker_take, PCs
  <2>2. Count(pc', {"claimed"}) = Count(pc, {"claimed"}) - 1
    BY <2>1, Zenon DEF CountMoved
  <2>3. Len(request_list') = Len(request_list) - 1
    BY <1>0, <1>3, ListTail, Zenon DEF worker_take
  <2> QED
    BY <1>0, <1>3, <2>2, <2>3, SMTT(20) DEF worker_take, Tokens
<1>4. ASSUME \/ sem_timeout(t) \/ worker_timedout(t)
             \/ \E v \in Ret : worker_return(t, v)
             \/ worker_store(t) \/ worker_done(t) \/ worker_notify(t)
      PROVE  Tokens'
  <2>1. PICK x \in PCs \ {"claimed"} : pc[t] # "claimed" /\ pc' = [pc EXCEPT ![t] = x]
    BY <1>4, Zenon DEF sem_timeout, worker_timedout, worker_return, worker_store,
                worker_done, worker_notify, PCs
  <2>2. CountMoved(pc, pc', pc[t], x)
    BY <1>0, <2>1, CountMove, Zenon
  <2>3. Count(pc', {"claimed"}) = Count(pc, {"claimed"})
    BY <2>1, <2>2, Zenon DEF CountMoved
  <2>4. request_list' = request_list /\ sem' = sem /\ mode' = mode
    BY <1>4, Zenon DEF sem_timeout, worker_timedout, worker_return, worker_store,
                worker_done, worker_notify
  <2> QED
    BY <2>3, <2>4, TokensKept, SMTT(20)
<1> QED
  BY <1>1, <1>2, <1>3, <1>4, Zenon DEF worker_thread

\* A worker that got a token, and a cancellation that stole one, find a request
\* in the queue: the QTAILQ_FIRST of worker_thread is never NULL.
THEOREM TokensAreRequests == Spec => []TokensMatchQueue
<1>1. Init => Tokens
  <2> SUFFICES ASSUME Init PROVE Tokens
    BY Zenon
  <2>1. {t \in Thread : pc[t] \in {"claimed"}} = {}
    BY Zenon DEF Init
  <2>2. Count(pc, {"claimed"}) = 0
    BY <2>1, FS_EmptySet, Zenon DEF Count
  <2> QED
    BY <2>2, EmptySeq DEF Init, Tokens
<1>2. CInv /\ Tokens /\ [Next]_vars => Tokens'
  <2>1. ASSUME Tokens, UNCHANGED vars PROVE Tokens'
    BY <2>1, TokensKept, Zenon DEF vars, listVars, workerVars, mainVars
  <2> QED
    BY <2>1, TokensMain, TokensWorker, Zenon DEF Next
<1>3. Tokens => TokensMatchQueue
  BY Zenon DEF Tokens, TokensMatchQueue, Workers, Count
<1> QED
  BY <1>1, <1>2, <1>3, CInvHolds, PTL DEF Spec

-----------------------------------------------------------------------------
(* The thread pool implements AioRequests, for any number of requests,     *)
(* workers and nested callbacks.                                           *)
(*                                                                         *)
(* The argument rests on Elements, the invariant that says who owns an     *)
(* element in each state: the queue while it is QUEUED, exactly one worker *)
(* while it is ACTIVE, the list `head' until event_notifier_ready removes  *)
(* it, and the frame of its callback after that.                           *)

\* A worker between QTAILQ_REMOVE and the store of the state.
Holding == {"func", "returned", "stored"}

\* The queue holds the QUEUED elements, each once.
QueueOwns ==
  /\ IsInjective(request_list)
  /\ \A r \in Req : state[r] = "QUEUED" <=> r \in ToSet(request_list)

\* A worker's element is ACTIVE and no other worker's; its ret is the result of
\* its function before its state is stored.
WorkerOwns ==
  /\ \A t \in Thread : pc[t] \in Holding =>
       /\ req[t] \in Req /\ state[req[t]] = "ACTIVE"
       /\ pc[t] = "stored" => ret[req[t]] = result[req[t]]
  /\ \A t, u \in Thread :
       pc[t] \in Holding /\ pc[u] \in Holding /\ req[t] = req[u] => t = u

\* Elements are on `head' from submission until a scan finds them finished.
HeadOwns ==
  /\ \A r \in Req : /\ state[r] \in {"QUEUED", "ACTIVE", "CANCELED"} => r \in head
                    /\ state[r] = "FREE" => r \notin head
                    /\ state[r] = "DONE" => ret[r] = result[r]
  /\ toScan \in SUBSET head

\* A running callback has an element of its own and got that element's result.
CallOwns ==
  /\ \A i \in 1 .. Len(calls) : /\ state[calls[i].elem] = "DONE"
                                /\ calls[i].elem \notin head
                                /\ calls[i].ret = result[calls[i].elem]
  /\ \A i, j \in 1 .. Len(calls) : calls[i].elem = calls[j].elem => i = j

Elements == QueueOwns /\ WorkerOwns /\ HeadOwns /\ CallOwns

-----------------------------------------------------------------------------
(* The refinement mapping, as functions of the variables it reads *)

PhaseIn(s, listed) ==
  CASE s = "FREE"     -> "free"
    [] s = "QUEUED"   -> "submitted"
    [] s = "ACTIVE"   -> "running"
    [] s = "CANCELED" -> "cancelled"
    [] s = "DONE"     -> IF listed THEN "finished" ELSE "callback"

PhaseOf(st, h) == [r \in Req |-> PhaseIn(st[r], r \in h)]

GivenBy(cs) == {<<cs[i].elem, cs[i].ret>> : i \in 1 .. Len(cs)}

\* The mapping of the module, for the state and for the next one.
LEMMA Mapping == /\ phase = PhaseOf(state, head) /\ given = GivenBy(calls)
                 /\ phase' = PhaseOf(state', head') /\ given' = GivenBy(calls')
BY Zenon DEF phase, given, PhaseIn, PhaseOf, GivenBy

\* The phase of an element, read off its state and the list.
LEMMA PhaseValue ==
  ASSUME NEW st \in [Req -> States], NEW h, NEW r \in Req
  PROVE  /\ st[r] = "FREE" => PhaseOf(st, h)[r] = "free"
         /\ st[r] = "QUEUED" => PhaseOf(st, h)[r] = "submitted"
         /\ st[r] = "ACTIVE" => PhaseOf(st, h)[r] = "running"
         /\ st[r] = "CANCELED" => PhaseOf(st, h)[r] = "cancelled"
         /\ st[r] = "DONE" /\ r \in h => PhaseOf(st, h)[r] = "finished"
         /\ st[r] = "DONE" /\ r \notin h => PhaseOf(st, h)[r] = "callback"
BY Zenon DEF PhaseIn, PhaseOf

-----------------------------------------------------------------------------
(* What each step does to the elements, and the abstract step it is *)

\* What the steps below read of the type invariant.
ElemTypes == /\ state \in [Req -> States] /\ ret \in [Req -> Ret]
             /\ result \in [Req -> Ret] /\ head \in SUBSET Req
             /\ request_list \in Seq(Req) /\ pc \in [Thread -> PCs]
             /\ req \in [Thread -> Req \cup {NoReq}]
             /\ calls \in Seq([elem : Req, ret : Ret])

\* The callbacks on the stack belong to elements.
LEMMA CallElems ==
  ASSUME ElemTypes
  PROVE  \A i \in 1 .. Len(calls) : calls[i].elem \in Req /\ calls[i].ret \in Ret
<1>1. \A i \in 1 .. Len(calls) : calls[i] \in [elem : Req, ret : Ret]
  BY ElementOfSeq, Zenon DEF ElemTypes
<1> QED
  BY <1>1, Zenon

\* The phases before and after a step that touches one element.
LEMMA PhaseStep ==
  ASSUME ElemTypes, ElemTypes', NEW r \in Req,
         \A q \in Req \ {r} : state'[q] = state[q],
         head' = head \/ head' = head \cup {r} \/ head' = head \ {r}
  PROVE  /\ phase' = [phase EXCEPT ![r] = phase'[r]]
         /\ state[r] = "FREE" => phase[r] = "free"
         /\ state[r] = "QUEUED" => phase[r] = "submitted"
         /\ state[r] = "ACTIVE" => phase[r] = "running"
         /\ state[r] = "CANCELED" => phase[r] = "cancelled"
         /\ state[r] = "DONE" /\ r \in head => phase[r] = "finished"
         /\ state[r] = "DONE" /\ r \notin head => phase[r] = "callback"
         /\ state'[r] = "FREE" => phase'[r] = "free"
         /\ state'[r] = "QUEUED" => phase'[r] = "submitted"
         /\ state'[r] = "ACTIVE" => phase'[r] = "running"
         /\ state'[r] = "CANCELED" => phase'[r] = "cancelled"
         /\ state'[r] = "DONE" /\ r \in head' => phase'[r] = "finished"
         /\ state'[r] = "DONE" /\ r \notin head' => phase'[r] = "callback"
<1>1. state \in [Req -> States] /\ state' \in [Req -> States]
  BY Zenon DEF ElemTypes
<1>2. \A q \in Req \ {r} : state'[q] = state[q] /\ (q \in head' <=> q \in head)
  BY Zenon
<1>3. phase = [q \in Req |-> phase[q]] /\ phase' = [q \in Req |-> phase'[q]]
  BY Mapping DEF PhaseOf
<1>4. \A q \in Req \ {r} : phase'[q] = phase[q]
  BY <1>1, <1>2, Mapping, PhaseValue DEF States
<1>5. phase' = [phase EXCEPT ![r] = phase'[r]]
  BY ONLY <1>3, <1>4, Zenon
<1> QED
  BY <1>1, <1>5, Mapping, PhaseValue

\* A step that leaves the elements, the lists and the callbacks alone, and in
\* which no worker takes a request, is invisible to users.
LEMMA QuietStep ==
  ASSUME Elements,
         UNCHANGED <<state, ret, result, head, request_list, calls>>,
         toScan' \in SUBSET head,
         \A t \in Thread : pc'[t] \in Holding => pc'[t] = pc[t] /\ req'[t] = req[t]
  PROVE  Elements' /\ UNCHANGED Aio!vars
<1>1. QueueOwns' /\ HeadOwns' /\ CallOwns'
  BY Zenon DEF Elements, QueueOwns, HeadOwns, CallOwns
<1>2. WorkerOwns'
  BY Zenon DEF Elements, WorkerOwns
<1>3. UNCHANGED Aio!vars
  BY Mapping, Zenon DEF Aio!vars
<1> QED
  BY <1>1, <1>2, <1>3, Zenon DEF Elements

\* thread_pool_submit_aio hands over an element that nobody owned.
LEMMA SubmitStep ==
  ASSUME ElemTypes, Elements, NEW r \in Req, NEW c, thread_pool_submit_aio(r, c)
  PROVE  Elements' /\ Aio!Submit(r)
<1>1. /\ state[r] = "FREE" /\ state' = [state EXCEPT ![r] = "QUEUED"]
      /\ head' = head \cup {r} /\ request_list' = Append(request_list, r)
      /\ UNCHANGED <<ret, result, pc, req, calls, toScan>>
  BY Zenon DEF thread_pool_submit_aio, workerVars
<1>2. ElemTypes' /\ state'[r] = "QUEUED" /\ \A q \in Req \ {r} : state'[q] = state[q]
  <2>1. request_list' \in Seq(Req)
    BY <1>1 DEF ElemTypes
  <2> QED
    BY <1>1, <2>1, Zenon DEF ElemTypes, States
<1>3. QueueOwns'
  <2>1. request_list \in Seq(Req) /\ r \notin ToSet(request_list)
        /\ IsInjective(request_list)
    BY <1>1, Zenon DEF ElemTypes, Elements, QueueOwns
  <2>2. ToSet(request_list') = ToSet(request_list) \cup {r} /\ IsInjective(request_list')
    BY ONLY <1>1, <2>1, ListAppend
  <2> QED
    BY <1>2, <2>2, Zenon DEF Elements, QueueOwns
<1>4. WorkerOwns'
  BY <1>1, <1>2 DEF Elements, WorkerOwns
<1>5. HeadOwns'
  BY <1>1, <1>2, Zenon DEF Elements, HeadOwns
<1>6. CallOwns'
  <2>1. \A i \in 1 .. Len(calls) : calls[i].elem \in Req /\ calls[i].elem # r
    BY <1>1, CallElems, Zenon DEF ElemTypes, Elements, CallOwns
  <2> QED
    BY <1>1, <1>2, <2>1 DEF Elements, CallOwns
<1>7. Aio!Submit(r)
  <2>1. phase' = [phase EXCEPT ![r] = "submitted"] /\ phase[r] = "free"
    BY <1>1, <1>2, PhaseStep, Zenon
  <2> QED
    BY <1>1, <2>1, Mapping, Zenon DEF Aio!Submit, Aio!Move
<1> QED
  BY <1>3, <1>4, <1>5, <1>6, <1>7, Zenon DEF Elements

\* thread_pool_cancel takes a QUEUED element from the queue.
LEMMA StealStep ==
  ASSUME ElemTypes, Elements, NEW r \in Req, cancel_steal(r)
  PROVE  Elements' /\ Aio!Cancel(r)
<1>1. PICK i \in 1 .. Len(request_list) :
        request_list[i] = r /\ request_list' = QTAILQ_REMOVE(request_list, i)
  BY Zenon DEF cancel_steal
<1>2. /\ state[r] = "QUEUED" /\ state' = [state EXCEPT ![r] = "CANCELED"]
      /\ UNCHANGED <<ret, result, head, pc, req, calls, toScan>>
  BY Zenon DEF cancel_steal, workerVars, mainVars
<1>3. request_list \in Seq(Req) /\ IsInjective(request_list)
  BY Zenon DEF ElemTypes, Elements, QueueOwns
<1>4. /\ request_list' \in Seq(Req) /\ IsInjective(request_list')
      /\ ToSet(request_list') = ToSet(request_list) \ {r}
  BY ONLY <1>1, <1>3, ListRemoveAt, Zenon
<1>5. ElemTypes' /\ state'[r] = "CANCELED" /\ \A q \in Req \ {r} : state'[q] = state[q]
  BY <1>2, <1>4, Zenon DEF ElemTypes, States
<1>6. QueueOwns'
  BY <1>4, <1>5, Zenon DEF Elements, QueueOwns
<1>7. WorkerOwns'
  BY <1>2, <1>5, Zenon DEF Elements, WorkerOwns
<1>8. HeadOwns'
  BY <1>2, <1>5, Zenon DEF Elements, HeadOwns
<1>9. CallOwns'
  <2>1. \A j \in 1 .. Len(calls) : calls[j].elem \in Req /\ calls[j].elem # r
    BY <1>2, CallElems, Zenon DEF Elements, CallOwns
  <2> QED
    BY <1>2, <1>5, <2>1 DEF Elements, CallOwns
<1>10. Aio!Cancel(r)
  <2>1. phase' = [phase EXCEPT ![r] = "cancelled"] /\ phase[r] = "submitted"
    BY <1>2, <1>5, PhaseStep, Zenon
  <2> QED
    BY <1>2, <2>1, Mapping, Zenon DEF Aio!Cancel, Aio!Move
<1> QED
  BY <1>6, <1>7, <1>8, <1>9, <1>10, Zenon DEF Elements

\* A worker takes the first element of the queue.
LEMMA TakeStep ==
  ASSUME ElemTypes, Elements, NEW t \in Thread, worker_take(t)
  PROVE  Elements' /\ \E r \in Req : Aio!Begin(r)
<1> DEFINE r == Head(request_list)
<1>1. request_list \in Seq(Req) /\ request_list # <<>> /\ IsInjective(request_list)
  BY Zenon DEF worker_take, ElemTypes, Elements, QueueOwns
<1>2. /\ r \in Req /\ r \in ToSet(request_list) /\ Tail(request_list) \in Seq(Req)
      /\ IsInjective(Tail(request_list))
      /\ ToSet(Tail(request_list)) = ToSet(request_list) \ {r}
  BY ONLY <1>1, ListTail
<1> HIDE DEF r
<1>3. /\ state' = [state EXCEPT ![r] = "ACTIVE"] /\ req' = [req EXCEPT ![t] = r]
      /\ pc' = [pc EXCEPT ![t] = "func"] /\ request_list' = Tail(request_list)
      /\ UNCHANGED <<ret, result, head, calls, toScan>>
  BY Zenon DEF worker_take, mainVars, r
<1>4. state[r] = "QUEUED"
  BY <1>2, Zenon DEF Elements, QueueOwns
<1>5. ElemTypes' /\ state'[r] = "ACTIVE" /\ \A q \in Req \ {r} : state'[q] = state[q]
  BY <1>2, <1>3, Zenon DEF ElemTypes, States, PCs
<1>6. QueueOwns'
  BY <1>2, <1>3, <1>5, Zenon DEF Elements, QueueOwns
<1>7. WorkerOwns'
  <2>1. \A u \in Thread \ {t} : /\ pc'[u] = pc[u] /\ req'[u] = req[u]
                                /\ pc[u] \in Holding => req[u] # r
    BY <1>3, <1>4, Zenon DEF Elements, WorkerOwns, ElemTypes
  <2>2. pc'[t] = "func" /\ req'[t] = r
    BY <1>3, Zenon DEF ElemTypes
  <2> QED
    BY <1>2, <1>3, <1>5, <2>1, <2>2 DEF Elements, WorkerOwns
<1>8. HeadOwns'
  BY <1>2, <1>3, <1>4, <1>5, Zenon DEF Elements, HeadOwns
<1>9. CallOwns'
  <2>1. \A j \in 1 .. Len(calls) : calls[j].elem \in Req /\ calls[j].elem # r
    BY <1>4, CallElems, Zenon DEF Elements, CallOwns
  <2> QED
    BY <1>3, <1>5, <2>1, Zenon DEF Elements, CallOwns
<1>10. Aio!Begin(r)
  <2>1. phase' = [phase EXCEPT ![r] = "running"] /\ phase[r] = "submitted"
    BY <1>2, <1>3, <1>4, <1>5, PhaseStep, Zenon
  <2> QED
    BY <1>3, <2>1, Mapping, Zenon DEF Aio!Begin, Aio!Move
<1> QED
  BY <1>2, <1>6, <1>7, <1>8, <1>9, <1>10, Zenon DEF Elements

\* event_notifier_ready takes a DONE element off `head' and calls its callback
\* with the element's ret, which is what the function returned.
LEMMA CallStep ==
  ASSUME ElemTypes, Elements, NEW r \in Req, scan_callback(r)
  PROVE  Elements' /\ Aio!Call(r)
<1> DEFINE e == [elem |-> r, ret |-> ret[r]]
           n == Len(calls)
<1>1. /\ state[r] = "DONE" /\ r \in toScan /\ head' = head \ {r} /\ toScan' = {}
      /\ calls' = Append(calls, e)
      /\ UNCHANGED <<state, ret, result, request_list, pc, req>>
  BY Zenon DEF scan_callback, elemVars, workerVars
<1>2. r \in head /\ ret[r] = result[r] /\ ret[r] \in Ret
  BY <1>1, Zenon DEF Elements, HeadOwns, ElemTypes
<1>3. calls \in Seq([elem : Req, ret : Ret]) /\ e \in [elem : Req, ret : Ret]
  BY <1>2, Zenon DEF ElemTypes
<1>4. /\ calls' \in Seq([elem : Req, ret : Ret]) /\ n \in Nat /\ Len(calls') = n + 1
      /\ calls'[n + 1] = e /\ \A i \in 1 .. n : calls'[i] = calls[i]
  BY <1>1, <1>3, AppendProperties, LenProperties
<1>5. e.elem = r /\ e.ret = ret[r]
  BY Zenon
<1> HIDE DEF e, n
<1>6. \A i \in 1 .. n + 1 : i \in 1 .. n \/ i = n + 1
  BY <1>4
<1>7. \A i \in 1 .. n : calls[i].elem \in Req /\ calls[i].elem # r
  BY <1>2, CallElems, Zenon DEF Elements, CallOwns, n
<1>8. ElemTypes'
  BY <1>1, <1>4, Zenon DEF ElemTypes
<1>9. QueueOwns' /\ WorkerOwns'
  BY <1>1, Zenon DEF Elements, QueueOwns, WorkerOwns
<1>10. HeadOwns'
  BY <1>1, Zenon DEF Elements, HeadOwns
<1>11. CallOwns'
  <2>1. \A i \in 1 .. n + 1 : /\ state[calls'[i].elem] = "DONE"
                              /\ calls'[i].elem \notin head'
                              /\ calls'[i].ret = result[calls'[i].elem]
    BY <1>1, <1>2, <1>4, <1>5, <1>6 DEF Elements, CallOwns, n
  <2>2. \A i, j \in 1 .. n + 1 : calls'[i].elem = calls'[j].elem => i = j
    BY <1>4, <1>5, <1>6, <1>7, Zenon DEF Elements, CallOwns, n
  <2> QED
    BY <1>1, <1>4, <2>1, <2>2, Zenon DEF CallOwns
<1>12. given' = given \cup {<<r, result[r]>>}
  <2>1. GivenBy(calls') = {<<calls'[i].elem, calls'[i].ret>> : i \in 1 .. n + 1}
    BY <1>4, Zenon DEF GivenBy
  <2>2. GivenBy(calls) = {<<calls[i].elem, calls[i].ret>> : i \in 1 .. n}
    BY Zenon DEF GivenBy, n
  <2>3. n + 1 \in 1 .. n + 1 /\ \A i \in 1 .. n : i \in 1 .. n + 1
    BY <1>4
  <2>4. <<calls'[n + 1].elem, calls'[n + 1].ret>> = <<r, result[r]>>
    BY <1>2, <1>4, <1>5, Zenon
  <2>5. \A i \in 1 .. n : <<calls'[i].elem, calls'[i].ret>> = <<calls[i].elem, calls[i].ret>>
    BY <1>4, Zenon
  <2> DEFINE p(i) == <<calls'[i].elem, calls'[i].ret>>
             q(i) == <<calls[i].elem, calls[i].ret>>
             x == <<r, result[r]>>
  <2>6. p(n + 1) = x /\ \A i \in 1 .. n : p(i) = q(i)
    BY <2>4, <2>5, Zenon
  <2>7. GivenBy(calls') = {p(i) : i \in 1 .. n + 1} /\ GivenBy(calls) = {q(i) : i \in 1 .. n}
    BY <2>1, <2>2, Zenon
  <2> HIDE DEF p, q, x
  <2>8. {p(i) : i \in 1 .. n + 1} = {q(i) : i \in 1 .. n} \cup {x}
    BY <1>6, <2>3, <2>6, Zenon
  <2>9. given' = GivenBy(calls') /\ given = GivenBy(calls)
    BY Mapping, Zenon
  <2> QED
    BY <2>7, <2>8, <2>9, Zenon DEF x
<1>13. Aio!Call(r)
  <2>1. phase' = [phase EXCEPT ![r] = "callback"] /\ phase[r] = "finished"
    BY <1>1, <1>2, <1>8, PhaseStep, Zenon
  <2> QED
    BY <1>1, <1>12, <2>1, Zenon DEF Aio!Call, Aio!Move
<1> QED
  BY <1>9, <1>10, <1>11, <1>13, Zenon DEF Elements

\* The callback returns, and its element is free again.
LEMMA CallbackReturnStep ==
  ASSUME ElemTypes, Elements, callback_return
  PROVE  Elements' /\ \E r \in Req : Aio!Release(r)
<1> DEFINE n == Len(calls)
           r == calls[n].elem
<1>1. /\ state' = [state EXCEPT ![r] = "FREE"] /\ toScan' = head
      /\ calls' = SubSeq(calls, 1, n - 1) /\ calls # <<>>
      /\ UNCHANGED <<ret, result, head, request_list, pc, req>>
  BY Zenon DEF callback_return, listVars, workerVars
<1>2. ASSUME NEW S, calls \in Seq(S)
      PROVE  /\ n \in Nat \ {0} /\ calls' \in Seq(S) /\ Len(calls') = n - 1
             /\ \A i \in 1 .. n - 1 : calls'[i] = calls[i]
  <2>1. calls # <<>>
    BY <1>1, Zenon
  <2>2. /\ n \in Nat \ {0} /\ Front(calls) = SubSeq(calls, 1, n - 1)
        /\ Front(calls) \in Seq(S) /\ Len(Front(calls)) = n - 1
        /\ \A i \in 1 .. n - 1 : Front(calls)[i] = calls[i]
    BY ONLY <1>2, <2>1, ListFront, Zenon
  <2> QED
    BY ONLY <1>1, <2>2, Zenon
<1>3. /\ n \in Nat \ {0} /\ calls' \in Seq([elem : Req, ret : Ret])
      /\ Len(calls') = n - 1 /\ \A i \in 1 .. n - 1 : calls'[i] = calls[i]
  BY <1>2, Zenon DEF ElemTypes
<1>4. n \in 1 .. n /\ \A i \in 1 .. n - 1 : i \in 1 .. n /\ i # n
  BY <1>3
<1>5. r \in Req /\ state[r] = "DONE" /\ r \notin head
  BY <1>4, CallElems, Zenon DEF Elements, CallOwns
<1>6. \A i \in 1 .. n - 1 : calls[i].elem \in Req /\ calls[i].elem # r
  BY <1>4, CallElems, Zenon DEF Elements, CallOwns
<1> HIDE DEF n, r
<1>7. ElemTypes' /\ state'[r] = "FREE" /\ \A q \in Req \ {r} : state'[q] = state[q]
  BY <1>1, <1>3, <1>5, Zenon DEF ElemTypes, States
<1>8. QueueOwns'
  BY <1>1, <1>5, <1>7, Zenon DEF Elements, QueueOwns
<1>9. WorkerOwns'
  BY <1>1, <1>5, <1>7 DEF Elements, WorkerOwns
<1>10. HeadOwns'
  BY <1>1, <1>5, <1>7, Zenon DEF Elements, HeadOwns
<1>11. CallOwns'
  <2>1. \A i \in 1 .. n - 1 : /\ state'[calls'[i].elem] = "DONE"
                              /\ calls'[i].elem \notin head
                              /\ calls'[i].ret = result[calls'[i].elem]
    BY <1>3, <1>4, <1>6, <1>7 DEF Elements, CallOwns, n
  <2>2. \A i, j \in 1 .. n - 1 : calls'[i].elem = calls'[j].elem => i = j
    BY <1>3, <1>4, Zenon DEF Elements, CallOwns, n
  <2> QED
    BY <1>1, <1>3, <2>1, <2>2, Zenon DEF CallOwns
<1>12. given' = {g \in given : g[1] # r}
  <2>1. GivenBy(calls') = {<<calls[i].elem, calls[i].ret>> : i \in 1 .. n - 1}
    BY <1>3, Zenon DEF GivenBy
  <2>2. GivenBy(calls) = {<<calls[i].elem, calls[i].ret>> : i \in 1 .. n}
    BY Zenon DEF GivenBy, n
  <2>3. \A i \in 1 .. n : i \in 1 .. n - 1 \/ i = n
    BY <1>3
  <2>4. \A i : <<calls[i].elem, calls[i].ret>>[1] = calls[i].elem
    BY Zenon
  <2>5. calls[n].elem = r
    BY Zenon DEF r
  <2> QED
    BY <1>4, <1>6, <2>1, <2>2, <2>3, <2>4, <2>5, Mapping
<1>13. Aio!Release(r)
  <2>1. phase' = [phase EXCEPT ![r] = "free"] /\ phase[r] = "callback"
    BY <1>1, <1>5, <1>7, PhaseStep, Zenon
  <2> QED
    BY <1>1, <1>12, <2>1, Zenon DEF Aio!Release, Aio!Move
<1> QED
  BY <1>5, <1>8, <1>9, <1>10, <1>11, <1>13, Zenon DEF Elements

\* event_notifier_ready releases an element that was cancelled, or that has no
\* callback.
LEMMA RemoveStep ==
  ASSUME ElemTypes, Elements, NEW r \in Req, scan_remove(r)
  PROVE  Elements' /\ Aio!Release(r)
<1>1. /\ state[r] \in {"CANCELED", "DONE"} /\ state' = [state EXCEPT ![r] = "FREE"]
      /\ r \in toScan /\ head' = head \ {r} /\ toScan' = toScan \ {r}
      /\ UNCHANGED <<ret, result, request_list, pc, req, calls>>
  BY Zenon DEF scan_remove, Finished, workerVars
<1>2. r \in head
  BY <1>1, Zenon DEF Elements, HeadOwns
<1>3. ElemTypes' /\ state'[r] = "FREE" /\ \A q \in Req \ {r} : state'[q] = state[q]
  BY <1>1, Zenon DEF ElemTypes, States
<1>4. \A i \in 1 .. Len(calls) : calls[i].elem \in Req /\ calls[i].elem # r
  BY <1>2, CallElems, Zenon DEF Elements, CallOwns
<1>5. QueueOwns'
  BY <1>1, <1>3, Zenon DEF Elements, QueueOwns
<1>6. WorkerOwns'
  BY <1>1, <1>3, Zenon DEF Elements, WorkerOwns
<1>7. HeadOwns'
  BY <1>1, <1>3, Zenon DEF Elements, HeadOwns
<1>8. CallOwns'
  BY <1>1, <1>3, <1>4 DEF Elements, CallOwns
<1>9. given' = {g \in given : g[1] # r}
  <2>1. \A g \in GivenBy(calls) : g[1] # r
    BY <1>4 DEF GivenBy
  <2> QED
    BY <1>1, <2>1, Mapping, Zenon
<1>10. Aio!Release(r)
  <2>1. /\ phase' = [phase EXCEPT ![r] = "free"]
        /\ phase[r] \in {"cancelled", "finished"}
    BY <1>1, <1>2, <1>3, PhaseStep, Zenon
  <2> QED
    BY <1>1, <1>9, <2>1, Zenon DEF Aio!Release, Aio!Move
<1> QED
  BY <1>5, <1>6, <1>7, <1>8, <1>10, Zenon DEF Elements

\* The function of a worker's request returns.
LEMMA ReturnStep ==
  ASSUME ElemTypes, Elements, NEW t \in Thread, NEW v \in Ret, worker_return(t, v)
  PROVE  Elements' /\ \E r \in Req : Aio!Return(r)
<1> DEFINE r == req[t]
<1>1. /\ pc[t] = "func" /\ result' = [result EXCEPT ![r] = v]
      /\ pc' = [pc EXCEPT ![t] = "returned"]
      /\ UNCHANGED <<state, ret, head, request_list, req, calls, toScan>>
  BY Zenon DEF worker_return, listVars, mainVars
<1>2. /\ r \in Req /\ state[r] = "ACTIVE"
      /\ \A u \in Thread \ {t} : pc[u] \in Holding => req[u] # r
  BY <1>1, Zenon DEF Elements, WorkerOwns, Holding
<1> HIDE DEF r
<1>3. /\ ElemTypes' /\ \A q \in Req \ {r} : result'[q] = result[q]
      /\ \A u \in Thread \ {t} : pc'[u] = pc[u]
      /\ pc'[t] = "returned"
  BY <1>1, <1>2, Zenon DEF ElemTypes, PCs
<1>4. QueueOwns'
  BY <1>1, Zenon DEF Elements, QueueOwns
<1>5. WorkerOwns'
  BY <1>1, <1>2, <1>3 DEF Elements, WorkerOwns, Holding, r
<1>6. HeadOwns'
  BY <1>1, <1>2, <1>3, Zenon DEF Elements, HeadOwns
<1>7. CallOwns'
  <2>1. \A i \in 1 .. Len(calls) : calls[i].elem \in Req /\ calls[i].elem # r
    BY <1>2, CallElems, Zenon DEF Elements, CallOwns
  <2> QED
    BY <1>1, <1>3, <2>1 DEF Elements, CallOwns
<1>8. Aio!Return(r)
  <2>1. phase[r] = "running"
    BY <1>1, <1>2, <1>3, PhaseStep, Zenon
  <2> QED
    BY <1>1, <2>1, Mapping, Zenon DEF Aio!Return
<1> QED
  BY <1>2, <1>4, <1>5, <1>6, <1>7, <1>8, Zenon DEF Elements

\* The worker stores the result where the callback's caller will read it.
LEMMA StoreStep ==
  ASSUME ElemTypes, Elements, NEW t \in Thread, worker_store(t)
  PROVE  Elements' /\ UNCHANGED Aio!vars
<1> DEFINE r == req[t]
<1>1. /\ pc[t] = "returned" /\ ret' = [ret EXCEPT ![r] = result[r]]
      /\ pc' = [pc EXCEPT ![t] = "stored"]
      /\ UNCHANGED <<state, result, head, request_list, req, calls, toScan>>
  BY Zenon DEF worker_store, listVars, mainVars
<1>2. /\ r \in Req /\ state[r] = "ACTIVE"
      /\ \A u \in Thread \ {t} : pc[u] \in Holding => req[u] # r
  BY <1>1, Zenon DEF Elements, WorkerOwns, Holding
<1> HIDE DEF r
<1>3. /\ ret'[r] = result[r] /\ \A q \in Req \ {r} : ret'[q] = ret[q]
      /\ \A u \in Thread \ {t} : pc'[u] = pc[u]
      /\ pc'[t] = "stored"
  BY <1>1, <1>2, Zenon DEF ElemTypes, PCs
<1>4. QueueOwns' /\ CallOwns'
  BY <1>1, Zenon DEF Elements, QueueOwns, CallOwns
<1>5. WorkerOwns'
  BY <1>1, <1>2, <1>3 DEF Elements, WorkerOwns, Holding, r
<1>6. HeadOwns'
  BY <1>1, <1>2, <1>3, Zenon DEF Elements, HeadOwns
<1>7. UNCHANGED Aio!vars
  BY <1>1, Mapping, Zenon DEF Aio!vars
<1> QED
  BY <1>4, <1>5, <1>6, <1>7, Zenon DEF Elements

\* The worker stores the state: the element is DONE and no longer its own.
LEMMA DoneStep ==
  ASSUME ElemTypes, Elements, NEW t \in Thread, worker_done(t)
  PROVE  Elements' /\ \E r \in Req : Aio!Finish(r)
<1> DEFINE r == req[t]
<1>1. /\ pc[t] = "stored" /\ state' = [state EXCEPT ![r] = "DONE"]
      /\ pc' = [pc EXCEPT ![t] = "done"]
      /\ UNCHANGED <<ret, result, head, request_list, req, calls, toScan>>
  BY Zenon DEF worker_done, listVars, mainVars
<1>2. /\ r \in Req /\ state[r] = "ACTIVE" /\ ret[r] = result[r]
      /\ \A u \in Thread \ {t} : pc[u] \in Holding => req[u] # r
  BY <1>1, Zenon DEF Elements, WorkerOwns, Holding
<1> HIDE DEF r
<1>3. ElemTypes' /\ state'[r] = "DONE" /\ \A q \in Req \ {r} : state'[q] = state[q]
  BY <1>1, <1>2, Zenon DEF ElemTypes, States, PCs
<1>4. /\ \A u \in Thread \ {t} : pc'[u] = pc[u]
      /\ pc'[t] \notin Holding /\ r \in head
  BY <1>1, <1>2, Zenon DEF ElemTypes, Holding, Elements, HeadOwns
<1>5. QueueOwns'
  BY <1>1, <1>2, <1>3, Zenon DEF Elements, QueueOwns
<1>6. WorkerOwns'
  BY <1>1, <1>2, <1>3, <1>4 DEF Elements, WorkerOwns
<1>7. HeadOwns'
  BY <1>1, <1>2, <1>3, <1>4, Zenon DEF Elements, HeadOwns
<1>8. CallOwns'
  <2>1. \A i \in 1 .. Len(calls) : calls[i].elem \in Req /\ calls[i].elem # r
    BY <1>2, CallElems, Zenon DEF Elements, CallOwns
  <2> QED
    BY <1>1, <1>3, <2>1, Zenon DEF Elements, CallOwns
<1>9. Aio!Finish(r)
  <2>1. phase' = [phase EXCEPT ![r] = "finished"] /\ phase[r] = "running"
    BY <1>1, <1>2, <1>3, <1>4, PhaseStep, Zenon
  <2> QED
    BY <1>1, <2>1, Mapping, Zenon DEF Aio!Finish, Aio!Move
<1> QED
  BY <1>2, <1>5, <1>6, <1>7, <1>8, <1>9, Zenon DEF Elements

-----------------------------------------------------------------------------
\* Every step of main keeps the elements where they belong, and is a step of
\* the abstract life of a request or none.
LEMMA MainStep ==
  ASSUME TypeOK, Elements, Main
  PROVE  Elements' /\ [Aio!Next]_Aio!vars
<1>1. ElemTypes
  BY Zenon DEF TypeOK, ElemTypes
<1>2. toScan \in SUBSET head /\ head \in SUBSET head
  BY Zenon DEF Elements, HeadOwns
<1> USE DEF Aio!Next
<1>3. CASE spawn_thread_bh_fn
  <2>1. UNCHANGED <<state, ret, result, head, request_list, calls, toScan, req>>
    BY <1>3, Zenon DEF spawn_thread_bh_fn, elemVars, listVars, mainVars
  <2>2. \A t \in Thread : pc'[t] \in Holding => pc'[t] = pc[t]
    BY <1>1, <1>3, Zenon DEF spawn_thread_bh_fn, do_spawn_thread, Holding, ElemTypes
  <2> QED
    BY <1>2, <2>1, <2>2, QuietStep, Zenon
<1>4. CASE submit_post \/ cancel_woken \/ ready_begin \/ scan_end
  <2>1. /\ UNCHANGED <<state, ret, result, head, request_list, calls, req, pc>>
        /\ toScan' = toScan \/ toScan' = head
    BY <1>4, Zenon DEF submit_post, cancel_woken, ready_begin, scan_end, elemVars,
                listVars, workerVars
  <2> QED
    BY <1>2, <2>1, QuietStep, Zenon
<1>5. CASE callback_return
  BY <1>1, <1>5, CallbackReturnStep, Zenon
<1>6. ASSUME NEW r \in Req, NEW c \in BOOLEAN, thread_pool_submit_aio(r, c)
      PROVE  Elements' /\ [Aio!Next]_Aio!vars
  BY <1>1, <1>6, SubmitStep, Zenon
<1>7. ASSUME NEW r \in Req, cancel_steal(r)
      PROVE  Elements' /\ [Aio!Next]_Aio!vars
  BY <1>1, <1>7, StealStep, Zenon
<1>8. ASSUME NEW r \in Req, cancel_wait(r) \/ scan_skip(r)
      PROVE  Elements' /\ [Aio!Next]_Aio!vars
  <2>1. /\ UNCHANGED <<state, ret, result, head, request_list, calls, req, pc>>
        /\ toScan' = toScan \/ toScan' = toScan \ {r}
    BY <1>8, Zenon DEF cancel_wait, scan_skip, elemVars, listVars, workerVars
  <2> QED
    BY <1>2, <2>1, QuietStep, Zenon
<1>9. ASSUME NEW r \in Req, scan_callback(r)
      PROVE  Elements' /\ [Aio!Next]_Aio!vars
  BY <1>1, <1>9, CallStep, Zenon
<1>10. ASSUME NEW r \in Req, scan_remove(r)
       PROVE  Elements' /\ [Aio!Next]_Aio!vars
  BY <1>1, <1>10, RemoveStep, Zenon
<1> QED
  BY <1>3, <1>4, <1>5, <1>6, <1>7, <1>8, <1>9, <1>10, Zenon DEF Main

\* The same for every step of a worker.
LEMMA WorkerStep ==
  ASSUME TypeOK, Elements, NEW t \in Thread, worker_thread(t)
  PROVE  Elements' /\ [Aio!Next]_Aio!vars
<1>1. ElemTypes
  BY Zenon DEF TypeOK, ElemTypes
<1>2. toScan \in SUBSET head
  BY Zenon DEF Elements, HeadOwns
<1> USE DEF Aio!Next
<1>3. CASE \/ worker_start(t) \/ sem_taken(t) \/ sem_timeout(t)
           \/ worker_timedout(t) \/ worker_notify(t)
  <2>1. UNCHANGED <<state, ret, result, head, request_list, calls, toScan>>
    BY <1>3, Zenon DEF worker_start, sem_taken, sem_timeout, worker_timedout,
                worker_notify, elemVars, listVars, mainVars
  <2>2. /\ \A u \in Thread : pc'[u] \in Holding => pc'[u] = pc[u]
        /\ \A u \in Thread : pc'[u] \in Holding => u # t
    <3>1. CASE worker_start(t)
      BY <1>1, <3>1, Zenon DEF worker_start, do_spawn_thread, Holding, ElemTypes
    <3>2. CASE sem_taken(t) \/ sem_timeout(t) \/ worker_timedout(t) \/ worker_notify(t)
      BY <1>1, <3>2, Zenon DEF sem_taken, sem_timeout, worker_timedout, worker_notify,
                        Holding, ElemTypes
    <3> QED
      BY <1>3, <3>1, <3>2, Zenon
  <2>3. \A u \in Thread \ {t} : req'[u] = req[u]
    BY <1>1, <1>3, Zenon DEF worker_start, sem_taken, sem_timeout, worker_timedout,
                      worker_notify, ElemTypes
  <2> QED
    BY <1>2, <2>1, <2>2, <2>3, QuietStep, Zenon
<1>4. CASE worker_take(t)
  BY <1>1, <1>4, TakeStep, Zenon
<1>5. ASSUME NEW v \in Ret, worker_return(t, v)
      PROVE  Elements' /\ [Aio!Next]_Aio!vars
  BY <1>1, <1>5, ReturnStep, Zenon
<1>6. CASE worker_store(t)
  BY <1>1, <1>6, StoreStep, Zenon
<1>7. CASE worker_done(t)
  BY <1>1, <1>7, DoneStep, Zenon
<1> QED
  BY <1>3, <1>4, <1>5, <1>6, <1>7, Zenon DEF worker_thread

\* One step of the pool is one step of the abstract specification or none.
LEMMA StepSimulation ==
  TypeOK /\ Elements /\ [Next]_vars => Elements' /\ [Aio!Next]_Aio!vars
<1> SUFFICES ASSUME TypeOK, Elements, [Next]_vars
             PROVE  Elements' /\ [Aio!Next]_Aio!vars
  BY Zenon
<1>1. CASE UNCHANGED vars
  <2>1. /\ UNCHANGED <<state, ret, result, head, request_list, calls, toScan>>
        /\ UNCHANGED <<pc, req>>
    BY <1>1, Zenon DEF vars, elemVars, listVars, mainVars, workerVars
  <2> QED
    BY <2>1, QuietStep, Zenon DEF Elements, HeadOwns
<1> QED
  BY <1>1, MainStep, WorkerStep, Zenon DEF Next

\* The initial states of the pool are initial states of the abstract
\* specification.
LEMMA InitSimulation == Init => Elements /\ Aio!Init
<1> SUFFICES ASSUME Init PROVE Elements /\ Aio!Init
  BY Zenon
<1>1. /\ state = [r \in Req |-> "FREE"] /\ head = {} /\ toScan = {}
      /\ request_list = <<>> /\ calls = <<>> /\ pc = [t \in Thread |-> "none"]
      /\ result \in [Req -> Ret]
  BY Zenon DEF Init
<1>2. QueueOwns
  BY <1>1, ListEmpty, Zenon DEF QueueOwns
<1>3. WorkerOwns /\ HeadOwns
  BY <1>1, Zenon DEF WorkerOwns, HeadOwns, Holding
<1>4. CallOwns /\ given = {}
  BY <1>1 DEF CallOwns, given
<1>5. phase = [r \in Req |-> "free"]
  BY <1>1, Zenon DEF phase
<1> QED
  BY <1>1, <1>2, <1>3, <1>4, <1>5, Zenon DEF Elements, Aio!Init

\* Each element has exactly one owner: the queue while QUEUED, one worker while
\* ACTIVE, `head' until the scan, and then the frame of its callback.
THEOREM ElementsAreOwned == Spec => []Elements
<1> QED
  BY TypeCorrect, InitSimulation, StepSimulation, PTL DEF Spec

\* thread-pool.c implements the abstract life of an asynchronous request: the
\* function runs once, the callback once and with what the function returned; a
\* cancelled request runs neither.
THEOREM PoolImplementsAioRequests == Spec => ImplementsAioRequests
<1>1. Spec => []TypeOK /\ []Elements
  BY TypeCorrect, ElementsAreOwned, PTL
<1> QED
  BY <1>1, InitSimulation, StepSimulation, PTL
     DEF Spec, ImplementsAioRequests, Aio!Spec
=============================================================================
