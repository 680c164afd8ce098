------------------------ MODULE AioContextInvariant ------------------------
(***************************************************************************)
(* What the event loop promises while callbacks change its lists and call  *)
(* aio_poll again, for any number of bottom halves, handlers, descriptors  *)
(* and nested calls.                                                       *)
(***************************************************************************)
EXTENDS AioContext, FiniteSetTheorems, SequenceTheorems, TLAPS

-----------------------------------------------------------------------------
(* Sequences. *)

\* The elements of a sequence.
LEMMA SeqElements ==
  ASSUME NEW S, NEW s \in Seq(S)
  PROVE  /\ Len(s) \in Nat /\ DOMAIN s = 1 .. Len(s)
         /\ \A i \in 1 .. Len(s) : s[i] \in S
         /\ s = <<>> <=> Len(s) = 0
         /\ s # <<>> => /\ 1 \in 1 .. Len(s) /\ Head(s) = s[1] /\ Head(s) \in S
                        /\ Len(s) \in Nat \ {0}
  OBVIOUS

\* An element is put in front.
LEMMA SeqPrepend ==
  ASSUME NEW S, NEW s \in Seq(S), NEW x \in S
  PROVE  LET t == <<x>> \o s
         IN  /\ t \in Seq(S) /\ t # <<>> /\ Len(t) = Len(s) + 1 /\ t[1] = x
             /\ \A i \in 1 .. Len(s) : t[i + 1] = s[i]
             /\ \A i \in 2 .. Len(s) + 1 : i - 1 \in 1 .. Len(s) /\ t[i] = s[i - 1]
<1> DEFINE t == <<x>> \o s
<1>1. /\ <<x>> \in Seq(S) /\ Len(<<x>>) = 1 /\ <<x>>[1] = x /\ Len(s) \in Nat
  BY LenProperties
<1>2. /\ t \in Seq(S) /\ Len(t) = Len(s) + 1
      /\ \A i \in 1 .. 1 + Len(s) : t[i] = IF i <= 1 THEN <<x>>[i] ELSE s[i - 1]
  BY <1>1, ConcatProperties
<1> HIDE DEF t
<1>3. t # <<>>
  BY <1>1, <1>2, EmptySeq
<1> QED
  BY <1>1, <1>2, <1>3 DEF t

\* The first element is removed.
LEMMA SeqTail ==
  ASSUME NEW S, NEW s \in Seq(S), s # <<>>
  PROVE  /\ Tail(s) \in Seq(S) /\ Len(Tail(s)) = Len(s) - 1
         /\ \A i \in 1 .. Len(s) - 1 : Tail(s)[i] = s[i + 1]
  BY HeadTailProperties, SeqElements, Zenon

\* The first element is replaced.
LEMMA SeqTop ==
  ASSUME NEW S, NEW s \in Seq(S), s # <<>>, NEW x \in S
  PROVE  LET t == <<x>> \o Tail(s)
         IN  /\ t \in Seq(S) /\ t # <<>> /\ Len(t) = Len(s) /\ t[1] = x
             /\ \A i \in 2 .. Len(s) : t[i] = s[i]
<1> DEFINE r == Tail(s)
           t == <<x>> \o r
<1>1. /\ r \in Seq(S) /\ Len(r) = Len(s) - 1 /\ Len(s) \in Nat \ {0}
      /\ \A i \in 1 .. Len(s) - 1 : r[i] = s[i + 1]
  BY SeqTail, SeqElements
<1> HIDE DEF r
<1>2. /\ t \in Seq(S) /\ t # <<>> /\ Len(t) = Len(r) + 1 /\ t[1] = x
      /\ \A i \in 2 .. Len(r) + 1 : i - 1 \in 1 .. Len(r) /\ t[i] = r[i - 1]
  BY <1>1, SeqPrepend
<1> HIDE DEF t
<1> QED
  BY <1>1, <1>2 DEF r, t

\* Equal lengths and elements.
LEMMA SeqOne ==
  ASSUME NEW S, NEW x \in S
  PROVE  <<x>> \in Seq(S) /\ Len(<<x>>) = 1 /\ <<x>>[1] = x /\ <<x>> = <<x>> \o <<>>
  OBVIOUS

-----------------------------------------------------------------------------
(* The lists of the context. *)

Distinct(list) == \A i, j \in 1 .. Len(list) : list[i] = list[j] => i = j

\* y is in the list, at x or behind it.
From(list, x, y) == \E i, j \in 1 .. Len(list) : i <= j /\ list[i] = x /\ list[j] = y

\* A list and its elements.
LEMMA ListBasics ==
  ASSUME NEW S, NEW list \in Seq(S)
  PROVE  /\ \A x : Listed(x, list) <=> \E i \in 1 .. Len(list) : list[i] = x
         /\ \A x : Listed(x, list) => x \in S /\ list # <<>> /\ From(list, x, x)
         /\ \A x, y : From(list, x, y) => Listed(x, list) /\ Listed(y, list)
<1>1. /\ Len(list) \in Nat /\ DOMAIN list = 1 .. Len(list)
      /\ \A i \in 1 .. Len(list) : list[i] \in S
      /\ list = <<>> <=> Len(list) = 0
  BY SeqElements, Zenon
<1>2. \A x : Listed(x, list) <=> \E i \in 1 .. Len(list) : list[i] = x
  BY <1>1, Zenon DEF Listed
<1>3. ASSUME NEW x, Listed(x, list) PROVE x \in S /\ list # <<>> /\ From(list, x, x)
  <2>1. PICK i \in 1 .. Len(list) : list[i] = x
    BY <1>2, <1>3, Zenon
  <2>2. i <= i /\ Len(list) # 0
    BY <1>1, <2>1
  <2> QED
    BY <1>1, <2>1, <2>2, Zenon DEF From
<1>4. \A x, y : From(list, x, y) => Listed(x, list) /\ Listed(y, list)
  BY <1>2, Zenon DEF From
<1> QED
  BY <1>2, <1>3, <1>4, Zenon

\* The first element of a list is before all others.
LEMMA ListFirst ==
  ASSUME NEW S, NEW list \in Seq(S), Null \notin S
  PROVE  /\ First(list) \in S \cup {Null}
         /\ First(list) # Null => Listed(First(list), list)
         /\ \A y : Listed(y, list) => First(list) # Null /\ From(list, First(list), y)
<1>1. CASE list = <<>>
  BY <1>1, ListBasics, Zenon DEF First
<1>2. CASE list # <<>>
  <2>1. /\ Len(list) \in Nat \ {0} /\ 1 \in 1 .. Len(list) /\ list[1] \in S
        /\ First(list) = list[1] /\ \A i \in 1 .. Len(list) : 1 <= i
    BY <1>2, SeqElements DEF First
  <2>2. Listed(list[1], list)
    BY <2>1, ListBasics, Zenon
  <2>3. ASSUME NEW y, Listed(y, list) PROVE From(list, list[1], y)
    <3>1. PICK j \in 1 .. Len(list) : list[j] = y
      BY <2>3, ListBasics, Zenon
    <3> QED
      BY <2>1, <3>1, Zenon DEF From
  <2>4. list[1] # Null
    BY <2>1, Zenon
  <2> QED
    BY <2>1, <2>2, <2>3, <2>4, Zenon
<1> QED
  BY <1>1, <1>2, Zenon

\* The next element: what is behind an element is at the next one or behind it.
LEMMA ListAfter ==
  ASSUME NEW S, NEW list \in Seq(S), Null \notin S, Distinct(list),
         NEW x, Listed(x, list)
  PROVE  LET n == After(list, x)
         IN  /\ n \in S \cup {Null} /\ n # x
             /\ n # Null => Listed(n, list)
             /\ \A y : From(list, x, y) /\ y # x => n # Null /\ From(list, n, y)
<1> DEFINE i == CHOOSE k \in DOMAIN list : list[k] = x
           l == Len(list)
<1>1. /\ l \in Nat /\ DOMAIN list = 1 .. l /\ \A k \in 1 .. l : list[k] \in S
  BY SeqElements, Zenon
<1>2. i \in 1 .. l /\ list[i] = x /\ x \in S
  BY <1>1, Zenon DEF Listed
<1>3. After(list, x) = IF i = l THEN Null ELSE list[i + 1]
  BY Zenon DEF After
<1>4. \A j, k \in 1 .. l : list[j] = list[k] => j = k
  BY Zenon DEF Distinct
<1> HIDE DEF i, l
<1>5. i # l => i + 1 \in 1 .. l /\ i + 1 # i
  BY <1>1, <1>2
<1>6. CASE i = l
  <2>1. ASSUME NEW y, From(list, x, y) PROVE y = x
    <3>1. PICK j, k \in 1 .. l : j <= k /\ list[j] = x /\ list[k] = y
      BY <2>1, Zenon DEF From, l
    <3>2. j = i
      BY <1>2, <1>4, <3>1, Zenon
    <3>3. k = i
      BY <1>1, <1>6, <3>1, <3>2
    <3> QED
      BY <1>2, <3>1, <3>3, Zenon
  <2> QED
    BY <1>2, <1>3, <1>6, <2>1, Zenon
<1>7. CASE i # l
  <2>1. After(list, x) = list[i + 1] /\ list[i + 1] \in S /\ list[i + 1] # x
    BY <1>1, <1>2, <1>3, <1>4, <1>5, <1>7, Zenon
  <2>2. Listed(list[i + 1], list) /\ list[i + 1] # Null
    BY <1>1, <1>5, <1>7, <2>1, Zenon DEF Listed
  <2>3. ASSUME NEW y, From(list, x, y), y # x PROVE From(list, list[i + 1], y)
    <3>1. PICK j, k \in 1 .. l : j <= k /\ list[j] = x /\ list[k] = y
      BY <2>3, Zenon DEF From, l
    <3>2. j = i /\ k # i
      BY <1>2, <1>4, <2>3, <3>1, Zenon
    <3>3. i + 1 <= k
      BY <1>1, <3>1, <3>2
    <3> QED
      BY <1>5, <1>7, <3>1, <3>3, Zenon DEF From, l
  <2> QED
    BY <2>1, <2>2, <2>3, Zenon
<1> QED
  BY <1>6, <1>7, Zenon

\* An element is linked in at the head.
LEMMA ListPrepend ==
  ASSUME NEW S, NEW list \in Seq(S), NEW x \in S
  PROVE  LET t == <<x>> \o list
         IN  /\ t \in Seq(S)
             /\ \A y : Listed(y, t) <=> y = x \/ Listed(y, list)
             /\ \A y, z : From(list, y, z) => From(t, y, z)
             /\ Distinct(list) /\ ~Listed(x, list) => Distinct(t)
<1> DEFINE t == <<x>> \o list
           l == Len(list)
<1>1. /\ t \in Seq(S) /\ Len(t) = l + 1 /\ t[1] = x /\ l \in Nat
      /\ \A i \in 1 .. l : t[i + 1] = list[i]
      /\ \A i \in 2 .. l + 1 : i - 1 \in 1 .. l /\ t[i] = list[i - 1]
  BY SeqPrepend, SeqElements
<1> HIDE DEF t
<1>2. /\ \A y : Listed(y, list) <=> \E i \in 1 .. l : list[i] = y
      /\ \A y : Listed(y, t) <=> \E i \in 1 .. l + 1 : t[i] = y
  <2>1. t \in Seq(S) /\ Len(t) = l + 1
    BY <1>1, Zenon
  <2>2. \A y : Listed(y, t) <=> \E i \in 1 .. Len(t) : t[i] = y
    BY <2>1, ListBasics, Zenon
  <2>3. \A y : Listed(y, list) <=> \E i \in 1 .. l : list[i] = y
    BY ListBasics, Zenon
  <2> QED
    BY <2>1, <2>2, <2>3, Zenon
<1>3. /\ \A i \in 1 .. l : i + 1 \in 1 .. l + 1
      /\ \A i \in 1 .. l + 1 : i = 1 \/ i \in 2 .. l + 1
      /\ 1 \in 1 .. l + 1
      /\ \A i, j \in 1 .. l : i <= j => i + 1 <= j + 1
      /\ \A i, j \in 2 .. l + 1 : i - 1 = j - 1 => i = j
  BY <1>1
<1> HIDE DEF l
<1>4. ASSUME NEW y PROVE Listed(y, t) <=> y = x \/ Listed(y, list)
  <2>1. ASSUME Listed(y, t) PROVE y = x \/ Listed(y, list)
    <3>1. PICK i \in 1 .. l + 1 : t[i] = y
      BY <1>2, <2>1, Zenon
    <3>2. CASE i \in 2 .. l + 1
      BY <1>1, <1>2, <3>1, <3>2, Zenon
    <3> QED
      BY <1>1, <1>3, <3>1, <3>2, Zenon
  <2>2. ASSUME y = x PROVE Listed(y, t)
    BY <1>1, <1>2, <1>3, <2>2, Zenon
  <2>3. ASSUME Listed(y, list) PROVE Listed(y, t)
    <3>1. PICK i \in 1 .. l : list[i] = y
      BY <1>2, <2>3, Zenon
    <3>2. i + 1 \in 1 .. l + 1 /\ t[i + 1] = y
      BY <1>1, <1>3, <3>1, Zenon
    <3> QED
      BY <1>2, <3>2, Zenon
  <2> QED
    BY <2>1, <2>2, <2>3, Zenon
<1>5. ASSUME NEW y, NEW z, From(list, y, z) PROVE From(t, y, z)
  <2>1. PICK i, j \in 1 .. l : i <= j /\ list[i] = y /\ list[j] = z
    BY <1>5, Zenon DEF From, l
  <2>2. /\ i + 1 \in 1 .. l + 1 /\ j + 1 \in 1 .. l + 1 /\ i + 1 <= j + 1
        /\ t[i + 1] = y /\ t[j + 1] = z
    BY <1>1, <1>3, <2>1, Zenon
  <2> QED
    BY <1>1, <2>2, Zenon DEF From
<1>6. ASSUME Distinct(list), ~Listed(x, list) PROVE Distinct(t)
  <2>1. ASSUME NEW i \in 1 .. l + 1, NEW j \in 1 .. l + 1, t[i] = t[j] PROVE i = j
    <3>1. \A k \in 2 .. l + 1 : t[k] # x
      BY <1>1, <1>2, <1>6, Zenon
    <3>2. CASE i \in 2 .. l + 1 /\ j \in 2 .. l + 1
      <4>1. list[i - 1] = list[j - 1] /\ i - 1 \in 1 .. l /\ j - 1 \in 1 .. l
        BY <1>1, <2>1, <3>2, Zenon
      <4>2. i - 1 = j - 1
        BY <1>6, <4>1, Zenon DEF Distinct, l
      <4> QED
        BY <1>3, <3>2, <4>2, Zenon
    <3> QED
      BY <1>1, <1>3, <2>1, <3>1, <3>2, Zenon
  <2> QED
    BY <1>1, <2>1, Zenon DEF Distinct
<1> QED
  BY <1>1, <1>4, <1>5, <1>6, Zenon DEF t

\* Elements are unlinked: the others stay, in their order.
LEMMA ListWithout ==
  ASSUME NEW S, NEW list \in Seq(S), NEW R
  PROVE  LET w == Without(list, R)
         IN  /\ w \in Seq(S)
             /\ \A y : Listed(y, w) <=> Listed(y, list) /\ y \notin R
             /\ \A y, z : From(list, y, z) /\ y \notin R /\ z \notin R => From(w, y, z)
             /\ Distinct(list) => Distinct(w)
<1> DEFINE l == Len(list)
           kept == {i \in DOMAIN list : list[i] \notin R}
           upto(i) == {j \in kept : j <= i}
           place(i) == Cardinality(upto(i))
           p == [i \in kept |-> place(i)]
           c == Cardinality(kept)
           w == Without(list, R)
<1>1. l \in Nat /\ DOMAIN list = 1 .. l /\ \A i \in 1 .. l : list[i] \in S
  BY SeqElements, Zenon
<1>2. kept \subseteq 1 .. l /\ IsFiniteSet(1 .. l)
  BY <1>1, FS_Interval
<1>3. IsFiniteSet(kept) /\ c \in Nat
  BY <1>2, FS_Subset, FS_CardinalityType, Zenon
<1>4. \A i \in kept : /\ i \in 1 .. l /\ list[i] \notin R /\ list[i] \in S
                      /\ upto(i) \subseteq kept /\ i \in upto(i)
  BY <1>1
<1>5. /\ w = [k \in 1 .. c |-> list[CHOOSE i \in kept : place(i) = k]]
      /\ \A i \in kept : p[i] = place(i)
  BY Zenon DEF Without
<1>6. ASSUME NEW i \in kept PROVE p[i] \in 1 .. c /\ IsFiniteSet(upto(i))
  <2>1. IsFiniteSet(upto(i)) /\ Cardinality(upto(i)) <= c /\ Cardinality(upto(i)) \in Nat
    BY <1>3, <1>4, FS_Subset, FS_CardinalityType, Zenon
  <2>2. Cardinality(upto(i)) # 0
    BY <1>4, <2>1, FS_EmptySet, Zenon
  <2>3. p[i] = Cardinality(upto(i))
    BY Zenon
  <2> HIDE DEF p, c, upto
  <2> QED
    BY <1>3, <2>1, <2>2, <2>3
<1>7. ASSUME NEW i \in kept, NEW j \in kept, i < j PROVE p[i] < p[j]
  <2>1. upto(i) \subseteq upto(j) /\ j \in upto(j) /\ j \notin upto(i)
    BY <1>1, <1>4, <1>7
  <2>2. /\ Cardinality(upto(i)) <= Cardinality(upto(j))
        /\ Cardinality(upto(i)) # Cardinality(upto(j))
    BY <1>6, <2>1, FS_Subset, Zenon
  <2>3. p[i] = Cardinality(upto(i)) /\ p[j] = Cardinality(upto(j))
    BY Zenon
  <2>4. p[i] \in 1 .. c /\ p[j] \in 1 .. c
    BY <1>6, Zenon
  <2> HIDE DEF p, c, upto
  <2> QED
    BY <1>3, <2>2, <2>3, <2>4
<1>8. \A i \in 1 .. l : list[i] \notin R => i \in kept
  BY <1>1, Zenon
<1> HIDE DEF p, w, place, upto, kept, c
<1>9. \A i, j \in kept : p[i] = p[j] => i = j
  <2>1. ASSUME NEW i \in kept, NEW j \in kept, p[i] = p[j], i # j PROVE FALSE
    <3>1. i < j \/ j < i
      BY <1>1, <1>4, <2>1
    <3>2. p[i] < p[j] \/ p[j] < p[i]
      BY <1>7, <3>1, Zenon
    <3>3. p[i] \in 1 .. c
      BY <1>6, Zenon
    <3> QED
      BY <1>3, <2>1, <3>2, <3>3
  <2> QED
    BY <2>1, Zenon
<1>10. \A k \in 1 .. c : \E i \in kept : p[i] = k
  <2>1. p \in [kept -> 1 .. c] /\ DOMAIN p = kept
    BY <1>6, Zenon DEF p
  <2>2. p \in Injection(kept, 1 .. c)
    BY <1>9, <2>1, Zenon DEF Injection, IsInjective
  <2>3. IsFiniteSet(1 .. c) /\ Cardinality(1 .. c) = c
    BY <1>3, FS_Interval
  <2>4. p \in Surjection(kept, 1 .. c)
    BY <1>3, <2>2, <2>3, FS_Injection, Zenon DEF c
  <2> QED
    BY <2>4, Zenon DEF Surjection
<1>11. \A i \in kept : p[i] \in 1 .. c /\ w[p[i]] = list[i]
  <2>1. ASSUME NEW i \in kept PROVE w[p[i]] = list[i]
    <3> DEFINE m == CHOOSE j \in kept : place(j) = p[i]
    <3>1. m \in kept /\ place(m) = p[i]
      BY <1>5, Zenon
    <3>2. w[p[i]] = list[m]
      BY <1>5, <1>6, Zenon
    <3> HIDE DEF m
    <3>3. m = i
      BY <1>5, <1>9, <3>1, Zenon
    <3> QED
      BY <3>2, <3>3, Zenon
  <2> QED
    BY <1>6, <2>1, Zenon
<1>12. w \in Seq(S) /\ Len(w) = c
  <2>1. ASSUME NEW k \in 1 .. c PROVE list[CHOOSE i \in kept : place(i) = k] \in S
    <3>1. (CHOOSE i \in kept : place(i) = k) \in kept
      BY <1>5, <1>10, Zenon
    <3> QED
      BY <1>4, <3>1, Zenon
  <2>2. w \in [1 .. c -> S]
    BY <1>5, <2>1, Zenon
  <2> QED
    BY <1>3, <2>2, IsASeq, LenProperties
<1>13. \A k \in 1 .. c : \E i \in kept : p[i] = k /\ w[k] = list[i]
  <2> SUFFICES ASSUME NEW k \in 1 .. c PROVE \E i \in kept : p[i] = k /\ w[k] = list[i]
    BY Zenon
  <2>1. PICK i \in kept : p[i] = k
    BY <1>10, Zenon
  <2> QED
    BY <1>11, <2>1, Zenon
<1>14. /\ \A y : Listed(y, list) <=> \E i \in 1 .. l : list[i] = y
       /\ \A y : Listed(y, w) <=> \E i \in 1 .. c : w[i] = y
  BY <1>12, ListBasics, Zenon
<1>15. \A y : Listed(y, w) <=> Listed(y, list) /\ y \notin R
  <2>1. ASSUME NEW y, Listed(y, w) PROVE Listed(y, list) /\ y \notin R
    <3>1. PICK k \in 1 .. c : w[k] = y
      BY <1>14, <2>1, Zenon
    <3>2. PICK i \in kept : w[k] = list[i]
      BY <1>13, Zenon
    <3> QED
      BY <1>4, <1>14, <3>1, <3>2, Zenon
  <2>2. ASSUME NEW y, Listed(y, list), y \notin R PROVE Listed(y, w)
    <3>1. PICK i \in 1 .. l : list[i] = y
      BY <1>14, <2>2, Zenon
    <3> QED
      BY <1>11, <1>14, <1>8, <2>2, <3>1, Zenon
  <2> QED
    BY <2>1, <2>2, Zenon
<1>16. ASSUME NEW y, NEW z, From(list, y, z), y \notin R, z \notin R PROVE From(w, y, z)
  <2>1. PICK i, j \in 1 .. l : i <= j /\ list[i] = y /\ list[j] = z
    BY <1>16, Zenon DEF From
  <2>2. i \in kept /\ j \in kept
    BY <1>8, <1>16, <2>1, Zenon
  <2>3. i < j \/ i = j
    BY <1>1, <2>1
  <2>4. /\ p[i] \in 1 .. c /\ p[j] \in 1 .. c /\ w[p[i]] = y /\ w[p[j]] = z
        /\ p[i] < p[j] \/ p[i] = p[j]
    BY <1>7, <1>11, <2>1, <2>2, <2>3, Zenon
  <2>5. p[i] <= p[j]
    BY <1>3, <2>4
  <2> QED
    BY <1>12, <2>4, <2>5, Zenon DEF From
<1>17. ASSUME Distinct(list) PROVE Distinct(w)
  <2>1. ASSUME NEW k \in 1 .. c, NEW m \in 1 .. c, w[k] = w[m] PROVE k = m
    <3>1. PICK i \in kept : p[i] = k /\ w[k] = list[i]
      BY <1>13, Zenon
    <3>2. PICK j \in kept : p[j] = m /\ w[m] = list[j]
      BY <1>13, Zenon
    <3>3. i = j
      BY <1>4, <1>17, <2>1, <3>1, <3>2, Zenon DEF Distinct
    <3> QED
      BY <3>1, <3>2, <3>3, Zenon
  <2> QED
    BY <1>12, <2>1, Zenon DEF Distinct
<1> QED
  BY <1>12, <1>15, <1>16, <1>17, Zenon DEF w

\* A list of all elements of a set.
LEMMA ListOfSet ==
  ASSUME NEW T, IsFiniteSet(T), NEW S, T \subseteq S
  PROVE  LET q == ListOf(T)
         IN  /\ q \in Seq(S) /\ Distinct(q)
             /\ \A y : Listed(y, q) <=> y \in T
<1> DEFINE q == ListOf(T)
           c == Cardinality(T)
<1>1. c \in Nat /\ ExistsBijection(1 .. c, T)
  BY FS_CardinalityType, Zenon
<1>2. PICK f : f \in Bijection(1 .. c, T)
  BY <1>1, Zenon DEF ExistsBijection
<1>3. q \in Bijection(1 .. c, T)
  BY <1>2, Zenon DEF ListOf
<1>4. q \in [1 .. c -> T] /\ IsInjective(q)
  BY <1>3, Zenon DEF Bijection, Injection
<1> HIDE DEF q
<1>5. q \in Injection(1 .. c, T) /\ DOMAIN q = 1 .. c
  BY <1>4, Zenon DEF Injection
<1> HIDE DEF c
<1>6. Cardinality(1 .. c) = c
  BY <1>1, FS_Interval
<1>7. q \in Surjection(1 .. c, T)
  BY <1>5, <1>6, FS_Injection, Zenon DEF c
<1>8. q \in Seq(S) /\ Len(q) = c
  <2>1. q \in [1 .. c -> S]
    BY <1>4, Zenon
  <2> QED
    BY <1>1, <2>1, IsASeq, LenProperties
<1>9. Distinct(q)
  BY <1>4, <1>5, <1>8, Zenon DEF IsInjective, Distinct
<1>10. \A y : Listed(y, q) <=> y \in T
  BY <1>4, <1>5, <1>7, Zenon DEF Listed, Surjection
<1> QED
  BY <1>8, <1>9, <1>10, Zenon DEF q

-----------------------------------------------------------------------------
(* The stack of active aio_poll calls, and the walks that they are in. *)

PollPcs == {"enter", "bh", "bhcb", "walk1", "cb1", "end1", "fill", "select",
            "walk2", "cb2", "end2"}
CallbackPcs == {"bhcb", "cb1", "cb2"}

\* A handler is being served: walking_handlers is raised.
ServePcs == {"cb1", "end1", "cb2", "end2"}

Frames == [pc : PollPcs, cur : Bh \cup Node \cup {Null}, blocking : BOOLEAN,
           progress : BOOLEAN, rdfds : SUBSET (Fd \cup {NFd}), noted : BOOLEAN]

\* How many calls are at one of the program points P.
Calling(s, P) == {i \in 1 .. Len(s) : s[i].pc \in P}
Num(s, P) == Cardinality(Calling(s, P))

\* The calls below the innermost one.
Outer(s, P) == {i \in 2 .. Len(s) : s[i].pc \in P}

\* The number of calls is at most the depth of the stack; it is zero, or one with
\* the innermost call, when no other call is there.
LEMMA NumBasics ==
  ASSUME NEW s \in Seq(Frames), NEW P
  PROVE  /\ Num(s, P) \in 0 .. Len(s) /\ Num(<<>>, P) = 0
         /\ Num(s, P) = 0 => \A i \in 1 .. Len(s) : s[i].pc \notin P
         /\ IsFiniteSet(Outer(s, P)) /\ Cardinality(Outer(s, P)) \in Nat
         /\ Cardinality(Outer(s, P)) = 0 => \A i \in 2 .. Len(s) : s[i].pc \notin P
         /\ s # <<>> => Num(s, P) = Cardinality(Outer(s, P)) +
                                      (IF s[1].pc \in P THEN 1 ELSE 0)
<1> DEFINE l == Len(s)
           C == Calling(s, P)
           O == Outer(s, P)
<1>1. l \in Nat /\ (s # <<>> => l \in Nat \ {0})
  BY SeqElements, Zenon
<1>2. IsFiniteSet(1 .. l) /\ Cardinality(1 .. l) = l
  <2> HIDE DEF l
  <2> QED
    BY <1>1, FS_Interval
<1>3. C \subseteq 1 .. l /\ O \subseteq 1 .. l /\ 1 \notin O
  BY <1>1 DEF Calling, Outer
<1>4. IsFiniteSet(C) /\ Cardinality(C) <= l /\ Cardinality(C) \in Nat
  BY <1>2, <1>3, FS_Subset, FS_CardinalityType, Zenon
<1>5. IsFiniteSet(O) /\ Cardinality(O) \in Nat
  BY <1>2, <1>3, FS_Subset, FS_CardinalityType, Zenon
<1>6. Calling(<<>>, P) = {}
  BY DEF Calling
<1>7. Num(<<>>, P) = 0
  BY <1>6, FS_EmptySet, Zenon DEF Num
<1>8. /\ Cardinality(C) = 0 => C = {}
      /\ Cardinality(O) = 0 => O = {}
  BY <1>4, <1>5, FS_EmptySet, Zenon
<1>9. ASSUME s # <<>>
      PROVE  /\ s[1].pc \in P => C = O \cup {1}
             /\ s[1].pc \notin P => C = O
  <2>1. \A i : i \in 1 .. Len(s) <=> i = 1 \/ i \in 2 .. Len(s)
    BY <1>1, <1>9
  <2>2. \A i : i \in C <=> (i = 1 /\ s[1].pc \in P) \/ i \in O
    BY <2>1, Zenon DEF Calling, Outer
  <2> QED
    BY <2>2, Zenon
<1>10. Cardinality(O \cup {1}) = Cardinality(O) + 1
  BY <1>3, <1>5, FS_AddElement, Zenon
<1>11. s # <<>> => Cardinality(C) = Cardinality(O) + (IF s[1].pc \in P THEN 1 ELSE 0)
  <2> HIDE DEF C, O
  <2>1. CASE s[1].pc \in P
    BY <1>9, <1>10, <2>1, Zenon
  <2>2. CASE s[1].pc \notin P
    BY <1>5, <1>9, <2>2
  <2> QED
    BY <2>1, <2>2, Zenon
<1>12. /\ Cardinality(C) = 0 => \A i \in 1 .. Len(s) : s[i].pc \notin P
       /\ Cardinality(O) = 0 => \A i \in 2 .. Len(s) : s[i].pc \notin P
  BY <1>8, Zenon DEF Calling, Outer
<1>13. Num(s, P) = Cardinality(C) /\ Num(s, P) \in 0 .. Len(s)
  <2>1. Num(s, P) = Cardinality(C)
    BY Zenon DEF Num
  <2> HIDE DEF C
  <2> QED
    BY <1>1, <1>4, <2>1
<1> QED
  BY <1>5, <1>7, <1>11, <1>12, <1>13, Zenon

\* The innermost call moves.
LEMMA NumTop ==
  ASSUME NEW s \in Seq(Frames), NEW t \in Seq(Frames), s # <<>>, t # <<>>, NEW P,
         Len(t) = Len(s), \A i \in 2 .. Len(s) : t[i].pc = s[i].pc
  PROVE  /\ s[1].pc \in P <=> t[1].pc \in P => Num(t, P) = Num(s, P)
         /\ s[1].pc \in P /\ t[1].pc \notin P => Num(t, P) = Num(s, P) - 1
         /\ s[1].pc \notin P /\ t[1].pc \in P => Num(t, P) = Num(s, P) + 1
<1>1. Outer(t, P) = Outer(s, P)
  BY Zenon DEF Outer
<1>2. /\ Num(s, P) = Cardinality(Outer(s, P)) + (IF s[1].pc \in P THEN 1 ELSE 0)
      /\ Num(t, P) = Cardinality(Outer(s, P)) + (IF t[1].pc \in P THEN 1 ELSE 0)
      /\ Cardinality(Outer(s, P)) \in Nat
  <2>1. /\ Num(s, P) = Cardinality(Outer(s, P)) + (IF s[1].pc \in P THEN 1 ELSE 0)
        /\ Cardinality(Outer(s, P)) \in Nat
    BY NumBasics, Zenon
  <2>2. Num(t, P) = Cardinality(Outer(t, P)) + (IF t[1].pc \in P THEN 1 ELSE 0)
    BY NumBasics, Zenon
  <2> QED
    BY <1>1, <2>1, <2>2, Zenon
<1> QED
  BY <1>2

\* A call begins.
LEMMA NumPush ==
  ASSUME NEW s \in Seq(Frames), NEW t \in Seq(Frames), t # <<>>, NEW P,
         Len(t) = Len(s) + 1, \A i \in 1 .. Len(s) : t[i + 1].pc = s[i].pc
  PROVE  Num(t, P) = Num(s, P) + (IF t[1].pc \in P THEN 1 ELSE 0)
<1> DEFINE C == Calling(s, P)
           O == Outer(t, P)
           f == [i \in C |-> i + 1]
<1>1. Len(s) \in Nat
  BY SeqElements, Zenon
<1>2. C \subseteq Nat /\ \A i \in C : i + 1 \in O
  BY <1>1 DEF Calling, Outer
<1>3. ASSUME NEW j \in O PROVE \E i \in C : i + 1 = j
  <2>1. j \in 2 .. Len(s) + 1 /\ t[j].pc \in P
    BY <1>3, Zenon DEF Outer
  <2>2. j - 1 \in 1 .. Len(s) /\ (j - 1) + 1 = j
    BY <1>1, <2>1
  <2>3. s[j - 1].pc \in P
    BY <2>1, <2>2, Zenon
  <2> QED
    BY <2>2, <2>3, Zenon DEF Calling
<1>4. \A i, j \in C : i + 1 = j + 1 => i = j
  BY <1>2
<1>5. f \in [C -> O] /\ DOMAIN f = C /\ \A i \in C : f[i] = i + 1
  BY <1>2, Zenon
<1> HIDE DEF f
<1>6. f \in Bijection(C, O)
  <2>1. \A i, j \in C : f[i] = f[j] => i = j
    BY <1>4, <1>5, Zenon
  <2>2. f \in Injection(C, O)
    BY <1>5, <2>1, Zenon DEF Injection, IsInjective
  <2>3. f \in Surjection(C, O)
    BY <1>3, <1>5, Zenon DEF Surjection
  <2> QED
    BY <2>2, <2>3, Zenon DEF Bijection
<1>7. ExistsBijection(C, O)
  BY <1>6, Zenon DEF ExistsBijection
<1>8. IsFiniteSet(C)
  <2>1. C \subseteq 1 .. Len(s) /\ IsFiniteSet(1 .. Len(s))
    BY <1>1, FS_Interval DEF Calling
  <2> QED
    BY <2>1, FS_Subset, Zenon
<1>9. Cardinality(O) = Num(s, P)
  BY <1>7, <1>8, FS_Bijection, Zenon DEF Num
<1>10. Num(t, P) = Cardinality(O) + (IF t[1].pc \in P THEN 1 ELSE 0)
  BY NumBasics, Zenon
<1> HIDE DEF O
<1> QED
  BY <1>9, <1>10, Zenon

\* A call returns.
LEMMA NumPop ==
  ASSUME NEW s \in Seq(Frames), s # <<>>, NEW P
  PROVE  /\ s[1].pc \notin P => Num(Tail(s), P) = Num(s, P)
         /\ s[1].pc \in P => Num(Tail(s), P) = Num(s, P) - 1
<1>1. /\ Tail(s) \in Seq(Frames) /\ Len(Tail(s)) = Len(s) - 1 /\ Len(s) \in Nat
      /\ \A i \in 1 .. Len(s) - 1 : Tail(s)[i] = s[i + 1]
  BY SeqTail, SeqElements, Zenon
<1> DEFINE t == Tail(s)
<1> HIDE DEF t
<1>2. t \in Seq(Frames) /\ Len(s) = Len(t) + 1 /\ \A i \in 1 .. Len(t) : s[i + 1].pc = t[i].pc
  BY <1>1 DEF t
<1>3. Num(s, P) = Num(t, P) + (IF s[1].pc \in P THEN 1 ELSE 0)
  BY <1>2, NumPush
<1>4. Num(t, P) \in Nat
  <2>1. Num(t, P) \in 0 .. Len(t) /\ Len(t) \in Nat
    BY <1>2, NumBasics, SeqElements, Zenon
  <2> QED
    BY <2>1
<1>5. /\ s[1].pc \notin P => Num(t, P) = Num(s, P)
      /\ s[1].pc \in P => Num(t, P) = Num(s, P) - 1
  BY <1>3, <1>4
<1> QED
  BY <1>5, Zenon DEF t

\* What call f points to is in its list.
Safe(f, bl, hl) ==
  /\ f.pc \in BhPcs /\ f.cur # Null => Listed(f.cur, bl)
  /\ f.pc \in WalkPcs /\ f.cur # Null => Listed(f.cur, hl)
  /\ f.pc \in ServePcs => f.cur # Null

\* All but the innermost call are in a callback, the counters are the numbers of
\* walks, and no call has a pointer into nowhere.
StackInv(s, bl, hl, wb, wh) ==
  /\ s \in Seq(Frames) /\ Len(s) <= MaxDepth
  /\ bl \in Seq(Bh) /\ hl \in Seq(Node) /\ Distinct(bl) /\ Distinct(hl)
  /\ wb = Num(s, BhPcs) /\ wh = Num(s, ServePcs)
  /\ \A i \in 2 .. Len(s) : s[i].pc \in CallbackPcs
  /\ \A i \in 1 .. Len(s) : Safe(s[i], bl, hl)

\* A call counts in the counter of the walks P.
Counted(f, P) == IF f.pc \in P THEN 1 ELSE 0

\* The lists grow.
LEMMA StackGrows ==
  ASSUME NEW s, NEW bl, NEW hl, NEW wb, NEW wh, StackInv(s, bl, hl, wb, wh),
         NEW bm \in Seq(Bh), NEW hm \in Seq(Node), Distinct(bm), Distinct(hm),
         \A x : Listed(x, bl) => Listed(x, bm), \A x : Listed(x, hl) => Listed(x, hm)
  PROVE  StackInv(s, bm, hm, wb, wh)
  BY Zenon DEF StackInv, Safe

\* Elements are unlinked that no call points to.
LEMMA StackShrinks ==
  ASSUME NEW s, NEW bl, NEW hl, NEW wb, NEW wh, StackInv(s, bl, hl, wb, wh),
         NEW bm \in Seq(Bh), NEW hm \in Seq(Node), Distinct(bm), Distinct(hm),
         \A i \in 1 .. Len(s) : Safe(s[i], bm, hm)
  PROVE  StackInv(s, bm, hm, wb, wh)
  BY Zenon DEF StackInv

\* The innermost call goes on.
LEMMA StackMoves ==
  ASSUME NEW s, NEW bl, NEW hl, NEW wb, NEW wh, StackInv(s, bl, hl, wb, wh), s # <<>>,
         NEW t \in Seq(Frames), t # <<>>, Len(t) = Len(s), Safe(t[1], bl, hl),
         \A i \in 2 .. Len(s) : t[i].pc = s[i].pc /\ t[i].cur = s[i].cur,
         NEW wb2, wb2 = wb - Counted(s[1], BhPcs) + Counted(t[1], BhPcs),
         NEW wh2, wh2 = wh - Counted(s[1], ServePcs) + Counted(t[1], ServePcs)
  PROVE  StackInv(t, bl, hl, wb2, wh2)
<1>1. s \in Seq(Frames) /\ wb = Num(s, BhPcs) /\ wh = Num(s, ServePcs)
  BY Zenon DEF StackInv
<1>2. \A P : Num(t, P) = Num(s, P) - Counted(s[1], P) + Counted(t[1], P)
  <2> TAKE P
  <2>1. /\ s[1].pc \in P <=> t[1].pc \in P => Num(t, P) = Num(s, P)
        /\ s[1].pc \in P /\ t[1].pc \notin P => Num(t, P) = Num(s, P) - 1
        /\ s[1].pc \notin P /\ t[1].pc \in P => Num(t, P) = Num(s, P) + 1
    BY <1>1, NumTop, Zenon
  <2>2. Num(s, P) \in Nat
    <3>1. Num(s, P) \in 0 .. Len(s) /\ Len(s) \in Nat
      BY <1>1, NumBasics, SeqElements, Zenon
    <3> QED
      BY <3>1
  <2> QED
    BY <2>1, <2>2 DEF Counted
<1>3. wb2 = Num(t, BhPcs) /\ wh2 = Num(t, ServePcs)
  BY <1>1, <1>2, Zenon
<1>4. \A i \in 1 .. Len(s) : i = 1 \/ i \in 2 .. Len(s)
  <2>1. Len(s) \in Nat
    BY <1>1, SeqElements, Zenon
  <2> QED
    BY <2>1
<1>5. ASSUME NEW i \in 1 .. Len(t) PROVE Safe(t[i], bl, hl)
  <2>1. i = 1 \/ (i \in 2 .. Len(s) /\ Safe(s[i], bl, hl))
    BY <1>4, Zenon DEF StackInv
  <2>2. CASE i = 1
    BY <2>2, Zenon
  <2>3. CASE i \in 2 .. Len(s) /\ Safe(s[i], bl, hl)
    <3>1. t[i].pc = s[i].pc /\ t[i].cur = s[i].cur
      BY <2>3, Zenon
    <3> QED
      BY <2>3, <3>1, Zenon DEF Safe
  <2> QED
    BY <2>1, <2>2, <2>3, Zenon
<1> QED
  BY <1>3, <1>5, Zenon DEF StackInv

\* aio_poll is called, by a callback or from outside.
LEMMA StackCalls ==
  ASSUME NEW s, NEW bl, NEW hl, NEW wb, NEW wh, StackInv(s, bl, hl, wb, wh),
         s # <<>> => s[1].pc \in CallbackPcs, Len(s) < MaxDepth, MaxDepth \in Nat,
         NEW f \in Frames, f.pc = "enter"
  PROVE  StackInv(<<f>> \o s, bl, hl, wb, wh)
<1> DEFINE t == <<f>> \o s
<1>1. s \in Seq(Frames) /\ wb = Num(s, BhPcs) /\ wh = Num(s, ServePcs)
  BY Zenon DEF StackInv
<1>2. /\ t \in Seq(Frames) /\ t # <<>> /\ Len(t) = Len(s) + 1 /\ t[1] = f
      /\ \A i \in 1 .. Len(s) : t[i + 1] = s[i]
      /\ \A i \in 2 .. Len(s) + 1 : i - 1 \in 1 .. Len(s) /\ t[i] = s[i - 1]
  BY <1>1, SeqPrepend
<1> HIDE DEF t
<1>3. Len(s) \in Nat /\ (s = <<>> <=> Len(s) = 0)
  BY <1>1, SeqElements, Zenon
<1>4. /\ f.pc \notin BhPcs /\ f.pc \notin ServePcs /\ f.pc \notin WalkPcs
  BY Zenon DEF BhPcs, ServePcs, WalkPcs
<1>5. ASSUME NEW P, f.pc \notin P PROVE Num(t, P) = Num(s, P)
  <2>1. Num(t, P) = Num(s, P) + (IF t[1].pc \in P THEN 1 ELSE 0)
    BY <1>1, <1>2, NumPush
  <2>2. Num(s, P) \in Nat
    <3>1. Num(s, P) \in 0 .. Len(s)
      BY <1>1, NumBasics, Zenon
    <3> QED
      BY <1>3, <3>1
  <2> QED
    BY <1>2, <1>5, <2>1, <2>2
<1>6. wb = Num(t, BhPcs) /\ wh = Num(t, ServePcs)
  BY <1>1, <1>4, <1>5, Zenon
<1>7. ASSUME NEW i \in 2 .. Len(t) PROVE t[i].pc \in CallbackPcs /\ Safe(t[i], bl, hl)
  <2>1. i - 1 \in 1 .. Len(s) /\ t[i] = s[i - 1]
    BY <1>2, Zenon
  <2>2. i - 1 = 1 \/ i - 1 \in 2 .. Len(s)
    BY <1>3, <2>1
  <2>3. Len(s) # 0
    BY <1>3, <2>1
  <2> QED
    BY <1>3, <2>1, <2>2, <2>3, Zenon DEF StackInv
<1>8. Safe(t[1], bl, hl)
  BY <1>2, <1>4, Zenon DEF Safe
<1>9. Len(t) <= MaxDepth /\ \A i \in 1 .. Len(t) : i = 1 \/ i \in 2 .. Len(t)
  BY <1>2, <1>3
<1>10. StackInv(t, bl, hl, wb, wh)
  BY <1>2, <1>6, <1>7, <1>8, <1>9, Zenon DEF StackInv
<1> QED
  BY <1>10, Zenon DEF t

\* aio_poll returns.
LEMMA StackReturns ==
  ASSUME NEW s, NEW bl, NEW hl, NEW wb, NEW wh, StackInv(s, bl, hl, wb, wh), s # <<>>,
         s[1].pc \notin BhPcs, s[1].pc \notin ServePcs, MaxDepth \in Nat
  PROVE  StackInv(Tail(s), bl, hl, wb, wh)
<1> DEFINE t == Tail(s)
<1>1. s \in Seq(Frames) /\ wb = Num(s, BhPcs) /\ wh = Num(s, ServePcs)
  BY Zenon DEF StackInv
<1>2. /\ t \in Seq(Frames) /\ Len(t) = Len(s) - 1 /\ Len(s) \in Nat \ {0}
      /\ \A i \in 1 .. Len(s) - 1 : t[i] = s[i + 1]
  BY <1>1, SeqTail, SeqElements
<1>3. wb = Num(t, BhPcs) /\ wh = Num(t, ServePcs)
  BY <1>1, NumPop, Zenon
<1> HIDE DEF t
<1>4. Len(s) <= MaxDepth
  BY Zenon DEF StackInv
<1>5. /\ Len(t) <= MaxDepth
      /\ \A i \in 1 .. Len(t) : /\ t[i] = s[i + 1] /\ i + 1 \in 2 .. Len(s)
                                /\ i + 1 \in 1 .. Len(s)
      /\ \A i \in 2 .. Len(t) : i \in 1 .. Len(t)
  BY <1>2, <1>4
<1>6. \A i \in 1 .. Len(t) : t[i].pc \in CallbackPcs /\ Safe(t[i], bl, hl)
  BY <1>5, Zenon DEF StackInv
<1>7. StackInv(t, bl, hl, wb, wh)
  BY <1>2, <1>3, <1>5, <1>6, Zenon DEF StackInv
<1> QED
  BY <1>7, Zenon DEF t

\* While one walk is left, only the innermost call points to the list; and while
\* none is left, no call does.
LEMMA StackAlone ==
  ASSUME NEW s, NEW bl, NEW hl, NEW wb, NEW wh, StackInv(s, bl, hl, wb, wh), s # <<>>
  PROVE  /\ wb = 1 /\ s[1].pc \in BhPcs => \A i \in 2 .. Len(s) : s[i].pc \notin BhPcs
         /\ wh = 1 /\ s[1].pc \in ServePcs => \A i \in 2 .. Len(s) : s[i].pc \notin WalkPcs
         /\ wh = 0 /\ s[1].pc \in CallbackPcs => \A i \in 1 .. Len(s) : s[i].pc \notin WalkPcs
<1>1. /\ s \in Seq(Frames) /\ wb = Num(s, BhPcs) /\ wh = Num(s, ServePcs)
      /\ \A i \in 2 .. Len(s) : s[i].pc \in CallbackPcs
  BY Zenon DEF StackInv
<1>2. \A P : /\ Num(s, P) = 0 => \A i \in 1 .. Len(s) : s[i].pc \notin P
             /\ Cardinality(Outer(s, P)) \in Nat
             /\ Cardinality(Outer(s, P)) = 0 => \A i \in 2 .. Len(s) : s[i].pc \notin P
             /\ Num(s, P) = Cardinality(Outer(s, P)) + (IF s[1].pc \in P THEN 1 ELSE 0)
  BY <1>1, NumBasics, Zenon
<1>3. \A P : Num(s, P) = 1 /\ s[1].pc \in P => \A i \in 2 .. Len(s) : s[i].pc \notin P
  <2>1. \A P : Num(s, P) = 1 /\ s[1].pc \in P => Cardinality(Outer(s, P)) = 0
    BY <1>2
  <2> QED
    BY <1>2, <2>1, Zenon
<1>4. \A x \in CallbackPcs : x \notin ServePcs => x \notin WalkPcs
  BY Zenon DEF CallbackPcs, ServePcs, WalkPcs
<1>5. \A i \in 1 .. Len(s) : i = 1 \/ i \in 2 .. Len(s)
  <2>1. Len(s) \in Nat
    BY <1>1, SeqElements, Zenon
  <2> QED
    BY <2>1
<1> QED
  BY <1>1, <1>2, <1>3, <1>4, <1>5, Zenon

-----------------------------------------------------------------------------
(* The frames, lists and flags of the program. *)

Pointers == Bh \cup Node \cup {Null}
Descriptors == Fd \cup {NFd}
BhFlags == [scheduled : BOOLEAN, idle : BOOLEAN, deleted : BOOLEAN]
NodeFields == [fd : Descriptors, deleted : BOOLEAN, revents : BOOLEAN]

DataOK ==
  /\ bh \in [Bh -> BhFlags] /\ node \in [Node -> NodeFields]
  /\ ready \subseteq Descriptors /\ inflight \subseteq Fd
  /\ posting \in Bh \cup {Null} /\ checked \in BOOLEAN /\ ops \in 0 .. MaxOps

\* The counters, the pointers of all calls, and the types.
Base == StackInv(stack, bhs, handlers, walking_bh, walking_handlers) /\ DataOK

\* f is e with these values for its locals.
Moved(f, e, pc, cur, blocking, progress, rdfds) ==
  /\ f \in Frames /\ f.pc = pc /\ f.cur = cur /\ f.blocking = blocking
  /\ f.progress = progress /\ f.rdfds = rdfds /\ f.noted = e.noted

\* The forms of an assignment to the locals of aio_poll.
LEMMA FrameMoves ==
  ASSUME NEW e \in Frames, NEW p \in PollPcs
  PROVE  /\ Moved([e EXCEPT !.pc = p], e, p, e.cur, e.blocking, e.progress, e.rdfds)
         /\ \A c \in Pointers :
              Moved([e EXCEPT !.pc = p, !.cur = c], e, p, c, e.blocking, e.progress, e.rdfds)
         /\ \A c \in Pointers, b, g \in BOOLEAN :
              Moved([e EXCEPT !.pc = p, !.cur = c, !.progress = g, !.blocking = b],
                    e, p, c, b, g, e.rdfds)
         /\ \A g \in BOOLEAN :
              Moved([e EXCEPT !.pc = p, !.progress = g], e, p, e.cur, e.blocking, g, e.rdfds)
         /\ \A r \in SUBSET Descriptors :
              Moved([e EXCEPT !.pc = p, !.rdfds = r], e, p, e.cur, e.blocking, e.progress, r)
         /\ \A c \in Pointers, r \in SUBSET Descriptors :
              Moved([e EXCEPT !.pc = p, !.cur = c, !.rdfds = r],
                    e, p, c, e.blocking, e.progress, r)
<1>1. Moved([e EXCEPT !.pc = p], e, p, e.cur, e.blocking, e.progress, e.rdfds)
  BY Zenon DEF Frames, Moved
<1>2. ASSUME NEW c \in Pointers
      PROVE  Moved([e EXCEPT !.pc = p, !.cur = c], e, p, c, e.blocking, e.progress, e.rdfds)
  BY Zenon DEF Frames, Moved, Pointers
<1>3. ASSUME NEW c \in Pointers, NEW b \in BOOLEAN, NEW g \in BOOLEAN
      PROVE  Moved([e EXCEPT !.pc = p, !.cur = c, !.progress = g, !.blocking = b],
                   e, p, c, b, g, e.rdfds)
  BY Zenon DEF Frames, Moved, Pointers
<1>4. ASSUME NEW g \in BOOLEAN
      PROVE  Moved([e EXCEPT !.pc = p, !.progress = g], e, p, e.cur, e.blocking, g, e.rdfds)
  BY Zenon DEF Frames, Moved
<1>5. ASSUME NEW r \in SUBSET Descriptors
      PROVE  Moved([e EXCEPT !.pc = p, !.rdfds = r], e, p, e.cur, e.blocking, e.progress, r)
  BY Zenon DEF Frames, Moved, Descriptors
<1>6. ASSUME NEW c \in Pointers, NEW r \in SUBSET Descriptors
      PROVE  Moved([e EXCEPT !.pc = p, !.cur = c, !.rdfds = r],
                   e, p, c, e.blocking, e.progress, r)
  BY Zenon DEF Frames, Moved, Pointers, Descriptors
<1> QED
  BY <1>1, <1>2, <1>3, <1>4, <1>5, <1>6, Zenon

\* The locals of a call, and a new one.
LEMMA FrameTypes ==
  /\ \A e \in Frames : /\ e.pc \in PollPcs /\ e.cur \in Pointers /\ e.blocking \in BOOLEAN
                       /\ e.progress \in BOOLEAN /\ e.rdfds \in SUBSET Descriptors
                       /\ e.noted \in BOOLEAN
  /\ \A b \in BOOLEAN : /\ Frame(b) \in Frames /\ Frame(b).pc = "enter"
                        /\ Frame(b).noted = FALSE
  BY Zenon DEF Frames, Frame, PollPcs, Pointers, Descriptors

\* The innermost call.
LEMMA TopIs ==
  ASSUME Base, stack # <<>>
  PROVE  /\ Top = stack[1] /\ Top \in Frames /\ stack \in Seq(Frames) /\ 1 \in 1 .. Len(stack)
         /\ Len(stack) \in Nat \ {0} /\ Safe(Top, bhs, handlers)
         /\ \A i \in 1 .. Len(stack) : stack[i] \in Frames
<1>1. stack \in Seq(Frames) /\ \A i \in 1 .. Len(stack) : Safe(stack[i], bhs, handlers)
  BY Zenon DEF Base, StackInv
<1>2. /\ Head(stack) = stack[1] /\ stack[1] \in Frames /\ 1 \in 1 .. Len(stack)
      /\ Len(stack) \in Nat \ {0} /\ \A i \in 1 .. Len(stack) : stack[i] \in Frames
  BY <1>1, SeqElements
<1>3. Top = stack[1]
  BY <1>2, Zenon DEF Top
<1>4. Safe(stack[1], bhs, handlers)
  BY <1>1, <1>2, Zenon
<1> QED
  BY <1>1, <1>2, <1>3, <1>4, Zenon

\* s is the stack with f in the place of the innermost call; a call that is not
\* at the top can only learn that the notifier was read.
Onto(s, f) ==
  /\ s \in Seq(Frames) /\ s # <<>> /\ Len(s) = Len(stack)
  /\ s[1].pc = f.pc /\ s[1].cur = f.cur /\ s[1].blocking = f.blocking
  /\ s[1].progress = f.progress /\ s[1].rdfds = f.rdfds /\ (f.noted => s[1].noted)
  /\ \A i \in 2 .. Len(stack) :
       /\ s[i].pc = stack[i].pc /\ s[i].cur = stack[i].cur
       /\ s[i].blocking = stack[i].blocking /\ s[i].progress = stack[i].progress
       /\ s[i].rdfds = stack[i].rdfds /\ (stack[i].noted => s[i].noted)

\* An assignment to the locals of the innermost call.
LEMMA GotoMoves ==
  ASSUME Base, stack # <<>>, NEW f \in Frames, Goto(f)
  PROVE  /\ Onto(stack', f) /\ stack'[1] = f
         /\ \A i \in 2 .. Len(stack) : stack'[i] = stack[i]
<1>1. stack \in Seq(Frames)
  BY TopIs, Zenon
<1>2. /\ stack' \in Seq(Frames) /\ stack' # <<>> /\ Len(stack') = Len(stack)
      /\ stack'[1] = f /\ \A i \in 2 .. Len(stack) : stack'[i] = stack[i]
  <2> DEFINE t == <<f>> \o Tail(stack)
  <2>1. /\ t \in Seq(Frames) /\ t # <<>> /\ Len(t) = Len(stack)
        /\ t[1] = f /\ \A i \in 2 .. Len(stack) : t[i] = stack[i]
    BY <1>1, SeqTop
  <2>2. stack' = t
    BY Zenon DEF Goto
  <2> HIDE DEF t
  <2> QED
    BY <2>1, <2>2, Zenon
<1> QED
  BY <1>2, Zenon DEF Onto

\* A handler is called: that of the notifier is seen to have run by all calls.
LEMMA ReadMoves ==
  ASSUME Base, stack # <<>>, NEW f \in Frames, NEW n, io_read(n, f)
  PROVE  /\ Onto(stack', f)
         /\ n # Notifier => /\ stack'[1] = f
                            /\ \A i \in 2 .. Len(stack) : stack'[i] = stack[i]
         /\ n = Notifier => \A i \in 1 .. Len(stack) : stack'[i].noted
<1> DEFINE l == Len(stack)
           g(i) == IF i = 1 THEN f ELSE stack[i]
<1>1. /\ l \in Nat \ {0} /\ DOMAIN stack = 1 .. l /\ stack \in Seq(Frames)
      /\ \A i \in 1 .. l : stack[i] \in Frames
  BY TopIs, SeqElements, Zenon
<1>2. stack' = [i \in 1 .. l |-> [g(i) EXCEPT !.noted = @ \/ n = Notifier]]
  BY <1>1, Zenon DEF io_read
<1>3. ASSUME NEW e \in Frames
      PROVE  LET d == [e EXCEPT !.noted = @ \/ n = Notifier]
             IN  /\ d \in Frames /\ d.pc = e.pc /\ d.cur = e.cur /\ d.blocking = e.blocking
                 /\ d.progress = e.progress /\ d.rdfds = e.rdfds
                 /\ d.noted = (e.noted \/ n = Notifier) /\ (n # Notifier => d = e)
  BY Zenon DEF Frames
<1>4. \A i \in 1 .. l : g(i) \in Frames /\ stack'[i] = [g(i) EXCEPT !.noted = @ \/ n = Notifier]
  BY <1>1, <1>2, Zenon
<1>5. stack' \in Seq(Frames) /\ Len(stack') = l /\ stack' # <<>>
  <2>1. stack' \in [1 .. l -> Frames]
    BY <1>2, <1>3, <1>4, Zenon
  <2>2. stack' \in Seq(Frames) /\ Len(stack') = l
    <3> HIDE DEF l
    <3> QED
      BY <1>1, <2>1, IsASeq, LenProperties
  <2> QED
    BY <1>1, <2>2, EmptySeq, Zenon
<1>6. 1 \in 1 .. l /\ \A i \in 2 .. l : i \in 1 .. l /\ i # 1
  BY <1>1
<1>7. \A i \in 1 .. l :
        /\ stack'[i].pc = g(i).pc /\ stack'[i].cur = g(i).cur
        /\ stack'[i].blocking = g(i).blocking /\ stack'[i].progress = g(i).progress
        /\ stack'[i].rdfds = g(i).rdfds /\ stack'[i].noted = (g(i).noted \/ n = Notifier)
        /\ n # Notifier => stack'[i] = g(i)
  <2> SUFFICES ASSUME NEW i \in 1 .. l
               PROVE  LET d == stack'[i]
                          e == g(i)
                      IN  /\ d.pc = e.pc /\ d.cur = e.cur /\ d.blocking = e.blocking
                          /\ d.progress = e.progress /\ d.rdfds = e.rdfds
                          /\ d.noted = (e.noted \/ n = Notifier) /\ (n # Notifier => d = e)
    BY Zenon
  <2>1. g(i) \in Frames /\ stack'[i] = [g(i) EXCEPT !.noted = @ \/ n = Notifier]
    BY <1>4, Zenon
  <2> HIDE DEF g
  <2>2. LET d == [g(i) EXCEPT !.noted = @ \/ n = Notifier]
            e == g(i)
        IN  /\ d.pc = e.pc /\ d.cur = e.cur /\ d.blocking = e.blocking
            /\ d.progress = e.progress /\ d.rdfds = e.rdfds
            /\ d.noted = (e.noted \/ n = Notifier) /\ (n # Notifier => d = e)
    BY <1>3, <2>1, Zenon
  <2> QED
    BY <2>1, <2>2, Zenon
<1>8. Onto(stack', f)
  BY <1>5, <1>6, <1>7, Zenon DEF Onto
<1> QED
  BY <1>6, <1>7, <1>8, Zenon

\* The counters are natural numbers.
LEMMA Counters ==
  ASSUME Base
  PROVE  walking_bh \in 0 .. MaxDepth /\ walking_handlers \in 0 .. MaxDepth
<1>1. /\ stack \in Seq(Frames) /\ Len(stack) <= MaxDepth
      /\ walking_bh = Num(stack, BhPcs) /\ walking_handlers = Num(stack, ServePcs)
  BY Zenon DEF Base, StackInv
<1>2. /\ walking_bh \in 0 .. Len(stack) /\ walking_handlers \in 0 .. Len(stack)
      /\ Len(stack) \in Nat
  BY <1>1, NumBasics, SeqElements, Zenon
<1> QED
  BY <1>1, <1>2, AioConstants

\* The innermost call goes on; the counters follow it into and out of its walks.
LEMMA Moves ==
  ASSUME Base, stack # <<>>, NEW f, Onto(stack', f), Safe(f, bhs, handlers),
         NEW wb, wb = walking_bh - Counted(Top, BhPcs) + Counted(f, BhPcs),
         NEW wh, wh = walking_handlers - Counted(Top, ServePcs) + Counted(f, ServePcs)
  PROVE  StackInv(stack', bhs, handlers, wb, wh)
<1>1. Top = stack[1]
  BY TopIs, Zenon
<1>2. /\ Safe(stack'[1], bhs, handlers)
      /\ Counted(stack'[1], BhPcs) = Counted(f, BhPcs)
      /\ Counted(stack'[1], ServePcs) = Counted(f, ServePcs)
  BY Zenon DEF Safe, Counted, Onto
<1>3. /\ wb = walking_bh - Counted(stack[1], BhPcs) + Counted(stack'[1], BhPcs)
      /\ wh = walking_handlers - Counted(stack[1], ServePcs) + Counted(stack'[1], ServePcs)
  BY <1>1, <1>2, Zenon
<1> QED
  BY <1>2, <1>3, StackMoves, Zenon DEF Base, Onto

\* ... and stay if it does not enter or leave one.
LEMMA PlainMove ==
  ASSUME Base, stack # <<>>, NEW f, Onto(stack', f), Safe(f, bhs, handlers),
         Top.pc \in BhPcs <=> f.pc \in BhPcs, Top.pc \in ServePcs <=> f.pc \in ServePcs
  PROVE  StackInv(stack', bhs, handlers, walking_bh, walking_handlers)
<1>1. /\ Counted(Top, BhPcs) = Counted(f, BhPcs) /\ Counted(f, BhPcs) \in Int
      /\ Counted(Top, ServePcs) = Counted(f, ServePcs) /\ Counted(f, ServePcs) \in Int
  BY DEF Counted
<1>2. walking_bh \in Int /\ walking_handlers \in Int
  BY Counters
<1>3. /\ walking_bh = walking_bh - Counted(Top, BhPcs) + Counted(f, BhPcs)
      /\ walking_handlers = walking_handlers - Counted(Top, ServePcs) + Counted(f, ServePcs)
  BY <1>1, <1>2
<1> QED
  BY <1>3, Moves, Zenon

\* A handler is found in the list.
LEMMA Finds ==
  ASSUME NEW fd
  PROVE  LET n == find_aio_handler(fd)
         IN  /\ n # Null => n \in Live /\ n \in Node /\ Listed(n, handlers) /\ node[n].fd = fd
                            /\ ~node[n].deleted
<1> DEFINE S == {n \in Node : Listed(n, handlers) /\ node[n].fd = fd /\ ~node[n].deleted}
<1>1. find_aio_handler(fd) = IF S = {} THEN Null ELSE CHOOSE n \in S : TRUE
  BY Zenon DEF find_aio_handler
<1>2. S # {} => (CHOOSE n \in S : TRUE) \in S
  BY Zenon
<1> HIDE DEF S
<1>3. find_aio_handler(fd) # Null => find_aio_handler(fd) \in S
  BY <1>1, <1>2, Zenon
<1> QED
  BY <1>3, Zenon DEF S, Live

-----------------------------------------------------------------------------
(* What callbacks and other threads do. *)

\* Flags are changed.
LEMMA FlagsBase ==
  ASSUME Base,
         \/ \E b \in Bh : \/ qemu_bh_schedule(b) \/ qemu_bh_schedule_idle(b)
                          \/ qemu_bh_cancel(b) \/ qemu_bh_delete(b) \/ ThreadSchedule(b)
         \/ aio_notify \/ aio_ctx_check
         \/ \E fd \in Fd : Submit(fd) \/ Event(fd)
  PROVE  Base'
<1>1. UNCHANGED <<stack, bhs, handlers, walking_bh, walking_handlers>>
  BY Zenon DEF qemu_bh_schedule, qemu_bh_schedule_idle, qemu_bh_cancel, qemu_bh_delete,
     ThreadSchedule, aio_notify, aio_ctx_check, Submit, Event
<1>2. StackInv(stack, bhs, handlers, walking_bh, walking_handlers)'
  BY <1>1, Zenon DEF Base
<1>3. NFd \in Descriptors /\ Fd \subseteq Descriptors
  BY Zenon DEF Descriptors
<1>4. ASSUME NEW b \in Bh, NEW x \in BOOLEAN, NEW y \in BOOLEAN
      PROVE  /\ [bh EXCEPT ![b].scheduled = x] \in [Bh -> BhFlags]
             /\ [bh EXCEPT ![b].scheduled = x, ![b].idle = y] \in [Bh -> BhFlags]
             /\ [bh EXCEPT ![b].scheduled = x, ![b].deleted = y] \in [Bh -> BhFlags]
  BY Zenon DEF Base, DataOK, BhFlags
<1>5. ops < MaxOps => ops + 1 \in 0 .. MaxOps
  BY AioConstants DEF Base, DataOK
<1>6. ASSUME NEW b \in Bh, qemu_bh_schedule(b) \/ qemu_bh_schedule_idle(b)
                           \/ qemu_bh_cancel(b) \/ qemu_bh_delete(b) \/ ThreadSchedule(b)
      PROVE  DataOK'
  <2>1. TRUE \in BOOLEAN /\ FALSE \in BOOLEAN
    BY Zenon
  <2>2. bh' \in [Bh -> BhFlags]
    <3>1. /\ [bh EXCEPT ![b].scheduled = TRUE, ![b].idle = FALSE] \in [Bh -> BhFlags]
          /\ [bh EXCEPT ![b].scheduled = TRUE, ![b].idle = TRUE] \in [Bh -> BhFlags]
          /\ [bh EXCEPT ![b].scheduled = FALSE] \in [Bh -> BhFlags]
          /\ [bh EXCEPT ![b].scheduled = FALSE, ![b].deleted = TRUE] \in [Bh -> BhFlags]
      BY <1>4, <2>1, Zenon
    <3>2. \/ bh' = [bh EXCEPT ![b].scheduled = TRUE, ![b].idle = FALSE]
          \/ bh' = [bh EXCEPT ![b].scheduled = TRUE, ![b].idle = TRUE]
          \/ bh' = [bh EXCEPT ![b].scheduled = FALSE]
          \/ bh' = [bh EXCEPT ![b].scheduled = FALSE, ![b].deleted = TRUE]
      BY <1>6, Zenon DEF qemu_bh_schedule, qemu_bh_schedule_idle, qemu_bh_cancel,
         qemu_bh_delete, ThreadSchedule
    <3> QED
      BY <3>1, <3>2, Zenon
  <2>3. ops < MaxOps /\ ops' = ops + 1 /\ UNCHANGED <<node, inflight, checked>>
    BY <1>6, Zenon DEF qemu_bh_schedule, qemu_bh_schedule_idle, qemu_bh_cancel,
       qemu_bh_delete, ThreadSchedule, MayCall
  <2>4. /\ ready' = ready \/ ready' = ready \cup {NFd}
        /\ posting' = posting \/ posting' = b
    BY <1>6, Zenon DEF qemu_bh_schedule, qemu_bh_schedule_idle, qemu_bh_cancel,
       qemu_bh_delete, ThreadSchedule
  <2> QED
    BY <1>3, <1>5, <2>2, <2>3, <2>4, Zenon DEF Base, DataOK
<1>7. ASSUME aio_notify PROVE DataOK'
  BY <1>3, <1>7, Zenon DEF Base, DataOK, aio_notify
<1>8. ASSUME aio_ctx_check PROVE DataOK'
  <2>1. ASSUME NEW n \in Node
        PROVE  [node[n] EXCEPT !.revents = node[n].fd \in ready] \in NodeFields
    <3> DEFINE x == node[n].fd \in ready
    <3>1. node[n] \in NodeFields
      BY Zenon DEF Base, DataOK
    <3>2. x \in BOOLEAN
      OBVIOUS
    <3> HIDE DEF x
    <3>3. [node[n] EXCEPT !.revents = x] \in NodeFields
      BY <3>1, <3>2, Zenon DEF NodeFields
    <3> QED
      BY <3>3, Zenon DEF x
  <2>2. node' \in [Node -> NodeFields]
    <3> DEFINE v(n) == IF Listed(n, handlers) /\ ~node[n].deleted
                       THEN [node[n] EXCEPT !.revents = node[n].fd \in ready] ELSE node[n]
    <3>1. node' = [n \in Node |-> v(n)]
      BY <1>8, Zenon DEF aio_ctx_check
    <3>2. ASSUME NEW n \in Node PROVE v(n) \in NodeFields
      <4>1. node[n] \in NodeFields
        BY Zenon DEF Base, DataOK
      <4> QED
        BY <2>1, <4>1, Zenon
    <3> HIDE DEF v
    <3> QED
      BY <3>1, <3>2, Zenon
  <2> QED
    BY <1>8, <2>2, Zenon DEF Base, DataOK, aio_ctx_check
<1>9. ASSUME NEW fd \in Fd, Submit(fd) \/ Event(fd) PROVE DataOK'
  BY <1>3, <1>5, <1>9, Zenon DEF Base, DataOK, Submit, Event, MayCall
<1> QED
  BY <1>2, <1>6, <1>7, <1>8, <1>9, Zenon DEF Base

\* A bottom half is created.
LEMMA NewBhBase ==
  ASSUME Base, NEW b \in Bh, aio_bh_new(b)
  PROVE  Base'
<1>1. /\ ~Listed(b, bhs) /\ bhs' = <<b>> \o bhs /\ bh' = [bh EXCEPT ![b] = Idle]
      /\ ops < MaxOps /\ ops' = ops + 1
      /\ UNCHANGED <<handlers, node, walking_bh, walking_handlers, ready, inflight, stack,
                     checked, posting>>
  BY Zenon DEF aio_bh_new, MayCall
<1>2. /\ bhs \in Seq(Bh) /\ handlers \in Seq(Node) /\ Distinct(bhs) /\ Distinct(handlers)
      /\ StackInv(stack, bhs, handlers, walking_bh, walking_handlers)
  BY Zenon DEF Base, StackInv
<1>3. /\ bhs' \in Seq(Bh) /\ Distinct(bhs') /\ \A x : Listed(x, bhs) => Listed(x, bhs')
  BY <1>1, <1>2, ListPrepend, Zenon
<1>4. StackInv(stack, bhs', handlers, walking_bh, walking_handlers)
  BY <1>2, <1>3, StackGrows, Zenon
<1>5. ops + 1 \in 0 .. MaxOps
  BY <1>1, AioConstants DEF Base, DataOK
<1>6. Idle \in BhFlags
  BY Zenon DEF Idle, BhFlags
<1>7. DataOK'
  BY <1>1, <1>5, <1>6, Zenon DEF Base, DataOK
<1> QED
  BY <1>1, <1>4, <1>7, Zenon DEF Base

\* A handler is added.
LEMMA SetHandlerBase ==
  ASSUME Base, NEW fd \in Fd, NEW n \in Node, SetHandler(fd, n)
  PROVE  Base'
<1>1. /\ ~Listed(n, handlers) /\ handlers' = <<n>> \o handlers
      /\ node' = [node EXCEPT ![n] = [FreeNode EXCEPT !.fd = fd]]
      /\ ops < MaxOps /\ ops' = ops + 1 /\ ready' = ready \cup {NFd}
      /\ UNCHANGED <<bhs, bh, walking_bh, walking_handlers, inflight, stack, checked, posting>>
  BY Zenon DEF SetHandler, MayCall
<1>2. /\ bhs \in Seq(Bh) /\ handlers \in Seq(Node) /\ Distinct(bhs) /\ Distinct(handlers)
      /\ StackInv(stack, bhs, handlers, walking_bh, walking_handlers)
  BY Zenon DEF Base, StackInv
<1>3. /\ handlers' \in Seq(Node) /\ Distinct(handlers')
      /\ \A x : Listed(x, handlers) => Listed(x, handlers')
  BY <1>1, <1>2, ListPrepend, Zenon
<1>4. StackInv(stack, bhs, handlers', walking_bh, walking_handlers)
  BY <1>2, <1>3, StackGrows, Zenon
<1>5. ops + 1 \in 0 .. MaxOps
  BY <1>1, AioConstants DEF Base, DataOK
<1>6. [FreeNode EXCEPT !.fd = fd] \in NodeFields
  BY Zenon DEF FreeNode, NodeFields, Descriptors
<1>7. DataOK'
  BY <1>1, <1>5, <1>6, Zenon DEF Base, DataOK, Descriptors
<1> QED
  BY <1>1, <1>4, <1>7, Zenon DEF Base

\* A handler is removed: if no handler is being served, no call points to it.
LEMMA ClearHandlerBase ==
  ASSUME Base, NEW fd \in Fd, ClearHandler(fd)
  PROVE  Base'
<1> DEFINE n == find_aio_handler(fd)
<1>1. /\ n # Null /\ InCallback /\ ops < MaxOps /\ ops' = ops + 1
      /\ \/ /\ walking_handlers > 0 /\ handlers' = handlers
            /\ node' = [node EXCEPT ![n].deleted = TRUE, ![n].revents = FALSE]
         \/ /\ ~(walking_handlers > 0) /\ handlers' = Without(handlers, {n}) /\ node' = node
      /\ ready' = (ready \ {fd}) \cup {NFd} /\ inflight' = inflight \ {fd}
      /\ UNCHANGED <<bhs, bh, walking_bh, walking_handlers, stack, checked, posting>>
  BY Zenon DEF ClearHandler, MayCall
<1>2. n \in Node
  BY <1>1, Finds, Zenon
<1> HIDE DEF n
<1>3. /\ bhs \in Seq(Bh) /\ handlers \in Seq(Node) /\ Distinct(bhs) /\ Distinct(handlers)
      /\ StackInv(stack, bhs, handlers, walking_bh, walking_handlers)
  BY Zenon DEF Base, StackInv
<1>4. ops + 1 \in 0 .. MaxOps
  BY <1>1, AioConstants DEF Base, DataOK
<1>5. [node EXCEPT ![n].deleted = TRUE, ![n].revents = FALSE] \in [Node -> NodeFields]
  BY <1>2, Zenon DEF Base, DataOK, NodeFields
<1>6. DataOK'
  BY <1>1, <1>4, <1>5, Zenon DEF Base, DataOK, Descriptors
<1>7. ASSUME ~(walking_handlers > 0), handlers' = Without(handlers, {n})
      PROVE  StackInv(stack, bhs, handlers', walking_bh, walking_handlers)
  <2>1. handlers' \in Seq(Node) /\ Distinct(handlers')
    BY <1>3, <1>7, ListWithout, Zenon
  <2>2. walking_handlers = 0
    BY <1>7, Counters
  <2>3. ASSUME NEW i \in 1 .. Len(stack) PROVE Safe(stack[i], bhs, handlers')
    <3>1. stack # <<>>
      BY <2>3, EmptySeq
    <3>2. stack[1].pc \in CallbackPcs
      BY <1>1, <3>1, TopIs, Zenon DEF InCallback, CallbackPcs
    <3>3. stack[i].pc \notin WalkPcs /\ Safe(stack[i], bhs, handlers)
      BY <1>3, <2>2, <3>1, <3>2, StackAlone, Zenon DEF StackInv
    <3> QED
      BY <3>3, Zenon DEF Safe
  <2> QED
    BY <1>3, <2>1, <2>3, StackShrinks, Zenon
<1> QED
  BY <1>1, <1>3, <1>6, <1>7, Zenon DEF Base

-----------------------------------------------------------------------------
(* The steps of aio_poll, as changes of the innermost call. *)

\* What the pc of a call says of the walks that it is in.
LEMMA PcSets ==
  /\ "enter" \in PollPcs /\ "enter" \notin BhPcs \cup ServePcs \cup WalkPcs
  /\ \A p \in {"bh", "bhcb"} : p \in PollPcs /\ p \in BhPcs /\ p \notin ServePcs \cup WalkPcs
  /\ \A p \in {"walk1", "walk2"} : p \in PollPcs /\ p \in WalkPcs /\ p \notin BhPcs \cup ServePcs
  /\ \A p \in ServePcs : p \in PollPcs /\ p \in WalkPcs /\ p \notin BhPcs
  /\ \A p \in {"fill", "select"} : p \in PollPcs /\ p \notin BhPcs \cup ServePcs \cup WalkPcs
  /\ {"cb1", "end1", "cb2", "end2"} = ServePcs
  BY Zenon DEF PollPcs, BhPcs, ServePcs, WalkPcs

\* The lists of the context.
LEMMA Lists ==
  ASSUME Base
  PROVE  /\ bhs \in Seq(Bh) /\ Distinct(bhs) /\ Null \notin Bh
         /\ handlers \in Seq(Node) /\ Distinct(handlers) /\ Null \notin Node
         /\ \A x : Listed(x, bhs) => x \in Bh
         /\ \A x : Listed(x, handlers) => x \in Node
<1>1. /\ bhs \in Seq(Bh) /\ Distinct(bhs) /\ handlers \in Seq(Node) /\ Distinct(handlers)
  BY Zenon DEF Base, StackInv
<1>2. Null \notin Bh /\ Null \notin Node
  BY AioConstants, Zenon
<1> QED
  BY <1>1, <1>2, ListBasics, Zenon

\* The innermost call e becomes f, which is at pc and points to cur.
Step(f, pc, cur) ==
  /\ f \in Frames /\ f.pc = pc /\ f.cur = cur /\ f.noted = Top.noted

\* A callback returns to the walk that called it.
LEMMA ReturnForm ==
  ASSUME Base, Return
  PROVE  /\ stack # <<>> /\ Top.pc \in CallbackPcs
         /\ \E f : /\ Goto(f) /\ Step(f, f.pc, Top.cur) /\ f.progress = Top.progress
                   /\ \/ Top.pc = "bhcb" /\ f.pc = "bh"
                      \/ Top.pc = "cb1" /\ f.pc = "end1"
                      \/ Top.pc = "cb2" /\ f.pc = "end2"
<1> DEFINE p == CASE Top.pc = "bhcb" -> "bh" [] Top.pc = "cb1" -> "end1"
                  [] Top.pc = "cb2" -> "end2"
           f == [Top EXCEPT !.pc = p]
<1>1. stack # <<>> /\ Top.pc \in CallbackPcs /\ Goto(f)
  BY Zenon DEF Return, InCallback, CallbackPcs
<1>2. /\ \/ Top.pc = "bhcb" /\ p = "bh"
         \/ Top.pc = "cb1" /\ p = "end1"
         \/ Top.pc = "cb2" /\ p = "end2"
  BY <1>1, Zenon DEF CallbackPcs
<1>3. p \in PollPcs /\ Top \in Frames
  BY <1>1, <1>2, TopIs, Zenon DEF PollPcs
<1> HIDE DEF p
<1>4. Moved(f, Top, p, Top.cur, Top.blocking, Top.progress, Top.rdfds)
  BY <1>3, FrameMoves, Zenon
<1> HIDE DEF f
<1>5. Step(f, p, Top.cur) /\ f.pc = p /\ f.progress = Top.progress
  BY <1>4, Zenon DEF Moved, Step
<1> QED
  BY <1>1, <1>2, <1>5, Zenon

\* The walk over the bottom halves.
LEMMA BhForms ==
  ASSUME Base
  PROVE  /\ BhStart => /\ stack # <<>> /\ Top.pc = "enter"
                       /\ \E f : Goto(f) /\ Step(f, "bh", First(bhs))
         /\ BhWalk => /\ stack # <<>> /\ Top.pc = "bh" /\ Top.cur # Null /\ Listed(Top.cur, bhs)
                      /\ \E f : /\ Goto(f) /\ f.pc \in {"bh", "bhcb"}
                                /\ Step(f, f.pc, After(bhs, Top.cur))
                                /\ f.pc = "bhcb" => ~bh[Top.cur].deleted
         /\ BhEnd => /\ stack # <<>> /\ Top.pc = "bh" /\ Top.cur = Null
                     /\ \E f : Goto(f) /\ Step(f, "walk1", First(handlers))
<1>1. First(bhs) \in Pointers /\ First(handlers) \in Pointers
  BY Lists, ListFirst, Zenon DEF Pointers
<1>2. ASSUME BhStart
      PROVE  /\ stack # <<>> /\ Top.pc = "enter"
             /\ \E f : Goto(f) /\ Step(f, "bh", First(bhs))
  <2> DEFINE f == [Top EXCEPT !.pc = "bh", !.cur = First(bhs)]
  <2>1. stack # <<>> /\ Top.pc = "enter" /\ Goto(f)
    BY <1>2, Zenon DEF BhStart, At
  <2>2. Top \in Frames /\ "bh" \in PollPcs
    BY <2>1, TopIs, PcSets, Zenon
  <2>3. Moved(f, Top, "bh", First(bhs), Top.blocking, Top.progress, Top.rdfds)
    BY <1>1, <2>2, FrameMoves, Zenon
  <2> HIDE DEF f
  <2>4. Step(f, "bh", First(bhs))
    BY <2>3, Zenon DEF Moved, Step
  <2> QED
    BY <2>1, <2>4, Zenon
<1>3. ASSUME BhEnd
      PROVE  /\ stack # <<>> /\ Top.pc = "bh" /\ Top.cur = Null
             /\ \E f : Goto(f) /\ Step(f, "walk1", First(handlers))
  <2> DEFINE f == [Top EXCEPT !.pc = "walk1", !.cur = First(handlers)]
  <2>1. stack # <<>> /\ Top.pc = "bh" /\ Top.cur = Null /\ Goto(f)
    BY <1>3, Zenon DEF BhEnd, At
  <2>2. Top \in Frames /\ "walk1" \in PollPcs
    BY <2>1, TopIs, PcSets, Zenon
  <2>3. Moved(f, Top, "walk1", First(handlers), Top.blocking, Top.progress, Top.rdfds)
    BY <1>1, <2>2, FrameMoves, Zenon
  <2> HIDE DEF f
  <2>4. Step(f, "walk1", First(handlers))
    BY <2>3, Zenon DEF Moved, Step
  <2> QED
    BY <2>1, <2>4, Zenon
<1>4. ASSUME BhWalk
      PROVE  /\ stack # <<>> /\ Top.pc = "bh" /\ Top.cur # Null /\ Listed(Top.cur, bhs)
             /\ \E f : /\ Goto(f) /\ f.pc \in {"bh", "bhcb"}
                       /\ Step(f, f.pc, After(bhs, Top.cur))
                       /\ f.pc = "bhcb" => ~bh[Top.cur].deleted
  <2> DEFINE b == Top.cur
             run == ~bh[b].deleted /\ bh[b].scheduled
             p == IF run THEN "bhcb" ELSE "bh"
             g == Top.progress \/ (run /\ ~bh[b].idle)
             k == Top.blocking /\ ~(run /\ ~bh[b].idle)
             f == [Top EXCEPT !.pc = p, !.cur = After(bhs, b), !.progress = g, !.blocking = k]
  <2>1. stack # <<>> /\ Top.pc = "bh" /\ b # Null /\ Goto(f)
    BY <1>4, Zenon DEF BhWalk, At
  <2>2. Top \in Frames /\ Listed(b, bhs)
    BY <2>1, TopIs, PcSets, Zenon DEF Safe
  <2>3. After(bhs, b) \in Bh \cup {Null}
    BY <2>2, Lists, ListAfter, Zenon
  <2>4. After(bhs, b) \in Pointers
    BY <2>3, Zenon DEF Pointers
  <2>5. /\ g \in BOOLEAN /\ k \in BOOLEAN /\ p \in {"bh", "bhcb"}
        /\ p = "bhcb" => ~bh[b].deleted
    BY Zenon
  <2> DEFINE a == After(bhs, b)
  <2> HIDE DEF p, g, k, b, a
  <2>6. p \in PollPcs
    BY <2>5, PcSets, Zenon
  <2>7. Moved(f, Top, p, a, k, g, Top.rdfds)
    <3>1. a \in Pointers
      BY <2>4, Zenon DEF a
    <3>2. \A c \in Pointers, v, u \in BOOLEAN :
            Moved([Top EXCEPT !.pc = p, !.cur = c, !.progress = v, !.blocking = u],
                  Top, p, c, u, v, Top.rdfds)
      BY <2>2, <2>6, FrameMoves, Zenon
    <3>3. f = [Top EXCEPT !.pc = p, !.cur = a, !.progress = g, !.blocking = k]
      BY Zenon DEF a
    <3> QED
      BY <2>5, <3>1, <3>2, <3>3, Zenon
  <2> HIDE DEF f
  <2>8. Step(f, p, After(bhs, b)) /\ f.pc = p
    BY <2>7, Zenon DEF Moved, Step, a
  <2> QED
    BY <2>1, <2>2, <2>5, <2>8, Zenon DEF b
<1> QED
  BY <1>2, <1>3, <1>4, Zenon

\* A walk over the handlers reaches one, which is called if it has an event.
LEMMA WalkForms ==
  ASSUME Base, Walk1 \/ Walk2
  PROVE  /\ stack # <<>> /\ Top.pc \in {"walk1", "walk2"} /\ Top.cur # Null
         /\ Listed(Top.cur, handlers)
         /\ \E f : /\ Step(f, f.pc, Top.cur) /\ f.rdfds = Top.rdfds
                   /\ \/ Walk1 /\ Top.pc = "walk1" /\ f.pc \in {"cb1", "end1"}
                      \/ Walk2 /\ Top.pc = "walk2" /\ f.pc \in {"cb2", "end2"}
                   /\ \/ /\ io_read(Top.cur, f) /\ f.progress
                         /\ Walk1 => node[Top.cur].revents
                         /\ Walk2 => ~node[Top.cur].deleted
                      \/ /\ Goto(f) /\ f.progress = Top.progress /\ f.pc \in {"end1", "end2"}
                         /\ UNCHANGED <<ready, inflight>>
                         /\ Walk2 => node[Top.cur].deleted \/ node[Top.cur].fd \notin Top.rdfds
<1> DEFINE c == Top.cur
<1>1. stack # <<>> /\ Top.pc \in {"walk1", "walk2"} /\ c # Null
  BY Zenon DEF Walk1, Walk2, At
<1>2. Top \in Frames /\ Listed(c, handlers)
  BY <1>1, TopIs, PcSets, Zenon DEF Safe
<1>3. ASSUME NEW p \in ServePcs
      PROVE  LET f == [Top EXCEPT !.pc = p]
                 g == [Top EXCEPT !.pc = p, !.progress = TRUE]
             IN  /\ Step(f, p, c) /\ f.pc = p /\ f.progress = Top.progress /\ f.rdfds = Top.rdfds
                 /\ Step(g, p, c) /\ g.pc = p /\ g.progress = TRUE /\ g.rdfds = Top.rdfds
  <2> DEFINE f == [Top EXCEPT !.pc = p]
             g == [Top EXCEPT !.pc = p, !.progress = TRUE]
  <2>1. p \in PollPcs /\ TRUE \in BOOLEAN
    BY PcSets, Zenon
  <2>2. /\ Moved(f, Top, p, Top.cur, Top.blocking, Top.progress, Top.rdfds)
        /\ Moved(g, Top, p, Top.cur, Top.blocking, TRUE, Top.rdfds)
    BY <1>2, <2>1, FrameMoves, Zenon
  <2> HIDE DEF f, g
  <2>3. /\ Step(f, p, c) /\ f.pc = p /\ f.progress = Top.progress /\ f.rdfds = Top.rdfds
        /\ Step(g, p, c) /\ g.pc = p /\ g.progress = TRUE /\ g.rdfds = Top.rdfds
    BY <2>2, Zenon DEF Moved, Step
  <2> QED
    BY <2>3, Zenon DEF f, g
<1>4. /\ \A p \in {"cb1", "end1", "cb2", "end2"} : p \in ServePcs
      /\ (IF c = Notifier THEN "end1" ELSE "cb1") \in {"cb1", "end1"}
      /\ (IF c = Notifier THEN "end2" ELSE "cb2") \in {"cb2", "end2"}
  BY PcSets, Zenon
<1>5. CASE Walk1
  <2> DEFINE p == IF c = Notifier THEN "end1" ELSE "cb1"
             g == [Top EXCEPT !.pc = p, !.progress = TRUE]
             f == [Top EXCEPT !.pc = "end1"]
  <2>1. /\ Top.pc = "walk1"
        /\ \/ io_read(c, g) /\ node[c].revents
           \/ Goto(f) /\ UNCHANGED <<ready, inflight>>
    BY <1>5, Zenon DEF Walk1, At
  <2>2. p \in {"cb1", "end1"} /\ p \in ServePcs /\ "end1" \in ServePcs
    BY <1>4, Zenon
  <2>3. ~Walk2
    BY <2>1, Zenon DEF Walk2, At
  <2> HIDE DEF p
  <2>4. /\ Step(f, "end1", c) /\ f.pc = "end1" /\ f.progress = Top.progress
        /\ f.rdfds = Top.rdfds
    BY <1>3, <2>2, Zenon
  <2>5. Step(g, p, c) /\ g.pc = p /\ g.progress = TRUE /\ g.rdfds = Top.rdfds
    BY <1>3, <2>2, Zenon
  <2> HIDE DEF f, g
  <2>6. CASE io_read(c, g) /\ node[c].revents
    BY <1>1, <1>2, <1>5, <2>1, <2>2, <2>3, <2>5, <2>6, Zenon
  <2>7. CASE Goto(f) /\ UNCHANGED <<ready, inflight>>
    BY <1>1, <1>2, <1>5, <2>1, <2>3, <2>4, <2>7, Zenon
  <2> QED
    BY <2>1, <2>6, <2>7, Zenon
<1>6. CASE Walk2
  <2> DEFINE p == IF c = Notifier THEN "end2" ELSE "cb2"
             hit == ~node[c].deleted /\ node[c].fd \in Top.rdfds
             g == [Top EXCEPT !.pc = p, !.progress = TRUE]
             f == [Top EXCEPT !.pc = "end2"]
  <2>1. /\ Top.pc = "walk2"
        /\ \/ io_read(c, g) /\ hit
           \/ Goto(f) /\ ~hit /\ UNCHANGED <<ready, inflight>>
    BY <1>6, Zenon DEF Walk2, At
  <2>2. p \in {"cb2", "end2"} /\ p \in ServePcs /\ "end2" \in ServePcs
    BY <1>4, Zenon
  <2>3. ~Walk1
    BY <2>1, Zenon DEF Walk1, At
  <2> HIDE DEF p
  <2>4. /\ Step(f, "end2", c) /\ f.pc = "end2" /\ f.progress = Top.progress
        /\ f.rdfds = Top.rdfds
    BY <1>3, <2>2, Zenon
  <2>5. Step(g, p, c) /\ g.pc = p /\ g.progress = TRUE /\ g.rdfds = Top.rdfds
    BY <1>3, <2>2, Zenon
  <2> HIDE DEF f, g
  <2>6. CASE io_read(c, g) /\ hit
    BY <1>1, <1>2, <1>6, <2>1, <2>2, <2>3, <2>5, <2>6, Zenon
  <2>7. CASE Goto(f) /\ ~hit /\ UNCHANGED <<ready, inflight>>
    BY <1>1, <1>2, <1>6, <2>1, <2>3, <2>4, <2>7, Zenon
  <2> QED
    BY <2>1, <2>6, <2>7, Zenon
<1> QED
  BY <1>5, <1>6, Zenon

\* A walk leaves a handler.
LEMMA WalkEndForm ==
  ASSUME Base, NEW pc \in {"end1", "end2"}, NEW to \in {"walk1", "walk2"}, WalkEnd(pc, to)
  PROVE  /\ stack # <<>> /\ Top.pc = pc /\ Top.cur # Null /\ Listed(Top.cur, handlers)
         /\ \E f : /\ Goto(f) /\ Step(f, to, After(handlers, Top.cur))
                   /\ f.progress = Top.progress /\ f.rdfds = Top.rdfds
<1> DEFINE n == After(handlers, Top.cur)
           f == [Top EXCEPT !.pc = to, !.cur = n]
<1>1. stack # <<>> /\ Top.pc = pc /\ Goto(f)
  BY Zenon DEF WalkEnd, At
<1>2. Top \in Frames /\ Top.cur # Null /\ Listed(Top.cur, handlers)
  BY <1>1, TopIs, PcSets, Zenon DEF Safe
<1>3. n \in Node \cup {Null}
  BY <1>2, Lists, ListAfter, Zenon
<1>4. n \in Pointers /\ to \in PollPcs
  BY <1>3, PcSets, Zenon DEF Pointers
<1> HIDE DEF n
<1>5. Moved(f, Top, to, n, Top.blocking, Top.progress, Top.rdfds)
  BY <1>2, <1>4, FrameMoves, Zenon
<1> HIDE DEF f
<1>6. Step(f, to, n) /\ f.progress = Top.progress /\ f.rdfds = Top.rdfds
  BY <1>5, Zenon DEF Moved, Step
<1> QED
  BY <1>1, <1>2, <1>6, Zenon DEF n

\* Between the walks, aio_poll goes on or returns.
LEMMA BetweenForms ==
  ASSUME Base, Walk1Done \/ Fill \/ Select \/ Interrupted \/ Walk2Done
  PROVE  /\ stack # <<>> /\ Top.pc \in {"walk1", "fill", "select", "walk2"}
         /\ \/ /\ Pop /\ \/ Top.progress
                         \/ {node[n].fd : n \in Live} \cap inflight = {}
                         \/ ~Top.blocking
                         \/ Top.pc = "walk2" /\ Top.cur = Null
                         \/ Interrupted
            \/ \E f : Goto(f) /\ Step(f, "fill", Top.cur)
            \/ \E f : /\ Goto(f) /\ Step(f, "select", Top.cur)
                      /\ f.rdfds = ({node[n].fd : n \in Live} \cap inflight) \cup {NFd}
            \/ \E f : /\ Goto(f) /\ Step(f, "walk2", First(handlers)) /\ Top.pc = "select"
                      /\ f.rdfds # {} /\ f.rdfds \subseteq Top.rdfds
<1>1. stack # <<>> /\ Top.pc \in {"walk1", "fill", "select", "walk2"}
  BY Zenon DEF Walk1Done, Fill, Select, Interrupted, Walk2Done, At
<1>2. Top \in Frames /\ Top.rdfds \in SUBSET Descriptors
  BY <1>1, TopIs, FrameTypes, Zenon
<1>3. "fill" \in PollPcs /\ "select" \in PollPcs /\ "walk2" \in PollPcs
  BY PcSets, Zenon
<1>4. CASE Walk1Done
  <2> DEFINE f == [Top EXCEPT !.pc = "fill"]
  <2>1. (Pop /\ Top.progress) \/ Goto(f)
    BY <1>4, Zenon DEF Walk1Done
  <2>2. Moved(f, Top, "fill", Top.cur, Top.blocking, Top.progress, Top.rdfds)
    BY <1>2, <1>3, FrameMoves, Zenon
  <2> HIDE DEF f
  <2>3. Step(f, "fill", Top.cur)
    BY <2>2, Zenon DEF Moved, Step
  <2> QED
    BY <1>1, <2>1, <2>3, Zenon
<1>5. CASE Fill
  <2> DEFINE b == {node[n].fd : n \in Live} \cap inflight
             r == b \cup {NFd}
             f == [Top EXCEPT !.pc = "select", !.rdfds = r]
  <2>1. r \in SUBSET Descriptors
    <3>1. b \subseteq Fd
      BY Zenon DEF Base, DataOK
    <3> QED
      BY <3>1, Zenon DEF Descriptors
  <2>2. (Pop /\ b = {}) \/ Goto(f)
    BY <1>5, Zenon DEF Fill
  <2> HIDE DEF r
  <2>3. Moved(f, Top, "select", Top.cur, Top.blocking, Top.progress, r)
    BY <1>2, <1>3, <2>1, FrameMoves, Zenon
  <2> HIDE DEF f
  <2>4. Step(f, "select", Top.cur) /\ f.rdfds = r
    BY <2>3, Zenon DEF Moved, Step
  <2> QED
    BY <1>1, <2>2, <2>4, Zenon DEF r
<1>6. CASE Select
  <2> DEFINE r == Top.rdfds \cap ready
             k == First(handlers)
             f == [Top EXCEPT !.pc = "walk2", !.cur = k, !.rdfds = r]
  <2>1. r \in SUBSET Descriptors /\ r \subseteq Top.rdfds
    BY <1>2, Zenon
  <2>2. \/ r # {} /\ Goto(f)
        \/ ~Top.blocking /\ Pop
    BY <1>6, Zenon DEF Select
  <2>3. k \in Pointers /\ Top.pc = "select"
    BY <1>6, Lists, ListFirst, Zenon DEF Pointers, Select, At
  <2> HIDE DEF r, k
  <2>4. Moved(f, Top, "walk2", k, Top.blocking, Top.progress, r)
    BY <1>2, <1>3, <2>1, <2>3, FrameMoves, Zenon
  <2> HIDE DEF f
  <2>5. Step(f, "walk2", k) /\ f.rdfds = r
    BY <2>4, Zenon DEF Moved, Step
  <2> QED
    BY <1>1, <2>1, <2>2, <2>3, <2>5, Zenon DEF k
<1>7. CASE Walk2Done
  BY <1>1, <1>7, Zenon DEF Walk2Done, At
<1>8. CASE Interrupted
  <2>1. Pop
    BY <1>8, Zenon DEF Interrupted
  <2> QED
    BY <1>1, <1>8, <2>1, Zenon
<1> QED
  BY <1>4, <1>5, <1>6, <1>7, <1>8, Zenon

\* A callback returns.
LEMMA ReturnBase ==
  ASSUME Base, Return
  PROVE  Base'
<1>1. PICK f : /\ Goto(f) /\ Step(f, f.pc, Top.cur) /\ f.progress = Top.progress
               /\ \/ Top.pc = "bhcb" /\ f.pc = "bh"
                  \/ Top.pc = "cb1" /\ f.pc = "end1"
                  \/ Top.pc = "cb2" /\ f.pc = "end2"
  BY ReturnForm, Zenon
<1>2. /\ stack # <<>>
      /\ UNCHANGED <<bhs, bh, handlers, node, walking_bh, walking_handlers, ready, inflight,
                     checked, posting, ops>>
  BY Zenon DEF Return
<1>3. /\ Top.pc \in BhPcs <=> f.pc \in BhPcs
      /\ Top.pc \in ServePcs <=> f.pc \in ServePcs
      /\ Top.pc \in WalkPcs <=> f.pc \in WalkPcs
  BY <1>1, PcSets, Zenon
<1>4. Safe(f, bhs, handlers)
  BY <1>1, <1>2, <1>3, TopIs, Zenon DEF Safe, Step
<1>5. Onto(stack', f)
  BY <1>1, <1>2, GotoMoves, Zenon DEF Step
<1>6. StackInv(stack', bhs, handlers, walking_bh, walking_handlers)
  BY <1>2, <1>3, <1>4, <1>5, PlainMove, Zenon
<1>7. DataOK'
  BY <1>2, Zenon DEF Base, DataOK
<1> QED
  BY <1>2, <1>6, <1>7, Zenon DEF Base

\* aio_poll is called, from a callback, from outside or by the GLib loop.
LEMMA Pushes ==
  ASSUME qemu_aio_wait \/ aio_ctx_dispatch
  PROVE  \E b \in BOOLEAN : stack' = <<Frame(b)>> \o stack
<1>1. Frame(FALSE) \in Frames
  BY FrameTypes, Zenon
<1>2. <<Frame(FALSE)>> = <<Frame(FALSE)>> \o <<>>
  BY <1>1, SeqOne, Zenon
<1>3. CASE qemu_aio_wait
  BY <1>3, Zenon DEF qemu_aio_wait
<1>4. CASE aio_ctx_dispatch
  BY <1>2, <1>4, Zenon DEF aio_ctx_dispatch
<1> QED
  BY <1>3, <1>4, Zenon

\* aio_poll is called.
LEMMA CallBase ==
  ASSUME Base, qemu_aio_wait \/ aio_ctx_dispatch
  PROVE  Base'
<1>1. MaxDepth \in Nat /\ 0 < MaxDepth
  BY AioConstants
<1>2. StackInv(stack, bhs, handlers, walking_bh, walking_handlers)
  BY Zenon DEF Base
<1>3. \A b \in BOOLEAN : Frame(b) \in Frames /\ Frame(b).pc = "enter"
  BY FrameTypes, Zenon
<1>4. ASSUME qemu_aio_wait PROVE Base'
  <2>1. /\ stack # <<>> => Top.pc \in CallbackPcs /\ ops < MaxOps
        /\ ops' = IF stack = <<>> THEN ops ELSE ops + 1
        /\ Len(stack) < MaxDepth /\ stack' = <<Frame(TRUE)>> \o stack
        /\ UNCHANGED <<bhs, bh, handlers, node, walking_bh, walking_handlers, ready, inflight,
                       checked, posting>>
    BY <1>4, Zenon DEF qemu_aio_wait, InCallback, CallbackPcs
  <2>2. stack # <<>> => stack[1].pc \in CallbackPcs
    BY <2>1, TopIs, Zenon
  <2>3. StackInv(stack', bhs, handlers, walking_bh, walking_handlers)
    BY <1>1, <1>2, <1>3, <2>1, <2>2, StackCalls, Zenon
  <2>4. ops' \in 0 .. MaxOps
    BY <2>1, AioConstants DEF Base, DataOK
  <2>5. DataOK'
    BY <2>1, <2>4, Zenon DEF Base, DataOK
  <2> QED
    BY <2>1, <2>3, <2>5, Zenon DEF Base
<1>5. ASSUME aio_ctx_dispatch PROVE Base'
  <2>1. /\ stack = <<>> /\ stack' = <<Frame(FALSE)>> /\ checked' = FALSE
        /\ UNCHANGED <<bhs, bh, handlers, node, walking_bh, walking_handlers, ready, inflight,
                       posting, ops>>
    BY <1>5, Zenon DEF aio_ctx_dispatch
  <2>2. stack' = <<Frame(FALSE)>> \o stack
    BY <1>3, <2>1, SeqOne, Zenon
  <2>3. Len(stack) < MaxDepth
    BY <1>1, <2>1, Zenon
  <2>4. StackInv(stack', bhs, handlers, walking_bh, walking_handlers)
    BY <1>1, <1>2, <1>3, <2>1, <2>2, <2>3, StackCalls, Zenon
  <2>5. DataOK'
    BY <2>1, Zenon DEF Base, DataOK
  <2> QED
    BY <2>1, <2>4, <2>5, Zenon DEF Base
<1> QED
  BY <1>4, <1>5, Zenon

\* The walk over the bottom halves starts.
LEMMA BhStartBase ==
  ASSUME Base, BhStart
  PROVE  Base'
<1>1. PICK f : Goto(f) /\ Step(f, "bh", First(bhs))
  BY BhForms, Zenon
<1>2. /\ stack # <<>> /\ Top.pc = "enter" /\ walking_bh' = walking_bh + 1
      /\ UNCHANGED <<bhs, bh, handlers, node, walking_handlers, ready, inflight, checked,
                     posting, ops>>
  BY Zenon DEF BhStart, At
<1>3. First(bhs) # Null => Listed(First(bhs), bhs)
  BY Lists, ListFirst, Zenon
<1>4. Safe(f, bhs, handlers) /\ Onto(stack', f)
  BY <1>1, <1>2, <1>3, PcSets, GotoMoves, Zenon DEF Safe, Step
<1>5. /\ Counted(Top, BhPcs) = 0 /\ Counted(Top, ServePcs) = 0
      /\ Counted(f, BhPcs) = 1 /\ Counted(f, ServePcs) = 0
  BY <1>1, <1>2, PcSets, Zenon DEF Counted, Step
<1>6. /\ walking_bh' = walking_bh - Counted(Top, BhPcs) + Counted(f, BhPcs)
      /\ walking_handlers' = walking_handlers - Counted(Top, ServePcs) + Counted(f, ServePcs)
  BY <1>2, <1>5, Counters
<1>7. StackInv(stack', bhs, handlers, walking_bh', walking_handlers')
  BY <1>2, <1>4, <1>6, Moves, Zenon
<1>8. DataOK'
  BY <1>2, Zenon DEF Base, DataOK
<1> QED
  BY <1>2, <1>7, <1>8, Zenon DEF Base

\* It goes on to the next bottom half.
LEMMA BhWalkBase ==
  ASSUME Base, BhWalk
  PROVE  Base'
<1>1. PICK f : Goto(f) /\ f.pc \in {"bh", "bhcb"} /\ Step(f, f.pc, After(bhs, Top.cur))
  BY BhForms, Zenon
<1> DEFINE d == [bh EXCEPT ![Top.cur].scheduled = FALSE, ![Top.cur].idle = FALSE]
<1>2. /\ stack # <<>> /\ Top.pc = "bh" /\ Listed(Top.cur, bhs)
      /\ bh' = d \/ bh' = bh
      /\ UNCHANGED <<bhs, handlers, node, walking_bh, walking_handlers, ready, inflight, checked,
                     posting, ops>>
  BY BhForms, Zenon DEF BhWalk, At
<1>3. /\ Top.cur \in Bh
      /\ After(bhs, Top.cur) # Null => Listed(After(bhs, Top.cur), bhs)
  BY <1>2, Lists, ListAfter, Zenon
<1>4. Safe(f, bhs, handlers) /\ Onto(stack', f)
  BY <1>1, <1>2, <1>3, PcSets, GotoMoves, Zenon DEF Safe, Step
<1>5. StackInv(stack', bhs, handlers, walking_bh, walking_handlers)
  BY <1>1, <1>2, <1>4, PcSets, PlainMove, Zenon
<1>6. d \in [Bh -> BhFlags]
  BY <1>3, Zenon DEF Base, DataOK, BhFlags
<1>7. DataOK'
  BY <1>2, <1>6, Zenon DEF Base, DataOK
<1> QED
  BY <1>2, <1>5, <1>7, Zenon DEF Base

\* It ends; the last one frees what was deleted.
LEMMA BhEndBase ==
  ASSUME Base, BhEnd
  PROVE  Base'
<1> DEFINE w == Without(bhs, {b \in Bh : bh[b].deleted})
<1>1. PICK f : Goto(f) /\ Step(f, "walk1", First(handlers))
  BY BhForms, Zenon
<1>2. /\ stack # <<>> /\ Top.pc = "bh" /\ walking_bh' = walking_bh - 1
      /\ bhs' = IF walking_bh = 1 THEN w ELSE bhs
      /\ UNCHANGED <<bh, handlers, node, walking_handlers, ready, inflight, checked, posting, ops>>
  BY Zenon DEF BhEnd, At
<1>3. First(handlers) # Null => Listed(First(handlers), handlers)
  BY Lists, ListFirst, Zenon
<1>4. Safe(f, bhs, handlers) /\ Onto(stack', f)
  BY <1>1, <1>2, <1>3, PcSets, GotoMoves, Zenon DEF Safe, Step
<1>5. /\ Counted(Top, BhPcs) = 1 /\ Counted(Top, ServePcs) = 0
      /\ Counted(f, BhPcs) = 0 /\ Counted(f, ServePcs) = 0
  BY <1>1, <1>2, PcSets, Zenon DEF Counted, Step
<1>6. /\ walking_bh' = walking_bh - Counted(Top, BhPcs) + Counted(f, BhPcs)
      /\ walking_handlers' = walking_handlers - Counted(Top, ServePcs) + Counted(f, ServePcs)
  BY <1>2, <1>5, Counters
<1>7. StackInv(stack', bhs, handlers, walking_bh', walking_handlers')
  BY <1>2, <1>4, <1>6, Moves, Zenon
<1>8. w \in Seq(Bh) /\ Distinct(w)
  BY Lists, ListWithout, Zenon
<1> HIDE DEF w
<1>9. ASSUME walking_bh = 1, NEW i \in 1 .. Len(stack') PROVE Safe(stack'[i], w, handlers)
  <2>1. Safe(stack'[i], bhs, handlers)
    BY <1>7, <1>9, Zenon DEF StackInv
  <2>2. stack[1].pc \in BhPcs
    BY <1>2, TopIs, PcSets, Zenon
  <2>3. \A j \in 2 .. Len(stack) : stack[j].pc \notin BhPcs
    BY <1>2, <1>9, <2>2, StackAlone, Zenon DEF Base
  <2>4. i = 1 \/ i \in 2 .. Len(stack)
    <3>1. Len(stack) \in Nat /\ Len(stack') = Len(stack)
      BY <1>2, <1>4, TopIs, Zenon DEF Onto
    <3> QED
      BY <1>9, <3>1
  <2>5. stack'[i].pc \notin BhPcs
    <3>1. stack'[1].pc = "walk1" /\ \A j \in 2 .. Len(stack) : stack'[j].pc = stack[j].pc
      BY <1>1, <1>4, Zenon DEF Onto, Step
    <3>2. "walk1" \notin BhPcs
      BY PcSets, Zenon
    <3> QED
      BY <2>3, <2>4, <3>1, <3>2, Zenon
  <2> QED
    BY <2>1, <2>5, Zenon DEF Safe
<1>10. StackInv(stack', bhs', handlers, walking_bh', walking_handlers')
  BY <1>2, <1>7, <1>8, <1>9, Lists, StackShrinks, Zenon
<1>11. DataOK'
  BY <1>2, Zenon DEF Base, DataOK
<1> QED
  BY <1>2, <1>10, <1>11, Zenon DEF Base
\* A handler is reached by a walk, and called if it has an event.
LEMMA WalkBase ==
  ASSUME Base, Walk1 \/ Walk2
  PROVE  Base'
<1> DEFINE c == Top.cur
           d == [node EXCEPT ![c].revents = FALSE]
<1>1. /\ stack # <<>> /\ Top.pc \in {"walk1", "walk2"} /\ c # Null /\ Listed(c, handlers)
      /\ walking_handlers' = walking_handlers + 1
      /\ UNCHANGED <<bhs, bh, handlers, walking_bh, checked, posting, ops>>
      /\ node' = node \/ node' = d
  BY WalkForms, Zenon DEF Walk1, Walk2
<1>2. PICK f : /\ Step(f, f.pc, c) /\ f.pc \in {"cb1", "end1", "cb2", "end2"}
               /\ \/ io_read(c, f)
                  \/ Goto(f) /\ UNCHANGED <<ready, inflight>>
  BY WalkForms, Zenon
<1>3. c \in Node
  BY <1>1, Lists, Zenon
<1>4. ready' \subseteq ready /\ inflight' \subseteq inflight /\ Onto(stack', f)
  <2>1. f \in Frames /\ stack # <<>>
    BY <1>1, <1>2, Zenon DEF Step
  <2>2. CASE io_read(c, f)
    <3>1. Onto(stack', f)
      BY <2>1, <2>2, ReadMoves, Zenon
    <3> QED
      BY <2>2, <3>1, Zenon DEF io_read
  <2>3. CASE Goto(f) /\ UNCHANGED <<ready, inflight>>
    BY <2>1, <2>3, GotoMoves, Zenon
  <2> QED
    BY <1>2, <2>2, <2>3, Zenon
<1>5. f.pc \in ServePcs /\ Safe(f, bhs, handlers)
  BY <1>1, <1>2, PcSets, Zenon DEF Safe, Step
<1>6. /\ Counted(Top, BhPcs) = 0 /\ Counted(Top, ServePcs) = 0
      /\ Counted(f, BhPcs) = 0 /\ Counted(f, ServePcs) = 1
  BY <1>1, <1>5, PcSets, Zenon DEF Counted
<1>7. /\ walking_bh' = walking_bh - Counted(Top, BhPcs) + Counted(f, BhPcs)
      /\ walking_handlers' = walking_handlers - Counted(Top, ServePcs) + Counted(f, ServePcs)
  BY <1>1, <1>6, Counters
<1>8. StackInv(stack', bhs, handlers, walking_bh', walking_handlers')
  BY <1>1, <1>4, <1>5, <1>7, Moves, Zenon
<1>9. d \in [Node -> NodeFields]
  BY <1>3, Zenon DEF Base, DataOK, NodeFields
<1>10. DataOK'
  BY <1>1, <1>4, <1>9, Zenon DEF Base, DataOK
<1> QED
  BY <1>1, <1>8, <1>10, Zenon DEF Base

\* The walk leaves a handler, which the last walk frees if it was removed.
LEMMA WalkEndBase ==
  ASSUME Base, WalkEnd("end1", "walk1") \/ WalkEnd("end2", "walk2")
  PROVE  Base'
<1> DEFINE c == Top.cur
           n == After(handlers, c)
           w == Without(handlers, {c})
<1>1. /\ stack # <<>> /\ Top.pc \in {"end1", "end2"} /\ Listed(c, handlers)
      /\ \E f : Goto(f) /\ (Step(f, "walk1", n) \/ Step(f, "walk2", n))
  BY WalkEndForm, Zenon
<1>2. PICK f : /\ Goto(f) /\ f.pc \in {"walk1", "walk2"} /\ Step(f, f.pc, n)
  BY <1>1, Zenon DEF Step
<1>3. /\ walking_handlers' = walking_handlers - 1
      /\ handlers' = IF walking_handlers = 1 /\ node[c].deleted THEN w ELSE handlers
      /\ UNCHANGED <<bhs, bh, node, walking_bh, ready, inflight, checked, posting, ops>>
  BY Zenon DEF WalkEnd
<1>4. Top = stack[1] /\ Top.pc \in ServePcs
  BY <1>1, TopIs, PcSets, Zenon
<1>5. n # c /\ (n # Null => Listed(n, handlers))
  BY <1>1, Lists, ListAfter, Zenon
<1> HIDE DEF n
<1>6. Safe(f, bhs, handlers) /\ Onto(stack', f)
  BY <1>1, <1>2, <1>5, PcSets, GotoMoves, Zenon DEF Safe, Step
<1>7. /\ Counted(Top, BhPcs) = 0 /\ Counted(Top, ServePcs) = 1
      /\ Counted(f, BhPcs) = 0 /\ Counted(f, ServePcs) = 0
  BY <1>2, <1>4, PcSets, Zenon DEF Counted, Step
<1>8. /\ walking_bh' = walking_bh - Counted(Top, BhPcs) + Counted(f, BhPcs)
      /\ walking_handlers' = walking_handlers - Counted(Top, ServePcs) + Counted(f, ServePcs)
  BY <1>3, <1>7, Counters
<1>9. StackInv(stack', bhs, handlers, walking_bh', walking_handlers')
  BY <1>1, <1>6, <1>8, Moves, Zenon
<1>10. /\ w \in Seq(Node) /\ Distinct(w)
      /\ \A x : Listed(x, w) <=> Listed(x, handlers) /\ x \notin {c}
  <2>1. handlers \in Seq(Node) /\ Distinct(handlers)
    BY Lists, Zenon
  <2> QED
    BY <2>1, ListWithout, Zenon
<1> HIDE DEF w
<1>11. ASSUME walking_handlers = 1, NEW i \in 1 .. Len(stack') PROVE Safe(stack'[i], bhs, w)
  <2>1. Safe(stack'[i], bhs, handlers)
    BY <1>9, <1>11, Zenon DEF StackInv
  <2>2. \A j \in 2 .. Len(stack) : stack[j].pc \notin WalkPcs
    BY <1>1, <1>4, <1>11, StackAlone, Zenon DEF Base
  <2>3. i = 1 \/ i \in 2 .. Len(stack)
    <3>1. Len(stack) \in Nat /\ Len(stack') = Len(stack)
      BY <1>1, <1>6, TopIs, Zenon DEF Onto
    <3> QED
      BY <1>11, <3>1
  <2>4. i # 1 => stack'[i].pc \notin WalkPcs
    BY <1>6, <2>2, <2>3, Zenon DEF Onto
  <2>5. i = 1 => stack'[i].cur = n
    BY <1>2, <1>6, Zenon DEF Onto, Step
  <2> QED
    BY <1>5, <1>10, <2>1, <2>4, <2>5, Zenon DEF Safe
<1>12. StackInv(stack', bhs, handlers', walking_bh', walking_handlers')
  BY <1>3, <1>9, <1>10, <1>11, Lists, StackShrinks, Zenon
<1>13. DataOK'
  BY <1>3, Zenon DEF Base, DataOK
<1> QED
  BY <1>3, <1>12, <1>13, Zenon DEF Base

\* aio_poll goes on between its walks, or returns.
LEMMA BetweenBase ==
  ASSUME Base, Walk1Done \/ Fill \/ Select \/ Interrupted \/ Walk2Done
  PROVE  Base'
<1>1. UNCHANGED <<bhs, bh, handlers, node, walking_bh, walking_handlers, ready, inflight,
                  checked, posting>>
  BY Zenon DEF Walk1Done, Fill, Select, Interrupted, Walk2Done
<1>2. /\ stack # <<>> /\ Top.pc \in {"walk1", "fill", "select", "walk2"}
      /\ \/ Pop
         \/ \E f : /\ Goto(f)
                   /\ \E p \in {"fill", "select"} : Step(f, p, Top.cur)
         \/ \E f : Goto(f) /\ Step(f, "walk2", First(handlers))
  BY BetweenForms, Zenon
<1>3. Top.pc \notin BhPcs /\ Top.pc \notin ServePcs /\ Top = stack[1] /\ MaxDepth \in Nat
  BY <1>2, PcSets, TopIs, AioConstants, Zenon
<1>4. ASSUME Pop PROVE StackInv(stack', bhs, handlers, walking_bh, walking_handlers)
  BY <1>2, <1>3, <1>4, StackReturns, Zenon DEF Pop, Base
<1>5. ASSUME NEW f \in Frames, Goto(f),
             f.pc \in {"fill", "select"} \/ (f.pc = "walk2" /\ f.cur = First(handlers))
      PROVE  StackInv(stack', bhs, handlers, walking_bh, walking_handlers)
  <2>1. First(handlers) # Null => Listed(First(handlers), handlers)
    BY Lists, ListFirst, Zenon
  <2>2. Safe(f, bhs, handlers) /\ f.pc \notin BhPcs /\ f.pc \notin ServePcs
    BY <1>5, <2>1, PcSets, Zenon DEF Safe
  <2>3. Onto(stack', f)
    BY <1>2, <1>5, GotoMoves, Zenon
  <2> QED
    BY <1>2, <1>3, <2>2, <2>3, PlainMove, Zenon
<1>6. StackInv(stack', bhs, handlers, walking_bh, walking_handlers)
  BY <1>2, <1>4, <1>5, Zenon DEF Step
<1>7. DataOK'
  <2>1. ops \in 0 .. MaxOps
    BY Zenon DEF Base, DataOK
  <2>2. ops' = ops \/ (ops < MaxOps /\ ops' = ops + 1)
    BY Zenon DEF Walk1Done, Fill, Select, Interrupted, Walk2Done
  <2>3. ops' \in 0 .. MaxOps
    BY <2>1, <2>2, AioConstants
  <2> QED
    BY <1>1, <2>3, Zenon DEF Base, DataOK
<1> QED
  BY <1>1, <1>6, <1>7, Zenon DEF Base

\* An element is added at the end of a list.
LEMMA ListEnd ==
  ASSUME NEW S, NEW list \in Seq(S), NEW x \in S, ~Listed(x, list), Distinct(list)
  PROVE  LET t == list \o <<x>>
         IN  /\ t \in Seq(S) /\ Distinct(t)
             /\ \A y : Listed(y, t) <=> y = x \/ Listed(y, list)
<1> DEFINE t == list \o <<x>>
           l == Len(list)
<1>1. l \in Nat /\ <<x>> \in Seq(S) /\ Len(<<x>>) = 1 /\ <<x>>[1] = x
  BY SeqElements, SeqOne, Zenon
<1>2. /\ t \in Seq(S) /\ Len(t) = l + 1
      /\ \A i \in 1 .. l + 1 : t[i] = IF i <= l THEN list[i] ELSE <<x>>[i - l]
  BY <1>1, ConcatProperties, Zenon
<1> HIDE DEF t
<1>3. /\ \A i \in 1 .. l : t[i] = list[i] /\ i \in 1 .. l + 1
      /\ t[l + 1] = x /\ l + 1 \in 1 .. l + 1
      /\ \A i \in 1 .. l + 1 : i = l + 1 \/ i \in 1 .. l
  <2>1. (l + 1) - l = 1 /\ ~(l + 1 <= l) /\ \A i \in 1 .. l : i <= l /\ i \in 1 .. l + 1
    BY <1>1
  <2>2. t[l + 1] = <<x>>[(l + 1) - l]
    BY <1>1, <1>2, <2>1
  <2> QED
    BY <1>1, <1>2, <2>1, <2>2
<1>4. /\ \A y : Listed(y, list) <=> \E i \in 1 .. l : list[i] = y
      /\ \A y : Listed(y, t) <=> \E i \in 1 .. l + 1 : t[i] = y
  <2>1. t \in Seq(S) /\ Len(t) = l + 1
    BY <1>2, Zenon
  <2>2. \A y : Listed(y, t) <=> \E i \in 1 .. Len(t) : t[i] = y
    BY <2>1, ListBasics, Zenon
  <2>3. \A y : Listed(y, list) <=> \E i \in 1 .. l : list[i] = y
    BY ListBasics, Zenon
  <2> QED
    BY <2>1, <2>2, <2>3, Zenon
<1> HIDE DEF l
<1>5. \A y : Listed(y, t) <=> y = x \/ Listed(y, list)
  BY <1>3, <1>4, Zenon
<1>6. \A i \in 1 .. l : t[i] # x
  BY <1>3, <1>4, Zenon
<1>7. \A i, j \in 1 .. l : list[i] = list[j] => i = j
  BY Zenon DEF Distinct, l
<1>8. \A i, j \in 1 .. l + 1 : t[i] = t[j] => i = j
  BY <1>3, <1>6, <1>7, Zenon
<1> QED
  BY <1>2, <1>5, <1>8, Zenon DEF t, Distinct

\* Before the loop runs, each descriptor and the notifier have a handler.
LEMMA Starts ==
  ASSUME Init
  PROVE  /\ Base /\ Listed(Notifier, handlers)
         /\ node[Notifier].fd = NFd
         /\ \A n \in Node \ {Notifier} : Listed(n, handlers) => node[n].fd \in Fd
         /\ \A n \in Node : ~node[n].deleted /\ ~node[n].revents
<1> DEFINE of == CHOOSE f \in Injection(Fd, Node \ {Notifier}) : TRUE
           R == Range(of)
<1>1. /\ bhs = ListOf(Bh) /\ bh = [b \in Bh |-> Idle]
      /\ handlers = ListOf(R) \o <<Notifier>>
      /\ node = [n \in Node |-> IF n \in R
                                THEN [FreeNode EXCEPT !.fd = CHOOSE fd \in Fd : of[fd] = n]
                                ELSE FreeNode]
      /\ walking_bh = 0 /\ walking_handlers = 0 /\ ready = {} /\ inflight = {}
      /\ stack = <<>> /\ checked = FALSE /\ posting = Null /\ ops = 0
  BY Zenon DEF Init
<1>2. of \in Injection(Fd, Node \ {Notifier})
  <2>1. Injection(Fd, Node \ {Notifier}) # {}
    BY AioConstants, Zenon DEF ExistsInjection
  <2> QED
    BY <2>1, Zenon
<1>3. of \in [Fd -> Node \ {Notifier}]
  BY <1>2, Zenon DEF Injection
<1> HIDE DEF of
<1>4. /\ DOMAIN of = Fd /\ R \subseteq Node /\ Notifier \notin R
      /\ \A n \in R : \E fd \in Fd : of[fd] = n
  BY <1>3, Zenon DEF Range
<1>5. IsFiniteSet(R)
  <2>1. of \in Surjection(Fd, R)
    BY <1>3, <1>4, Zenon DEF Surjection, Range
  <2> QED
    BY <2>1, AioConstants, FS_Surjection, Zenon
<1>6. /\ ListOf(R) \in Seq(Node) /\ Distinct(ListOf(R))
      /\ \A y : Listed(y, ListOf(R)) <=> y \in R
  BY <1>4, <1>5, ListOfSet, Zenon
<1>7. /\ handlers \in Seq(Node) /\ Distinct(handlers) /\ Listed(Notifier, handlers)
      /\ \A n \in Node \ {Notifier} : Listed(n, handlers) => n \in R
  <2>1. Notifier \in Node /\ ~Listed(Notifier, ListOf(R))
    BY <1>4, <1>6, AioConstants, Zenon
  <2>2. /\ handlers \in Seq(Node) /\ Distinct(handlers)
        /\ \A y : Listed(y, handlers) <=> y = Notifier \/ Listed(y, ListOf(R))
    BY <1>1, <1>6, <2>1, ListEnd, Zenon
  <2> QED
    BY <1>6, <2>2, Zenon
<1>8. bhs \in Seq(Bh) /\ Distinct(bhs)
  BY <1>1, ListOfSet, AioConstants, Zenon
<1>9. /\ stack \in Seq(Frames) /\ Len(stack) = 0 /\ 0 <= MaxDepth
      /\ \A i \in 1 .. Len(stack) : FALSE
      /\ \A i \in 2 .. Len(stack) : FALSE
  BY <1>1, EmptySeq, AioConstants
<1>10. \A P : Num(stack, P) = 0
  BY <1>1, <1>9, NumBasics, Zenon
<1>11. StackInv(stack, bhs, handlers, walking_bh, walking_handlers)
  BY <1>1, <1>7, <1>8, <1>9, <1>10, Zenon DEF StackInv
<1>12. /\ FreeNode \in NodeFields /\ Idle \in BhFlags /\ 0 \in 0 .. MaxOps
       /\ ~FreeNode.deleted /\ ~FreeNode.revents
  BY AioConstants DEF FreeNode, NodeFields, Descriptors, Idle, BhFlags
<1>13. ASSUME NEW n \in R
       PROVE  LET x == [FreeNode EXCEPT !.fd = CHOOSE fd \in Fd : of[fd] = n]
              IN  x \in NodeFields /\ ~x.deleted /\ ~x.revents /\ x.fd \in Fd
  <2>1. (CHOOSE fd \in Fd : of[fd] = n) \in Fd
    BY <1>4, Zenon
  <2>2. \A fd \in Fd : LET x == [FreeNode EXCEPT !.fd = fd]
                       IN  x \in NodeFields /\ ~x.deleted /\ ~x.revents /\ x.fd \in Fd
    BY Zenon DEF FreeNode, NodeFields, Descriptors
  <2> QED
    BY <2>1, <2>2, Zenon
<1>14. /\ node \in [Node -> NodeFields] /\ \A n \in Node : ~node[n].deleted /\ ~node[n].revents
  BY <1>1, <1>12, <1>13, Zenon
<1>15. /\ node[Notifier].fd = NFd
       /\ \A n \in Node \ {Notifier} : Listed(n, handlers) => node[n].fd \in Fd
  <2>1. node[Notifier] = FreeNode
    BY <1>1, <1>4, AioConstants, Zenon
  <2>2. FreeNode.fd = NFd
    BY Zenon DEF FreeNode
  <2>3. ASSUME NEW n \in R PROVE node[n].fd \in Fd
    <3>1. n \in Node
      BY <1>4, Zenon
    <3>2. node[n] = [FreeNode EXCEPT !.fd = CHOOSE fd \in Fd : of[fd] = n]
      BY <1>1, <3>1, Zenon
    <3> QED
      BY <1>13, <3>2, Zenon
  <2> QED
    BY <1>7, <2>1, <2>2, <2>3, Zenon
<1>16. DataOK
  BY <1>1, <1>12, <1>14, Zenon DEF DataOK
<1> QED
  BY <1>7, <1>11, <1>14, <1>15, <1>16, Zenon DEF Base

\* Every step keeps the counters, the pointers and the types.
LEMMA BaseNext == Base /\ [Next]_vars => Base'
<1> SUFFICES ASSUME Base, [Next]_vars PROVE Base'
  BY Zenon
<1>1. CASE Next
  BY <1>1, FlagsBase, NewBhBase, SetHandlerBase, ClearHandlerBase, ReturnBase, CallBase,
     BhStartBase, BhWalkBase, BhEndBase, WalkBase, WalkEndBase, BetweenBase, Zenon
     DEF Next, Poll, Calls
<1>2. CASE UNCHANGED vars
  BY <1>2, Zenon DEF vars, Base, DataOK
<1> QED
  BY <1>1, <1>2, Zenon

\* The counters walking_bh and walking_handlers count the walks of all active
\* calls, and the pointers of all calls are into the lists.
THEOREM WalksAreCounted == Spec => []Base
<1>1. Init => Base
  BY Starts, Zenon
<1> QED
  BY <1>1, BaseNext, PTL DEF Spec

\* Every variable of the context keeps its type; in particular the counters of
\* walks are not decremented below zero.
THEOREM TypeCorrect == Spec => []TypeOK
<1>1. Base => TypeOK
  <2> SUFFICES ASSUME Base PROVE TypeOK
    BY Zenon
  <2>1. walking_bh \in 0 .. MaxDepth /\ walking_handlers \in 0 .. MaxDepth
    BY Counters, Zenon
  <2>2. bhs \in Seq(Bh) /\ handlers \in Seq(Node) /\ Len(stack) <= MaxDepth
    BY Zenon DEF Base, StackInv
  <2> QED
    BY <2>1, <2>2, Zenon DEF Base, DataOK, TypeOK, BhFlags, NodeFields, Descriptors
<1> QED
  BY <1>1, WalksAreCounted, PTL

\* No walk holds a pointer to a bottom half or a handler that was freed, whatever
\* callbacks delete and however deep aio_poll is nested.
THEOREM PointersAreValid == Spec => []NoDangling
<1>1. Base => NoDangling
  <2> SUFFICES ASSUME Base PROVE NoDangling
    BY Zenon
  <2>1. /\ \A i \in 1 .. Len(stack) : Safe(stack[i], bhs, handlers)
        /\ stack \in Seq(Frames)
    BY Zenon DEF Base, StackInv
  <2>2. DOMAIN stack = 1 .. Len(stack)
    BY <2>1, SeqElements, Zenon
  <2> QED
    BY <2>1, <2>2, Zenon DEF NoDangling, Safe
<1> QED
  BY <1>1, WalksAreCounted, PTL
=============================================================================
