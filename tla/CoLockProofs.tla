---------------------------- MODULE CoLockProofs ----------------------------
(***************************************************************************)
(* The coroutine locks are exclusive and link a coroutine into at most one *)
(* list, for any number of coroutines and acquisitions.                    *)
(*                                                                         *)
(* The three parts of the inductive invariant are stated as predicates of  *)
(* values, so that what an operation does to a stack, to the lists or to   *)
(* the holders is a lemma about these, and a step of the program a use of  *)
(* two or three of the lemmas.                                             *)
(***************************************************************************)
EXTENDS CoLock, SequenceTheorems, FiniteSetTheorems, TLAPS

-----------------------------------------------------------------------------
(* Lists (QTAILQ and singly linked ones) are sequences: what linking and   *)
(* unlinking do to the elements a list holds (ToSet) and to each being in  *)
(* it once (IsInjective).                                                  *)

\* ToSet and IsInjective in terms of positions.
LEMMA ListSets ==
  ASSUME NEW S, NEW s \in Seq(S)
  PROVE  /\ Len(s) \in Nat /\ DOMAIN s = 1 .. Len(s)
         /\ \A i \in 1 .. Len(s) : s[i] \in S
         /\ ToSet(s) = {s[i] : i \in 1 .. Len(s)}
         /\ \A x : x \in ToSet(s) <=> \E i \in 1 .. Len(s) : s[i] = x
         /\ IsInjective(s) <=> \A i, j \in 1 .. Len(s) : s[i] = s[j] => i = j
         /\ ToSet(s) \subseteq S
<1>1. /\ Len(s) \in Nat /\ DOMAIN s = 1 .. Len(s)
      /\ \A i \in 1 .. Len(s) : s[i] \in S
  BY LenProperties, ElementOfSeq, Zenon
<1>2. ToSet(s) = {s[i] : i \in 1 .. Len(s)}
  BY <1>1, Zenon DEF ToSet
<1>3. IsInjective(s) <=> \A i, j \in 1 .. Len(s) : s[i] = s[j] => i = j
  BY <1>1, Zenon DEF IsInjective
<1> QED
  BY <1>1, <1>2, <1>3, Zenon

\* QTAILQ_CONCAT.
LEMMA ListConcat ==
  ASSUME NEW S, NEW s \in Seq(S), NEW t \in Seq(S)
  PROVE  /\ s \o t \in Seq(S) /\ Len(s \o t) = Len(s) + Len(t)
         /\ ToSet(s \o t) = ToSet(s) \cup ToSet(t)
         /\ IsInjective(s \o t) <=> /\ IsInjective(s) /\ IsInjective(t)
                                    /\ ToSet(s) \cap ToSet(t) = {}
<1> DEFINE c == s \o t
<1>1. /\ c \in Seq(S) /\ Len(c) = Len(s) + Len(t)
      /\ \A i \in 1 .. Len(s) + Len(t) :
           c[i] = IF i <= Len(s) THEN s[i] ELSE t[i - Len(s)]
  BY ConcatProperties, Zenon
<1> HIDE DEF c
<1>2. /\ Len(s) \in Nat /\ Len(t) \in Nat
      /\ \A x : x \in ToSet(s) <=> \E i \in 1 .. Len(s) : s[i] = x
      /\ \A x : x \in ToSet(t) <=> \E i \in 1 .. Len(t) : t[i] = x
      /\ IsInjective(s) <=> \A i, j \in 1 .. Len(s) : s[i] = s[j] => i = j
      /\ IsInjective(t) <=> \A i, j \in 1 .. Len(t) : t[i] = t[j] => i = j
  BY ListSets, Zenon
<1>3. /\ \A x : x \in ToSet(c) <=> \E i \in 1 .. Len(c) : c[i] = x
      /\ IsInjective(c) <=> \A i, j \in 1 .. Len(c) : c[i] = c[j] => i = j
  <2>1. c \in Seq(S)
    BY <1>1, Zenon
  <2> QED
    BY ONLY <2>1, ListSets, Zenon
<1>4. /\ \A i \in 1 .. Len(s) : i \in 1 .. Len(c) /\ c[i] = s[i]
      /\ \A i \in 1 .. Len(t) : /\ i + Len(s) \in 1 .. Len(c)
                                /\ c[i + Len(s)] = t[i]
                                /\ \A j \in 1 .. Len(s) : j # i + Len(s)
  <2>1. ASSUME NEW i \in 1 .. Len(s)
        PROVE  i \in 1 .. Len(c) /\ c[i] = s[i]
    BY <1>1, <1>2
  <2>2. ASSUME NEW i \in 1 .. Len(t)
        PROVE  /\ i + Len(s) \in 1 .. Len(c) /\ c[i + Len(s)] = t[i]
               /\ \A j \in 1 .. Len(s) : j # i + Len(s)
    <3>1. /\ i + Len(s) \in 1 .. Len(s) + Len(t) /\ ~(i + Len(s) <= Len(s))
          /\ (i + Len(s)) - Len(s) = i
          /\ \A j \in 1 .. Len(s) : j # i + Len(s)
      BY <1>2
    <3>2. c[i + Len(s)] = t[(i + Len(s)) - Len(s)]
      BY <1>1, <3>1, Zenon
    <3> QED
      BY <1>1, <3>1, <3>2, Zenon
  <2> QED
    BY <2>1, <2>2, Zenon
<1>5. \A i \in 1 .. Len(c) : \/ i \in 1 .. Len(s)
                             \/ \E k \in 1 .. Len(t) : i = k + Len(s)
  <2>1. ASSUME NEW i \in 1 .. Len(c), i \notin 1 .. Len(s)
        PROVE  \E k \in 1 .. Len(t) : i = k + Len(s)
    <3>1. i - Len(s) \in 1 .. Len(t) /\ i = (i - Len(s)) + Len(s)
      BY <1>1, <1>2, <2>1
    <3> QED
      BY <3>1, Zenon
  <2> QED
    BY <2>1, Zenon
<1>6. ToSet(c) = ToSet(s) \cup ToSet(t)
  <2>1. ASSUME NEW x \in ToSet(c) PROVE x \in ToSet(s) \cup ToSet(t)
    <3>1. PICK i \in 1 .. Len(c) : c[i] = x
      BY <1>3, Zenon
    <3>2. CASE i \in 1 .. Len(s)
      BY <1>2, <1>4, <3>1, <3>2, Zenon
    <3>3. ASSUME NEW k \in 1 .. Len(t), i = k + Len(s)
          PROVE  x \in ToSet(t)
      BY <1>2, <1>4, <3>1, <3>3, Zenon
    <3> QED
      BY <1>5, <3>2, <3>3, Zenon
  <2>2. ASSUME NEW x \in ToSet(s) PROVE x \in ToSet(c)
    BY <1>2, <1>3, <1>4
  <2>3. ASSUME NEW x \in ToSet(t) PROVE x \in ToSet(c)
    <3>1. PICK k \in 1 .. Len(t) : t[k] = x
      BY <1>2, Zenon
    <3>2. k + Len(s) \in 1 .. Len(c) /\ c[k + Len(s)] = x
      BY <1>4, <3>1, Zenon
    <3> QED
      BY <1>3, <3>2, Zenon
  <2> QED
    BY <2>1, <2>2, <2>3, Zenon
<1>7. ASSUME IsInjective(c)
      PROVE  IsInjective(s) /\ IsInjective(t) /\ ToSet(s) \cap ToSet(t) = {}
  <2>1. \A i, j \in 1 .. Len(c) : c[i] = c[j] => i = j
    BY <1>3, <1>7, Zenon
  <2>2. IsInjective(s)
    BY <1>2, <1>4, <2>1
  <2>3. ASSUME NEW i \in 1 .. Len(t), NEW j \in 1 .. Len(t), t[i] = t[j]
        PROVE  i = j
    <3>1. i + Len(s) = j + Len(s)
      BY <1>4, <2>1, <2>3, Zenon
    <3> QED
      BY <1>2, <3>1
  <2>4. ToSet(s) \cap ToSet(t) = {}
    BY <1>2, <1>4, <2>1
  <2> QED
    BY <1>2, <2>2, <2>3, <2>4, Zenon
<1>8. ASSUME IsInjective(s), IsInjective(t), ToSet(s) \cap ToSet(t) = {}
      PROVE  IsInjective(c)
  <2> SUFFICES ASSUME NEW i \in 1 .. Len(c), NEW j \in 1 .. Len(c), c[i] = c[j]
               PROVE  i = j
    BY <1>3, Zenon
  <2>1. CASE i \in 1 .. Len(s) /\ j \in 1 .. Len(s)
    BY <1>2, <1>4, <1>8, <2>1
  <2>2. ASSUME NEW k \in 1 .. Len(t), i = k + Len(s), j \in 1 .. Len(s)
        PROVE  FALSE
    <3>1. t[k] \in ToSet(t) /\ s[j] \in ToSet(s) /\ s[j] = t[k]
      BY <1>2, <1>4, <2>2, Zenon
    <3> QED
      BY <1>8, <3>1, Zenon
  <2>3. ASSUME NEW k \in 1 .. Len(t), j = k + Len(s), i \in 1 .. Len(s)
        PROVE  FALSE
    <3>1. t[k] \in ToSet(t) /\ s[i] \in ToSet(s) /\ s[i] = t[k]
      BY <1>2, <1>4, <2>3, Zenon
    <3> QED
      BY <1>8, <3>1, Zenon
  <2>4. ASSUME NEW k \in 1 .. Len(t), i = k + Len(s),
               NEW l \in 1 .. Len(t), j = l + Len(s)
        PROVE  i = j
    <3>1. t[k] = t[l]
      BY <1>4, <2>4, Zenon
    <3> QED
      BY <1>2, <1>8, <2>4, <3>1, Zenon
  <2> QED
    BY <1>5, <2>1, <2>2, <2>3, <2>4, Zenon
<1> QED
  BY <1>1, <1>6, <1>7, <1>8, Zenon DEF c

\* A list cut in two.
LEMMA ListSplit ==
  ASSUME NEW S, NEW s \in Seq(S), NEW n \in 0 .. Len(s)
  PROVE  LET a == SubSeq(s, 1, n)
             b == SubSeq(s, n + 1, Len(s))
         IN  /\ a \in Seq(S) /\ b \in Seq(S) /\ s = a \o b
             /\ ToSet(s) = ToSet(a) \cup ToSet(b)
             /\ IsInjective(s) <=> /\ IsInjective(a) /\ IsInjective(b)
                                   /\ ToSet(a) \cap ToSet(b) = {}
<1> DEFINE a == SubSeq(s, 1, n)
           b == SubSeq(s, n + 1, Len(s))
<1>1. Len(s) \in Nat /\ n \in Int /\ \A i \in 1 .. Len(s) : s[i] \in S
  BY ListSets
<1>2. a \in Seq(S)
  <2>1. \A i \in 1 .. n : s[i] \in S
    BY <1>1
  <2> QED
    BY <1>1, <2>1, SubSeqProperties
<1>3. b \in Seq(S)
  <2>1. \A i \in n + 1 .. Len(s) : s[i] \in S
    BY <1>1
  <2> QED
    BY <1>1, <2>1, SubSeqProperties
<1>4. a \o b = s
  <2>1. 1 \in 1 .. Len(s) + 1 /\ n \in 1 - 1 .. Len(s) /\ Len(s) \in n .. Len(s)
    BY <1>1
  <2>2. a \o b = SubSeq(s, 1, Len(s))
    BY <2>1, ConcatAdjacentSubSeq, Zenon
  <2> QED
    BY <2>2, SubSeqFull, Zenon
<1> HIDE DEF a, b
<1>5. /\ ToSet(a \o b) = ToSet(a) \cup ToSet(b)
      /\ IsInjective(a \o b) <=> /\ IsInjective(a) /\ IsInjective(b)
                                 /\ ToSet(a) \cap ToSet(b) = {}
  BY <1>2, <1>3, ListConcat
<1> QED
  BY <1>2, <1>3, <1>4, <1>5, Zenon DEF a, b

\* The list that holds nothing.
LEMMA ListNone ==
  ASSUME NEW S
  PROVE  <<>> \in Seq(S) /\ ToSet(<<>>) = {} /\ IsInjective(<<>>)
<1>1. <<>> \in Seq(S) /\ 1 .. Len(<<>>) = {}
  OBVIOUS
<1> QED
  BY <1>1, ListSets, Zenon

\* The list that holds one element.
LEMMA ListOne ==
  ASSUME NEW S, NEW x \in S
  PROVE  <<x>> \in Seq(S) /\ ToSet(<<x>>) = {x} /\ IsInjective(<<x>>)
<1> DEFINE s == <<x>>
<1>1. s \in Seq(S) /\ 1 .. Len(s) = {1} /\ s[1] = x
  OBVIOUS
<1> HIDE DEF s
<1>2. /\ ToSet(s) = {s[i] : i \in 1 .. Len(s)}
      /\ IsInjective(s) <=> \A i, j \in 1 .. Len(s) : s[i] = s[j] => i = j
  BY <1>1, ListSets, Zenon
<1>3. ToSet(s) = {x} /\ IsInjective(s)
  BY <1>1, <1>2, Zenon
<1> QED
  BY <1>1, <1>3, Zenon DEF s

\* QTAILQ_INSERT_TAIL.
LEMMA ListAppend ==
  ASSUME NEW S, NEW s \in Seq(S), NEW x \in S
  PROVE  /\ Append(s, x) \in Seq(S) /\ ToSet(Append(s, x)) = ToSet(s) \cup {x}
         /\ IsInjective(s) /\ x \notin ToSet(s) => IsInjective(Append(s, x))
<1> DEFINE o == <<x>>
<1>1. o \in Seq(S) /\ ToSet(o) = {x} /\ IsInjective(o)
  BY ListOne, Zenon
<1>2. Append(s, x) = s \o o
  BY AppendIsConcat, Zenon
<1> HIDE DEF o
<1>3. /\ s \o o \in Seq(S) /\ ToSet(s \o o) = ToSet(s) \cup ToSet(o)
      /\ IsInjective(s) /\ IsInjective(o) /\ ToSet(s) \cap ToSet(o) = {} => IsInjective(s \o o)
  BY <1>1, ListConcat, Zenon
<1> QED
  BY <1>1, <1>2, <1>3, Zenon

\* QTAILQ_FIRST and QTAILQ_REMOVE of it.
LEMMA ListTail ==
  ASSUME NEW S, NEW s \in Seq(S), s # <<>>
  PROVE  /\ Head(s) \in S /\ Tail(s) \in Seq(S) /\ Head(s) \in ToSet(s)
         /\ ToSet(s) = ToSet(Tail(s)) \cup {Head(s)}
         /\ IsInjective(s) => IsInjective(Tail(s)) /\ Head(s) \notin ToSet(Tail(s))
<1> DEFINE o == <<Head(s)>>
           t == Tail(s)
<1>1. Head(s) \in S /\ t \in Seq(S)
  BY HeadTailProperties, Zenon
<1>2. o \in Seq(S) /\ ToSet(o) = {Head(s)}
  BY <1>1, ListOne, Zenon
<1>3. s = o \o t
  OBVIOUS
<1> HIDE DEF o, t
<1>4. /\ ToSet(o \o t) = ToSet(o) \cup ToSet(t)
      /\ IsInjective(o \o t) => IsInjective(t) /\ ToSet(o) \cap ToSet(t) = {}
  BY <1>1, <1>2, ListConcat, Zenon
<1>5. /\ ToSet(s) = ToSet(o) \cup ToSet(t)
      /\ IsInjective(s) => IsInjective(t) /\ ToSet(o) \cap ToSet(t) = {}
  BY <1>3, <1>4, Zenon
<1> QED
  BY <1>1, <1>2, <1>5, Zenon DEF t

\* The top of a stack, and popping it.
LEMMA StackFront ==
  ASSUME NEW S, NEW s \in Seq(S), s # <<>>
  PROVE  /\ Len(s) \in Nat \ {0} /\ Last(s) = s[Len(s)] /\ Last(s) \in S
         /\ Front(s) \in Seq(S) /\ Len(Front(s)) = Len(s) - 1
         /\ \A k \in 1 .. Len(s) - 1 : Front(s)[k] = s[k]
<1> DEFINE n == Len(s) - 1
<1>1. Len(s) \in Nat \ {0} /\ \A k \in 1 .. Len(s) : s[k] \in S
  BY EmptySeq, ElementOfSeq, Zenon
<1>2. n \in Nat /\ \A k \in 1 .. n : s[k] \in S
  BY <1>1
<1>3. Front(s) = SubSeq(s, 1, n) /\ Last(s) = s[Len(s)]
  BY Zenon DEF Front, Last
<1> HIDE DEF n
<1>4. /\ SubSeq(s, 1, n) \in Seq(S)
      /\ Len(SubSeq(s, 1, n)) = IF 1 <= n THEN n - 1 + 1 ELSE 0
      /\ \A k \in 1 .. n - 1 + 1 : SubSeq(s, 1, n)[k] = s[1 + k - 1]
  BY <1>2, SubSeqProperties
<1>5. /\ Front(s) \in Seq(S) /\ Len(Front(s)) = n
      /\ \A k \in 1 .. n : Front(s)[k] = s[k]
  BY <1>2, <1>3, <1>4
<1>6. Last(s) \in S
  BY <1>1, <1>3
<1> QED
  BY <1>1, <1>3, <1>5, <1>6, Zenon DEF n

-----------------------------------------------------------------------------
(* The chain of callers *)

Context == Co \cup {EventLoop, Bh}

OnIt(s, x) == \E i \in 1 .. Len(s) : s[i] = x

\* The event loop is at the bottom and no coroutine is entered twice; a nested
\* aio_poll can run unlock_bh again.
StackShape(s) ==
  /\ s \in Seq(Context) /\ s # <<>> /\ s[1] = EventLoop
  /\ \A i, j \in 1 .. Len(s) : s[i] = s[j] /\ s[i] # Bh => i = j

\* Entering a coroutine that is not on the chain, or unlock_bh.
LEMMA StackPush ==
  ASSUME NEW s, StackShape(s), NEW x \in Co \cup {Bh}, x = Bh \/ ~OnIt(s, x)
  PROVE  /\ StackShape(Append(s, x))
         /\ \A c \in Co : OnIt(Append(s, x), c) <=> OnIt(s, c) \/ c = x
<1> DEFINE a == Append(s, x)
           n == Len(s)
<1>1. s \in Seq(Context) /\ x \in Context /\ s # <<>>
  BY Zenon DEF StackShape, Context
<1>2. /\ a \in Seq(Context) /\ a # <<>> /\ n \in Nat \ {0} /\ Len(a) = n + 1
      /\ a[n + 1] = x /\ \A i \in 1 .. n : a[i] = s[i]
  BY <1>1, AppendProperties, LenProperties, EmptySeq
<1> HIDE DEF a
<1>3. /\ \A i \in 1 .. n + 1 : i \in 1 .. n \/ i = n + 1
      /\ \A i \in 1 .. n : i \in 1 .. n + 1
      /\ n + 1 \in 1 .. n + 1 /\ 1 \in 1 .. n
  BY <1>2
<1>4. /\ \A i, j \in 1 .. n : s[i] = s[j] /\ s[i] # Bh => i = j
      /\ s[1] = EventLoop
  BY Zenon DEF StackShape
<1>5. x # Bh => \A i \in 1 .. n : s[i] # x
  BY Zenon DEF OnIt
<1> HIDE DEF n
<1>6. \A i, j \in 1 .. n + 1 : a[i] = a[j] /\ a[i] # Bh => i = j
  BY <1>2, <1>3, <1>4, <1>5, Zenon
<1>7. StackShape(a)
  BY <1>2, <1>3, <1>4, <1>6, Zenon DEF StackShape
<1>8. \A c \in Co : OnIt(a, c) <=> OnIt(s, c) \/ c = x
  BY <1>2, <1>3, Zenon DEF OnIt, n
<1> QED
  BY <1>7, <1>8, Zenon DEF a

\* Returning to the caller: only the innermost context leaves the chain.
LEMMA StackPop ==
  ASSUME NEW s, StackShape(s), Last(s) # EventLoop
  PROVE  /\ StackShape(Front(s)) /\ Last(s) \in Co \cup {Bh}
         /\ \A c \in Co : OnIt(Front(s), c) <=> OnIt(s, c) /\ c # Last(s)
<1> DEFINE f == Front(s)
           x == Last(s)
           n == Len(s)
<1>1. s \in Seq(Context) /\ s # <<>>
  BY Zenon DEF StackShape
<1>2. /\ n \in Nat \ {0} /\ x = s[n] /\ x \in Context /\ f \in Seq(Context)
      /\ Len(f) = n - 1 /\ \A i \in 1 .. n - 1 : f[i] = s[i]
  BY ONLY <1>1, StackFront, Zenon
<1> HIDE DEF f, x
<1>3. /\ \A i, j \in 1 .. n : s[i] = s[j] /\ s[i] # Bh => i = j
      /\ s[1] = EventLoop
  BY Zenon DEF StackShape
<1> HIDE DEF n
<1>4. n # 1
  BY <1>2, <1>3, Zenon DEF x
<1>5. /\ \A i \in 1 .. n : i \in 1 .. n - 1 \/ i = n
      /\ \A i \in 1 .. n - 1 : i \in 1 .. n /\ i # n
      /\ 1 \in 1 .. n - 1 /\ n \in 1 .. n
  BY <1>2, <1>4
<1>6. f # <<>>
  BY <1>2, <1>4
<1>7. StackShape(f)
  BY <1>2, <1>3, <1>5, <1>6, Zenon DEF StackShape
<1>8. \A c \in Co : c # Bh
  BY ConstantsAssumption, Zenon
<1>9. \A c \in Co : OnIt(f, c) <=> OnIt(s, c) /\ c # x
  <2> SUFFICES ASSUME NEW c \in Co PROVE OnIt(f, c) <=> OnIt(s, c) /\ c # x
    BY Zenon
  <2>1. ASSUME NEW i \in 1 .. n - 1, f[i] = c
        PROVE  s[i] = c /\ i \in 1 .. n /\ c # x
    BY <1>2, <1>3, <1>5, <1>8, <2>1, Zenon
  <2>2. ASSUME NEW i \in 1 .. n, s[i] = c, c # x
        PROVE  i \in 1 .. n - 1 /\ f[i] = c
    BY <1>2, <1>5, <2>2, Zenon
  <2> QED
    BY <1>2, <2>1, <2>2, Zenon DEF OnIt, n
<1>10. x \in Co \cup {Bh}
  BY <1>2, Zenon DEF Context, x
<1> QED
  BY <1>7, <1>9, <1>10, Zenon DEF f, x

-----------------------------------------------------------------------------
(* The lists of the locks and unlock_bh_queue *)

Lock == {"mutex", "rwlock"}

\* The lists q and u hold the coroutines of W, each in one list and once.
LinkShape(q, u, W) ==
  /\ q \in [Lock -> Seq(Co)] /\ u \in Seq(Co)
  /\ IsInjective(q["mutex"]) /\ IsInjective(q["rwlock"]) /\ IsInjective(u)
  /\ ToSet(q["mutex"]) \cap ToSet(q["rwlock"]) = {}
  /\ ToSet(q["mutex"]) \cap ToSet(u) = {} /\ ToSet(q["rwlock"]) \cap ToSet(u) = {}
  /\ W = ToSet(q["mutex"]) \cup ToSet(q["rwlock"]) \cup ToSet(u)

\* The lists one after the other have no coroutine twice.
LEMMA LinksOnce ==
  ASSUME NEW q, NEW u, NEW W, LinkShape(q, u, W)
  PROVE  LET links == q["mutex"] \o q["rwlock"] \o u
         IN /\ \A i, j \in 1 .. Len(links) : links[i] = links[j] => i = j
            /\ {links[i] : i \in 1 .. Len(links)} = W
<1> DEFINE m == q["mutex"]
           r == q["rwlock"]
<1>1. m \in Seq(Co) /\ r \in Seq(Co) /\ u \in Seq(Co)
  BY Zenon DEF LinkShape, Lock
<1>2. /\ IsInjective(m) /\ IsInjective(r) /\ IsInjective(u)
      /\ ToSet(m) \cap ToSet(r) = {} /\ (ToSet(m) \cup ToSet(r)) \cap ToSet(u) = {}
      /\ W = ToSet(m) \cup ToSet(r) \cup ToSet(u)
  BY Zenon DEF LinkShape
<1> HIDE DEF m, r
<1>3. /\ m \o r \in Seq(Co) /\ IsInjective(m \o r)
      /\ ToSet(m \o r) = ToSet(m) \cup ToSet(r)
  BY ONLY <1>1, <1>2, ListConcat
<1> DEFINE k == (m \o r) \o u
<1>4. k \in Seq(Co) /\ IsInjective(k) /\ ToSet(k) = W
  <2>1. /\ u \in Seq(Co) /\ IsInjective(u) /\ ToSet(m \o r) \cap ToSet(u) = {}
        /\ W = ToSet(m \o r) \cup ToSet(u)
    BY ONLY <1>1, <1>2, <1>3, Zenon
  <2> QED
    BY ONLY <1>3, <2>1, ListConcat, Zenon
<1> HIDE DEF k
<1>5. /\ \A i, j \in 1 .. Len(k) : k[i] = k[j] => i = j
      /\ {k[i] : i \in 1 .. Len(k)} = W
  BY ONLY <1>4, ListSets, Zenon
<1> QED
  BY <1>5, Zenon DEF k, m, r

\* qemu_co_queue_wait: a coroutine that is in no list is appended to one.
LEMMA LinkWait ==
  ASSUME NEW q, NEW u, NEW W, LinkShape(q, u, W), NEW l \in Lock,
         NEW c \in Co, c \notin W
  PROVE  LinkShape([q EXCEPT ![l] = Append(@, c)], u, W \cup {c})
<1>1. ASSUME NEW s \in Seq(Co), IsInjective(s), c \notin ToSet(s)
      PROVE  /\ Append(s, c) \in Seq(Co) /\ IsInjective(Append(s, c))
             /\ ToSet(Append(s, c)) = ToSet(s) \cup {c}
  BY <1>1, ListAppend
<1>2. /\ q["mutex"] \in Seq(Co) /\ q["rwlock"] \in Seq(Co)
      /\ \A k \in Lock : IsInjective(q[k]) /\ c \notin ToSet(q[k])
  BY Zenon DEF LinkShape, Lock
<1>3. CASE l = "mutex"
  <2> DEFINE p == [q EXCEPT !["mutex"] = Append(@, c)]
  <2>1. /\ p["mutex"] = Append(q["mutex"], c) /\ p["rwlock"] = q["rwlock"]
        /\ p \in [Lock -> Seq(Co)]
    BY <1>1, <1>2, Zenon DEF LinkShape, Lock
  <2>2. IsInjective(p["mutex"]) /\ ToSet(p["mutex"]) = ToSet(q["mutex"]) \cup {c}
    BY <1>1, <1>2, <2>1, Zenon DEF Lock
  <2> HIDE DEF p
  <2>3. LinkShape(p, u, W \cup {c})
    BY <2>1, <2>2, Zenon DEF LinkShape
  <2> QED
    BY <1>3, <2>3, Zenon DEF p
<1>4. CASE l = "rwlock"
  <2> DEFINE p == [q EXCEPT !["rwlock"] = Append(@, c)]
  <2>1. /\ p["rwlock"] = Append(q["rwlock"], c) /\ p["mutex"] = q["mutex"]
        /\ p \in [Lock -> Seq(Co)]
    BY <1>1, <1>2, Zenon DEF LinkShape, Lock
  <2>2. IsInjective(p["rwlock"]) /\ ToSet(p["rwlock"]) = ToSet(q["rwlock"]) \cup {c}
    BY <1>1, <1>2, <2>1, Zenon DEF Lock
  <2> HIDE DEF p
  <2>3. LinkShape(p, u, W \cup {c})
    BY <2>1, <2>2, Zenon DEF LinkShape
  <2> QED
    BY <1>4, <2>3, Zenon DEF p
<1> QED
  BY <1>3, <1>4, Zenon DEF Lock

\* qemu_co_queue_next: the first n coroutines of a lock move to unlock_bh_queue.
LEMMA LinkWake ==
  ASSUME NEW q, NEW u, NEW W, LinkShape(q, u, W), NEW l \in Lock,
         NEW n \in 0 .. Len(q[l])
  PROVE  LinkShape([q EXCEPT ![l] = SubSeq(@, n + 1, Len(@))],
                   u \o SubSeq(q[l], 1, n), W)
<1> DEFINE a == SubSeq(q[l], 1, n)
           b == SubSeq(q[l], n + 1, Len(q[l]))
           p == [q EXCEPT ![l] = SubSeq(@, n + 1, Len(@))]
           v == u \o a
<1>1. q[l] \in Seq(Co) /\ IsInjective(q[l]) /\ u \in Seq(Co) /\ IsInjective(u)
  BY Zenon DEF LinkShape, Lock
<1>2. /\ a \in Seq(Co) /\ b \in Seq(Co) /\ ToSet(q[l]) = ToSet(a) \cup ToSet(b)
      /\ IsInjective(a) /\ IsInjective(b) /\ ToSet(a) \cap ToSet(b) = {}
  BY <1>1, ListSplit, Zenon
<1>3. p[l] = b /\ p \in [Lock -> Seq(Co)] /\ \A k \in Lock \ {l} : p[k] = q[k]
  BY <1>2, Zenon DEF LinkShape
<1> HIDE DEF a, b, p
<1>4. ToSet(q[l]) \cap ToSet(u) = {}
  BY Zenon DEF LinkShape, Lock
<1>5. v \in Seq(Co) /\ IsInjective(v) /\ ToSet(v) = ToSet(u) \cup ToSet(a)
  <2>1. ToSet(u) \cap ToSet(a) = {}
    BY <1>2, <1>4, Zenon
  <2> QED
    BY ONLY <1>1, <1>2, <2>1, ListConcat
<1> HIDE DEF v
<1>6. LinkShape(p, v, W)
  <2>1. CASE l = "mutex"
    BY <1>2, <1>3, <1>5, <2>1, Zenon DEF LinkShape, Lock
  <2>2. CASE l = "rwlock"
    BY <1>2, <1>3, <1>5, <2>2, Zenon DEF LinkShape, Lock
  <2> QED
    BY <2>1, <2>2, Zenon DEF Lock
<1> QED
  BY <1>6, Zenon DEF p, v, a

\* qemu_co_queue_next_bh takes the first coroutine of unlock_bh_queue.
LEMMA LinkTake ==
  ASSUME NEW q, NEW u, NEW W, LinkShape(q, u, W), u # <<>>
  PROVE  Head(u) \in Co /\ Head(u) \in W /\ LinkShape(q, Tail(u), W \ {Head(u)})
<1>1. u \in Seq(Co) /\ IsInjective(u) /\ u # <<>>
  BY Zenon DEF LinkShape
<1>2. /\ Head(u) \in Co /\ Tail(u) \in Seq(Co) /\ IsInjective(Tail(u))
      /\ Head(u) \in ToSet(u) /\ Head(u) \notin ToSet(Tail(u))
      /\ ToSet(u) = ToSet(Tail(u)) \cup {Head(u)}
  BY ONLY <1>1, ListTail, Zenon
<1> QED
  BY <1>2, Zenon DEF LinkShape

-----------------------------------------------------------------------------
(* The holders, the flags and the counter *)

Readers(h) == {c \in Co : h[c] = "read"}

HoldShape(h, lk, rd, wt) ==
  /\ h \in [Co -> Wants \cup {"none"}]
  /\ lk \in BOOLEAN /\ rd \in Nat /\ wt \in BOOLEAN
  /\ \A c, d \in Co : h[c] = "mutex" /\ h[d] = "mutex" => c = d
  /\ \A c, d \in Co : h[c] = "write" /\ h[d] = "write" => c = d
  /\ \A c, d \in Co : ~(h[c] = "read" /\ h[d] = "write")
  /\ lk <=> \E c \in Co : h[c] = "mutex"
  /\ wt <=> \E c \in Co : h[c] = "write"
  /\ IsFiniteSet(Readers(h)) /\ rd = Cardinality(Readers(h))

\* This is what CoMutex and CoRwlock promise.
LEMMA HoldersExclude ==
  ASSUME HoldShape(holds, locked, reader, writer)
  PROVE  Exclusion
<1>1. ASSUME NEW c \in Co, NEW d \in Co, c # d
      PROVE  {holds[c], holds[d]} \notin {{"mutex"}, {"write"}, {"read", "write"}}
  <2>1. {holds[c], holds[d]} # {"mutex"}
    BY <1>1, Zenon DEF HoldShape
  <2>2. {holds[c], holds[d]} # {"write"}
    BY <1>1, Zenon DEF HoldShape
  <2>3. {holds[c], holds[d]} # {"read", "write"}
    <3>1. SUFFICES ASSUME {holds[c], holds[d]} = {"read", "write"} PROVE FALSE
      BY Zenon
    <3>2. \/ holds[c] = "read" /\ holds[d] = "write"
          \/ holds[c] = "write" /\ holds[d] = "read"
      BY <3>1, Zenon
    <3> QED
      BY <3>2, Zenon DEF HoldShape
  <2> QED
    BY <2>1, <2>2, <2>3, Zenon
<1> QED
  BY <1>1, Zenon DEF HoldShape, Exclusion, Readers

\* Taking a lock that need not be waited for.
LEMMA HoldAcquire ==
  ASSUME NEW h, NEW lk, NEW rd, NEW wt, HoldShape(h, lk, rd, wt),
         NEW c \in Co, h[c] = "none", NEW want \in Wants,
         want = "mutex" => ~lk,
         want = "read" => ~wt,
         want = "write" => ~wt /\ rd = 0
  PROVE  HoldShape([h EXCEPT ![c] = want], lk \/ want = "mutex",
                   IF want = "read" THEN rd + 1 ELSE rd, wt \/ want = "write")
<1> DEFINE g == [h EXCEPT ![c] = want]
<1>1. /\ g \in [Co -> Wants \cup {"none"}] /\ g[c] = want
      /\ \A d \in Co \ {c} : g[d] = h[d]
  BY Zenon DEF HoldShape
<1> HIDE DEF g
<1>2. /\ (lk \/ want = "mutex") \in BOOLEAN /\ (wt \/ want = "write") \in BOOLEAN
      /\ (IF want = "read" THEN rd + 1 ELSE rd) \in Nat
  BY DEF HoldShape
<1>3. want = "write" => Readers(h) = {}
  BY FS_EmptySet, Zenon DEF HoldShape
<1>4. \A d, e \in Co : g[d] = "mutex" /\ g[e] = "mutex" => d = e
  BY <1>1, Zenon DEF HoldShape
<1>5. \A d, e \in Co : g[d] = "write" /\ g[e] = "write" => d = e
  BY <1>1, Zenon DEF HoldShape
<1>6. \A d, e \in Co : ~(g[d] = "read" /\ g[e] = "write")
  BY <1>1, <1>3, Zenon DEF HoldShape, Readers
<1>7. lk \/ want = "mutex" <=> \E d \in Co : g[d] = "mutex"
  BY <1>1, Zenon DEF HoldShape
<1>8. wt \/ want = "write" <=> \E d \in Co : g[d] = "write"
  BY <1>1, Zenon DEF HoldShape
<1>9. /\ IsFiniteSet(Readers(g))
      /\ (IF want = "read" THEN rd + 1 ELSE rd) = Cardinality(Readers(g))
  <2>1. Readers(g) = IF want = "read" THEN Readers(h) \cup {c} ELSE Readers(h)
    BY <1>1, Zenon DEF Readers
  <2>2. c \notin Readers(h)
    BY Zenon DEF Readers
  <2>3. IsFiniteSet(Readers(h)) /\ rd = Cardinality(Readers(h))
    BY Zenon DEF HoldShape
  <2>4. /\ IsFiniteSet(Readers(h) \cup {c})
        /\ Cardinality(Readers(h) \cup {c}) = rd + 1
    BY ONLY <2>2, <2>3, FS_AddElement, Zenon
  <2> QED
    BY <2>1, <2>3, <2>4, Zenon
<1> QED
  BY <1>1, <1>2, <1>4, <1>5, <1>6, <1>7, <1>8, <1>9, Zenon DEF HoldShape, g

\* Giving up what one holds.
LEMMA HoldRelease ==
  ASSUME NEW h, NEW lk, NEW rd, NEW wt, HoldShape(h, lk, rd, wt),
         NEW c \in Co, h[c] # "none",
         NEW g \in [Co -> Wants \cup {"none"}], g[c] = "none",
         \A d \in Co \ {c} : g[d] = h[d],
         NEW lk2 \in BOOLEAN, lk2 <=> lk /\ h[c] # "mutex",
         NEW rd2, rd2 = (IF h[c] = "read" THEN rd - 1 ELSE rd),
         NEW wt2 \in BOOLEAN, wt2 <=> wt /\ h[c] # "write"
  PROVE  HoldShape(g, lk2, rd2, wt2)
<1>1. /\ g \in [Co -> Wants \cup {"none"}] /\ g[c] = "none"
      /\ \A d \in Co \ {c} : g[d] = h[d]
  BY Zenon
<1>2. \A d, e \in Co : g[d] = "mutex" /\ g[e] = "mutex" => d = e
  BY <1>1 DEF HoldShape
<1>3. \A d, e \in Co : g[d] = "write" /\ g[e] = "write" => d = e
  BY <1>1 DEF HoldShape
<1>4. \A d, e \in Co : ~(g[d] = "read" /\ g[e] = "write")
  BY <1>1, Zenon DEF HoldShape
<1>5. lk2 <=> \E d \in Co : g[d] = "mutex"
  BY <1>1, Zenon DEF HoldShape
<1>6. wt2 <=> \E d \in Co : g[d] = "write"
  BY <1>1, Zenon DEF HoldShape
<1>7. /\ IsFiniteSet(Readers(g)) /\ Cardinality(Readers(g)) \in Nat
      /\ rd2 = Cardinality(Readers(g))
  <2>1. Readers(g) = IF h[c] = "read" THEN Readers(h) \ {c} ELSE Readers(h)
    BY <1>1, Zenon DEF Readers
  <2>2. h[c] = "read" => c \in Readers(h)
    BY Zenon DEF Readers
  <2> QED
    <3>1. IsFiniteSet(Readers(h)) /\ rd = Cardinality(Readers(h)) /\ rd \in Nat
      BY Zenon DEF HoldShape
    <3>2. /\ IsFiniteSet(Readers(h) \ {c})
          /\ c \in Readers(h) => Cardinality(Readers(h) \ {c}) = rd - 1
      BY ONLY <3>1, FS_RemoveElement, Zenon
    <3>3. Cardinality(Readers(g)) \in Nat
      BY <2>1, <3>1, <3>2, FS_CardinalityType, Zenon
    <3> QED
      BY <2>1, <2>2, <3>1, <3>2, <3>3, Zenon
<1> QED
  BY <1>1, <1>2, <1>3, <1>4, <1>5, <1>6, <1>7, Zenon DEF HoldShape

-----------------------------------------------------------------------------
(* The inductive invariant *)

CoStates == Wants \cup {"new", "run", "io", "done"}

Chain(s, f)  == StackShape(s) /\ \A c \in Co : OnIt(s, c) <=> f[c] = "run"
Waiters(f)   == {c \in Co : f[c] \in Wants}

\* Besides the three shapes: the coroutines on the chain are those that run,
\* those in the lists are those that wait, and one that waits holds nothing.
Inv ==
  /\ st \in [Co -> CoStates] /\ scheduled \in BOOLEAN /\ left \in 0 .. Work
  /\ Chain(stack, st)
  /\ LinkShape(queue, unlock_bh_queue, Waiters(st))
  /\ HoldShape(holds, locked, reader, writer)
  /\ \A c \in Co : st[c] \in Wants => holds[c] = "none"

\* The coroutine that executes is in no list and has a caller.
LEMMA RunningCo ==
  ASSUME Inv, NEW c, Running(c)
  PROVE  /\ c \in Co /\ st[c] = "run" /\ c \notin Waiters(st)
         /\ Last(stack) = c /\ Last(stack) # EventLoop
<1>1. c \in Co /\ Last(stack) = c /\ stack \in Seq(Context) /\ stack # <<>>
  BY Zenon DEF Running, Top, Inv, Chain, StackShape
<1>2. Len(stack) \in 1 .. Len(stack) /\ stack[Len(stack)] = c
  <2>1. stack \in Seq(Context) /\ stack # <<>>
    BY <1>1, Zenon
  <2>2. Len(stack) \in Nat \ {0} /\ Last(stack) = stack[Len(stack)]
    BY ONLY <2>1, StackFront, Zenon
  <2> QED
    BY <1>1, <2>2
<1>3. st[c] = "run"
  BY <1>1, <1>2, Zenon DEF Inv, Chain, OnIt
<1> QED
  BY <1>1, <1>3, ConstantsAssumption, Zenon DEF Waiters, Wants

\* c starts to run, from a state in which it was on no chain; it leaves the
\* lists if it was in one.
LEMMA ChainEnter ==
  ASSUME NEW s, NEW f \in [Co -> CoStates], Chain(s, f),
         NEW c \in Co, f[c] # "run"
  PROVE  /\ Chain(Append(s, c), [f EXCEPT ![c] = "run"])
         /\ [f EXCEPT ![c] = "run"] \in [Co -> CoStates]
         /\ Waiters([f EXCEPT ![c] = "run"]) = Waiters(f) \ {c}
<1> DEFINE g == [f EXCEPT ![c] = "run"]
<1>1. /\ g \in [Co -> CoStates] /\ g[c] = "run" /\ \A d \in Co \ {c} : g[d] = f[d]
  BY Zenon DEF CoStates
<1> HIDE DEF g
<1>2. /\ StackShape(Append(s, c))
      /\ \A d \in Co : OnIt(Append(s, c), d) <=> OnIt(s, d) \/ d = c
  BY StackPush, Zenon DEF Chain
<1>3. Chain(Append(s, c), g)
  BY <1>1, <1>2, Zenon DEF Chain
<1>4. Waiters(g) = Waiters(f) \ {c}
  BY <1>1, Zenon DEF Waiters, Wants
<1> QED
  BY <1>1, <1>3, <1>4, Zenon DEF g

\* The innermost coroutine yields; g is what the coroutines do then.
LEMMA ChainYield ==
  ASSUME NEW s, NEW f \in [Co -> CoStates], Chain(s, f), NEW c \in Co, Last(s) = c,
         NEW g \in [Co -> CoStates], g[c] # "run",
         \A d \in Co \ {c} : g[d] = f[d]
  PROVE  /\ Chain(Front(s), g)
         /\ g[c] \in Wants => Waiters(g) = Waiters(f) \cup {c}
         /\ g[c] \notin Wants => Waiters(g) = Waiters(f) \ {c}
<1>1. Last(s) # EventLoop
  BY ConstantsAssumption, Zenon
<1>2. /\ StackShape(Front(s))
      /\ \A d \in Co : OnIt(Front(s), d) <=> OnIt(s, d) /\ d # c
  BY <1>1, StackPop, Zenon DEF Chain
<1>3. Chain(Front(s), g)
  BY <1>2, Zenon DEF Chain
<1>4. /\ g[c] \in Wants => Waiters(g) = Waiters(f) \cup {c}
      /\ g[c] \notin Wants => Waiters(g) = Waiters(f) \ {c}
  BY Zenon DEF Waiters
<1> QED
  BY <1>3, <1>4, Zenon

-----------------------------------------------------------------------------
(* One lemma per operation *)

\* qemu_coroutine_create and enter, and the end of an I/O.
LEMMA EnterStep ==
  ASSUME Inv, NEW c \in Co, create(c) \/ co_io_done(c)
  PROVE  Inv'
<1>1. /\ st[c] \in {"new", "io"} /\ stack' = Append(stack, c)
      /\ st' = [st EXCEPT ![c] = "run"]
      /\ UNCHANGED <<locked, reader, writer, queue, unlock_bh_queue, scheduled,
                     holds, left>>
  BY Zenon DEF create, co_io_done, enter, lockVars
<1>2. /\ Chain(stack', st') /\ st' \in [Co -> CoStates]
      /\ Waiters(st') = Waiters(st) \ {c}
  BY <1>1, ChainEnter, Zenon DEF Inv
<1>3. Waiters(st') = Waiters(st) /\ \A d \in Co : st'[d] \in Wants => holds[d] = "none"
  BY <1>1, <1>2, Zenon DEF Waiters, Wants, Inv
<1> QED
  BY <1>1, <1>2, <1>3, Zenon DEF Inv

\* A coroutine waits for I/O or ends.
LEMMA LeaveStep ==
  ASSUME Inv, NEW c \in Co, co_wait_io(c) \/ terminate(c)
  PROVE  Inv'
<1>1. PICK x \in {"io", "done"} :
        /\ stack' = Front(stack) /\ st' = [st EXCEPT ![c] = x]
        /\ left' \in {left} \cup {left - 1} /\ (left' = left \/ left > 0)
        /\ Running(c)
        /\ UNCHANGED <<locked, reader, writer, queue, unlock_bh_queue, scheduled,
                       holds>>
  BY Zenon DEF co_wait_io, terminate, yield, lockVars
<1>2. st[c] = "run" /\ c \notin Waiters(st) /\ Last(stack) = c
  BY <1>1, RunningCo, Zenon
<1>3. /\ st' \in [Co -> CoStates] /\ st'[c] # "run" /\ st'[c] \notin Wants
      /\ \A d \in Co \ {c} : st'[d] = st[d]
  BY <1>1, Zenon DEF CoStates, Wants, Inv
<1>4. Chain(stack', st') /\ Waiters(st') = Waiters(st) \ {c}
  <2>1. st \in [Co -> CoStates] /\ Chain(stack, st) /\ stack' = Front(stack)
    BY <1>1, Zenon DEF Inv
  <2> QED
    BY ONLY <1>2, <1>3, <2>1, ChainYield
<1>5. Waiters(st') = Waiters(st) /\ \A d \in Co : st'[d] \in Wants => holds[d] = "none"
  BY <1>1, <1>2, <1>3, <1>4, Zenon DEF Waiters, Inv
<1>6. left' \in 0 .. Work
  BY <1>1, ConstantsAssumption DEF Inv
<1> QED
  BY <1>1, <1>3, <1>4, <1>5, <1>6, Zenon DEF Inv

\* What must_wait reads, as HoldAcquire wants it.
LEMMA NeedNotWait ==
  ASSUME HoldShape(holds, locked, reader, writer), NEW want \in Wants, ~must_wait(want)
  PROVE  /\ want = "mutex" => ~locked
         /\ want = "read" => ~writer
         /\ want = "write" => ~writer /\ reader = 0
<1>1. want = "mutex" => ~locked
  BY Zenon DEF must_wait
<1>2. want = "read" => ~writer
  BY Zenon DEF must_wait
<1>3. want = "write" => ~writer /\ ~(reader > 0)
  BY Zenon DEF must_wait
<1>4. reader \in Nat
  BY Zenon DEF HoldShape
<1> QED
  BY <1>1, <1>2, <1>3, <1>4

\* acquire, for a coroutine that holds nothing.
LEMMA AcquireHolds ==
  ASSUME HoldShape(holds, locked, reader, writer), NEW c \in Co, holds[c] = "none",
         NEW want \in Wants, ~must_wait(want), acquire(c, want)
  PROVE  /\ HoldShape(holds', locked', reader', writer')
         /\ \A d \in Co \ {c} : holds'[d] = holds[d]
<1>1. HoldShape([holds EXCEPT ![c] = want], locked \/ want = "mutex",
                IF want = "read" THEN reader + 1 ELSE reader, writer \/ want = "write")
  BY NeedNotWait, HoldAcquire
<1> QED
  BY <1>1, Zenon DEF acquire, HoldShape

\* queue_wait, for a coroutine that is in no list.
LEMMA QueueWaitLinks ==
  ASSUME NEW u, NEW W, LinkShape(queue, u, W), NEW c \in Co, c \notin W,
         NEW want \in Wants, queue_wait(c, want)
  PROVE  LinkShape(queue', u, W \cup {c})
<1>1. LockOf(want) \in Lock
  BY Zenon DEF LockOf, Lock
<1> QED
  BY <1>1, LinkWait, Zenon DEF queue_wait

\* The locks are taken at once or waited for.
LEMMA LockStep ==
  ASSUME Inv, NEW c \in Co, NEW want \in Wants, lock(c, want)
  PROVE  Inv'
<1>1. /\ Running(c) /\ holds[c] = "none" /\ left > 0 /\ left' = left - 1
      /\ UNCHANGED <<unlock_bh_queue, scheduled>>
  BY Zenon DEF lock
<1>2. st[c] = "run" /\ c \notin Waiters(st) /\ Last(stack) = c
  BY <1>1, RunningCo, Zenon
<1>3. left' \in 0 .. Work /\ scheduled' \in BOOLEAN
  BY <1>1, ConstantsAssumption DEF Inv
<1>4. CASE must_wait(want)
  <2>1. /\ queue_wait(c, want) /\ stack' = Front(stack)
        /\ st' = [st EXCEPT ![c] = want]
        /\ UNCHANGED <<locked, reader, writer, holds>>
    BY <1>4, Zenon DEF lock, yield, queue_wait, lockVars
  <2>2. /\ st' \in [Co -> CoStates] /\ st'[c] # "run" /\ st'[c] \in Wants
        /\ \A d \in Co \ {c} : st'[d] = st[d]
    BY <2>1, Zenon DEF CoStates, Wants, Inv
  <2>3. Chain(stack', st') /\ Waiters(st') = Waiters(st) \cup {c}
    <3>1. st \in [Co -> CoStates] /\ Chain(stack, st) /\ stack' = Front(stack)
      BY <2>1, Zenon DEF Inv
    <3> QED
      BY ONLY <1>2, <2>2, <3>1, ChainYield
  <2>4. LinkShape(queue', unlock_bh_queue', Waiters(st'))
    <3>1. LinkShape(queue, unlock_bh_queue, Waiters(st))
      BY Zenon DEF Inv
    <3>2. LinkShape(queue', unlock_bh_queue, Waiters(st) \cup {c})
      BY <1>2, <2>1, <3>1, QueueWaitLinks, Zenon
    <3> QED
      BY <1>1, <2>3, <3>2, Zenon
  <2>5. \A d \in Co : st'[d] \in Wants => holds[d] = "none"
    BY <1>1, <2>2, Zenon DEF Inv
  <2> QED
    BY <1>3, <2>1, <2>2, <2>3, <2>4, <2>5, Zenon DEF Inv
<1>5. CASE ~must_wait(want)
  <2>1. acquire(c, want) /\ UNCHANGED <<queue, st, stack>>
    BY <1>5, Zenon DEF lock
  <2>2. HoldShape(holds, locked, reader, writer)
    BY Zenon DEF Inv
  <2>3. /\ HoldShape(holds', locked', reader', writer')
        /\ \A d \in Co \ {c} : holds'[d] = holds[d]
    BY <1>1, <1>5, <2>1, <2>2, AcquireHolds, Zenon
  <2>4. \A d \in Co : st'[d] \in Wants => holds'[d] = "none"
    BY <1>2, <2>1, <2>3, Zenon DEF Inv, Wants
  <2> QED
    BY <1>1, <1>3, <2>1, <2>3, <2>4, Zenon DEF Inv
<1> QED
  BY <1>4, <1>5, Zenon

\* queue_next moves coroutines between lists.
LEMMA QueueNextLinks ==
  ASSUME NEW W, LinkShape(queue, unlock_bh_queue, W), NEW l \in Lock,
         NEW n \in {0, first(l), all(l)}, queue_next(l, n)
  PROVE  LinkShape(queue', unlock_bh_queue', W) /\ scheduled' \in BOOLEAN
<1>1. queue[l] \in Seq(Co)
  BY Zenon DEF LinkShape
<1>2. Len(queue[l]) \in Nat /\ (queue[l] # <<>> => Len(queue[l]) > 0)
  BY <1>1, EmptySeq
<1>3. n \in 0 .. Len(queue[l])
  BY <1>2 DEF first, all
<1> QED
  BY <1>3, LinkWake, Zenon DEF queue_next

\* Either lock is released.
LEMMA UnlockStep ==
  ASSUME Inv, NEW c \in Co, mutex_unlock(c) \/ rwlock_unlock(c)
  PROVE  Inv'
<1>1. /\ holds[c] # "none" /\ holds' = [holds EXCEPT ![c] = "none"]
      /\ UNCHANGED <<stack, st, left>>
  BY Zenon DEF mutex_unlock, rwlock_unlock
<1>2. HoldShape(holds, locked, reader, writer)
  BY Zenon DEF Inv
<1>3. /\ holds[c] = "mutex" => locked
      /\ holds[c] \in {"read", "write"} => (writer <=> holds[c] = "write")
  BY <1>2, Zenon DEF HoldShape
<1>4. /\ locked' \in BOOLEAN /\ (locked' <=> locked /\ holds[c] # "mutex")
      /\ writer' \in BOOLEAN /\ (writer' <=> writer /\ holds[c] # "write")
      /\ reader' = IF holds[c] = "read" THEN reader - 1 ELSE reader
  <2>1. CASE mutex_unlock(c)
    BY <1>2, <2>1, Zenon DEF mutex_unlock, HoldShape
  <2>2. CASE rwlock_unlock(c)
    BY <1>2, <1>3, <2>2, Zenon DEF rwlock_unlock, left_by_writer, HoldShape
  <2> QED
    BY <2>1, <2>2, Zenon
<1>5. HoldShape(holds', locked', reader', writer')
  <2>1. /\ holds' \in [Co -> Wants \cup {"none"}] /\ holds'[c] = "none"
        /\ \A d \in Co \ {c} : holds'[d] = holds[d]
    BY <1>1, <1>2, Zenon DEF HoldShape
  <2>2. holds[c] # "none"
    BY <1>1, Zenon
  <2> QED
    BY ONLY <1>2, <1>4, <2>1, <2>2, HoldRelease
<1>6. LinkShape(queue', unlock_bh_queue', Waiters(st')) /\ scheduled' \in BOOLEAN
  <2>1. PICK l \in Lock : \E n \in {0, first(l), all(l)} : queue_next(l, n)
    BY Zenon DEF mutex_unlock, rwlock_unlock, wake_writer, wake_reader, Lock
  <2> QED
    BY <1>1, <2>1, QueueNextLinks, Zenon DEF Inv
<1>7. \A d \in Co : st'[d] \in Wants => holds'[d] = "none"
  BY <1>1, <1>2, Zenon DEF Inv, HoldShape
<1> QED
  BY <1>1, <1>5, <1>6, <1>7, Zenon DEF Inv

\* aio_bh_poll enters unlock_bh, and unlock_bh returns.
LEMMA BhStep ==
  ASSUME Inv, bh_poll \/ bh_return
  PROVE  Inv'
<1>1. /\ UNCHANGED <<st, locked, reader, writer, queue, unlock_bh_queue, holds, left>>
      /\ scheduled' \in BOOLEAN
  BY Zenon DEF bh_poll, bh_return, lockVars, Inv
<1>2. StackShape(stack) /\ \A c \in Co : OnIt(stack, c) <=> st[c] = "run"
  BY Zenon DEF Inv, Chain
<1>3. StackShape(stack') /\ \A c \in Co : OnIt(stack', c) <=> OnIt(stack, c)
  <2>1. Bh \notin Co /\ Bh # EventLoop
    BY ConstantsAssumption, Zenon
  <2>2. CASE bh_poll
    <3>1. stack' = Append(stack, Bh)
      BY <2>2, Zenon DEF bh_poll
    <3> QED
      BY <1>2, <2>1, <3>1, StackPush, Zenon
  <2>3. CASE bh_return
    <3>1. stack' = Front(stack) /\ Last(stack) = Bh
      BY <2>3, Zenon DEF bh_return, yield, Top
    <3> QED
      BY <1>2, <2>1, <3>1, StackPop, Zenon
  <2> QED
    BY <2>2, <2>3, Zenon
<1> QED
  BY <1>1, <1>2, <1>3, Zenon DEF Inv, Chain

\* unlock_bh resumes a coroutine, which takes its lock or waits again.
LEMMA NextBhStep ==
  ASSUME Inv, next_bh
  PROVE  Inv'
<1> DEFINE c == Head(unlock_bh_queue)
           W == Waiters(st)
<1>1. /\ unlock_bh_queue # <<>> /\ unlock_bh_queue' = Tail(unlock_bh_queue)
      /\ UNCHANGED <<scheduled, left>>
  BY Zenon DEF next_bh
<1>2. LinkShape(queue, unlock_bh_queue, W)
  BY Zenon DEF Inv
<1>3. c \in Co /\ c \in W /\ LinkShape(queue, unlock_bh_queue', W \ {c})
  BY <1>1, <1>2, LinkTake, Zenon
<1>4. CASE must_wait(st[c])
  <2>1. /\ queue_wait(c, st[c]) /\ st' = [st EXCEPT ![c] = st[c]]
        /\ UNCHANGED <<locked, reader, writer, holds, stack>>
    BY <1>4, Zenon DEF next_bh, must_wait_again, queue_wait, lockVars
  <2>2. st[c] \in Wants
    BY <1>3, Zenon DEF Waiters
  <2> HIDE DEF c, W
  <2>3. st' = st
    BY <2>1, Zenon DEF Inv
  <2>4. c \notin W \ {c} /\ (W \ {c}) \cup {c} = W
    BY <1>3, Zenon
  <2>5. LinkShape(queue', unlock_bh_queue', (W \ {c}) \cup {c})
    BY <1>3, <2>1, <2>2, <2>4, QueueWaitLinks, Zenon
  <2> QED
    BY <1>1, <2>1, <2>3, <2>4, <2>5, Zenon DEF Inv, W
<1>5. CASE ~must_wait(st[c])
  <2>1. /\ acquire(c, st[c]) /\ stack' = Append(stack, c)
        /\ st' = [st EXCEPT ![c] = "run"] /\ UNCHANGED queue
    BY <1>5, Zenon DEF next_bh, must_wait_again, enter
  <2>2. st[c] \in Wants /\ st[c] # "run" /\ holds[c] = "none"
    BY <1>3, Zenon DEF Waiters, Wants, Inv
  <2> HIDE DEF c
  <2>3. /\ Chain(stack', st') /\ st' \in [Co -> CoStates]
        /\ Waiters(st') = W \ {c}
    BY <1>3, <2>1, <2>2, ChainEnter, Zenon DEF Inv
  <2>4. HoldShape(holds, locked, reader, writer)
    BY Zenon DEF Inv
  <2>5. /\ HoldShape(holds', locked', reader', writer')
        /\ \A d \in Co \ {c} : holds'[d] = holds[d]
    BY <1>3, <1>5, <2>1, <2>2, <2>4, AcquireHolds, Zenon
  <2>6. \A d \in Co : st'[d] \in Wants => holds'[d] = "none"
    BY <1>3, <2>1, <2>5, Zenon DEF Inv, Wants
  <2> QED
    BY <1>1, <1>3, <2>1, <2>3, <2>5, <2>6, Zenon DEF Inv
<1> QED
  BY <1>4, <1>5, Zenon

-----------------------------------------------------------------------------
(* The theorems *)

\* The invariant holds when the program starts ...
LEMMA InvInit == Init => Inv
<1> SUFFICES ASSUME Init PROVE Inv
  BY Zenon
<1>1. /\ stack = <<EventLoop>> /\ st = [c \in Co |-> "new"]
      /\ locked = FALSE /\ reader = 0 /\ writer = FALSE
      /\ queue = [l \in Lock |-> <<>>] /\ unlock_bh_queue = <<>>
      /\ scheduled = FALSE /\ holds = [c \in Co |-> "none"] /\ left = Work
  BY Zenon DEF Init, Lock
<1>2. st \in [Co -> CoStates] /\ scheduled \in BOOLEAN /\ left \in 0 .. Work
  <2>1. scheduled \in BOOLEAN
    BY <1>1, Zenon
  <2>2. left \in 0 .. Work
    BY <1>1, ConstantsAssumption
  <2> QED
    BY <1>1, <2>1, <2>2, Zenon DEF CoStates
<1>3. Chain(stack, st)
  <2>1. /\ stack \in Seq(Context) /\ stack # <<>> /\ stack[1] = EventLoop
        /\ Len(stack) = 1 /\ 1 .. Len(stack) = {1}
    BY <1>1 DEF Context
  <2>2. \A c \in Co : c # EventLoop
    BY ConstantsAssumption, Zenon
  <2> QED
    BY <1>1, <2>1, <2>2, Zenon DEF Chain, StackShape, OnIt
<1>4. LinkShape(queue, unlock_bh_queue, Waiters(st))
  <2>1. Waiters(st) = {}
    BY <1>1, Zenon DEF Waiters, Wants
  <2>2. <<>> \in Seq(Co) /\ ToSet(<<>>) = {} /\ IsInjective(<<>>)
    BY ListNone, Zenon
  <2> QED
    BY <1>1, <2>1, <2>2, Zenon DEF LinkShape, Lock
<1>5. HoldShape(holds, locked, reader, writer)
  <2>1. Readers(holds) = {}
    BY <1>1, Zenon DEF Readers
  <2>2. IsFiniteSet(Readers(holds)) /\ Cardinality(Readers(holds)) = 0
    BY <2>1, FS_EmptySet, Zenon
  <2> QED
    BY <1>1, <2>2, Zenon DEF HoldShape
<1> QED
  BY <1>1, <1>2, <1>3, <1>4, <1>5, Zenon DEF Inv

\* ... and every step keeps it.
LEMMA InvNext == Inv /\ [Next]_vars => Inv'
<1> SUFFICES ASSUME Inv, [Next]_vars PROVE Inv'
  BY Zenon
<1>1. CASE UNCHANGED vars
  BY <1>1, Zenon DEF vars, lockVars, Inv
<1>2. CASE Next
  BY <1>2, BhStep, NextBhStep, EnterStep, LeaveStep, UnlockStep, LockStep, Zenon DEF Next
<1> QED
  BY <1>1, <1>2, Zenon

\* The chain of callers, the lists and the holders keep their shapes.
THEOREM InvHolds == Spec => []Inv
<1> QED
  BY InvInit, InvNext, PTL DEF Spec

\* Every variable keeps its type: the counter of readers is not decremented
\* below zero and the stack of contexts never becomes empty.
THEOREM TypeCorrect == Spec => []TypeOK
<1>1. Inv => TypeOK
  BY Zenon DEF Inv, Chain, StackShape, Context, LinkShape, Lock, HoldShape, CoStates, TypeOK
<1> QED
  BY <1>1, InvHolds, PTL

\* Two coroutines never hold a CoMutex, or a CoRwlock for writing and at all,
\* although a woken coroutine finds the lock free only if nobody took it between
\* qemu_co_queue_next and unlock_bh.
THEOREM HoldersAreExclusive == Spec => []Exclusion
<1>1. Inv => Exclusion
  BY HoldersExclude, Zenon DEF Inv
<1> QED
  BY <1>1, InvHolds, PTL

\* A coroutine is in at most one list, exactly while it waits, and is never
\* entered while it runs.
THEOREM CoroutinesAreLinkedOnce == Spec => []LinkedOnce
<1>1. ASSUME Inv PROVE LinkedOnce
  <2>1. LinkShape(queue, unlock_bh_queue, Waiting)
    BY <1>1, Zenon DEF Inv, Waiters, Waiting
  <2>2. \A c \in Co : OnStack(c) <=> st[c] = "run"
    BY <1>1, Zenon DEF Inv, Chain, OnIt, OnStack
  <2> QED
    BY <2>1, <2>2, LinksOnce, Zenon DEF LinkedOnce
<1>2. Inv => LinkedOnce
  BY <1>1, Zenon
<1> QED
  BY <1>2, InvHolds, PTL
=============================================================================
