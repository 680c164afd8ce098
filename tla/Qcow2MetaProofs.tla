-------------------------- MODULE Qcow2MetaProofs --------------------------
(***************************************************************************)
(* Every step of the qcow2 metadata code keeps the invariant of            *)
(* Qcow2MetaInvariant, and what follows from it: in every image and on     *)
(* every host, the caches keep L2 tables and refcount blocks in an order   *)
(* that leaves a consistent image behind, whenever the host crashes.       *)
(***************************************************************************)
EXTENDS Qcow2MetaInvariant

\* The number of guest clusters in a set of them.
Counts ==
  /\ Cardinality(Guest) \in Nat
  /\ \A g \in Guest : Cardinality(Guest) # 0
  /\ \A S \in SUBSET Guest : Cardinality(S) \in Nat /\ Cardinality(S) <= Cardinality(Guest)

-----------------------------------------------------------------------------
(* block/qcow2-refcount.c: the steps of update_refcount. *)

\* The operations of the guest, and the release of a cluster for a discard, are at
\* the bottom of the stack.
LEMMA BottomAlone ==
  ASSUME NEW s \in Seq(Frames), s # <<>>, Shape(s), NEW e, e = s[Len(s)],
         e.op \in {"link", "discard", "writev", "close", "open"} \/
         (e.op = "update_refcount" /\ e.c < 0)
  PROVE  Len(s) = 1 /\ s[1] = e
<1> DEFINE n == Len(s)
<1>1. n \in Nat \ {0}
  BY StackElements, Zenon
<1>2. n \in 1 .. n /\ 1 \in 1 .. n /\ (n = 1 \/ 1 < n)
  <2>1. \A m \in Nat \ {0} : m \in 1 .. m /\ 1 \in 1 .. m /\ (m = 1 \/ 1 < m)
    OBVIOUS
  <2> QED
    BY <1>1, <2>1, Zenon
<1>3. e.op = "update_refcount" /\ e.c < 0 => n = 1
  BY <1>2, Zenon DEF Shape
<1>4. 1 < n => May(s[1].op, e.op)
  BY <1>2, Zenon DEF Shape
<1>5. e.op \in {"link", "discard", "writev", "close", "open"} => ~May(s[1].op, e.op)
  BY Zenon DEF May
<1> QED
  BY <1>2, <1>3, <1>4, <1>5, Zenon

\* A call, as a change of the stack.
LEMMA CallPushes ==
  ASSUME Inv, stack # <<>>, NEW op \in Ops, NEW c \in Args, NEW t \in Targets,
         NEW at \in Labels, Call(Frame(op, c, t), at)
  PROVE  \E f, g \in Frames : /\ Moved(f, Top, at) /\ Started(g, op, c, t)
                              /\ Pushes(stack, stack', f, g) /\ stack' \in Seq(Frames)
<1> DEFINE f == [Top EXCEPT !.at = at]
           g == Frame(op, c, t)
<1>1. /\ f \in Frames /\ Moved(f, Top, at) /\ g \in Frames /\ Started(g, op, c, t)
      /\ stack' = Append([stack EXCEPT ![Len(stack)] = f], g)
  BY StackForms, FrameForms, Zenon DEF Call
<1> HIDE DEF f, g
<1>2. Pushes(stack, stack', f, g) /\ stack' \in Seq(Frames)
  BY <1>1, StackMoves, Active, Zenon
<1> QED
  BY <1>1, <1>2, Zenon

\* The call of a function by a discard, its release or a link.
LEMMA CallSame ==
  ASSUME Inv, stack # <<>>, NEW op \in Ops, NEW c \in Args, NEW t \in Targets,
         NEW at \in Labels, Call(Frame(op, c, t), at),
         Top.op = "update_refcount" =>
           \/ Top.at = "start" /\ Top.c < 0 /\ at = "ordered"
           \/ ~(Top.c < 0)
           \/ Top.at = "ordered" /\ at = "got",
         Top.op = "link" => at = "got"
  PROVE  Same(stack, stack')
<1>1. PICK f, g \in Frames : /\ Moved(f, Top, at) /\ Pushes(stack, stack', f, g)
                             /\ stack' \in Seq(Frames)
  BY CallPushes, Zenon
<1>2. /\ stack \in Seq(Frames) /\ Shape(stack) /\ Top \in Frames /\ Top = stack[Len(stack)]
      /\ stack # <<>>
  BY Active, Zenon
<1>3. /\ Replaces(Top, f) /\ f.at = at
  BY <1>1, Zenon DEF Moved, Replaces
<1> QED
  <2> USE <1>1, <1>2, <1>3
  <2>1. CASE Top.op \notin {"link", "discard"} /\ ~(Top.op = "update_refcount" /\ Top.c < 0)
    BY <2>1, SameMoves, Zenon
  <2>2. CASE Top.op \in {"link", "discard"} \/ (Top.op = "update_refcount" /\ Top.c < 0)
    <3>1. Len(stack) = 1 /\ stack[1] = Top
      BY <2>2, BottomAlone, Zenon
    <3>2. Len(stack') = 2 /\ stack'[1] = f /\ stack' # <<>>
      BY <3>1, StackElements DEF Pushes
    <3>3. f.op = Top.op /\ f.c = Top.c /\ ~(1 > 1) /\ 2 > 1 /\ 2 # 1
      BY DEF Replaces
    <3> QED
      BY <2>2, <3>1, <3>2, <3>3, Zenon DEF Same, Window, Linking
  <2> QED
    BY <2>1, <2>2, Zenon

\* update_refcount calls qcow2_cache_set_dependency, or reads the refcount block.
LEMMA UpdateRefcount ==
  ASSUME Inv, update_refcount \/ update_refcount_ordered, setup' = setup
  PROVE  Inv'
<1>1. /\ stack # <<>> /\ Top.op = "update_refcount" /\ Top \in Frames
      /\ Top.c \in Int /\ Top.t \in Cluster /\ Still /\ left' = left
      /\ FrameFact(Top, mem, file, disk, dirty, pending, setup)
      /\ \/ Top.at = "start" /\ Top.c < 0 /\ Call(Frame("set_dependency", "rc", None), "ordered")
         \/ ~(Top.c < 0) /\ Call(Frame("cache_get", "rc", Top.t), "got")
         \/ Top.at = "ordered" /\ Call(Frame("cache_get", "rc", Top.t), "got")
  BY Active, Zenon DEF update_refcount, update_refcount_ordered, At, FrameOK, Still
<1>2. CASE Top.at = "start" /\ Top.c < 0 /\ Call(Frame("set_dependency", "rc", None), "ordered")
  <2>1. /\ "set_dependency" \in Ops /\ "rc" \in Args /\ None \in Targets
        /\ "ordered" \in Labels
    BY <1>1, Zenon DEF Ops, Args, Targets, Labels, Caches
  <2>2. ASSUME NEW f \in Frames, NEW g \in Frames, Moved(f, Top, "ordered"),
               Started(g, "set_dependency", "rc", None)
        PROVE  /\ FrameOK(f) /\ FrameOK(g) /\ Waits(f, g)
               /\ FrameFact(f, mem, file, disk, dirty, pending, setup)
               /\ FrameFact(g, mem, file, disk, dirty, pending, setup)
    BY <1>1, <1>2, <2>1, <2>2, Zenon DEF Moved, Started, FrameOK, Waits, FrameFact, Caches
  <2>3. Same(stack, stack')
    BY <1>1, <1>2, <2>1, CallSame, Zenon
  <2> QED
    BY <1>1, <1>2, <2>1, <2>2, <2>3, CallStep, Zenon
<1>3. CASE /\ ~(Top.c < 0) \/ Top.at = "ordered"
           /\ Call(Frame("cache_get", "rc", Top.t), "got")
  <2>1. /\ "cache_get" \in Ops /\ "rc" \in Args /\ Top.t \in Targets
        /\ "got" \in Labels /\ Top.t \in Tables("rc")
    BY <1>1, SMTT(20) DEF Ops, Args, Targets, Labels, Caches, Tables
  <2>2. ASSUME NEW f \in Frames, NEW g \in Frames, Moved(f, Top, "got"),
               Started(g, "cache_get", "rc", Top.t)
        PROVE  /\ FrameOK(f) /\ FrameOK(g) /\ Waits(f, g)
               /\ FrameFact(f, mem, file, disk, dirty, pending, setup)
               /\ FrameFact(g, mem, file, disk, dirty, pending, setup)
    BY <1>1, <2>1, <2>2, Zenon DEF Moved, Started, FrameOK, Waits, FrameFact, Caches
  <2>3. Same(stack, stack')
    BY <1>1, <1>3, <2>1, CallSame, Zenon
  <2> QED
    BY <1>1, <1>3, <2>1, <2>2, <2>3, CallStep, Zenon
<1> QED
  BY <1>1, <1>2, <1>3, SMTT(20)

\* update_refcount changes the refcount.
LEMMA UpdateRefcountGot ==
  ASSUME Counts, Inv, update_refcount_got, setup' = setup
  PROVE  Inv'
<1> DEFINE n == mem.rc[Top.t] + Top.c
<1>1. /\ stack # <<>> /\ Top.op = "update_refcount" /\ Top.at = "got" /\ opened
      /\ Top \in Frames /\ Top = stack[Len(stack)] /\ stack \in Seq(Frames) /\ Shape(stack)
      /\ Top.c \in Int /\ Top.t \in Cluster
      /\ FrameFact(Top, mem, file, disk, dirty, pending, setup)
      /\ TopFact(Top, ret, mem, file, disk, cached, dirty, depends, setup)
      /\ UNCHANGED <<file, disk, cached, depends, depends_on_flush, opened, pending, left, setup>>
  BY Active, Zenon DEF update_refcount_got, At, FrameOK
<1>2. CASE ret = "err" /\ Return("err") /\ UNCHANGED <<mem, dirty>>
  <2>1. ~Acc(setup) /\ Still
    BY <1>1, <1>2, Zenon DEF TopFact, Still, cacheVars
  <2> QED
    BY <1>1, <1>2, <2>1, ErrorStep, Zenon
<1>3. CASE /\ ret = "ok" /\ dirty' = [dirty EXCEPT !["rc"] = @ \cup {Top.t}]
           /\ Return(IF n < 0 THEN "err" ELSE "ok")
           /\ mem' = [mem EXCEPT !.rc[Top.t] = IF n < 0 THEN @ ELSE n]
  <2>1. /\ mem \in Image /\ mem.rc[Top.t] \in 0 .. Cardinality(Guest)
        /\ Top.t \in cached["rc"] /\ TypeOK
    BY <1>1, <1>3, Zenon DEF Inv, DataInv, TypeOK, Image, TopFact
  <2>2. /\ n \in Int /\ (n < 0 \/ n \in 0 .. Cardinality(Guest))
        /\ Acc(setup) => ~(n < 0)
        /\ Acc(setup) /\ Top.c = 1 => n > 0
        /\ Acc(setup) /\ mem.rc[Top.t] > 0 => n > 0 \/ Unused(Top.t, mem, pending)
    <3>1. /\ Top.c > 0 => mem.rc[Top.t] + Top.c <= Cardinality(Guest)
          /\ Acc(setup) /\ Top.c < 0 =>
               Top.c = -1 /\ mem.rc[Top.t] > 0 /\ Unused(Top.t, mem, pending)
      BY <1>1, Zenon DEF FrameFact
    <3>2. Cardinality(Guest) \in Nat
      BY Zenon DEF Counts
    <3>3. \A a, c \in Int, m \in Nat : 0 <= a /\ a <= m =>
            /\ a + c \in Int
            /\ (c > 0 => a + c <= m) => a + c < 0 \/ a + c \in 0 .. m
            /\ (c < 0 => c = -1 /\ a > 0) => ~(a + c < 0)
            /\ c = 1 => a + c > 0
            /\ ~(c < 0) /\ a > 0 => a + c > 0
      OBVIOUS
    <3>4. /\ mem.rc[Top.t] \in Int /\ 0 <= mem.rc[Top.t] /\ mem.rc[Top.t] <= Cardinality(Guest)
      BY <2>1, <3>2
    <3> QED
      BY <1>1, <3>1, <3>2, <3>3, <3>4, Zenon
  <2>3. PICK v \in 0 .. Cardinality(Guest) :
          mem' = [mem EXCEPT !.rc[Top.t] = v] /\ v = IF n < 0 THEN mem.rc[Top.t] ELSE n
    BY <1>3, <2>1, <2>2, Zenon
  <2>4. /\ mem' \in Image /\ mem'.l2 = mem.l2 /\ mem'.hdr = mem.hdr /\ mem'.rc[Top.t] = v
        /\ \A j \in Cluster \ {Top.t} : mem'.rc[j] = mem.rc[j]
    BY <1>1, <2>1, <2>3, Zenon DEF Image
  <2>5. /\ DOMAIN dirty' = Caches /\ dirty'["l2"] = dirty["l2"]
        /\ dirty'["rc"] = dirty["rc"] \cup {Top.t}
    BY <1>3, <2>1, Zenon DEF TypeOK, Caches
  <2>6. /\ stack' = Below(stack) /\ ret' \in {"ok", "err"} /\ (Acc(setup) => ret' = "ok")
        /\ Acc(setup) => v = n
    BY <1>3, <2>2, <2>3, Zenon DEF Return, Below
  <2> HIDE DEF n
  <2>7. stack' \in Seq(Frames) /\ Pops(stack, stack')
    BY <1>1, <2>6, StackTop, Zenon
  <2>8. Lower(stack', mem', file', disk', dirty', pending', setup)
    <3>1. /\ Lower(stack, mem, file, disk, dirty, pending, setup) /\ mem'.l2 = mem.l2
          /\ stack # <<>> /\ stack[Len(stack)].op = "update_refcount"
      BY <1>1, <2>4, Zenon DEF Inv, StackInv
    <3>2. Lower(stack', mem', file, disk, dirty', pending, setup)
      <4> USE <1>1, <2>7, <3>1
      <4> DEFINE l == Len(stack)
      <4>1. /\ l \in Nat \ {0} /\ Len(stack') = l - 1 /\ l \in 1 .. l
            /\ \A i \in 1 .. l - 1 : stack'[i] = stack[i] /\ i \in 1 .. l /\ i < l
            /\ \A i \in 1 .. Len(stack') - 1 : i \in 1 .. l - 1
        BY StackElements DEF Pops
      <4>2. ASSUME NEW i \in 1 .. l - 1
            PROVE  stack'[i].op \in {"writev", "check", "open"}
                   /\ FrameFact(stack'[i], mem, file, disk, dirty, pending, setup)
        <5>1. May(stack[i].op, stack[l].op)
              /\ FrameFact(stack[i], mem, file, disk, dirty, pending, setup)
          BY <4>1, Zenon DEF Shape, Lower
        <5> QED
          BY <4>1, <5>1, Zenon DEF May
      <4>3. ASSUME NEW x, x.op \in {"writev", "check", "open"},
                   FrameFact(x, mem, file, disk, dirty, pending, setup)
            PROVE  FrameFact(x, mem', file, disk, dirty', pending, setup)
        BY <4>3, Zenon DEF FrameFact, Unused
      <4>4. ASSUME NEW x, NEW y, x.op \in {"writev", "check", "open"}
            PROVE  PairFact(x, y, dirty')
        BY <4>4, Zenon DEF PairFact
      <4>5. /\ \A i \in 1 .. l - 1 : FrameFact(stack'[i], mem', file, disk, dirty', pending, setup)
            /\ \A i \in 1 .. l - 1 : PairFact(stack'[i], stack'[i + 1], dirty')
        BY ONLY <4>2, <4>3, <4>4
      <4> QED
        BY ONLY <4>1, <4>5, Zenon DEF Lower
    <3> QED
      BY <1>1, <3>2, Zenon
  <2>9. ASSUME NEW w \in Frames, Waits(w, Top)
        PROVE  TopFact(w, ret', mem', file', disk', cached', dirty', depends', setup)
    <3>1. w.op \in {"writev", "check"}
          /\ (w.op = "writev" => w.at = "counted" /\ w.t = Top.t /\ Top.c = 1)
      BY <1>1, <2>9, Zenon DEF Waits
    <3>2. Acc(setup) /\ Top.c = 1 => mem'.rc[Top.t] > 0
      BY <2>2, <2>4, <2>6, Zenon
    <3> QED
      BY <2>6, <3>1, <3>2, Zenon DEF TopFact
  <2>10. StackInv'
    <3>1. StackInv
      BY Zenon DEF Inv
    <3> QED
      BY <1>1, <2>6, <2>8, <2>9, <3>1, StackReturns, Zenon
  <2>11. TypeOK'
    BY <1>1, <2>1, <2>4, <2>5, <2>6, Zenon DEF TypeOK, Caches
  <2>12. ASSUME NEW b \in Caches, NEW u \in Tables(b), u \notin dirty'[b]
         PROVE  mem'[b][u] = file'[b][u]
    <3>1. u \notin dirty[b] /\ (b = "l2" \/ (b = "rc" /\ u # Top.t))
      BY <2>5, <2>12, Zenon DEF Caches
    <3>2. mem[b][u] = file[b][u]
      BY <1>1, <3>1, Zenon DEF Inv, DataInv
    <3>3. mem'[b][u] = mem[b][u]
      BY <2>4, <3>1, Zenon DEF Tables
    <3> QED
      BY <1>1, <3>2, <3>3, Zenon
  <2>13. DataInv'
    BY <1>1, <2>11, <2>12, Zenon DEF Inv, DataInv, NoDependencyCycle
  <2>14. ~Window(stack) /\ \A g \in Guest : ~Linking(stack', g)
    <3>1. /\ \A i \in 1 .. Len(stack) - 1 : May(stack[i].op, "update_refcount")
          /\ Len(stack) \in Nat \ {0}
      BY <1>1, Active, Zenon
    <3>2. CASE Len(stack) = 1
      <4>1. stack[1] = Top /\ stack' = <<>>
        BY <1>1, <2>7, <3>2, StackElements DEF Pops
      <4> QED
        BY <1>1, <4>1, Zenon DEF Window, Linking
    <3>3. CASE Len(stack) # 1
      <4>1. \A m \in Nat \ {0} : m # 1 => 1 \in 1 .. m - 1
        OBVIOUS
      <4>2. stack'[1] = stack[1] /\ May(stack[1].op, "update_refcount")
        BY <2>7, <3>1, <3>3, <4>1, Zenon DEF Pops
      <4>3. stack[1].op \in {"writev", "check", "open"}
        BY <4>2, Zenon DEF May
      <4> QED
        BY <4>2, <4>3, Zenon DEF Window, Linking
    <3> QED
      BY <3>2, <3>3, Zenon
  <2>15. ASSUME Accurate
         PROVE  Live(mem', file, disk, pending, depends, stack')
    <3>1. /\ Live(mem, file, disk, pending, depends, stack) /\ Acc(setup)
          /\ Top.t \in Cluster /\ mem'.l2 = mem.l2
      BY <1>1, <2>4, <2>15, Zenon DEF Inv, OrderInv, Accurate, Acc
    <3>2. /\ \A j \in Cluster \ {Top.t} : mem'.rc[j] = mem.rc[j]
          /\ mem.rc[Top.t] > 0 => mem'.rc[Top.t] > 0 \/ Unused(Top.t, mem, pending)
      BY <2>2, <2>4, <2>6, <3>1, Zenon
    <3> QED
      <4> USE <2>14, <3>1, <3>2
      <4>1. \A g \in Guest, j \in Cluster : Stale(g, j, mem', file, disk) <=>
              Stale(g, j, mem, file, disk)
        BY Zenon DEF Stale
      <4>2. Owned(mem', pending)
        BY DEF Owned, Live, Unused
      <4>3. /\ \A g \in Guest, j \in Cluster : Refers(g, j, file, disk) =>
                 mem.rc[j] > 0 \/ depends["rc"]
            /\ \A g \in Guest, j \in Cluster : Stale(g, j, mem, file, disk) => depends["rc"]
        BY Zenon DEF Live, Ahead, Marked
      <4>4. ASSUME NEW g \in Guest, NEW j \in Cluster, Refers(g, j, file, disk)
            PROVE  mem'.rc[j] > 0 \/ depends["rc"]
        <5>1. CASE j # Top.t
          BY <4>3, <4>4, <5>1, Zenon
        <5>2. CASE j = Top.t
          <6>1. Unused(Top.t, mem, pending) => Stale(g, Top.t, mem, file, disk)
            BY <4>4, <5>2, Zenon DEF Unused, Stale
          <6> QED
            BY <4>3, <4>4, <5>2, <6>1, Zenon
        <5> QED
          BY <5>1, <5>2, Zenon
      <4>5. Ahead(mem', file, disk, depends)
        BY <4>4, Zenon DEF Ahead, Live
      <4>6. Marked(mem', file, disk, pending, depends, stack')
        BY <4>1, <4>3, Zenon DEF Marked
      <4> QED
        BY <4>2, <4>5, <4>6, Zenon DEF Live
  <2>16. OrderInv'
    BY <1>1, <2>4, <2>15, Zenon DEF Inv, OrderInv, Accurate
  <2> QED
    BY <2>10, <2>13, <2>16, Zenon DEF Inv
<1> QED
  BY <1>2, <1>3, Zenon DEF update_refcount_got

-----------------------------------------------------------------------------
(* Operations: stacks that begin and end. *)

\* No function is active.
LEMMA StackEmpty ==
  ASSUME stack' = <<>>
  PROVE  StackInv'
<1>1. /\ stack' \in Seq(Frames) /\ Len(stack') = 0 /\ 1 .. 0 = {} /\ 1 .. 0 - 1 = {}
  OBVIOUS
<1> QED
  BY <1>1, Zenon DEF StackInv, Shape, Lower

\* An operation begins.
LEMMA StackOne ==
  ASSUME NEW f \in Frames, stack' = <<f>>, FrameOK(f), f.op \in Bottom, setup' = setup,
         FrameFact(f, mem', file', disk', dirty', pending', setup),
         TopFact(f, ret', mem', file', disk', cached', dirty', depends', setup)
  PROVE  StackInv'
<1>1. /\ stack' \in Seq(Frames) /\ Len(stack') = 1 /\ stack'[1] = f
      /\ 1 .. 1 = {1} /\ 1 .. 1 - 1 = {}
  OBVIOUS
<1>2. Shape(stack')
  <2>1. \A i, j \in {1} : ~(i < j)
    OBVIOUS
  <2> QED
    BY <1>1, <2>1, Zenon DEF Shape
<1>3. Lower(stack', mem', file', disk', dirty', pending', setup)
  BY <1>1, Zenon DEF Lower
<1>4. Top' = f
  BY <1>1, Zenon DEF Top
<1> QED
  BY <1>1, <1>2, <1>3, <1>4, Zenon DEF StackInv

\* An operation begins with a call.
LEMMA StackTwo ==
  ASSUME NEW f \in Frames, NEW g \in Frames, stack' = <<f, g>>, FrameOK(f), FrameOK(g),
         Waits(f, g), f.op \in Bottom, f.op # "update_refcount", setup' = setup,
         f.op # "cache_flush",
         FrameFact(f, mem', file', disk', dirty', pending', setup),
         FrameFact(g, mem', file', disk', dirty', pending', setup),
         TopFact(g, ret', mem', file', disk', cached', dirty', depends', setup)
  PROVE  StackInv'
<1>1. /\ stack' \in Seq(Frames) /\ Len(stack') = 2 /\ stack'[1] = f /\ stack'[2] = g
      /\ 1 .. 2 = {1, 2} /\ 1 .. 2 - 1 = {1} /\ 1 + 1 = 2
  OBVIOUS
<1>2. Shape(stack')
  <2>1. \A i, j \in {1, 2} : i < j => i = 1 /\ j = 2
    OBVIOUS
  <2>2. May(f.op, g.op) /\ ~(g.op = "update_refcount" /\ g.c < 0)
    BY DEF Waits, May, Bottom, FrameOK
  <2>3. \A i \in 1 .. Len(stack') : FrameOK(stack'[i])
    BY <1>1, Zenon
  <2>4. \A i, j \in 1 .. Len(stack') : i < j => May(stack'[i].op, stack'[j].op)
    BY <1>1, <2>1, <2>2, Zenon
  <2>5. \A i \in 1 .. Len(stack') - 1 : Waits(stack'[i], stack'[i + 1])
    BY <1>1, Zenon
  <2>6. \A i \in 1 .. Len(stack') : stack'[i].op = "update_refcount" /\ stack'[i].c < 0 => i = 1
    BY <1>1, <2>2, Zenon
  <2> QED
    BY <1>1, <2>3, <2>4, <2>5, <2>6, Zenon DEF Shape
<1>3. Lower(stack', mem', file', disk', dirty', pending', setup)
  <2>1. PairFact(f, g, dirty')
    BY Zenon DEF PairFact
  <2> QED
    BY <1>1, <2>1, Zenon DEF Lower
<1>4. Top' = g
  BY <1>1, Zenon DEF Top
<1> QED
  BY <1>1, <1>2, <1>3, <1>4, Zenon DEF StackInv

\* An operation of the guest begins.
LEMMA BeginStep ==
  ASSUME Inv, NEW f \in Frames, Begin(f), Still, FrameOK(f), f.at = "start",
         f.op \in {"writev", "discard", "sync", "close"},
         FrameFact(f, mem, file, disk, dirty, pending, setup)
  PROVE  Inv'
<1>1. /\ opened /\ stack = <<>> /\ stack' = <<f>> /\ ret' = "ok"
      /\ left' \in 0 .. setup.ops
  <2>1. \A m \in Nat : \A l \in 0 .. m : l > 0 => l - 1 \in 0 .. m
    OBVIOUS
  <2>2. setup.ops \in Nat /\ left \in 0 .. setup.ops
    BY ConstantsAssumption, Zenon DEF Inv, DataInv, TypeOK
  <2> QED
    BY <2>1, <2>2, Zenon DEF Begin
<1>2. StackInv'
  <2>1. /\ FrameFact(f, mem', file', disk', dirty', pending', setup) /\ setup' = setup
        /\ f.op \in Bottom
    BY Zenon DEF Still, cacheVars, Bottom
  <2>2. TopFact(f, ret', mem', file', disk', cached', dirty', depends', setup)
    BY <1>1, Zenon DEF TopFact
  <2> QED
    BY <1>1, <2>1, <2>2, StackOne, Zenon
<1>3. Same(stack, stack')
  <2>1. stack'[1] = f /\ stack' # <<>>
    BY <1>1, Zenon
  <2> QED
    BY <1>1, <2>1, Zenon DEF Same, Window, Linking
<1> QED
  BY <1>1, <1>2, <1>3, PlainStep, Zenon

\* The frames of the operations that begin.
LEMMA OperationForms ==
  /\ \A g \in Guest : /\ Frame("discard", g, None) \in Frames
                      /\ Started(Frame("discard", g, None), "discard", g, None)
  /\ \A g \in Guest : LET f == [Frame("writev", g, None) EXCEPT !.todo = Cluster]
                      IN /\ f \in Frames /\ f.op = "writev" /\ f.at = "start" /\ f.c = g
                         /\ f.todo = Cluster /\ f.failed = FALSE
  /\ \A o \in {"sync", "close"} : /\ Frame(o, None, None) \in Frames
                                  /\ Started(Frame(o, None, None), o, None, None)
<1>1. "discard" \in Ops /\ "sync" \in Ops /\ "close" \in Ops /\ None \in Args /\ None \in Targets
  BY Zenon DEF Ops, Args, Targets
<1>2. \A g \in Guest : g \in Args
  BY Zenon DEF Args
<1>3. ASSUME NEW g \in Guest
      PROVE  LET f == [Frame("writev", g, None) EXCEPT !.todo = Cluster]
             IN /\ f \in Frames /\ f.op = "writev" /\ f.at = "start" /\ f.c = g
                /\ f.todo = Cluster /\ f.failed = FALSE
  BY Zenon DEF Frame, Frames, Ops, Labels, Args, Targets
<1> QED
  BY <1>1, <1>2, <1>3, FrameForms, Zenon

\* qcow2_co_writev, qcow2_co_discard, the flush of the guest and bdrv_close begin.
LEMMA Begins ==
  ASSUME Inv, setup' = setup, (\E g \in Guest : writev(g) \/ discard(g)) \/ sync \/ close
  PROVE  Inv'
<1>1. CASE \E g \in Guest : writev(g)
  <2>1. PICK g \in Guest : writev(g)
    BY <1>1, Zenon
  <2>2. PICK f : f = [Frame("writev", g, None) EXCEPT !.todo = Cluster]
    BY Zenon
  <2>3. /\ f \in Frames /\ f.op = "writev" /\ f.at = "start" /\ f.c = g
        /\ f.todo = Cluster /\ f.failed = FALSE /\ Begin(f) /\ Still /\ pending[g] = None
    BY <2>1, <2>2, OperationForms, Zenon DEF writev, Still
  <2>4. FrameOK(f) /\ FrameFact(f, mem, file, disk, dirty, pending, setup)
    BY <2>3, Zenon DEF FrameOK, FrameFact
  <2> QED
    BY <2>3, <2>4, BeginStep, Zenon
<1>2. CASE \E g \in Guest : discard(g)
  <2>1. PICK g \in Guest : discard(g)
    BY <1>2, Zenon
  <2>2. PICK f : f = Frame("discard", g, None)
    BY Zenon
  <2>3. f \in Frames /\ Started(f, "discard", g, None) /\ Begin(f) /\ Still
    BY <2>1, <2>2, OperationForms, Zenon DEF discard, Still
  <2>4. /\ FrameOK(f) /\ FrameFact(f, mem, file, disk, dirty, pending, setup)
        /\ f.at = "start" /\ f.op = "discard"
    BY <2>3, Zenon DEF Started, FrameOK, FrameFact
  <2> QED
    BY <2>3, <2>4, BeginStep, Zenon
<1>3. CASE sync \/ close
  <2>1. PICK o \in {"sync", "close"} : Begin(Frame(o, None, None)) /\ Still
    BY <1>3, Zenon DEF sync, close, Still
  <2>2. PICK f : f = Frame(o, None, None)
    BY Zenon
  <2>3. f \in Frames /\ Started(f, o, None, None) /\ Begin(f)
    BY <2>1, <2>2, OperationForms, Zenon
  <2>4. /\ FrameOK(f) /\ FrameFact(f, mem, file, disk, dirty, pending, setup)
        /\ f.at = "start" /\ f.op \in {"sync", "close"}
    BY <2>3, Zenon DEF Started, FrameOK, FrameFact
  <2> QED
    BY <2>1, <2>3, <2>4, BeginStep, Zenon
<1> QED
  BY <1>1, <1>2, <1>3, Zenon

-----------------------------------------------------------------------------
(* block/qcow2.c and block/qcow2-cluster.c: writes and discards. *)

\* An operation of the guest is done.
LEMMA OperationEnds ==
  ASSUME Inv, stack # <<>>, Top.op \in {"link", "discard", "writev", "close", "open"}
  PROVE  /\ Below(stack) = <<>> /\ Len(stack) = 1 /\ stack[1] = Top
         /\ \A w \in Frames : ~Waits(w, Top)
<1>1. stack \in Seq(Frames) /\ Shape(stack) /\ Top = stack[Len(stack)]
  BY Active, Zenon
<1>2. Len(stack) = 1 /\ stack[1] = Top
  BY <1>1, BottomAlone, Zenon
<1>3. Below(stack) \in Seq(Frames) /\ Len(Below(stack)) = 0
  BY <1>1, <1>2, StackTop DEF Pops
<1>4. Below(stack) = <<>>
  BY <1>3, StackElements, Zenon
<1>5. \A w \in Frames : ~Waits(w, Top)
  BY Zenon DEF Waits
<1> QED
  BY <1>2, <1>4, <1>5, Zenon

\* It returns, and nothing else happens.
LEMMA EndStep ==
  ASSUME Inv, stack # <<>>, Top.op \in {"discard", "writev", "open"}, NEW v \in {"ok", "err"},
         Return(v), Still, left' = left
  PROVE  Inv'
<1>1. stack' = <<>> /\ stack[1] = Top /\ \A w \in Frames : ~Waits(w, Top)
  BY OperationEnds, Zenon DEF Return, Below
<1>2. Same(stack, stack')
  BY <1>1, Zenon DEF Same, Window, Linking
<1> QED
  BY <1>1, <1>2, ReturnStep, Zenon

\* alloc_clusters_noref looks at the refcount of a cluster.
LEMMA Scan ==
  ASSUME Inv, stack # <<>>, Top.op = "writev", scan, Still, left' = left,
         Acc(setup) => mem.l2[Top.c] = None
  PROVE  Inv'
<1>1. /\ Top \in Frames /\ Top.c \in Guest /\ Top.todo \subseteq Cluster
      /\ FrameFact(Top, mem, file, disk, dirty, pending, setup)
  BY Active, Zenon DEF FrameOK
<1>2. CASE Top.todo = {} /\ Return("err")
  BY <1>2, EndStep, Zenon
<1>3. ASSUME NEW k \in Top.todo, ret' = "ok",
             stack' = Append([stack EXCEPT ![Len(stack)] =
                               [Top EXCEPT !.at = "scanned", !.t = k, !.todo = @ \ {k}]],
                             Frame("cache_get", "rc", k))
      PROVE  Inv'
  <2>1. PICK f, g : /\ stack' = Append([stack EXCEPT ![Len(stack)] = f], g)
                    /\ f = [Top EXCEPT !.at = "scanned", !.t = k, !.todo = @ \ {k}]
                    /\ g = Frame("cache_get", "rc", k)
    BY <1>3, Zenon
  <2>2. /\ f \in Frames /\ Edited(f, Top, "scanned", k, Top.todo \ {k}, Top.failed)
        /\ g \in Frames /\ Started(g, "cache_get", "rc", k) /\ k \in Cluster
    <3>1. /\ "cache_get" \in Ops /\ "rc" \in Args /\ k \in Targets /\ k \in Cluster
          /\ "scanned" \in Labels /\ TRUE \in BOOLEAN
      BY <1>1, SMTT(20) DEF Ops, Args, Targets, Caches, Labels
    <3> QED
      BY <1>1, <2>1, <3>1, FrameEdits, FrameForms, Zenon
  <2>3. /\ Replaces(Top, f) /\ FrameOK(f) /\ FrameOK(g) /\ Waits(f, g) /\ g.at = "start"
    BY <1>1, <2>2, Zenon DEF Edited, Started, Replaces, FrameOK, Waits, Caches, Tables
  <2>4. /\ FrameFact(f, mem, file, disk, dirty, pending, setup)
        /\ FrameFact(g, mem, file, disk, dirty, pending, setup)
        /\ PairFact(f, g, dirty)
    BY <1>1, <2>2, Zenon DEF Edited, Started, FrameFact, PairFact
  <2> QED
    BY <1>1, <1>3, <2>1, <2>2, <2>3, <2>4, PushStep, Zenon
<1> QED
  BY <1>2, <1>3, Zenon DEF scan

\* A cluster is taken for the write: its data is written next.
LEMMA Allocate ==
  ASSUME Inv, stack # <<>>, Top.op = "writev", Top.at \in {"counted", "allocated"},
         ret = "ok" \/ Top.at = "allocated", Return("ok"),
         pending' = [pending EXCEPT ![Top.c] = Top.t],
         UNCHANGED <<mem, file, disk, cacheVars, opened, left, setup>>
  PROVE  Inv'
<1>1. /\ Top.c \in Guest /\ Top.t \in Cluster /\ opened
      /\ FrameFact(Top, mem, file, disk, dirty, pending, setup)
      /\ TopFact(Top, ret, mem, file, disk, cached, dirty, depends, setup)
      /\ (Accurate <=> Acc(setup))
  BY Active, Zenon DEF FrameOK
<1>2. stack' = <<>> /\ stack[1] = Top /\ ret' = "ok"
  BY OperationEnds, Zenon DEF Return, Below
<1>3. StackInv'
  BY <1>2, StackEmpty, Zenon
<1>4. TypeOK'
  BY <1>1, <1>2, Zenon DEF Inv, DataInv, TypeOK, cacheVars
<1>5. DataInv'
  BY <1>1, <1>4, Zenon DEF Inv, DataInv, NoDependencyCycle, cacheVars
<1>6. ASSUME Accurate PROVE Live(mem, file, disk, pending', depends, stack')
  <2>1. /\ Live(mem, file, disk, pending, depends, stack)
        /\ pending \in [Guest -> Cluster \cup {None}]
        /\ pending' = [pending EXCEPT ![Top.c] = Top.t]
    BY <1>1, <1>6, Zenon DEF Inv, OrderInv, DataInv, TypeOK
  <2>2. Top.at = "counted" /\ mem.l2[Top.c] = None /\ Unused(Top.t, mem, pending)
    BY <1>1, <1>6, Zenon DEF FrameFact
  <2>3. mem.rc[Top.t] > 0
    BY <1>1, <1>6, <2>2, Zenon DEF TopFact
  <2>4. ~Window(stack) /\ (\A h \in Guest : ~Linking(stack', h)) /\ Top.c \in Guest /\ Top.t \in Cluster
    BY <1>1, <1>2, Zenon DEF Window, Linking
  <2> QED
    <3> USE <2>1, <2>2, <2>3, <2>4
    <3>1. pending'[Top.c] = Top.t /\ \A h \in Guest \ {Top.c} : pending'[h] = pending[h]
      BY Zenon
    <3>2. Owned(mem, pending')
      <4>1. \A h \in Guest : mem.l2[h] # Top.t /\ pending[h] # Top.t
        BY Zenon DEF Unused
      <4> QED
        BY <3>1, <4>1 DEF Owned, Live
    <3>3. Marked(mem, file, disk, pending', depends, stack')
      BY Zenon DEF Marked, Live
    <3> QED
      BY <3>2, <3>3, Zenon DEF Live
<1>7. OrderInv'
  BY <1>6, Zenon DEF Inv, OrderInv, Accurate, cacheVars
<1> QED
  BY <1>3, <1>5, <1>7, SMTT(20) DEF Inv

\* qcow2_co_writev
LEMMA WritevSteps ==
  ASSUME Counts, Inv, writev_steps, setup' = setup
  PROVE  Inv'
<1>1. /\ stack # <<>> /\ Top.op = "writev" /\ opened /\ Top \in Frames /\ Top.c \in Guest
      /\ FrameFact(Top, mem, file, disk, dirty, pending, setup)
      /\ TopFact(Top, ret, mem, file, disk, cached, dirty, depends, setup)
      /\ UNCHANGED <<mem, file, disk, cacheVars, opened, left, setup>>
      /\ (Accurate <=> Acc(setup)) /\ FrameOK(Top)
  BY Active, Zenon DEF writev_steps, At, FrameOK
<1> DEFINE C1 == Top.at = "start" /\ Call(Frame("cache_get", "l2", Top.c), "l2")
           C2 == \E v \in {"ok", "err"} : Return(v)
           C3 == mem.l2[Top.c] = None /\ scan
           C4 == Top.at = "scanned" /\ ~is_free(Top.t) /\ scan
           C5 == Top.at = "scanned" /\ is_free(Top.t) /\ Call(Update(Top.t, 1), "counted")
           C6 == setup.lazy /\ Call(Frame("mark_dirty", None, None), "allocated")
<1>2. \/ UNCHANGED pending /\ (C1 \/ C2 \/ C3 \/ C4 \/ C5 \/ (Top.at = "counted" /\ C6))
      \/ /\ Top.at \in {"counted", "allocated"} /\ (ret = "ok" \/ Top.at = "allocated")
         /\ pending' = [pending EXCEPT ![Top.c] = Top.t] /\ Return("ok")
  BY Zenon DEF writev_steps, At
<1>3. pending' = pending => Still
  BY <1>1, Zenon DEF Still
<1>4. CASE UNCHANGED pending /\ C1
  <2>1. /\ "cache_get" \in Ops /\ "l2" \in Args /\ Top.c \in Targets /\ "l2" \in Labels
    BY <1>1, Zenon DEF Ops, Args, Targets, Labels, Caches
  <2>2. ASSUME NEW f \in Frames, NEW g \in Frames, Moved(f, Top, "l2"),
               Started(g, "cache_get", "l2", Top.c)
        PROVE  /\ FrameOK(f) /\ FrameOK(g) /\ Waits(f, g)
               /\ FrameFact(f, mem, file, disk, dirty, pending, setup)
               /\ FrameFact(g, mem, file, disk, dirty, pending, setup)
    BY <1>1, <2>2, Zenon DEF Moved, Started, FrameOK, Waits, FrameFact, Caches, Tables
  <2> QED
    BY <1>1, <1>3, <1>4, <2>1, <2>2, CallStep, Zenon
<1>5. CASE UNCHANGED pending /\ C2
  BY <1>1, <1>3, <1>5, EndStep, Zenon
<1>6. CASE UNCHANGED pending /\ (C3 \/ C4)
  <2>1. scan /\ (Acc(setup) => mem.l2[Top.c] = None)
    BY <1>1, <1>6, Zenon DEF FrameFact
  <2> QED
    BY <1>1, <1>3, <1>6, <2>1, Scan, Zenon
<1>7. CASE UNCHANGED pending /\ C5
  <2>1. Top.t \in Cluster /\ mem.rc[Top.t] = 0
    BY <1>1, <1>7, Zenon DEF FrameOK, is_free
  <2>2. 1 <= Cardinality(Guest)
    <3>1. Cardinality(Guest) \in Nat /\ Cardinality(Guest) # 0
      BY <1>1, Zenon DEF Counts
    <3> QED
      BY <3>1
  <2>3. Acc(setup) => Unused(Top.t, mem, pending)
    <3>1. Acc(setup) => Owned(mem, pending)
      BY <1>1, Zenon DEF Inv, OrderInv, Live
    <3> QED
      BY <2>1, <3>1 DEF Owned, Unused
  <2>4. /\ "update_refcount" \in Ops /\ 1 \in Args /\ Top.t \in Targets /\ "counted" \in Labels
    BY <2>1 DEF Ops, Args, Targets, Labels
  <2>5. ASSUME NEW f \in Frames, NEW g \in Frames, Moved(f, Top, "counted"),
               Started(g, "update_refcount", 1, Top.t)
        PROVE  /\ FrameOK(f) /\ FrameOK(g) /\ Waits(f, g)
               /\ FrameFact(f, mem, file, disk, dirty, pending, setup)
               /\ FrameFact(g, mem, file, disk, dirty, pending, setup)
    <3>1. FrameOK(f) /\ FrameOK(g) /\ Waits(f, g)
      BY <1>1, <2>1, <2>5, SMTT(20) DEF Moved, Started, FrameOK, Waits
    <3>2. FrameFact(f, mem, file, disk, dirty, pending, setup)
      BY <1>1, <1>7, <2>3, <2>5, SMTT(20) DEF Moved, FrameFact
    <3>3. FrameFact(g, mem, file, disk, dirty, pending, setup)
      BY <2>1, <2>2, <2>5 DEF Started, FrameFact
    <3> QED
      BY <3>1, <3>2, <3>3, Zenon
  <2>6. Call(Frame("update_refcount", 1, Top.t), "counted")
    BY <1>7, Zenon DEF Update
  <2> QED
    BY <1>1, <1>3, <1>7, <2>4, <2>5, <2>6, CallStep, Zenon
<1>8. CASE UNCHANGED pending /\ Top.at = "counted" /\ C6
  <2>1. ~Acc(setup)
    BY <1>8, Zenon DEF Acc
  <2>2. /\ "mark_dirty" \in Ops /\ None \in Args /\ None \in Targets /\ "allocated" \in Labels
    BY Zenon DEF Ops, Args, Targets, Labels
  <2>3. ASSUME NEW f \in Frames, NEW g \in Frames, Moved(f, Top, "allocated"),
               Started(g, "mark_dirty", None, None)
        PROVE  /\ FrameOK(f) /\ FrameOK(g) /\ Waits(f, g)
               /\ FrameFact(f, mem, file, disk, dirty, pending, setup)
               /\ FrameFact(g, mem, file, disk, dirty, pending, setup)
    BY <1>1, <1>8, <2>1, <2>3, Zenon DEF Moved, Started, FrameOK, Waits, FrameFact
  <2> QED
    BY <1>1, <1>3, <1>8, <2>2, <2>3, CallStep, Zenon
<1>9. CASE /\ Top.at \in {"counted", "allocated"} /\ (ret = "ok" \/ Top.at = "allocated")
           /\ pending' = [pending EXCEPT ![Top.c] = Top.t] /\ Return("ok")
  BY <1>1, <1>9, Allocate, Zenon
<1> QED
  BY <1>2, <1>4, <1>5, <1>6, <1>7, <1>8, <1>9, Zenon

\* Writing the data fails.
LEMMA WriteFails ==
  ASSUME Inv, NEW g \in Guest, write_fails(g), setup' = setup
  PROVE  Inv'
<1>1. /\ opened /\ ~Acc(setup) /\ ~Accurate /\ pending' = [pending EXCEPT ![g] = None]
      /\ UNCHANGED <<mem, file, disk, cacheVars, opened, callVars, left>>
  BY Zenon DEF write_fails, Fails, Acc, Accurate
<1>2. TypeOK'
  BY <1>1, Zenon DEF Inv, DataInv, TypeOK, cacheVars, callVars
<1>3. DataInv'
  BY <1>1, <1>2, Zenon DEF Inv, DataInv, NoDependencyCycle, cacheVars
<1>4. StackInv'
  <2>1. Quiet(mem, file, disk, dirty, pending, setup, mem', file', disk', dirty', pending')
    BY <1>1, Zenon DEF Quiet, cacheVars
  <2>2. Lower(stack, mem', file', disk', dirty', pending', setup)
    <3>1. /\ \A x : FrameOK(x) /\ FrameFact(x, mem, file, disk, dirty, pending, setup)
               => FrameFact(x, mem', file', disk', dirty', pending', setup)
          /\ \A x, y : FrameOK(x) /\ PairFact(x, y, dirty) => PairFact(x, y, dirty')
      BY ONLY <2>1, QuietFacts, Zenon
    <3>2. /\ \A i \in 1 .. Len(stack) : FrameOK(stack[i])
          /\ Lower(stack, mem, file, disk, dirty, pending, setup)
          /\ stack \in Seq(Frames)
      BY Zenon DEF Inv, StackInv, Shape
    <3>3. \A i \in 1 .. Len(stack) - 1 : i \in 1 .. Len(stack)
      BY <3>2, StackElements
    <3> QED
      BY ONLY <3>1, <3>2, <3>3, Zenon DEF Lower
  <2> QED
    BY <1>1, <2>2, Zenon DEF Inv, StackInv, cacheVars, callVars, Top
<1>5. OrderInv'
  BY <1>1, Zenon DEF OrderInv, Accurate
<1> QED
  BY <1>3, <1>4, <1>5, Zenon DEF Inv

\* qcow2_alloc_cluster_link_l2 begins.
LEMMA Link ==
  ASSUME Inv, NEW g \in Guest, NEW cow \in BOOLEAN, link(g, cow), setup' = setup
  PROVE  Inv'
<1>1. /\ opened /\ stack = <<>> /\ pending[g] # None /\ ret' = "ok"
      /\ UNCHANGED <<mem, file, disk, cached, dirty, depends, opened, pending, left, setup>>
      /\ (Accurate <=> Acc(setup))
  BY Zenon DEF link, Accurate, Acc
<1>2. PICK f, s : /\ f = [Frame("link", g, None) EXCEPT !.at = "ordered"]
                  /\ s = Frame("set_dependency", "l2", None)
                  /\ stack' = IF link_depends THEN <<f, s>> ELSE <<f>>
  BY Zenon DEF link
<1>3. /\ f \in Frames /\ f.op = "link" /\ f.at = "ordered" /\ f.c = g /\ f.failed = FALSE
      /\ s \in Frames /\ Started(s, "set_dependency", "l2", None)
  <2>1. /\ "link" \in Ops /\ g \in Args /\ None \in Targets /\ "ordered" \in Labels
        /\ "set_dependency" \in Ops /\ "l2" \in Args
    BY Zenon DEF Ops, Args, Targets, Labels, Caches
  <2>2. PICK e \in Frames : Started(e, "link", g, None) /\ e = Frame("link", g, None)
    BY <2>1, FrameForms, Zenon
  <2>3. f \in Frames /\ Moved(f, e, "ordered")
    BY <1>2, <2>1, <2>2, FrameForms, Zenon
  <2> QED
    BY <1>2, <2>1, <2>2, <2>3, FrameForms DEF Moved, Started
<1>4. /\ FrameOK(f) /\ FrameOK(s) /\ Waits(f, s) /\ f.op \in Bottom
      /\ FrameFact(f, mem', file', disk', dirty', pending', setup)
      /\ FrameFact(s, mem', file', disk', dirty', pending', setup)
      /\ TopFact(f, ret', mem', file', disk', cached', dirty', depends', setup)
      /\ TopFact(s, ret', mem', file', disk', cached', dirty', depends', setup)
  <2>1. FrameOK(f) /\ FrameOK(s) /\ Waits(f, s) /\ f.op \in Bottom
    BY <1>3, Zenon DEF Started, FrameOK, Waits, Bottom, Caches
  <2>2. /\ FrameFact(f, mem', file', disk', dirty', pending', setup)
        /\ FrameFact(s, mem', file', disk', dirty', pending', setup)
    BY <1>1, <1>3, Zenon DEF Started, FrameFact
  <2>3. /\ TopFact(f, ret', mem', file', disk', cached', dirty', depends', setup)
        /\ TopFact(s, ret', mem', file', disk', cached', dirty', depends', setup)
    BY <1>1, <1>3, Zenon DEF Started, TopFact
  <2> QED
    BY <2>1, <2>2, <2>3, Zenon
<1>5. StackInv'
  <2>1. CASE link_depends
    BY <1>2, <1>3, <1>4, <2>1, StackTwo, Zenon
  <2>2. CASE ~link_depends
    BY <1>2, <1>3, <1>4, <2>2, StackOne, Zenon
  <2> QED
    BY <2>1, <2>2, Zenon
<1>6. ASSUME Acc(setup) PROVE ~Window(stack) /\ \A h \in Guest : ~Linking(stack', h)
  <2>1. link_depends
    BY <1>1, <1>6, Zenon DEF link_depends, need_accurate_refcounts, Inv, OrderInv
  <2>2. Len(stack') = 2 /\ stack'[1] = f
    BY <1>2, <2>1, Zenon
  <2> QED
    BY <1>1, <1>3, <2>2 DEF Window, Linking
<1>7. /\ depends_on_flush' \in [Caches -> BOOLEAN] /\ depends' \in [Caches -> BOOLEAN]
      /\ NoDependencyCycle' /\ ret' \in {"ok", "err"}
  BY <1>1, Zenon DEF link, Inv, DataInv, TypeOK, NoDependencyCycle
<1> QED
  BY <1>1, <1>5, <1>6, <1>7, DependsStep, Zenon

\* qcow2_alloc_cluster_link_l2 and discard_single_l2 read the L2 table.
LEMMA GetL2 ==
  ASSUME Inv, stack # <<>>, Top.op \in {"link", "discard"}, Still, left' = left,
         Call(Frame("cache_get", "l2", Top.c), "got")
  PROVE  Inv'
<1>1. /\ Top \in Frames /\ Top.c \in Guest
      /\ FrameFact(Top, mem, file, disk, dirty, pending, setup)
  BY Active, Zenon DEF FrameOK
<1>2. /\ "cache_get" \in Ops /\ "l2" \in Args /\ Top.c \in Targets /\ "got" \in Labels
  BY <1>1, Zenon DEF Ops, Args, Targets, Labels, Caches
<1>3. ASSUME NEW f \in Frames, NEW g \in Frames, Moved(f, Top, "got"),
             Started(g, "cache_get", "l2", Top.c)
      PROVE  /\ FrameOK(f) /\ FrameOK(g) /\ Waits(f, g)
             /\ FrameFact(f, mem, file, disk, dirty, pending, setup)
             /\ FrameFact(g, mem, file, disk, dirty, pending, setup)
  BY <1>1, <1>3, Zenon DEF Moved, Started, FrameOK, Waits, FrameFact, Caches, Tables
<1>4. Same(stack, stack')
  BY <1>2, CallSame, Zenon
<1>5. Top.op # "cache_flush"
  BY Zenon
<1> QED
  BY <1>2, <1>3, <1>4, <1>5, CallStep, Zenon

\* The L2 entry of a guest cluster changes in the cache, and nothing else but
\* the stack and what is pending.
LEMMA EntryStep ==
  ASSUME Inv, opened, NEW g \in Guest, g \in cached["l2"], NEW v \in Cluster \cup {None},
         mem' = [mem EXCEPT !.l2[g] = v], dirty' = [dirty EXCEPT !["l2"] = @ \cup {g}],
         pending' \in [Guest -> Cluster \cup {None}], ret' \in {"ok", "err"}, StackInv',
         UNCHANGED <<file, disk, cached, depends, depends_on_flush, opened, left, setup>>,
         Accurate => Live(mem', file, disk, pending', depends, stack')
  PROVE  Inv'
<1>1. TypeOK /\ mem \in Image
  BY Zenon DEF Inv, DataInv, TypeOK
<1>2. /\ mem' \in Image /\ mem'.rc = mem.rc /\ mem'.hdr = mem.hdr
      /\ \A h \in Guest \ {g} : mem'.l2[h] = mem.l2[h]
  BY <1>1, Zenon DEF Image
<1>3. /\ DOMAIN dirty' = Caches /\ dirty'["rc"] = dirty["rc"]
      /\ dirty'["l2"] = dirty["l2"] \cup {g}
  BY <1>1, Zenon DEF TypeOK, Caches
<1>4. TypeOK'
  BY <1>1, <1>2, <1>3, Zenon DEF TypeOK, Caches
<1>5. ASSUME NEW b \in Caches, NEW u \in Tables(b), u \notin dirty'[b]
      PROVE  mem'[b][u] = file'[b][u]
  <2>1. u \notin dirty[b] /\ (b = "rc" \/ (b = "l2" /\ u # g))
    BY <1>3, <1>5, Zenon DEF Caches
  <2>2. mem[b][u] = file[b][u]
    BY <2>1, Zenon DEF Inv, DataInv
  <2>3. mem'[b][u] = mem[b][u]
    BY <1>2, <2>1, Zenon DEF Tables
  <2> QED
    BY <2>2, <2>3, Zenon
<1>6. DataInv'
  BY <1>4, <1>5, Zenon DEF Inv, DataInv, NoDependencyCycle
<1>7. OrderInv'
  BY <1>2, Zenon DEF Inv, OrderInv, Accurate
<1> QED
  BY <1>6, <1>7, Zenon DEF Inv

\* qcow2_alloc_cluster_link_l2 sets the L2 entry.
LEMMA LinkGot ==
  ASSUME Inv, link_got, setup' = setup
  PROVE  Inv'
<1>1. /\ stack # <<>> /\ Top.op = "link" /\ Top.at = "got" /\ opened /\ Top.c \in Guest
      /\ FrameFact(Top, mem, file, disk, dirty, pending, setup)
      /\ TopFact(Top, ret, mem, file, disk, cached, dirty, depends, setup)
      /\ pending' = [pending EXCEPT ![Top.c] = None] /\ Return(ret)
      /\ UNCHANGED <<file, disk, cached, depends, depends_on_flush, opened, left, setup>>
      /\ (Accurate <=> Acc(setup))
  BY Active, Zenon DEF link_got, At, FrameOK
<1>2. stack' = <<>> /\ stack[1] = Top /\ Len(stack) = 1 /\ ret' = ret
  BY <1>1, OperationEnds, Zenon DEF Return, Below
<1>3. StackInv'
  BY <1>2, StackEmpty, Zenon
<1>4. /\ pending \in [Guest -> Cluster \cup {None}] /\ ret' \in {"ok", "err"}
      /\ pending' \in [Guest -> Cluster \cup {None}] /\ pending[Top.c] \in Cluster \cup {None}
  BY <1>1, <1>2, Zenon DEF Inv, DataInv, TypeOK
<1>5. CASE ret = "err" /\ UNCHANGED <<mem, dirty>>
  <2>1. ~Acc(setup)
    BY <1>1, <1>5, Zenon DEF TopFact
  <2>2. TypeOK'
    BY <1>1, <1>4, <1>5, Zenon DEF Inv, DataInv, TypeOK
  <2>3. DataInv'
    BY <1>1, <1>5, <2>2, Zenon DEF Inv, DataInv, NoDependencyCycle
  <2>4. OrderInv'
    BY <1>1, <2>1, Zenon DEF OrderInv, Accurate, Acc
  <2> QED
    BY <1>3, <2>3, <2>4, Zenon DEF Inv
<1>6. CASE /\ ret = "ok" /\ dirty' = [dirty EXCEPT !["l2"] = @ \cup {Top.c}]
           /\ mem' = [mem EXCEPT !.l2[Top.c] = pending[Top.c]]
  <2>1. Top.c \in cached["l2"] /\ mem \in Image
    BY <1>1, <1>6, Zenon DEF TopFact, Inv, DataInv, TypeOK
  <2>2. ASSUME Accurate PROVE Live(mem', file, disk, pending', depends, stack')
    <3>1. PICK g \in Guest : g = Top.c
      BY <1>1, Zenon
    <3>2. /\ Live(mem, file, disk, pending, depends, stack) /\ pending[g] # None
          /\ pending' = [pending EXCEPT ![g] = None]
          /\ pending \in [Guest -> Cluster \cup {None}]
      BY <1>1, <1>4, <2>2, <3>1, Zenon DEF Inv, OrderInv, FrameFact
    <3>3. mem'.rc = mem.rc /\ mem'.l2[g] = pending[g]
      BY <1>1, <1>6, <2>1, <3>1, Zenon DEF Image
    <3>4. \A h \in Guest \ {g} : mem'.l2[h] = mem.l2[h]
      BY <1>1, <1>6, <2>1, <3>1, Zenon DEF Image
    <3>5. Linking(stack, g) /\ \A h \in Guest : ~Linking(stack', h)
      BY <1>1, <1>2, <3>1, Zenon DEF Linking
    <3> QED
      <4> USE g \in Guest, <3>2, <3>3, <3>4, <3>5
      <4>1. pending'[g] = None /\ \A h \in Guest \ {g} : pending'[h] = pending[h]
        BY Zenon
      <4>2. /\ \A h \in Guest, j \in Cluster : ~Stale(h, j, mem, file, disk)
            /\ \A j \in Cluster : pending[g] = j => Safe(j, file, disk) \/ depends["l2"]
            /\ mem.l2[g] = None /\ None \notin Cluster
        BY ConstantsAssumption, Zenon DEF Marked, Live, Owned
      <4>3. \A h \in Guest, j \in Cluster : Refers(h, j, file, disk) => h # g /\ mem.l2[h] = j
        BY <4>2, Zenon DEF Stale
      <4>4. Owned(mem', pending')
        <5>1. \A h \in Guest : h = g \/ mem'.l2[h] = mem.l2[h]
          BY Zenon
        <5>2. \A h \in Guest, j \in Cluster : mem'.l2[h] = j =>
                (h = g /\ pending[g] = j) \/ mem.l2[h] = j
          BY <5>1, Zenon
        <5>3. \A h \in Guest, j \in Cluster : pending'[h] = j => h # g /\ pending[h] = j
          BY <4>1, <4>2, Zenon
        <5>4. \A h \in Guest, j \in Cluster : mem'.l2[h] = j \/ pending'[h] = j => mem'.rc[j] > 0
          BY <5>2, <5>3 DEF Owned, Live
        <5>5. \A h, i \in Guest, j \in Cluster : mem'.l2[h] = j /\ mem'.l2[i] = j => h = i
          BY <5>2 DEF Owned, Live
        <5>6. \A h, i \in Guest, j \in Cluster : pending'[h] = j /\ pending'[i] = j => h = i
          BY <5>3 DEF Owned, Live
        <5>7. \A h, i \in Guest, j \in Cluster : ~(pending'[h] = j /\ mem'.l2[i] = j)
          BY <5>2, <5>3 DEF Owned, Live
        <5>8. \A h \in Guest : pending'[h] = None \/ mem'.l2[h] = None
          BY <4>1, Zenon DEF Owned, Live
        <5> QED
          BY <5>4, <5>5, <5>6, <5>7, <5>8, Zenon DEF Owned
      <4>5. \A h \in Guest, j \in Cluster : ~Stale(h, j, mem', file, disk)
        BY <4>3, Zenon DEF Stale
      <4>6. ASSUME NEW h \in Guest, NEW i \in Guest, NEW j \in Cluster, mem'.l2[h] = j,
                   Refers(i, j, file, disk)
            PROVE  h = i
        <5>1. i # g /\ mem.l2[i] = j
          BY <4>3, <4>6, Zenon
        <5>2. h # g
          BY <4>6, <5>1 DEF Live, Owned
        <5> QED
          BY <4>6, <5>1, <5>2 DEF Live, Owned
      <4>7. Ahead(mem', file, disk, depends)
        BY <4>2, <4>6, ZenonT(30) DEF Ahead, Live
      <4>8. Marked(mem', file, disk, pending', depends, stack')
        BY <4>5, Zenon DEF Marked
      <4> QED
        BY <4>4, <4>7, <4>8, Zenon DEF Live
  <2>3. PICK v \in Cluster \cup {None} : mem' = [mem EXCEPT !.l2[Top.c] = v]
    BY <1>4, <1>6, Zenon
  <2> QED
    BY <1>1, <1>3, <1>4, <1>6, <2>1, <2>2, <2>3, EntryStep, Zenon
<1> QED
  BY <1>1, <1>5, <1>6, Zenon DEF link_got

\* discard_single_l2 removes the L2 entry.
LEMMA DiscardGot ==
  ASSUME Inv, stack # <<>>, Top.op = "discard", Top.at = "got", ret = "ok",
         mem.l2[Top.c] # None, dirty' = [dirty EXCEPT !["l2"] = @ \cup {Top.c}],
         mem' = [mem EXCEPT !.l2[Top.c] = None], TailCall(Update(mem.l2[Top.c], -1)),
         UNCHANGED <<file, disk, cached, depends, depends_on_flush, opened, pending, left, setup>>
  PROVE  Inv'
<1>1. /\ opened /\ Top.c \in Guest /\ Top.c \in cached["l2"] /\ (Accurate <=> Acc(setup))
      /\ FrameFact(Top, mem, file, disk, dirty, pending, setup)
  BY Active, Zenon DEF FrameOK, TopFact
<1>2. PICK k \in Cluster : k = mem.l2[Top.c]
  BY <1>1 DEF Inv, DataInv, TypeOK, Image
<1>3. PICK f \in Frames : f = Update(k, -1) /\ Started(f, "update_refcount", -1, k)
  <2>1. "update_refcount" \in Ops /\ -1 \in Args /\ k \in Targets
    BY DEF Ops, Args, Targets
  <2> QED
    BY <2>1, FrameForms, Zenon DEF Update
<1>4. stack' = <<f>> /\ ret' = "ok"
  <2>1. stack' = [stack EXCEPT ![Len(stack)] = f] /\ ret' = "ok"
    BY <1>2, <1>3, Zenon DEF TailCall
  <2>2. Len(stack) = 1 /\ stack \in Seq(Frames)
    BY OperationEnds, Active, Zenon
  <2>3. ASSUME NEW S, NEW s \in Seq(S), NEW x \in S, Len(s) = 1
        PROVE  [s EXCEPT ![1] = x] = <<x>>
    BY <2>3
  <2> QED
    BY <2>1, <2>2, <2>3
<1>5. /\ mem \in Image /\ mem'.l2 = [mem.l2 EXCEPT ![Top.c] = None] /\ mem'.rc = mem.rc
      /\ mem'.l2[Top.c] = None /\ \A h \in Guest \ {Top.c} : mem'.l2[h] = mem.l2[h]
  BY <1>1, Zenon DEF Inv, DataInv, TypeOK, Image
<1>6. FrameFact(f, mem', file', disk', dirty', pending', setup)
  <2>1. ASSUME Acc(setup) PROVE mem'.rc[k] > 0 /\ Unused(k, mem', pending')
    <3>1. Owned(mem, pending) /\ pending' = pending /\ None \notin Cluster
      BY <1>1, <2>1, ConstantsAssumption, Zenon DEF Inv, OrderInv, Live
    <3>2. mem.rc[k] > 0
      BY <1>1, <1>2, <3>1, Zenon DEF Owned
    <3>3. ASSUME NEW h \in Guest PROVE mem'.l2[h] # k /\ pending[h] # k
      BY <1>1, <1>2, <1>5, <3>1 DEF Owned
    <3> QED
      BY <1>5, <3>1, <3>2, <3>3, Zenon DEF Unused
  <2>2. ~(-1 > 0)
    OBVIOUS
  <2> QED
    BY <1>3, <2>1, <2>2, Zenon DEF Started, FrameFact
<1>7. StackInv'
  <2>1. FrameOK(f) /\ f.op \in Bottom
    BY <1>3 DEF Started, FrameOK, Bottom
  <2>2. TopFact(f, ret', mem', file', disk', cached', dirty', depends', setup)
    BY <1>3, <1>4, Zenon DEF Started, TopFact
  <2> QED
    BY <1>4, <1>6, <2>1, <2>2, StackOne, Zenon
<1>8. ASSUME Accurate PROVE Live(mem', file, disk, pending', depends, stack')
  <2>1. Live(mem, file, disk, pending, depends, stack) /\ Top.c \in Guest
    BY <1>1, <1>8, Zenon DEF Inv, OrderInv
  <2>2. Window(stack') /\ \A h \in Guest : ~Linking(stack', h)
    <3>1. stack' # <<>> /\ stack'[1] = f /\ -1 < 0
      BY <1>4
    <3> QED
      BY <1>3, <3>1, Zenon DEF Started, Window, Linking
  <2>3. /\ mem'.rc = mem.rc /\ mem'.l2[Top.c] = None
        /\ \A h \in Guest \ {Top.c} : mem'.l2[h] = mem.l2[h]
    BY <1>5, Zenon
  <2>4. Live(mem', file, disk, pending, depends, stack')
    <3> USE <2>1, <2>2, <2>3
    <3>1. None \notin Cluster
      BY ConstantsAssumption, Zenon
    <3>2. Owned(mem', pending)
      BY <3>1 DEF Owned, Live
    <3>3. Ahead(mem', file, disk, depends)
      BY <3>1, ZenonT(30) DEF Ahead, Live
    <3>4. Marked(mem', file, disk, pending, depends, stack')
      BY Zenon DEF Marked
    <3> QED
      BY <3>2, <3>3, <3>4, Zenon DEF Live
  <2> QED
    BY <2>4, Zenon
<1>9. None \in Cluster \cup {None} /\ ret' \in {"ok", "err"}
      /\ pending' \in [Guest -> Cluster \cup {None}]
  BY <1>4, Zenon DEF Inv, DataInv, TypeOK
<1> QED
  BY <1>1, <1>7, <1>8, <1>9, EntryStep, Zenon

\* qcow2_co_discard
LEMMA DiscardSteps ==
  ASSUME Inv, discard_steps, setup' = setup
  PROVE  Inv'
<1>1. /\ stack # <<>> /\ Top.op = "discard" /\ ret \in {"ok", "err"}
      /\ UNCHANGED <<file, disk, cached, depends, depends_on_flush, opened, pending, left, setup>>
  BY Zenon DEF discard_steps, At, Inv, DataInv, TypeOK
<1>2. mem' = mem /\ dirty' = dirty => Still
  BY <1>1, Zenon DEF Still, cacheVars
<1>3. CASE Call(Frame("cache_get", "l2", Top.c), "got") /\ UNCHANGED <<mem, dirty>>
  BY <1>1, <1>2, <1>3, GetL2, Zenon
<1>4. CASE /\ Top.at = "got" /\ ret = "ok" /\ mem.l2[Top.c] # None
           /\ dirty' = [dirty EXCEPT !["l2"] = @ \cup {Top.c}]
           /\ mem' = [mem EXCEPT !.l2[Top.c] = None]
           /\ TailCall(Update(mem.l2[Top.c], -1))
  BY <1>1, <1>4, DiscardGot, Zenon
<1>5. CASE Return(ret) /\ UNCHANGED <<mem, dirty>>
  BY <1>1, <1>2, <1>5, EndStep, Zenon
<1> QED
  BY <1>3, <1>4, <1>5, Zenon DEF discard_steps, At, discarded

\* A guest flush: the L2 tables, the refcounts, then bs->file.
LEMMA SyncSteps ==
  ASSUME Inv, sync_steps, setup' = setup
  PROVE  Inv'
<1>1. /\ stack # <<>> /\ Top.op = "sync" /\ opened /\ Top \in Frames
      /\ Top = stack[Len(stack)] /\ stack \in Seq(Frames) /\ Shape(stack)
      /\ FrameFact(Top, mem, file, disk, dirty, pending, setup)
      /\ TopFact(Top, ret, mem, file, disk, cached, dirty, depends, setup)
      /\ UNCHANGED <<mem, cacheVars, opened, pending, left, setup>> /\ (Fails => ~Acc(setup))
  BY Active, Zenon DEF sync_steps, At
<1>2. file' = file /\ disk' = disk => Still
  BY <1>1, Zenon DEF Still
<1>3. CASE Call(Frame("cache_flush", "l2", None), "l2") /\ UNCHANGED <<file, disk>>
  <2>1. /\ "cache_flush" \in Ops /\ "l2" \in Args /\ None \in Targets /\ "l2" \in Labels
    BY Zenon DEF Ops, Args, Targets, Labels, Caches
  <2>2. ASSUME NEW f \in Frames, NEW g \in Frames, Moved(f, Top, "l2"),
               Started(g, "cache_flush", "l2", None)
        PROVE  /\ FrameOK(f) /\ FrameOK(g) /\ Waits(f, g)
               /\ FrameFact(f, mem, file, disk, dirty, pending, setup)
               /\ FrameFact(g, mem, file, disk, dirty, pending, setup)
    BY <1>1, <2>2, Zenon DEF Moved, Started, FrameOK, Waits, FrameFact, Caches
  <2> QED
    BY <1>1, <1>2, <1>3, <2>1, <2>2, CallStep, Zenon
<1>4. CASE /\ Top.at = "l2" /\ ret = "ok" /\ UNCHANGED <<file, disk>>
           /\ Call(Frame("cache_flush", "rc", None), "rc")
  <2>1. /\ "cache_flush" \in Ops /\ "rc" \in Args /\ None \in Targets /\ "rc" \in Labels
    BY Zenon DEF Ops, Args, Targets, Labels, Caches
  <2>2. ASSUME NEW f \in Frames, NEW g \in Frames, Moved(f, Top, "rc"),
               Started(g, "cache_flush", "rc", None)
        PROVE  /\ FrameOK(f) /\ FrameOK(g) /\ Waits(f, g)
               /\ FrameFact(f, mem, file, disk, dirty, pending, setup)
               /\ FrameFact(g, mem, file, disk, dirty, pending, setup)
    <3>1. dirty["l2"] = {} /\ disk.l2 = file.l2
      BY <1>1, <1>4, Zenon DEF TopFact, Flushed
    <3> QED
      BY <1>1, <2>2, <3>1, Zenon DEF Moved, Started, FrameOK, Waits, FrameFact, Caches
  <2> QED
    BY <1>1, <1>2, <1>4, <2>1, <2>2, CallStep, Zenon
<1>5. CASE flush_file /\ Return("ok")
  <2>1. /\ disk' = file /\ file' = file /\ ret' = "ok" /\ stack' = Below(stack)
        /\ UNCHANGED <<cached, dirty, depends, depends_on_flush>>
    BY <1>1, <1>5, Zenon DEF flush_file, Return, Below, cacheVars
  <2>2. ASSUME NEW w \in Frames, Waits(w, Top)
        PROVE  TopFact(w, ret', mem', file', disk', cached', dirty', depends', setup)
    BY <1>1, <2>1, <2>2, Zenon DEF Waits, TopFact
  <2>3. Quiet(mem, file, disk, dirty, pending, setup, mem', file', disk', dirty', pending')
    BY <1>1, <2>1, Zenon DEF Quiet
  <2>4. StackInv' /\ Pops(stack, stack')
    <3>1. StackInv /\ setup' = setup
      BY Zenon DEF Inv
    <3> QED
      BY <1>1, <2>1, <2>2, <2>3, <3>1, StackPop, Zenon
  <2>5. Same(stack, stack')
    <3>1. stack' \in Seq(Frames)
      BY <2>4, Zenon DEF StackInv
    <3> QED
      BY <1>1, <2>4, <3>1, SameMoves, Zenon
  <2>6. depends_on_flush' \in [Caches -> BOOLEAN]
    BY <2>1, Zenon DEF Inv, DataInv, TypeOK
  <2> QED
    BY <1>1, <1>5, <2>1, <2>4, <2>5, <2>6, FlushStep, Zenon
<1>6. CASE (Fails \/ ret = "err") /\ Return("err") /\ UNCHANGED <<file, disk>>
  <2>1. ~Acc(setup)
    BY <1>1, <1>6, Zenon DEF TopFact
  <2> QED
    BY <1>1, <1>2, <1>6, <2>1, ErrorStep, Zenon
<1> QED
  BY <1>3, <1>4, <1>5, <1>6, Zenon DEF sync_steps, At, sync_first


-----------------------------------------------------------------------------
(* The dirty bit, closing and opening an image, and the check of an image. *)

\* The dirty bit of an image.
LEMMA ImageBit ==
  ASSUME NEW F \in Image, NEW b \in BOOLEAN
  PROVE  /\ [F EXCEPT !["hdr"]["dirty"] = b] \in Image
         /\ [F EXCEPT !["hdr"]["dirty"] = b].l2 = F.l2
         /\ [F EXCEPT !["hdr"]["dirty"] = b].rc = F.rc
  BY Zenon DEF Image

\* The dirty bit changes, which needs lazy refcounts or a failure.
LEMMA BitStep ==
  ASSUME Inv, opened, ~Acc(setup), mem' \in Image, file' \in Image, disk' \in Image,
         mem'.l2 = mem.l2, mem'.rc = mem.rc, file'.l2 = file.l2, file'.rc = file.rc,
         UNCHANGED <<cacheVars, opened, pending, left, setup>>, ret' \in {"ok", "err"}, StackInv'
  PROVE  Inv'
<1>1. UNCHANGED <<cached, dirty, depends, depends_on_flush>>
  BY Zenon DEF cacheVars
<1>2. TypeOK'
  BY <1>1, Zenon DEF Inv, DataInv, TypeOK
<1>3. ASSUME NEW c \in Caches, NEW t \in Tables(c), t \notin dirty'[c]
      PROVE  mem'[c][t] = file'[c][t]
  <2>1. mem[c][t] = file[c][t]
    BY <1>1, <1>3, Zenon DEF Inv, DataInv
  <2>2. mem'[c] = mem[c] /\ file'[c] = file[c]
    BY Zenon DEF Caches
  <2> QED
    BY <2>1, <2>2, Zenon
<1>4. DataInv'
  BY <1>1, <1>2, <1>3, Zenon DEF Inv, DataInv, NoDependencyCycle
<1>5. OrderInv'
  BY Zenon DEF OrderInv, Acc, Accurate
<1> QED
  BY <1>4, <1>5, Zenon DEF Inv

\* The functions that change it return.
LEMMA BitReturns ==
  ASSUME Inv, stack # <<>>, Top.op \in {"mark_dirty", "mark_clean"}, ~Acc(setup),
         NEW v \in {"ok", "err"}, Return(v), mem' \in Image, file' \in Image,
         mem'.l2 = mem.l2, mem'.rc = mem.rc, file'.l2 = file.l2, file'.rc = file.rc,
         disk' = disk \/ disk' = file', UNCHANGED <<cacheVars, opened, pending, left, setup>>
  PROVE  Inv'
<1>1. /\ opened /\ disk' \in Image /\ StackInv /\ dirty' = dirty
      /\ stack' = Below(stack) /\ ret' \in {"ok", "err"} /\ ret' = v
  BY Active, Zenon DEF Inv, DataInv, TypeOK, Return, Below, cacheVars
<1>2. Quiet(mem, file, disk, dirty, pending, setup, mem', file', disk', dirty', pending')
  BY <1>1, Zenon DEF Quiet
<1>3. ASSUME NEW w \in Frames, Waits(w, Top)
      PROVE  TopFact(w, ret', mem', file', disk', cached', dirty', depends', setup)
  BY <1>3, Zenon DEF Waits, TopFact
<1>4. StackInv'
  BY <1>1, <1>2, <1>3, StackPop, Zenon
<1> QED
  BY <1>1, <1>4, BitStep, SMTT(20)

\* qcow2_mark_dirty
LEMMA MarkDirty ==
  ASSUME Inv, mark_dirty, setup' = setup
  PROVE  Inv'
<1>1. /\ stack # <<>> /\ Top.op = "mark_dirty" /\ ~Acc(setup) /\ StackInv
      /\ mem \in Image /\ file \in Image /\ disk \in Image /\ opened
      /\ ret \in {"ok", "err"}
      /\ UNCHANGED <<cacheVars, opened, pending, left, setup>>
  BY Active, Zenon DEF mark_dirty, At, FrameFact, Inv, DataInv, TypeOK
<1>2. PICK G \in Image : /\ G = [file EXCEPT !["hdr"]["dirty"] = TRUE]
                         /\ G.l2 = file.l2 /\ G.rc = file.rc
  BY <1>1, ImageBit, Zenon
<1>3. PICK m \in Image : m = SetDirty(TRUE) /\ m.l2 = mem.l2 /\ m.rc = mem.rc
  BY <1>1, ImageBit, Zenon DEF SetDirty
<1>4. "ok" \in {"ok", "err"} /\ "err" \in {"ok", "err"}
  BY Zenon
<1>5. CASE write_file("hdr", "dirty", TRUE) /\ Goto("flush") /\ UNCHANGED <<mem, ret>>
  <2>1. file' = G /\ disk' = disk /\ dirty' = dirty
    BY <1>1, <1>2, <1>5, Zenon DEF write_file, cacheVars
  <2>2. "flush" \in Labels
    BY Zenon DEF Labels
  <2>3. PICK f \in Frames : /\ Moved(f, Top, "flush")
                            /\ stack' = [stack EXCEPT ![Len(stack)] = f]
    BY <1>1, <1>5, <2>2, StackForms, Zenon DEF Goto
  <2>4. FrameOK(f) /\ Follows(Top, f)
    BY <1>1, <2>3, Zenon DEF Moved, FrameOK, Follows, Replaces
  <2>5. /\ FrameFact(f, mem', file', disk', dirty', pending', setup)
        /\ TopFact(f, ret', mem', file', disk', cached', dirty', depends', setup)
    BY <1>1, <2>3, Zenon DEF Moved, FrameFact, TopFact
  <2>6. Quiet(mem, file, disk, dirty, pending, setup, mem', file', disk', dirty', pending')
    BY <1>1, <1>2, <1>5, <2>1, Zenon DEF Quiet
  <2>7. StackInv'
    BY <1>1, <2>3, <2>4, <2>5, <2>6, StackSet, Zenon
  <2> QED
    BY <1>1, <1>2, <1>5, <2>1, <2>7, BitStep, Zenon
<1>6. CASE write_file_fails("hdr", "dirty", TRUE) /\ Return("err") /\ UNCHANGED mem
  <2>1. /\ file' \in Image /\ file'.l2 = file.l2 /\ file'.rc = file.rc /\ disk' = disk
    BY <1>1, <1>2, <1>6, Zenon DEF write_file_fails
  <2> QED
    BY <1>1, <1>4, <1>6, <2>1, BitReturns, Zenon
<1>7. CASE flush_file /\ mem' = SetDirty(TRUE) /\ Return("ok")
  BY <1>1, <1>3, <1>4, <1>7, BitReturns, Zenon DEF flush_file
<1>8. CASE Fails /\ Return("err") /\ UNCHANGED <<mem, file, disk>>
  BY <1>1, <1>4, <1>8, BitReturns, Zenon
<1> QED
  BY <1>5, <1>6, <1>7, <1>8, Zenon DEF mark_dirty

\* qcow2_mark_clean
LEMMA MarkClean ==
  ASSUME Inv, mark_clean, setup' = setup
  PROVE  Inv'
<1>1. /\ stack # <<>> /\ Top.op = "mark_clean" /\ opened
      /\ mem \in Image /\ file \in Image /\ disk \in Image
      /\ UNCHANGED <<cacheVars, opened, pending, left, setup>>
      /\ (Top.at = "flushed" => ~Acc(setup)) /\ (Accurate <=> Acc(setup))
  BY Active, Zenon DEF mark_clean, At, FrameFact, Inv, DataInv, TypeOK
<1>2. UNCHANGED <<mem, file, disk>> => Still
  BY <1>1, Zenon DEF Still
<1>3. "ok" \in {"ok", "err"} /\ "err" \in {"ok", "err"}
  BY Zenon
<1>4. CASE Return("ok") /\ UNCHANGED <<mem, file, disk>>
  <2>1. ASSUME NEW w \in Frames, Waits(w, Top)
        PROVE  TopFact(w, "ok", mem, file, disk, cached, dirty, depends, setup)
    BY <1>1, <2>1, Zenon DEF Waits, TopFact
  <2> QED
    BY <1>1, <1>2, <1>3, <1>4, <2>1, ReturnStep, Zenon
<1>5. CASE /\ ~need_accurate_refcounts /\ UNCHANGED <<mem, file, disk>>
           /\ Call(Frame("sync", None, None), "flushed")
  <2>1. "sync" \in Ops /\ None \in Args /\ None \in Targets /\ "flushed" \in Labels
    BY Zenon DEF Ops, Args, Targets, Labels
  <2>2. ~Acc(setup)
    BY <1>1, <1>5, ZenonT(30) DEF Inv, OrderInv, need_accurate_refcounts
  <2>3. ASSUME NEW f \in Frames, NEW g \in Frames, Moved(f, Top, "flushed"),
               Started(g, "sync", None, None)
        PROVE  /\ FrameOK(f) /\ FrameOK(g) /\ Waits(f, g)
               /\ FrameFact(f, mem, file, disk, dirty, pending, setup)
               /\ FrameFact(g, mem, file, disk, dirty, pending, setup)
    BY <1>1, <2>2, <2>3, Zenon DEF Moved, Started, FrameOK, Waits, FrameFact
  <2> QED
    BY <1>1, <1>2, <1>5, <2>1, <2>2, <2>3, CallStep, Zenon
<1>6. CASE /\ Top.at = "flushed" /\ ret = "err" /\ Return("err")
           /\ UNCHANGED <<mem, file, disk>>
  BY <1>1, <1>2, <1>6, ErrorStep, Zenon
<1>7. CASE /\ Top.at = "flushed" /\ mem' = SetDirty(FALSE)
           /\ \/ write_file("hdr", "dirty", FALSE) /\ Return("ok")
              \/ write_file_fails("hdr", "dirty", FALSE) /\ Return("err")
  <2>1. PICK G \in Image : /\ G = [file EXCEPT !["hdr"]["dirty"] = FALSE]
                           /\ G.l2 = file.l2 /\ G.rc = file.rc
    BY <1>1, ImageBit, Zenon
  <2>2. mem' \in Image /\ mem'.l2 = mem.l2 /\ mem'.rc = mem.rc
    BY <1>1, <1>7, ImageBit, Zenon DEF SetDirty
  <2>3. /\ file' \in Image /\ file'.l2 = file.l2 /\ file'.rc = file.rc /\ disk' = disk
    BY <1>1, <1>7, <2>1, Zenon DEF write_file, write_file_fails
  <2>4. PICK v \in {"ok", "err"} : Return(v)
    BY <1>3, <1>7, Zenon
  <2> QED
    BY <1>1, <1>7, <2>2, <2>3, <2>4, BitReturns, Zenon
<1> QED
  BY <1>4, <1>5, <1>6, <1>7, Zenon DEF mark_clean, At

\* The disk writes a table back.
LEMMA WriteBack ==
  ASSUME Inv, NEW c \in {"l2", "rc", "hdr"}, NEW t \in DOMAIN disk[c], write_back(c, t),
         setup' = setup
  PROVE  Inv'
<1>1. /\ disk[c][t] # file[c][t] /\ disk' = [disk EXCEPT ![c][t] = file[c][t]]
      /\ UNCHANGED <<mem, file, cached, dirty, depends, depends_on_flush, opened, pending>>
      /\ UNCHANGED <<stack, ret, left, setup>> /\ disk # file
  BY Zenon DEF write_back, cacheVars, callVars
<1>2. disk \in Image /\ file \in Image /\ StackInv
  BY Zenon DEF Inv, DataInv, TypeOK
<1>3. /\ disk' \in Image
      /\ \A g \in Guest : disk'.l2[g] = disk.l2[g] \/ disk'.l2[g] = file.l2[g]
      /\ \A k \in Cluster : disk'.rc[k] = disk.rc[k] \/ disk'.rc[k] = file.rc[k]
      /\ disk'.hdr["dirty"] = disk.hdr["dirty"] \/ disk'.hdr["dirty"] = file.hdr["dirty"]
      /\ disk.l2 = file.l2 => disk'.l2 = file.l2
  <2>1. CASE c = "l2"
    BY <1>1, <1>2, <2>1, Zenon DEF Image
  <2>2. CASE c = "rc"
    BY <1>1, <1>2, <2>2, Zenon DEF Image
  <2>3. CASE c = "hdr"
    BY <1>1, <1>2, <2>3, Zenon DEF Image
  <2> QED
    BY <2>1, <2>2, <2>3, Zenon
<1>4. StackInv'
  <2>1. Quiet(mem, file, disk, dirty, pending, setup, mem', file', disk', dirty', pending')
    BY <1>1, <1>3, Zenon DEF Quiet
  <2>2. Lower(stack, mem', file', disk', dirty', pending', setup)
    <3>1. /\ \A x : FrameOK(x) /\ FrameFact(x, mem, file, disk, dirty, pending, setup)
               => FrameFact(x, mem', file', disk', dirty', pending', setup)
          /\ \A x, y : FrameOK(x) /\ PairFact(x, y, dirty) => PairFact(x, y, dirty')
      BY ONLY <2>1, QuietFacts, Zenon
    <3>2. /\ \A i \in 1 .. Len(stack) : FrameOK(stack[i])
          /\ Lower(stack, mem, file, disk, dirty, pending, setup)
          /\ stack \in Seq(Frames)
      BY <1>2, Zenon DEF StackInv, Shape
    <3>3. \A i \in 1 .. Len(stack) - 1 : i \in 1 .. Len(stack)
      BY <3>2, StackElements
    <3> QED
      BY ONLY <3>1, <3>2, <3>3, Zenon DEF Lower
  <2>3. ASSUME stack # <<>>
        PROVE  TopFact(Top, ret, mem, file, disk', cached, dirty, depends, setup)
    BY <1>1, <1>2, <2>3, Zenon DEF StackInv, TopFact, Flushed
  <2> QED
    BY <1>1, <1>2, <2>2, <2>3, Zenon DEF StackInv, Top
<1>5. opened \/ (stack' = <<>> /\ ~Accurate)
  BY <1>1, Zenon DEF Inv, DataInv
<1>6. Same(stack, stack')
  BY <1>1, Zenon DEF Same
<1>7. depends_on_flush' \in [Caches -> BOOLEAN] /\ ret' \in {"ok", "err"}
  BY <1>1, Zenon DEF Inv, DataInv, TypeOK
<1> QED
  BY <1>1, <1>3, <1>4, <1>5, <1>6, <1>7, DiskStep, Zenon

\* The program is gone, or the image is closed.
LEMMA ForgetStep ==
  ASSUME Counts, Inv, Forget, stack' = <<>>, ret' = "ok", UNCHANGED <<left, setup>>,
         \/ file' = file /\ disk' = file
         \/ file' = file /\ disk' = disk /\ ~Acc(setup)
         \/ file' = disk /\ disk' = disk
  PROVE  Inv'
<1>1. Blank \in Image /\ ~Blank.hdr["dirty"]
  <2>1. Cardinality(Guest) \in Nat
    BY Zenon DEF Counts
  <2>2. 0 \in 0 .. Cardinality(Guest)
    BY <2>1
  <2> QED
    BY <2>2, Zenon DEF Blank, Image
<1>2. TypeOK'
  BY <1>1, Zenon DEF Inv, DataInv, TypeOK, Forget, Caches
<1>3. DataInv'
  BY <1>2, Zenon DEF DataInv, Forget, NoDependencyCycle, Caches, Acc, Accurate
<1>4. OrderInv'
  <2>1. ASSUME Accurate
        PROVE  /\ ~file'.hdr["dirty"] /\ ~disk'.hdr["dirty"]
               /\ Cover(file', disk') /\ Apart(file', disk')
    <3>1. /\ ~file.hdr["dirty"] /\ ~disk.hdr["dirty"] /\ Cover(file, disk) /\ Apart(file, disk)
          /\ (file' = file \/ file' = disk) /\ disk' = file'
      BY <2>1, Zenon DEF Inv, OrderInv, Acc, Accurate
    <3>2. ASSUME NEW g \in Guest, NEW k \in Cluster, Refers(g, k, file', file')
          PROVE  Refers(g, k, file, disk)
      BY <3>1, <3>2, Zenon DEF Refers
    <3>3. \A k \in Cluster : Safe(k, file, disk) => Safe(k, file', file')
      BY <3>1, Zenon DEF Safe
    <3> QED
      BY <3>1, <3>2, <3>3, Zenon DEF Cover, Apart
  <2> QED
    BY <1>1, <2>1, Zenon DEF OrderInv, Forget, Accurate
<1>5. StackInv'
  BY StackEmpty, Zenon
<1> QED
  BY <1>3, <1>4, <1>5, Zenon DEF Inv

\* bdrv_close
LEMMA CloseSteps ==
  ASSUME Counts, Inv, close_steps, setup' = setup
  PROVE  Inv'
<1>1. stack # <<>> /\ Top.op = "close" /\ left' = left /\ (Fails => ~Acc(setup)) /\ Top \in Frames
  BY Active, Zenon DEF close_steps, At
<1>2. /\ "sync" \in Ops /\ "cache_flush" \in Ops /\ "mark_clean" \in Ops
      /\ "l2" \in Labels /\ "rc" \in Labels /\ "clean" \in Labels /\ "end" \in Labels
      /\ "l2" \in Args /\ "rc" \in Args /\ None \in Args /\ None \in Targets
  BY Zenon DEF Ops, Args, Targets, Labels, Caches
<1>3. ASSUME NEW at \in {"l2", "rc", "clean", "end"}, NEW op \in {"sync", "cache_flush", "mark_clean"},
             NEW c \in Args, op = "cache_flush" => c \in Caches, Call(Frame(op, c, None), at),
             UNCHANGED <<mem, file, disk, cacheVars, opened, pending>>
      PROVE  Inv'
  <2>1. FrameFact(Top, mem, file, disk, dirty, pending, setup)
    BY <1>1, Active, Zenon
  <2>2. ASSUME NEW f \in Frames, NEW g \in Frames, Moved(f, Top, at), Started(g, op, c, None)
        PROVE  /\ FrameOK(f) /\ FrameOK(g) /\ Waits(f, g)
               /\ FrameFact(f, mem, file, disk, dirty, pending, setup)
               /\ FrameFact(g, mem, file, disk, dirty, pending, setup)
    BY <1>1, <1>3, <2>1, <2>2, Zenon DEF Moved, Started, FrameOK, Waits, FrameFact
  <2>3. at \in Labels /\ op \in Ops
    BY <1>2, <1>3, Zenon
  <2>4. Still
    BY <1>3, Zenon DEF Still
  <2> QED
    BY <1>1, <1>2, <1>3, <2>2, <2>3, <2>4, CallStep, Zenon
<1>4. CASE /\ Return("ok") /\ Forget
           /\ flush_file \/ (Fails /\ UNCHANGED <<file, disk>>)
  <2>1. stack' = <<>> /\ ret' = "ok"
    BY <1>1, <1>4, OperationEnds, Zenon DEF Return, Below
  <2> QED
    BY <1>1, <1>4, <2>1, ForgetStep, Zenon DEF flush_file
<1>5. CASE Call(Frame("sync", None, None), "l2")
           /\ UNCHANGED <<mem, file, disk, cacheVars, opened, pending>>
  BY <1>2, <1>3, <1>5, Zenon
<1>6. CASE Call(Frame("cache_flush", "l2", None), "rc")
           /\ UNCHANGED <<mem, file, disk, cacheVars, opened, pending>>
  BY <1>2, <1>3, <1>6, Zenon DEF Caches
<1>7. CASE Call(Frame("cache_flush", "rc", None), "clean")
           /\ UNCHANGED <<mem, file, disk, cacheVars, opened, pending>>
  BY <1>2, <1>3, <1>7, Zenon DEF Caches
<1>8. CASE Call(Frame("mark_clean", None, None), "end")
           /\ UNCHANGED <<mem, file, disk, cacheVars, opened, pending>>
  BY <1>2, <1>3, <1>8, Zenon
<1> QED
  BY <1>4, <1>5, <1>6, <1>7, <1>8, Zenon DEF close_steps

\* The host crashes.
LEMMA Crash ==
  ASSUME Counts, Inv, crash, setup' = setup
  PROVE  Inv'
  BY ForgetStep, Zenon DEF crash

\* qcow2_open, when the image was checked.
LEMMA OpenChecked ==
  ASSUME Counts, Inv, open_checked, setup' = setup
  PROVE  Inv'
<1>1. /\ stack # <<>> /\ Top.op = "open" /\ Return("ok") /\ UNCHANGED <<file, disk, left, setup>>
  BY Zenon DEF open_checked, At
<1>2. CASE ret = "ok" /\ UNCHANGED <<mem, cacheVars, opened, pending>>
  <2>1. Still /\ "ok" \in {"ok", "err"}
    BY <1>1, <1>2, Zenon DEF Still
  <2> QED
    BY <1>1, <2>1, EndStep, Zenon
<1>3. CASE ret = "err" /\ Forget
  <2>1. ~Acc(setup)
    BY <1>1, <1>3, Active, Zenon DEF TopFact
  <2>2. stack' = <<>> /\ ret' = "ok"
    BY <1>1, OperationEnds, Zenon DEF Return, Below
  <2> QED
    BY <1>1, <1>3, <2>1, <2>2, ForgetStep, Zenon
<1> QED
  BY <1>2, <1>3, Zenon DEF open_checked

\* qcow2_open
LEMMA Open ==
  ASSUME Inv, open, setup' = setup
  PROVE  Inv'
<1>1. /\ ~opened /\ opened' /\ mem' = file /\ ret' = "ok" /\ mem \in Image /\ file \in Image
      /\ UNCHANGED <<file, disk, cached, dirty, depends, depends_on_flush, pending, left, setup>>
      /\ pending = [g \in Guest |-> None] /\ (Accurate => disk = file)
  BY Zenon DEF open, Inv, DataInv, TypeOK, cacheVars
<1>2. TypeOK'
  BY <1>1, Zenon DEF Inv, DataInv, TypeOK, open
<1>3. DataInv'
  BY <1>1, <1>2, Zenon DEF Inv, DataInv, NoDependencyCycle
<1>4. CASE ~file.hdr["dirty"]
  <2>1. stack' = <<>>
    BY <1>4, Zenon DEF open
  <2>2. StackInv'
    BY <2>1, StackEmpty, Zenon
  <2>3. ASSUME Accurate
        PROVE  /\ ~file.hdr["dirty"] /\ Cover(file, file) /\ Apart(file, file)
               /\ Live(file, file, file, pending, depends, stack')
    <3>1. ~file.hdr["dirty"] /\ Cover(file, file) /\ Apart(file, file)
      BY <1>1, <2>3, Zenon DEF Inv, OrderInv
    <3>2. /\ \A g \in Guest : pending[g] = None
          /\ \A g \in Guest : ~Linking(stack', g)
      BY <1>1, <2>1, Zenon DEF Linking
    <3>3. Live(file, file, file, pending, depends, stack')
      BY ONLY <3>1, <3>2, OrderOpen, SMTT(20)
    <3> QED
      BY <3>1, <3>3, Zenon
  <2>4. OrderInv'
    <3>1. Accurate' <=> Accurate
      BY <1>1, Zenon DEF Accurate
    <3> QED
      BY <1>1, <2>3, <3>1, Zenon DEF OrderInv
  <2> QED
    BY <1>3, <2>2, <2>4, Zenon DEF Inv
<1>5. CASE file.hdr["dirty"]
  <2>1. ~Acc(setup)
    BY <1>5, Zenon DEF Inv, OrderInv, Acc, Accurate
  <2>2. PICK f : /\ f = [Frame("open", None, None) EXCEPT !.at = "checked"]
                 /\ f \in Frames /\ f.op = "open" /\ f.at = "checked"
    <3>1. LET f == [Frame("open", None, None) EXCEPT !.at = "checked"]
          IN f \in Frames /\ f.op = "open" /\ f.at = "checked"
      BY Zenon DEF Frame, Frames, Ops, Labels, Args, Targets
    <3> QED
      BY <3>1, Zenon
  <2>3. PICK g : /\ g = [Frame("check", None, None) EXCEPT !.todo = Cluster]
                 /\ g \in Frames /\ g.op = "check" /\ g.at = "start" /\ g.todo = Cluster
    <3>1. LET g == [Frame("check", None, None) EXCEPT !.todo = Cluster]
          IN g \in Frames /\ g.op = "check" /\ g.at = "start" /\ g.todo = Cluster
      BY Zenon DEF Frame, Frames, Ops, Labels, Args, Targets
    <3> QED
      BY <3>1, Zenon
  <2>4. stack' = <<f, g>>
    BY <1>5, <2>2, <2>3, Zenon DEF open
  <2>5. FrameOK(f) /\ FrameOK(g) /\ Waits(f, g) /\ f.op \in Bottom
    BY <2>2, <2>3, Zenon DEF FrameOK, Waits, Bottom
  <2>6. /\ FrameFact(f, mem', file', disk', dirty', pending', setup)
        /\ FrameFact(g, mem', file', disk', dirty', pending', setup)
        /\ TopFact(g, ret', mem', file', disk', cached', dirty', depends', setup)
    BY <2>1, <2>2, <2>3, Zenon DEF FrameFact, TopFact
  <2>7. StackInv'
    BY <2>2, <2>3, <2>4, <2>5, <2>6, StackTwo, Zenon
  <2>8. OrderInv'
    BY <2>1, Zenon DEF OrderInv, Acc, Accurate
  <2> QED
    BY <1>3, <2>7, <2>8, Zenon DEF Inv
<1> QED
  BY <1>4, <1>5, Zenon

\* The references to a cluster that a check counts.
LEMMA ReferencesBound ==
  ASSUME NEW k, mem \in Image, Counts
  PROVE  References(k) \in Nat /\ References(k) <= Cardinality(Guest)
  BY Zenon DEF References, Counts

\* qcow2_check_refcounts raises a refcount.
LEMMA CheckRaises ==
  ASSUME Counts, Inv, stack # <<>>, Top.op = "check", Top.at = "got", corrupt(Top.t), Still,
         left' = left, Call(Update(Top.t, References(Top.t) - mem.rc[Top.t]), "next")
  PROVE  Inv'
<1>1. /\ Top \in Frames /\ Top.t \in Cluster /\ FrameOK(Top) /\ ~Acc(setup) /\ mem \in Image
      /\ FrameFact(Top, mem, file, disk, dirty, pending, setup)
  BY Active, Zenon DEF FrameOK, FrameFact, Inv, DataInv, TypeOK
<1>2. /\ References(Top.t) \in Nat /\ References(Top.t) <= Cardinality(Guest)
      /\ mem.rc[Top.t] \in Nat /\ mem.rc[Top.t] < References(Top.t)
  <2>1. mem.rc[Top.t] \in 0 .. Cardinality(Guest)
    BY <1>1, Zenon DEF Image
  <2>2. References(Top.t) \in Nat /\ References(Top.t) <= Cardinality(Guest)
    BY <1>1, ReferencesBound, Zenon
  <2> QED
    BY <1>1, <2>1, <2>2 DEF corrupt
<1>3. PICK n \in Int : /\ n = References(Top.t) - mem.rc[Top.t] /\ n > 0
                       /\ mem.rc[Top.t] + n <= Cardinality(Guest) /\ ~(n < 0)
  <2>1. \A r, q \in Nat : q < r => /\ r - q \in Int /\ r - q > 0 /\ ~(r - q < 0)
                                   /\ q + (r - q) = r
    OBVIOUS
  <2> QED
    BY <1>2, <2>1
<1>4. /\ "update_refcount" \in Ops /\ n \in Args /\ Top.t \in Targets /\ "next" \in Labels
      /\ Call(Frame("update_refcount", n, Top.t), "next")
  BY <1>1, <1>3, Zenon DEF Ops, Args, Targets, Labels, Update
<1>5. ASSUME NEW f \in Frames, NEW g \in Frames, Moved(f, Top, "next"),
             Started(g, "update_refcount", n, Top.t)
      PROVE  /\ FrameOK(f) /\ FrameOK(g) /\ Waits(f, g)
             /\ FrameFact(f, mem, file, disk, dirty, pending, setup)
             /\ FrameFact(g, mem, file, disk, dirty, pending, setup)
  BY <1>1, <1>3, <1>5, Zenon DEF Moved, Started, FrameOK, Waits, FrameFact
<1> QED
  BY <1>1, <1>4, <1>5, CallStep, Zenon

\* qcow2_check_refcounts
LEMMA CheckRefcounts ==
  ASSUME Counts, Inv, check_refcounts, setup' = setup
  PROVE  Inv'
<1>1. /\ stack # <<>> /\ Top.op = "check" /\ Still /\ left' = left /\ Top \in Frames
      /\ FrameOK(Top) /\ Top.todo \subseteq Cluster /\ ~Acc(setup) /\ ret \in {"ok", "err"}
      /\ FrameFact(Top, mem, file, disk, dirty, pending, setup)
  BY Active, Zenon DEF check_refcounts, At, FrameOK, FrameFact, Still, Inv, DataInv, TypeOK
<1>2. "next" \in Labels /\ "got" \in Labels
  BY Zenon DEF Labels
<1>3. CASE Goto("next") /\ UNCHANGED ret
  <2>1. PICK f \in Frames : Moved(f, Top, "next") /\ stack' = [stack EXCEPT ![Len(stack)] = f]
    BY <1>1, <1>2, <1>3, StackForms, Zenon DEF Goto
  <2>2. /\ FrameOK(f) /\ Follows(Top, f)
        /\ FrameFact(f, mem, file, disk, dirty, pending, setup)
        /\ TopFact(f, ret', mem, file, disk, cached, dirty, depends, setup)
    BY <1>1, <2>1, Zenon DEF Moved, FrameOK, Follows, Replaces, FrameFact, TopFact
  <2>3. ret' \in {"ok", "err"} /\ Top.op \notin {"link", "discard", "update_refcount"}
    BY <1>1, <1>3, Zenon
  <2> QED
    BY <1>1, <2>1, <2>2, <2>3, SetStep, Zenon
<1>4. CASE Fails /\ Return("err")
  BY <1>1, <1>4, ErrorStep, Zenon
<1>5. ASSUME NEW k \in Cluster, k \in Top.todo, ret' = "ok",
             stack' = Append([stack EXCEPT ![Len(stack)] =
                                [Top EXCEPT !.at = "got", !.t = k, !.todo = @ \ {k},
                                            !.failed = @ \/ ret = "err"]],
                             Frame("cache_get", "rc", k))
      PROVE  Inv'
  <2>1. PICK b \in BOOLEAN : b = (ret = "err")
    BY Zenon
  <2>2. PICK f, g : /\ stack' = Append([stack EXCEPT ![Len(stack)] = f], g)
                    /\ f = [Top EXCEPT !.at = "got", !.t = k, !.todo = @ \ {k},
                                       !.failed = @ \/ b]
                    /\ g = Frame("cache_get", "rc", k)
    BY <1>5, <2>1, Zenon
  <2>3. /\ f \in Frames /\ Edited(f, Top, "got", k, Top.todo \ {k}, Top.failed \/ b)
        /\ g \in Frames /\ Started(g, "cache_get", "rc", k)
    <3>1. "cache_get" \in Ops /\ "rc" \in Args /\ k \in Targets
      BY Zenon DEF Ops, Args, Targets, Caches
    <3> QED
      BY <1>1, <1>2, <2>2, <3>1, FrameEdits, FrameForms, Zenon
  <2>4. /\ Replaces(Top, f) /\ FrameOK(f) /\ FrameOK(g) /\ Waits(f, g) /\ g.at = "start"
    BY <1>1, <2>3, Zenon DEF Edited, Started, Replaces, FrameOK, Waits, Caches, Tables
  <2>5. /\ FrameFact(f, mem, file, disk, dirty, pending, setup)
        /\ FrameFact(g, mem, file, disk, dirty, pending, setup)
        /\ PairFact(f, g, dirty)
    BY <1>1, <2>3, Zenon DEF Edited, Started, FrameFact, PairFact
  <2> QED
    BY <1>1, <1>5, <2>2, <2>3, <2>4, <2>5, PushStep, Zenon
<1>6. CASE /\ Top.at = "got" /\ corrupt(Top.t)
           /\ Call(Update(Top.t, References(Top.t) - mem.rc[Top.t]), "next")
  BY <1>1, <1>6, CheckRaises, Zenon
<1>7. CASE Return("ok")
  <2>1. ASSUME NEW w \in Frames, Waits(w, Top)
        PROVE  TopFact(w, "ok", mem, file, disk, cached, dirty, depends, setup)
    BY <1>1, <2>1, Zenon DEF Waits, TopFact
  <2>2. "ok" \in {"ok", "err"}
    BY Zenon
  <2> QED
    BY <1>1, <1>7, <2>1, <2>2, ReturnStep, Zenon
<1>8. CASE TailCall(Frame("mark_clean", None, None))
  <2>1. "mark_clean" \in Ops /\ None \in Args /\ None \in Targets
    BY Zenon DEF Ops, Args, Targets
  <2>2. PICK f \in Frames : /\ Started(f, "mark_clean", None, None)
                            /\ stack' = [stack EXCEPT ![Len(stack)] = f]
    BY <1>8, <2>1, FrameForms, Zenon DEF TailCall
  <2>3. ret' \in {"ok", "err"} /\ Top.op \notin {"link", "discard", "update_refcount"}
    BY <1>1, <1>8, Zenon DEF TailCall
  <2>4. /\ FrameOK(f) /\ Follows(Top, f)
        /\ FrameFact(f, mem, file, disk, dirty, pending, setup)
        /\ TopFact(f, ret', mem, file, disk, cached, dirty, depends, setup)
    BY <1>1, <2>2, Zenon DEF Started, FrameOK, Follows, FrameFact, TopFact
  <2> QED
    BY <1>1, <2>2, <2>3, <2>4, SetStep, Zenon
<1> QED
  BY <1>3, <1>4, <1>5, <1>6, <1>7, <1>8, Zenon DEF check_refcounts, At

-----------------------------------------------------------------------------
(* The invariant, and what follows from it. *)

INSTANCE FiniteSetTheorems

\* Guest is finite.
LEMMA GuestCounts == Counts
<1>1. IsFiniteSet(Guest)
  BY ConstantsAssumption, Zenon
<1> QED
  BY <1>1, FS_Subset, FS_CardinalityType, FS_EmptySet, Zenon DEF Counts

\* The image is new and open.
LEMMA Initially == Init => Inv
<1> SUFFICES ASSUME Init PROVE Inv
  BY Zenon
<1>1. /\ mem = Blank /\ file = Blank /\ disk = Blank /\ opened = TRUE /\ stack = <<>>
      /\ pending = [g \in Guest |-> None] /\ None \notin Cluster
      /\ setup \in Setups /\ setup.ops \in Nat /\ left = setup.ops
  BY ConstantsAssumption, Zenon DEF Init
<1>2. Blank \in Image
  <2>1. 0 \in 0 .. Cardinality(Guest)
    BY GuestCounts DEF Counts
  <2> QED
    BY <2>1, Zenon DEF Blank, Image
<1>3. TypeOK
  BY <1>1, <1>2 DEF Init, TypeOK, Caches
<1>4. DataInv
  BY <1>1, <1>3, Zenon DEF Init, DataInv, NoDependencyCycle, Caches
<1>5. StackInv
  <2>1. stack \in Seq(Frames) /\ Len(stack) = 0
    BY <1>1
  <2> QED
    BY <1>1, <2>1 DEF StackInv, Shape, Lower
<1>6. OrderInv
  <2>1. /\ \A g \in Guest : Blank.l2[g] = None /\ pending[g] = None /\ ~Linking(stack, g)
        /\ ~Blank.hdr["dirty"]
    BY <1>1, Zenon DEF Blank, Linking
  <2>2. Cover(Blank, Blank) /\ Apart(Blank, Blank)
    BY <1>1, <2>1, Zenon DEF Cover, Apart, Refers
  <2>3. Live(Blank, Blank, Blank, pending, depends, stack)
    BY ONLY <2>1, <2>2, OrderOpen, Zenon
  <2> QED
    BY <1>1, <2>1, <2>2, <2>3, Zenon DEF OrderInv
<1> QED
  BY <1>4, <1>5, <1>6, Zenon DEF Inv

\* Every step of the code, and of the disk, keeps the invariant.
LEMMA Steps == Inv /\ [Next]_vars => Inv'
<1> SUFFICES ASSUME Inv, [Next]_vars PROVE Inv'
  BY Zenon
<1>1. CASE UNCHANGED vars
  <2>1. UNCHANGED <<mem, file, disk, cached, dirty, depends, depends_on_flush, opened, pending>>
        /\ UNCHANGED <<stack, ret, left, setup>>
    BY <1>1, Zenon DEF vars, cacheVars, callVars
  <2>2. DataInv'
    BY <2>1, Zenon DEF Inv, DataInv, TypeOK, NoDependencyCycle, Accurate
  <2>3. StackInv'
    BY <2>1, Zenon DEF Inv, StackInv, Top
  <2>4. OrderInv'
    BY <2>1, Zenon DEF Inv, OrderInv, Accurate
  <2> QED
    BY <2>2, <2>3, <2>4, Zenon DEF Inv
<1>2. CASE Cache /\ setup' = setup
  BY <1>2, EntryFlush, EntryFlushDepended, EntryFlushWrite, CacheFlush, CacheFlushEntry,
     CacheFlushEnd, SetDependency, SetDependencyFlushed, CacheGet, CacheGetEvicted, Zenon DEF Cache
<1>3. CASE Step /\ ~Cache /\ setup' = setup
  <2>1. CASE link_ordered
    <3>1. stack # <<>> /\ Top.op \in {"link", "discard"} /\ left' = left
          /\ Call(Frame("cache_get", "l2", Top.c), "got") /\ Still
      BY <1>3, <2>1, Zenon DEF link_ordered, At, Still
    <3> QED
      BY <3>1, GetL2, Zenon
  <2> QED
    BY <1>3, <2>1, GuestCounts, UpdateRefcount, UpdateRefcountGot, WritevSteps, LinkGot, DiscardSteps,
       SyncSteps, MarkDirty, MarkClean, CloseSteps, OpenChecked, CheckRefcounts, Zenon DEF Step
<1>4. CASE Request /\ setup' = setup
  BY <1>4, Begins, WriteFails, Link, Open, Zenon DEF Request
<1>5. CASE Device /\ setup' = setup
  BY <1>5, GuestCounts, WriteBack, Crash, Zenon DEF Device
<1> QED
  BY <1>1, <1>2, <1>3, <1>4, <1>5, Zenon DEF Next

\* The inductive invariant of the image's metadata holds in every behaviour.
THEOREM InvHolds == Spec => []Inv
<1>1. Init => Inv
  BY Initially, Zenon
<1>2. Inv /\ [Next]_vars => Inv'
  BY Steps, Zenon
<1> QED
  BY <1>1, <1>2, PTL DEF Spec

\* Every variable keeps its type, refcounts stay between zero and the number of
\* guest clusters, and only cached tables are dirty: evicting a table never loses
\* a change.
THEOREM TypeCorrect == Spec => []TypeOK
<1>1. Inv => TypeOK
  BY Zenon DEF Inv, DataInv
<1> QED
  BY <1>1, InvHolds, PTL

\* With accurate refcounts and no failed request, an L2 table on the disk never
\* refers to a cluster whose refcount on the disk is zero: the dependencies of
\* block/qcow2-cache.c keep that order through evictions, flushes, discards,
\* write-back in any order and crashes.
THEOREM RefcountsAreOrdered == Spec => []OrderIsKept
<1>1. Inv => OrderIsKept
  <2> SUFFICES ASSUME Inv, Accurate, NEW g \in Guest, disk.l2[g] # None
               PROVE  disk.rc[disk.l2[g]] > 0
    BY Zenon DEF OrderIsKept, RefcountsCoverDisk
  <2>1. disk.l2[g] \in Cluster /\ Cover(file, disk)
    BY Zenon DEF Inv, DataInv, TypeOK, OrderInv, Image
  <2> QED
    BY <2>1, Zenon DEF Cover, Refers, Safe
<1> QED
  BY <1>1, InvHolds, PTL

\* Nor do two L2 tables on the disk refer to one cluster, also when the cluster
\* was discarded and at once allocated again.
THEOREM ClustersAreNotShared == Spec => []NoSharedCluster
<1>1. Inv => NoSharedCluster
  <2> SUFFICES ASSUME Inv, Accurate, NEW g \in Guest, NEW h \in Guest,
                      disk.l2[g] # None, disk.l2[g] = disk.l2[h]
               PROVE  g = h
    BY Zenon DEF NoSharedCluster
  <2>1. disk.l2[g] \in Cluster /\ Apart(file, disk)
    BY Zenon DEF Inv, DataInv, TypeOK, OrderInv, Image
  <2> QED
    BY <2>1, Zenon DEF Apart, Refers
<1> QED
  BY <1>1, InvHolds, PTL

\* The caches never depend on each other: qcow2_cache_set_dependency flushes
\* first, and qcow2_cache_flush_dependency does not recurse for ever.
THEOREM CachesAreAcyclic == Spec => []NoDependencyCycle
<1>1. Inv => NoDependencyCycle
  BY Zenon DEF Inv, DataInv
<1> QED
  BY <1>1, InvHolds, PTL

\* While a guest flush is on top of the stack, only its own steps change the
\* stack, unless the program is gone.
LEMMA SyncRuns ==
  ASSUME Inv, Next, stack # <<>>, Top.op = "sync"
  PROVE  sync_steps \/ stack' = stack \/ ~opened'
<1>1. opened
  BY Active, Zenon
<1>2. ~Cache
  BY Zenon DEF Cache, entry_flush, entry_flush_depended, entry_flush_write, cache_flush,
         cache_flush_entry, cache_flush_end, set_dependency, set_dependency_flushed,
         cache_get, cache_get_evicted, At
<1>3. CASE Request
  BY <1>1, <1>3, Zenon DEF Request, writev, write_fails, discard, link, sync, close, open, Begin, callVars
<1>4. CASE Step
  <2>1. /\ ~update_refcount /\ ~update_refcount_ordered /\ ~update_refcount_got
        /\ ~link_ordered /\ ~link_got /\ ~open_checked
    BY Zenon DEF update_refcount, update_refcount_ordered, update_refcount_got, link_ordered,
           link_got, open_checked, At
  <2>2. ~writev_steps
    BY Zenon DEF writev_steps, At
  <2>3. ~discard_steps /\ ~mark_dirty
    BY Zenon DEF discard_steps, mark_dirty, At
  <2>4. ~mark_clean /\ ~close_steps
    BY Zenon DEF mark_clean, close_steps, At
  <2>5. ~check_refcounts
    BY Zenon DEF check_refcounts, At
  <2> QED
    BY <1>2, <1>4, <2>1, <2>2, <2>3, <2>4, <2>5, Zenon DEF Step
<1>5. CASE Device
  BY <1>5, Zenon DEF Device, write_back, crash, Forget, callVars
<1> QED
  BY <1>3, <1>4, <1>5, Zenon DEF Next

\* When a guest flush returns success, every mapping that the L2 cache holds is
\* on the disk, also with lazy refcounts and after requests that failed.
THEOREM SyncsAreDurable == Spec => SyncIsDurable
<1> DEFINE Durable == stack # <<>> /\ Top.op = "sync" /\ Len(stack') < Len(stack) /\ opened'
                      /\ ret' = "ok" => disk.l2 = mem.l2
<1>1. Inv /\ Next => Durable
  <2> SUFFICES ASSUME Inv, Next, stack # <<>>, Top.op = "sync", Len(stack') < Len(stack),
                      opened', ret' = "ok"
               PROVE  disk.l2 = mem.l2
    BY Zenon
  <2>1. /\ opened /\ Len(stack) \in Nat /\ mem \in Image /\ disk \in Image
        /\ FrameFact(Top, mem, file, disk, dirty, pending, setup)
        /\ TopFact(Top, ret, mem, file, disk, cached, dirty, depends, setup)
    BY Active, Zenon DEF Inv, DataInv, TypeOK
  <2>2. ~(Len(stack) < Len(stack)) /\ ~(Len(stack) + 1 < Len(stack))
    BY <2>1
  <2>3. sync_steps
    BY <2>2, SyncRuns, Zenon
  <2>4. \A c \in {"l2", "rc"} : ~Call(Frame("cache_flush", c, None), c)
    <3> SUFFICES ASSUME NEW c \in {"l2", "rc"}, Call(Frame("cache_flush", c, None), c)
                 PROVE  FALSE
      BY Zenon
    <3>1. "cache_flush" \in Ops /\ c \in Args /\ None \in Targets /\ c \in Labels
      BY Zenon DEF Ops, Args, Targets, Labels, Caches
    <3>2. Len(stack') = Len(stack) + 1
      BY <3>1, CallPushes, Zenon DEF Pushes
    <3> QED
      BY <2>2, <3>2, Zenon
  <2>5. ret = "ok" /\ (Top.at = "l2" \/ Top.at = "rc")
    BY <2>3, <2>4, Zenon DEF sync_steps, sync_first, Return, At
  <2>6. \A g \in Guest : disk.l2[g] = mem.l2[g]
    <3>1. CASE Top.at = "l2"
      BY <2>1, <2>5, <3>1, FlushedTables, Zenon DEF TopFact, Caches
    <3>2. CASE Top.at = "rc"
      <4>1. dirty["l2"] = {} /\ disk.l2 = file.l2
        BY <2>1, <3>2, Zenon DEF FrameFact
      <4>2. \A t \in Tables("l2") : mem["l2"][t] = file["l2"][t]
        BY <2>1, <4>1, Zenon DEF Inv, DataInv, Caches
      <4> QED
        BY <4>1, <4>2, Zenon DEF Tables
    <3> QED
      BY <2>5, <3>1, <3>2, Zenon
  <2>7. mem.l2 \in [Guest -> Cluster \cup {None}] /\ disk.l2 \in [Guest -> Cluster \cup {None}]
    BY <2>1, Zenon DEF Image
  <2> QED
    BY <2>6, <2>7
<1>2. Inv /\ [Next]_vars => [Durable]_vars
  BY <1>1, Zenon
<1> QED
  BY <1>2, InvHolds, PTL DEF Spec, SyncIsDurable
=============================================================================
