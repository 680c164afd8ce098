-------------------------- MODULE Qcow2MetaInvariant -------------------------
(***************************************************************************)
(* The inductive invariant of the metadata of a qcow2 image (Inv), and     *)
(* what the kinds of steps that the code takes do to its parts: the shape  *)
(* of the stack, what the active functions rely on, and the order of the   *)
(* caches, the file and the disk. The last part is the steps of the        *)
(* metadata caches (block/qcow2-cache.c) themselves.                       *)
(***************************************************************************)
EXTENDS Qcow2Meta, TLAPS

-----------------------------------------------------------------------------
(* The stack: which function calls which, and with what arguments. *)

Tables(c) == IF c = "l2" THEN Guest ELSE Cluster

\* The arguments c and t of a function.
Args == Caches \cup Int \cup Guest \cup {None}
Targets == Guest \cup Cluster \cup {None}

Ops == {"entry_flush", "cache_flush", "set_dependency", "cache_get", "update_refcount",
        "writev", "link", "discard", "sync", "mark_dirty", "mark_clean", "close",
        "open", "check"}
Labels == {"start", "depends", "write", "loop", "flushed", "evicted", "ordered", "got",
           "l2", "scanned", "counted", "allocated", "rc", "flush", "clean", "end",
           "checked", "next"}

Frames == [op : Ops, at : Labels, c : Args, t : Targets,
           todo : SUBSET (Guest \cup Cluster), failed : BOOLEAN]

\* Function f may be active when g is called: what flushes a cache calls nothing
\* else, and the operations of the guest are at the bottom.
May(f, g) ==
  \/ g \in {"entry_flush", "cache_flush"}
  \/ g = "set_dependency" /\ f \in {"update_refcount", "link"}
  \/ g = "cache_get" /\ f \in {"writev", "link", "discard", "update_refcount", "check", "open"}
  \/ g = "update_refcount" /\ f \in {"writev", "check", "open"}
  \/ g = "mark_dirty" /\ f = "writev"
  \/ g = "sync" /\ f \in {"close", "mark_clean", "open"}
  \/ g = "mark_clean" /\ f \in {"close", "open"}
  \/ g = "check" /\ f = "open"

\* Frame f waits, at the label it is at, for the call of frame g.
Waits(f, g) ==
  \/ f.op = "entry_flush" /\ f.at = "depends" /\ g.op = "cache_flush" /\ g.c = Other(f.c)
  \/ f.op = "cache_flush" /\ f.at = "loop" /\ g.op = "entry_flush" /\ g.c = f.c
  \/ f.op = "set_dependency" /\ f.at = "flushed" /\ g.op = "cache_flush" /\ g.c = f.c
  \/ f.op = "cache_get" /\ f.at = "evicted" /\ g.op = "entry_flush" /\ g.c = f.c /\ f.todo = {g.t}
  \/ f.op = "update_refcount" /\ f.at = "ordered" /\ f.c < 0 /\ g.op = "set_dependency" /\ g.c = "rc"
  \/ f.op = "update_refcount" /\ f.at = "got" /\ g.op = "cache_get" /\ g.c = "rc" /\ g.t = f.t
  \/ f.op = "writev" /\ f.at \in {"l2", "scanned"} /\ g.op = "cache_get"
  \/ f.op = "writev" /\ f.at = "counted" /\ g.op = "update_refcount" /\ g.t = f.t /\ g.c = 1
  \/ f.op = "writev" /\ f.at = "allocated" /\ g.op = "mark_dirty"
  \/ f.op = "link" /\ f.at = "ordered" /\ g.op = "set_dependency" /\ g.c = "l2"
  \/ f.op \in {"link", "discard"} /\ f.at = "got" /\ g.op = "cache_get" /\ g.c = "l2" /\ g.t = f.c
  \/ f.op = "sync" /\ f.at = "l2" /\ g.op = "cache_flush" /\ g.c = "l2"
  \/ f.op = "sync" /\ f.at = "rc" /\ g.op = "cache_flush" /\ g.c = "rc"
  \/ f.op = "mark_clean" /\ f.at = "flushed" /\ g.op = "sync"
  \/ f.op = "close" /\ f.at \in {"l2", "rc", "clean", "end"}
       /\ g.op \in {"sync", "cache_flush", "mark_clean"}
  \/ f.op = "open" /\ f.at = "checked" /\ g.op \in {"check", "mark_clean"}
  \/ f.op = "check" /\ f.at = "got" /\ g.op = "cache_get"
  \/ f.op = "check" /\ f.at = "next" /\ g.op = "update_refcount" /\ g.c > 0

\* The arguments and locals of each function have their types.
FrameOK(f) ==
  /\ f.op \in {"entry_flush", "cache_get"} => f.c \in Caches /\ f.t \in Tables(f.c)
  /\ f.op \in {"cache_flush", "set_dependency"} => f.c \in Caches
  /\ f.op = "cache_flush" => f.todo \subseteq Tables(f.c)
  /\ f.op = "update_refcount" => f.c \in Int /\ f.t \in Cluster
  /\ f.op \in {"writev", "link", "discard"} => f.c \in Guest
  /\ f.op \in {"writev", "check"} => f.todo \subseteq Cluster
  /\ f.op = "writev" /\ f.at \in {"scanned", "counted", "allocated"} => f.t \in Cluster
  /\ f.op = "check" /\ f.at = "got" => f.t \in Cluster

Bottom == {"writev", "link", "discard", "update_refcount", "sync", "close", "open"}

\* Only the release of a cluster, for a discard, decrements a refcount.
Shape(s) ==
  /\ \A i \in 1 .. Len(s) : FrameOK(s[i])
  /\ \A i, j \in 1 .. Len(s) : i < j => May(s[i].op, s[j].op)
  /\ \A i \in 1 .. Len(s) - 1 : Waits(s[i], s[i + 1])
  /\ s # <<>> => s[1].op \in Bottom
  /\ \A i \in 1 .. Len(s) : s[i].op = "update_refcount" /\ s[i].c < 0 => i = 1

\* What a step can do to the stack: change the frame on top, pop it, or push
\* another after changing it.
Sets(s, r, f) ==
  /\ Len(r) = Len(s) /\ r[Len(s)] = f
  /\ \A i \in 1 .. Len(s) - 1 : r[i] = s[i]
Pops(s, r) == Len(r) = Len(s) - 1 /\ \A i \in 1 .. Len(s) - 1 : r[i] = s[i]
Pushes(s, r, f, g) ==
  /\ Len(r) = Len(s) + 1 /\ r[Len(s)] = f /\ r[Len(s) + 1] = g
  /\ \A i \in 1 .. Len(s) - 1 : r[i] = s[i]

\* Frame f can take the place of frame e.
Replaces(e, f) ==
  /\ e.op = f.op /\ e.c = f.c
  /\ e.t = f.t \/ e.op \in {"writev", "check"}

\* The elements of a sequence.
LEMMA StackElements ==
  ASSUME NEW S, NEW s \in Seq(S)
  PROVE  /\ Len(s) \in Nat /\ DOMAIN s = 1 .. Len(s)
         /\ \A i \in 1 .. Len(s) : s[i] \in S
         /\ s = <<>> <=> Len(s) = 0
  OBVIOUS

\* A sequence without its last element.
Below(s) == SubSeq(s, 1, Len(s) - 1)

\* It is a sequence, one shorter, with the same elements.
LEMMA StackBelow ==
  ASSUME NEW S, NEW s \in Seq(S), s # <<>>
  PROVE  /\ Below(s) \in Seq(S) /\ Len(Below(s)) = Len(s) - 1
         /\ \A i \in 1 .. Len(s) - 1 : Below(s)[i] = s[i]
<1>1. Len(s) \in Nat \ {0} /\ \A i \in 1 .. Len(s) : s[i] \in S
  BY StackElements
<1>2. Below(s) = [i \in 1 .. Len(s) - 1 |-> s[i]]
  BY <1>1 DEF Below
<1>3. Len(s) - 1 \in Nat
  BY <1>1
<1> QED
  BY <1>1, <1>2, <1>3

\* The frame on top, and a return.
LEMMA StackTop ==
  ASSUME NEW s \in Seq(Frames), s # <<>>
  PROVE  /\ Len(s) \in Nat \ {0} /\ s[Len(s)] \in Frames
         /\ Below(s) \in Seq(Frames) /\ Pops(s, Below(s))
  BY StackElements, StackBelow DEF Pops

\* The two other ways to change the stack, in terms of the operators of sequences.
LEMMA StackMoves ==
  ASSUME NEW s \in Seq(Frames), s # <<>>, NEW f \in Frames, NEW g \in Frames
  PROVE  /\ [s EXCEPT ![Len(s)] = f] \in Seq(Frames)
         /\ Sets(s, [s EXCEPT ![Len(s)] = f], f)
         /\ Append([s EXCEPT ![Len(s)] = f], g) \in Seq(Frames)
         /\ Pushes(s, Append([s EXCEPT ![Len(s)] = f], g), f, g)
<1>1. Len(s) \in Nat \ {0}
  BY StackTop, Zenon
<1>2. ASSUME NEW S, NEW u \in Seq(S), NEW x \in S, Len(u) \in Nat \ {0}
      PROVE  /\ [u EXCEPT ![Len(u)] = x] \in Seq(S)
             /\ Sets(u, [u EXCEPT ![Len(u)] = x], x)
  BY <1>2 DEF Sets
<1>3. ASSUME NEW S, NEW u \in Seq(S), NEW v \in Seq(S), NEW x \in S, NEW y \in S,
             Len(u) \in Nat \ {0}, Sets(u, v, x)
      PROVE  Append(v, y) \in Seq(S) /\ Pushes(u, Append(v, y), x, y)
  BY <1>3 DEF Sets, Pushes
<1> QED
  BY <1>1, <1>2, <1>3, Zenon

\* What a frame that takes another's place must keep to be waited for.
LEMMA WaitsReplaces ==
  ASSUME NEW e \in Frames, NEW f \in Frames, NEW w \in Frames, Replaces(e, f), Waits(w, e)
  PROVE  Waits(w, f)
  BY DEF Replaces, Waits

\* Frame f can take the place of frame e, in its function or by a tail call.
Follows(e, f) == Replaces(e, f) \/ (e.op = "check" /\ f.op = "mark_clean")

-----------------------------------------------------------------------------
(* What active functions rely on.  The predicates take the values of mem,  *)
(* file, disk, cached, dirty, depends, pending, ret and setup as m, F, D,  *)
(* ca, d, dep, p, rt and su.                                               *)

Acc(su) == ~su.lazy /\ ~su.fails

\* No table and no write in flight refers to cluster k.
Unused(k, m, p) == \A g \in Guest : m.l2[g] # k /\ p[g] # k

\* While a function is active, whatever it calls:
\* update_refcount leaves a refcount in its range, and releases a cluster that
\* nothing refers to any more; writev allocates for a guest cluster that is not
\* mapped, a cluster that nothing else refers to; what is linked was allocated; a
\* guest flush that has flushed
\* the L2 tables writes none again; and a table that is to be read is not dirty.
\* With accurate refcounts and no failures the dirty bit stays clear.
FrameFact(f, m, F, D, d, p, su) ==
  /\ f.op = "update_refcount" =>
       /\ f.c > 0 => m.rc[f.t] + f.c <= Cardinality(Guest)
       /\ Acc(su) /\ f.c < 0 => f.c = -1 /\ m.rc[f.t] > 0 /\ Unused(f.t, m, p)
  /\ Acc(su) /\ f.op = "writev" =>
       /\ p[f.c] = None /\ f.at # "allocated"
       /\ f.at \in {"scanned", "counted"} => m.l2[f.c] = None
       /\ f.at = "counted" => Unused(f.t, m, p)
  /\ Acc(su) /\ f.op = "link" => p[f.c] # None
  /\ f.op = "sync" /\ f.at = "rc" => d["l2"] = {} /\ D.l2 = F.l2
  /\ f.op = "cache_get" /\ f.at = "evicted" => f.t \notin d[f.c]
  /\ Acc(su) => /\ ~f.failed /\ f.op \notin {"mark_dirty", "check", "open"}
                /\ ~(f.op = "mark_clean" /\ f.at = "flushed")

\* Frame f has called g: qcow2_cache_flush has written all tables but the ones
\* it has still to look at, unless it has met an error.
PairFact(f, g, d) ==
  f.op = "cache_flush" => f.failed \/ d[f.c] \subseteq f.todo \cup {g.t}

Lower(s, m, F, D, d, p, su) ==
  /\ \A i \in 1 .. Len(s) : FrameFact(s[i], m, F, D, d, p, su)
  /\ \A i \in 1 .. Len(s) - 1 : PairFact(s[i], s[i + 1], d)

\* What a call has achieved when it has returned.
Flushed(c, F, D, d) == d[c] = {} /\ D = F

TopFact(f, rt, m, F, D, ca, d, dep, su) ==
  /\ f.op = "entry_flush" /\ f.at = "write" => ~dep[f.c]
  /\ Acc(su) => rt = "ok"
  /\ rt = "ok" =>
       /\ f.op = "entry_flush" /\ f.at = "depends" => Flushed(Other(f.c), F, D, d)
       /\ f.op = "set_dependency" /\ f.at = "flushed" => Flushed(f.c, F, D, d)
       /\ f.op = "sync" /\ f.at = "l2" => Flushed("l2", F, D, d)
       /\ f.op = "cache_get" /\ f.at = "evicted" => f.todo \cap d[f.c] = {}
       /\ f.op = "update_refcount" /\ f.at = "got" => f.t \in ca["rc"]
       /\ f.op \in {"link", "discard"} /\ f.at = "got" => f.c \in ca["l2"]
       /\ f.op = "cache_flush" /\ f.at = "loop" => f.failed \/ d[f.c] \subseteq f.todo
       /\ Acc(su) /\ f.op = "writev" /\ f.at = "counted" => m.rc[f.t] > 0

\* A step that no active function can notice.
Quiet(m, F, D, d, p, su, m2, F2, D2, d2, p2) ==
  /\ m2.l2 = m.l2 /\ m2.rc = m.rc
  /\ p2 = p \/ ~Acc(su)
  /\ \A c \in Caches : d2[c] \subseteq d[c]
  /\ d["l2"] = {} /\ D.l2 = F.l2 => D2.l2 = F2.l2

\* What the active functions rely on survives a quiet step.
LEMMA QuietFacts ==
  ASSUME Quiet(mem, file, disk, dirty, pending, setup, mem', file', disk', dirty', pending')
  PROVE  /\ \A f : FrameOK(f) /\ FrameFact(f, mem, file, disk, dirty, pending, setup)
                 => FrameFact(f, mem', file', disk', dirty', pending', setup)
         /\ \A f, g : FrameOK(f) /\ PairFact(f, g, dirty) => PairFact(f, g, dirty')
<1>1. dirty["l2"] = {} => dirty'["l2"] = {}
  BY Zenon DEF Quiet, Caches
<1>2. ASSUME NEW f, FrameOK(f), FrameFact(f, mem, file, disk, dirty, pending, setup)
      PROVE  FrameFact(f, mem', file', disk', dirty', pending', setup)
  <2>1. pending' = pending => (Unused(f.t, mem, pending) => Unused(f.t, mem', pending'))
    BY Zenon DEF Quiet, Unused
  <2>2. f.op = "update_refcount" =>
         /\ f.c > 0 => mem'.rc[f.t] + f.c <= Cardinality(Guest)
         /\ Acc(setup) /\ f.c < 0 => f.c = -1 /\ mem'.rc[f.t] > 0 /\ Unused(f.t, mem', pending')
    BY <1>2, <2>1, Zenon DEF FrameFact, Quiet
  <2>3. Acc(setup) /\ f.op = "writev" =>
         /\ pending'[f.c] = None /\ f.at # "allocated"
         /\ f.at \in {"scanned", "counted"} => mem'.l2[f.c] = None
         /\ f.at = "counted" => Unused(f.t, mem', pending')
    BY <1>2, <2>1, Zenon DEF FrameFact, Quiet
  <2>4. f.op = "sync" /\ f.at = "rc" => dirty'["l2"] = {} /\ disk'.l2 = file'.l2
    BY <1>1, <1>2, Zenon DEF FrameFact, Quiet
  <2>5. f.op = "cache_get" /\ f.at = "evicted" => f.t \notin dirty'[f.c]
    BY <1>2, Zenon DEF FrameFact, Quiet, FrameOK
  <2>6. Acc(setup) /\ f.op = "link" => pending'[f.c] # None
    BY <1>2, Zenon DEF FrameFact, Quiet
  <2> QED
    BY <1>2, <2>2, <2>3, <2>4, <2>5, <2>6, Zenon DEF FrameFact
<1>3. ASSUME NEW f, NEW g, FrameOK(f), PairFact(f, g, dirty)
      PROVE  PairFact(f, g, dirty')
  BY <1>3, Zenon DEF PairFact, Quiet, FrameOK
<1> QED
  BY <1>2, <1>3, Zenon

-----------------------------------------------------------------------------
(* The order of writes.  Without lazy refcounts and failed requests, what  *)
(* the caches hold, what was written and what is on the disk agree as far  *)
(* as the dependencies between the caches say.                             *)

\* File or disk refer to cluster k at the entry of g.
Refers(g, k, F, D) == D.l2[g] = k \/ F.l2[g] = k
\* The refcount of k is not zero in the file and on the disk.
Safe(k, F, D) == D.rc[k] > 0 /\ F.rc[k] > 0
\* The entry of g on file or disk is one that the L2 cache has overwritten.
Stale(g, k, m, F, D) == m.l2[g] # k /\ Refers(g, k, F, D)

\* A discard has removed the L2 entry and not yet ordered the refcount after it.
Window(s) ==
  /\ s # <<>> /\ s[1].op = "update_refcount" /\ s[1].c < 0
  /\ s[1].at = "start" \/ (s[1].at = "ordered" /\ Len(s) > 1)
\* The allocation for g is about to be linked, and the L2 table was ordered
\* after the refcounts.
Linking(s, g) ==
  /\ s # <<>> /\ s[1].op = "link" /\ s[1].c = g
  /\ s[1].at = "got" \/ Len(s) = 1

Cover(F, D) == \A g \in Guest, k \in Cluster : Refers(g, k, F, D) => Safe(k, F, D)
Apart(F, D) == \A g, h \in Guest, k \in Cluster :
                 Refers(g, k, F, D) /\ Refers(h, k, F, D) => g = h

\* The caches themselves: a cluster has one reference, and a refcount.
Owned(m, p) ==
  /\ \A g \in Guest, k \in Cluster : m.l2[g] = k \/ p[g] = k => m.rc[k] > 0
  /\ \A g, h \in Guest, k \in Cluster : m.l2[g] = k /\ m.l2[h] = k => g = h
  /\ \A g, h \in Guest, k \in Cluster : p[g] = k /\ p[h] = k => g = h
  /\ \A g, h \in Guest, k \in Cluster : ~(p[g] = k /\ m.l2[h] = k)
  /\ \A g \in Guest : p[g] = None \/ m.l2[g] = None

\* The caches are ahead of the file: by an L2 entry whose refcount is not safe
\* only if the L2 cache depends on the refcounts, and by a refcount of zero that
\* is still referred to only if the refcounts depend on the L2 cache.
Ahead(m, F, D, dep) ==
  /\ \A g, h \in Guest, k \in Cluster : m.l2[g] = k /\ Refers(h, k, F, D) => g = h
  /\ \A g \in Guest, k \in Cluster : m.l2[g] = k => Safe(k, F, D) \/ dep["l2"]
  /\ \A g \in Guest, k \in Cluster : Refers(g, k, F, D) => m.rc[k] > 0 \/ dep["rc"]

Marked(m, F, D, p, dep, s) ==
  /\ \A g \in Guest, k \in Cluster : Stale(g, k, m, F, D) => dep["rc"] \/ Window(s)
  /\ \A g \in Guest : Linking(s, g) =>
       /\ \A k \in Cluster : p[g] = k => Safe(k, F, D) \/ dep["l2"]
       /\ \A h \in Guest, k \in Cluster : ~Stale(h, k, m, F, D)

Live(m, F, D, p, dep, s) == Owned(m, p) /\ Ahead(m, F, D, dep) /\ Marked(m, F, D, p, dep, s)

\* Dependencies are added, or removed when they are met, and functions go on.
LEMMA OrderDepends ==
  ASSUME NEW m, NEW F, NEW D, NEW p, NEW dep, NEW nd, NEW s, NEW r,
         dep["l2"] => nd["l2"] \/ \A k \in Cluster : F.rc[k] = m.rc[k] /\ D.rc[k] = m.rc[k],
         dep["rc"] => nd["rc"] \/ \A g \in Guest : F.l2[g] = m.l2[g] /\ D.l2[g] = m.l2[g],
         Window(s) => Window(r) \/ nd["rc"],
         \A g \in Guest : Linking(r, g) =>
            \/ Linking(s, g)
            \/ nd["l2"] /\ (dep["rc"] => \A h \in Guest : F.l2[h] = m.l2[h] /\ D.l2[h] = m.l2[h])
               /\ ~Window(s),
         Live(m, F, D, p, dep, s)
  PROVE  Live(m, F, D, p, nd, r)
<1>1. /\ \A g \in Guest, k \in Cluster : m.l2[g] = k \/ p[g] = k => m.rc[k] > 0
      /\ \A k \in Cluster : F.rc[k] = m.rc[k] /\ D.rc[k] = m.rc[k] /\ m.rc[k] > 0 => Safe(k, F, D)
      /\ (\A h \in Guest : F.l2[h] = m.l2[h] /\ D.l2[h] = m.l2[h])
           => /\ \A h \in Guest, k \in Cluster : ~Stale(h, k, m, F, D)
              /\ \A h \in Guest, k \in Cluster : Refers(h, k, F, D) => m.rc[k] > 0
  BY DEF Live, Owned, Stale, Refers, Safe
<1>2. Ahead(m, F, D, nd)
  BY <1>1, Zenon DEF Ahead, Live
<1>3. Marked(m, F, D, p, nd, r)
  BY <1>1, ZenonT(30) DEF Marked, Live
<1> QED
  BY <1>2, <1>3, Zenon DEF Live

\* The image is opened: the caches will hold what is in the file and on the disk.
LEMMA OrderOpen ==
  ASSUME NEW m, NEW p, NEW dep, NEW r, \A g \in Guest : p[g] = None,
         \A g \in Guest : ~Linking(r, g), Cover(m, m), Apart(m, m)
  PROVE  Live(m, m, m, p, dep, r)
<1>1. None \notin Cluster
  BY ConstantsAssumption, Zenon
<1>2. /\ \A g \in Guest, k \in Cluster : Refers(g, k, m, m) <=> m.l2[g] = k
      /\ \A k \in Cluster : Safe(k, m, m) <=> m.rc[k] > 0
      /\ \A g \in Guest, k \in Cluster : ~Stale(g, k, m, m, m)
  BY Zenon DEF Refers, Safe, Stale
<1>3. Owned(m, p)
  BY <1>1, <1>2 DEF Owned, Cover, Apart
<1>4. Ahead(m, m, m, dep)
  BY <1>2, Zenon DEF Ahead, Cover, Apart
<1>5. Marked(m, m, m, p, dep, r)
  BY <1>2, Zenon DEF Marked
<1> QED
  BY <1>3, <1>4, <1>5, Zenon DEF Live

\* Neither a discard nor the linking of an allocation gets on with the step from
\* stack s to stack r.
Same(s, r) == /\ Window(s) <=> Window(r)
              /\ \A g \in Guest : Linking(s, g) <=> Linking(r, g)

\* That is so when the function on top is another one.
LEMMA SameMoves ==
  ASSUME NEW s \in Seq(Frames), s # <<>>, NEW r \in Seq(Frames),
         NEW f \in Frames, NEW g \in Frames, NEW e \in Frames, e = s[Len(s)], Shape(s),
         e.op \notin {"link", "discard"}, ~(e.op = "update_refcount" /\ e.c < 0),
         \/ Sets(s, r, f) /\ Follows(e, f)
         \/ Pops(s, r) /\ e.op # "set_dependency"
         \/ Pushes(s, r, f, g) /\ Replaces(e, f)
  PROVE  Same(s, r)
<1> DEFINE n == Len(s)
<1>0. r = <<>> <=> Len(r) = 0
  BY StackElements, Zenon
<1>1. n \in Nat \ {0} /\ Len(r) \in Nat
  BY StackElements
<1>a. \A x \in Nat : /\ x # 0 /\ x # 1 => x > 1 /\ 1 \in 1 .. x - 1
                     /\ x > 1 => x # 1
                     /\ x # 0 => x = 1 \/ x > 1
  OBVIOUS
<1>2. CASE n = 1
  <2>1. s[1] = e /\ e.op \in Bottom
    BY <1>2, Zenon DEF Shape
  <2>2. ~Window(s) /\ \A h \in Guest : ~Linking(s, h)
    BY <2>1, Zenon DEF Window, Linking
  <2>3. r = <<>> \/ (r[1] = f /\ Replaces(e, f))
    BY <1>0, <1>1, <1>2, <2>1 DEF Sets, Pops, Pushes, Follows, Bottom
  <2>4. Replaces(e, f) => f.op = e.op /\ f.c = e.c
    BY Zenon DEF Replaces
  <2>5. ~Window(r) /\ \A h \in Guest : ~Linking(r, h)
    BY <2>3, <2>4, Zenon DEF Window, Linking
  <2> QED
    BY <2>2, <2>5, Zenon DEF Same
<1>3. CASE n # 1
  <2>1. r # <<>> /\ r[1] = s[1] /\ Len(s) > 1 /\ Len(s) # 1
    <3>1. n > 1 /\ 1 \in 1 .. n - 1
      BY <1>1, <1>3, <1>a, Zenon
    <3>2. Len(r) # 0
      BY <1>1, <3>1 DEF Sets, Pops, Pushes
    <3>3. r[1] = s[1]
      BY <3>1, Zenon DEF Sets, Pops, Pushes
    <3> QED
      BY <1>0, <3>1, <3>2, <3>3
  <2>2. CASE Len(r) > 1
    <3>1. Len(r) # 1
      BY <1>1, <2>2, <1>a, Zenon
    <3> QED
      BY <2>1, <2>2, <3>1, Zenon DEF Same, Window, Linking
  <2>3. CASE Len(r) = 1
    <3>1. n = 2 /\ Pops(s, r) /\ e.op # "set_dependency"
      BY <1>1, <1>3, <2>3 DEF Sets, Pops, Pushes
    <3>2. Waits(s[1], e)
      BY <3>1 DEF Shape
    <3>3. /\ ~(s[1].op = "update_refcount" /\ s[1].at = "ordered")
          /\ ~(s[1].op = "link" /\ s[1].at # "got")
      BY <3>1, <3>2, Zenon DEF Waits
    <3> QED
      BY <2>1, <2>3, <3>1, <3>3, Zenon DEF Same, Window, Linking
  <2>4. Len(r) = 1 \/ Len(r) > 1
    <3>1. Len(r) # 0
      BY <1>0, <2>1, Zenon
    <3> QED
      BY <1>1, <3>1, <1>a, Zenon
  <2> QED
    BY <2>2, <2>3, <2>4, Zenon
<1> QED
  BY <1>2, <1>3, Zenon

-----------------------------------------------------------------------------
(* The inductive invariant. *)

StackInv ==
  /\ stack \in Seq(Frames) /\ Shape(stack)
  /\ Lower(stack, mem, file, disk, dirty, pending, setup)
  /\ stack # <<>> =>
       TopFact(Top, ret, mem, file, disk, cached, dirty, depends, setup)

\* A table that is not dirty is as it is in the file, and a closed image has no
\* request in flight and, without failures, is on the disk.
DataInv ==
  /\ TypeOK /\ NoDependencyCycle
  /\ opened => \A c \in Caches : \A t \in Tables(c) :
                 t \notin dirty[c] => mem[c][t] = file[c][t]
  /\ ~opened => /\ stack = <<>> /\ pending = [g \in Guest |-> None]
                /\ Accurate => disk = file

OrderInv ==
  Accurate => /\ ~mem.hdr["dirty"] /\ ~file.hdr["dirty"] /\ ~disk.hdr["dirty"]
              /\ Cover(file, disk) /\ Apart(file, disk)
              /\ opened => Live(mem, file, disk, pending, depends, stack)

Inv == DataInv /\ StackInv /\ OrderInv

\* A frame that goes on to another label, and one that starts.
Moved(f, e, at) ==
  /\ f.op = e.op /\ f.at = at /\ f.c = e.c /\ f.t = e.t
  /\ f.todo = e.todo /\ f.failed = e.failed
Started(g, op, c, t) ==
  /\ g.op = op /\ g.at = "start" /\ g.c = c /\ g.t = t /\ g.todo = {} /\ g.failed = FALSE

\* The operators on frames.
LEMMA FrameForms ==
  /\ \A e \in Frames, at \in Labels :
       [e EXCEPT !.at = at] \in Frames /\ Moved([e EXCEPT !.at = at], e, at)
  /\ \A op \in Ops, c \in Args, t \in Targets :
       Frame(op, c, t) \in Frames /\ Started(Frame(op, c, t), op, c, t)
<1>1. ASSUME NEW e \in Frames, NEW at \in Labels
      PROVE  [e EXCEPT !.at = at] \in Frames /\ Moved([e EXCEPT !.at = at], e, at)
  BY Zenon DEF Frames, Moved
<1>2. ASSUME NEW op \in Ops, NEW c \in Args, NEW t \in Targets
      PROVE  Frame(op, c, t) \in Frames /\ Started(Frame(op, c, t), op, c, t)
  <2>1. ASSUME NEW T, NEW B, NEW S, NEW x \in T, NEW b \in B, NEW a \in S
        PROVE  [op |-> op, at |-> a, c |-> c, t |-> t, todo |-> x, failed |-> b]
                 \in [op : Ops, at : S, c : Args, t : Targets, todo : T, failed : B]
    BY Zenon
  <2>2. {} \in SUBSET (Guest \cup Cluster) /\ "start" \in Labels
    BY Zenon DEF Labels
  <2>3. FALSE \in BOOLEAN
    BY Zenon
  <2>4. Frame(op, c, t) \in Frames
    BY <2>1, <2>2, <2>3, Zenon DEF Frame, Frames
  <2> QED
    BY <2>4, Zenon DEF Started, Frame
<1> QED
  BY <1>1, <1>2, Zenon

\* The function on top goes on.
LEMMA StackSet ==
  ASSUME StackInv, stack # <<>>, NEW f \in Frames,
         stack' = [stack EXCEPT ![Len(stack)] = f],
         Follows(Top, f), FrameOK(f), setup' = setup,
         Quiet(mem, file, disk, dirty, pending, setup, mem', file', disk', dirty', pending'),
         FrameFact(f, mem', file', disk', dirty', pending', setup),
         TopFact(f, ret', mem', file', disk', cached', dirty', depends', setup)
  PROVE  StackInv' /\ Sets(stack, stack', f)
<1>1. stack \in Seq(Frames)
  BY Zenon DEF StackInv
<1>2. /\ Top = stack[Len(stack)] /\ Top \in Frames /\ stack' \in Seq(Frames)
      /\ Sets(stack, stack', f)
  BY <1>1, StackTop, StackMoves, Zenon DEF Top
<1>3. Shape(stack) /\ Lower(stack, mem, file, disk, dirty, pending, setup)
  BY Zenon DEF StackInv
<1>4. Follows(stack[Len(stack)], f)
  BY <1>2, Zenon
<1>5. Shape(stack')
  <2> USE <1>1, <1>2, <1>3, <1>4
  <2> DEFINE n == Len(stack)
             e == stack[n]
  <2>1. /\ n \in Nat \ {0} /\ Len(stack') = n /\ stack' # <<>>
        /\ \A i \in 1 .. n : stack[i] \in Frames /\ stack'[i] \in Frames
        /\ \A i \in 1 .. n : i = n \/ i \in 1 .. n - 1
        /\ \A i \in 1 .. n - 1 : stack'[i] = stack[i] /\ i \in 1 .. n /\ i + 1 \in 1 .. n
        /\ stack'[n] = f
    BY StackElements DEF Sets
  <2>2. /\ \A w \in Frames : Waits(w, e) => Waits(w, f)
        /\ \A o : May(o, e.op) => May(o, f.op)
        /\ e.op \in Bottom => f.op \in Bottom
        /\ f.op = "update_refcount" /\ f.c < 0 => e.op = "update_refcount" /\ e.c < 0
    BY <2>1, WaitsReplaces DEF Follows, Replaces, Waits, May, Bottom
  <2>3. \A i \in 1 .. n : FrameOK(stack'[i])
    BY <2>1, Zenon DEF Shape
  <2>4. ASSUME NEW i \in 1 .. n, NEW j \in 1 .. n, i < j
        PROVE  May(stack'[i].op, stack'[j].op)
    <3>1. i \in 1 .. n - 1 /\ May(stack[i].op, stack[j].op)
      BY <2>1, <2>4 DEF Shape
    <3> QED
      BY <2>1, <2>2, <3>1, Zenon
  <2>5. ASSUME NEW i \in 1 .. n - 1
        PROVE  Waits(stack'[i], stack'[i + 1])
    <3>1. Waits(stack[i], stack[i + 1]) /\ stack'[i] = stack[i] /\ stack[i] \in Frames
      BY <2>1, Zenon DEF Shape
    <3> QED
      BY <2>1, <2>2, <3>1, Zenon
  <2>6. stack'[1].op \in Bottom
    <3>1. stack[1].op \in Bottom
      BY Zenon DEF Shape
    <3> QED
      BY <2>1, <2>2, <3>1
  <2>7. ASSUME NEW i \in 1 .. n, stack'[i].op = "update_refcount", stack'[i].c < 0
        PROVE  i = 1
    <3>1. stack[i].op = "update_refcount" /\ stack[i].c < 0
      BY <2>1, <2>2, <2>7, Zenon
    <3> QED
      BY <3>1, Zenon DEF Shape
  <2> QED
    BY <2>1, <2>3, <2>4, <2>5, <2>6, <2>7, Zenon DEF Shape
<1>6. Lower(stack', mem', file', disk', dirty', pending', setup)
  <2> USE <1>1, <1>2, <1>3, <1>4
  <2> DEFINE n == Len(stack)
  <2>1. /\ n \in Nat \ {0} /\ Len(stack') = n
        /\ \A i \in 1 .. n : i = n \/ i \in 1 .. n - 1
        /\ \A i \in 1 .. n - 1 : stack'[i] = stack[i] /\ i \in 1 .. n /\ i + 1 \in 1 .. n
        /\ stack'[n] = f
    BY StackElements DEF Sets
  <2>2. /\ \A x : FrameOK(x) /\ FrameFact(x, mem, file, disk, dirty, pending, setup)
                => FrameFact(x, mem', file', disk', dirty', pending', setup)
        /\ \A x, y : FrameOK(x) /\ PairFact(x, y, dirty) => PairFact(x, y, dirty')
    BY QuietFacts, Zenon
  <2>3. \A i \in 1 .. n : FrameFact(stack'[i], mem', file', disk', dirty', pending', setup)
    BY <2>1, <2>2, Zenon DEF Lower, Shape
  <2>4. ASSUME NEW i \in 1 .. n - 1
        PROVE  PairFact(stack'[i], stack'[i + 1], dirty')
    <3>1. stack'[i] = stack[i] /\ FrameOK(stack[i]) /\ PairFact(stack[i], stack[i + 1], dirty)
          /\ Waits(stack[i], stack[i + 1])
      BY <2>1, Zenon DEF Lower, Shape
    <3>2. PairFact(stack[i], stack[i + 1], dirty')
      BY <2>2, <3>1, Zenon
    <3>3. i + 1 = n \/ stack'[i + 1] = stack[i + 1]
      BY <2>1, Zenon
    <3>4. CASE i + 1 = n
      <4>1. stack[i].op = "cache_flush" => stack[n].op = "entry_flush"
        BY <3>1, <3>4, Zenon DEF Waits
      <4>2. stack[i].op = "cache_flush" => f.t = stack[n].t
        BY <4>1, Zenon DEF Follows, Replaces
      <4> QED
        BY <2>1, <3>1, <3>2, <3>4, <4>2, Zenon DEF PairFact
    <3> QED
      BY <3>1, <3>2, <3>3, <3>4, Zenon
  <2> QED
    BY <2>1, <2>3, <2>4, Zenon DEF Lower
<1>7. Top' = f
  BY <1>2, Zenon DEF Top, Sets
<1> QED
  BY <1>2, <1>5, <1>6, <1>7, Zenon DEF StackInv

\* The function on top returns.
LEMMA StackReturns ==
  ASSUME StackInv, stack # <<>>, stack' = Below(stack), setup' = setup,
         Lower(stack', mem', file', disk', dirty', pending', setup),
         \A w \in Frames :
           /\ FrameOK(w) /\ FrameFact(w, mem, file, disk, dirty, pending, setup)
           /\ Waits(w, Top) /\ PairFact(w, Top, dirty)
           => TopFact(w, ret', mem', file', disk', cached', dirty', depends', setup)
  PROVE  StackInv' /\ Pops(stack, stack')
<1>1. stack \in Seq(Frames)
  BY Zenon DEF StackInv
<1>2. /\ Top = stack[Len(stack)] /\ Top \in Frames /\ stack' \in Seq(Frames)
      /\ Pops(stack, stack')
  BY <1>1, StackTop, Zenon DEF Top
<1>3. Shape(stack) /\ Lower(stack, mem, file, disk, dirty, pending, setup)
  BY Zenon DEF StackInv
<1>4. /\ Shape(stack')
      /\ stack' # <<>> => Len(stack) > 1 /\ Waits(stack'[Len(stack')], Top)
  <2>1. stack # <<>>
    BY Zenon
  <2> QED
    <3> USE <1>1, <1>2, <1>3, <2>1
    <3> DEFINE n == Len(stack)
    <3>1. /\ n \in Nat \ {0} /\ Len(stack') = n - 1 /\ (stack' # <<>> => n > 1)
          /\ \A i \in 1 .. n - 1 : stack'[i] = stack[i] /\ i \in 1 .. n
          /\ \A i \in 1 .. n - 2 : i \in 1 .. n - 1 /\ i + 1 \in 1 .. n - 1
      BY StackElements DEF Pops
    <3>2. \A i \in 1 .. n - 1 : FrameOK(stack'[i])
      BY <3>1, Zenon DEF Shape
    <3>3. \A i, j \in 1 .. n - 1 : i < j => May(stack'[i].op, stack'[j].op)
      BY <3>1, Zenon DEF Shape
    <3>4. \A i \in 1 .. n - 2 : Waits(stack'[i], stack'[i + 1])
      BY <3>1, Zenon DEF Shape
    <3>5. stack' # <<>> => stack'[1].op \in Bottom
      BY <3>1 DEF Shape
    <3>6. \A i \in 1 .. n - 1 : stack'[i].op = "update_refcount" /\ stack'[i].c < 0 => i = 1
      BY <3>1, Zenon DEF Shape
    <3>7. stack' # <<>> => Waits(stack'[Len(stack')], stack[Len(stack)])
      BY <3>1 DEF Shape
    <3>8. Len(stack') - 1 = n - 2
      BY <3>1
    <3> QED
      BY <3>1, <3>2, <3>3, <3>4, <3>5, <3>6, <3>7, <3>8, Zenon DEF Shape
<1>5. ASSUME stack' # <<>>
      PROVE  TopFact(Top', ret', mem', file', disk', cached', dirty', depends', setup)
  <2> DEFINE n == Len(stack) - 1
             w == stack[n]
  <2>1. /\ n \in 1 .. Len(stack) /\ n \in 1 .. Len(stack) - 1 /\ n + 1 = Len(stack)
        /\ Len(stack') = n /\ stack'[n] = w
    <3>1. Len(stack) \in Nat /\ Len(stack) > 1 /\ Len(stack') = Len(stack) - 1
      BY <1>1, <1>2, <1>4, <1>5, StackElements, Zenon DEF Pops
    <3> QED
      BY <1>2, <3>1 DEF Pops
  <2>2. w \in Frames /\ Top' = w
    BY <1>1, <2>1, StackElements, Zenon DEF Top
  <2>3. /\ FrameOK(w) /\ FrameFact(w, mem, file, disk, dirty, pending, setup)
        /\ Waits(w, Top) /\ PairFact(w, Top, dirty)
    BY <1>2, <1>3, <2>1, Zenon DEF Shape, Lower
  <2> QED
    BY <2>2, <2>3, Zenon
<1> QED
  BY <1>2, <1>4, <1>5, Zenon DEF StackInv

\* The same when its callers notice nothing.
LEMMA StackPop ==
  ASSUME StackInv, stack # <<>>, stack' = Below(stack), setup' = setup,
         Quiet(mem, file, disk, dirty, pending, setup, mem', file', disk', dirty', pending'),
         \A w \in Frames :
           /\ FrameOK(w) /\ FrameFact(w, mem, file, disk, dirty, pending, setup)
           /\ Waits(w, Top) /\ PairFact(w, Top, dirty)
           => TopFact(w, ret', mem', file', disk', cached', dirty', depends', setup)
  PROVE  StackInv' /\ Pops(stack, stack')
<1>1. /\ stack \in Seq(Frames) /\ Shape(stack) /\ stack # <<>>
      /\ Lower(stack, mem, file, disk, dirty, pending, setup)
      /\ Quiet(mem, file, disk, dirty, pending, setup, mem', file', disk', dirty', pending')
  BY Zenon DEF StackInv
<1>2. stack' \in Seq(Frames) /\ Pops(stack, stack')
  BY <1>1, StackTop, Zenon
<1>3. Lower(stack', mem', file', disk', dirty', pending', setup)
  <2> USE <1>1, <1>2
  <2> DEFINE n == Len(stack)
  <2>1. /\ n \in Nat \ {0} /\ Len(stack') = n - 1
        /\ \A i \in 1 .. n - 1 : stack'[i] = stack[i] /\ i \in 1 .. n
        /\ \A i \in 1 .. n - 2 : i \in 1 .. n - 1 /\ i + 1 \in 1 .. n - 1
        /\ Len(stack') - 1 = n - 2
    BY StackElements DEF Pops
  <2>2. /\ \A x : FrameOK(x) /\ FrameFact(x, mem, file, disk, dirty, pending, setup)
                => FrameFact(x, mem', file', disk', dirty', pending', setup)
        /\ \A x, y : FrameOK(x) /\ PairFact(x, y, dirty) => PairFact(x, y, dirty')
    BY QuietFacts, Zenon
  <2>3. \A i \in 1 .. n - 1 : FrameFact(stack'[i], mem', file', disk', dirty', pending', setup)
    BY <2>1, <2>2, Zenon DEF Lower, Shape
  <2>4. ASSUME NEW i \in 1 .. n - 2
        PROVE  PairFact(stack'[i], stack'[i + 1], dirty')
    <3>1. /\ stack'[i] = stack[i] /\ stack'[i + 1] = stack[i + 1] /\ FrameOK(stack[i])
          /\ PairFact(stack[i], stack[i + 1], dirty)
      BY <2>1, Zenon DEF Lower, Shape
    <3> QED
      BY <2>2, <3>1, Zenon
  <2> QED
    BY <2>1, <2>3, <2>4, Zenon DEF Lower
<1> QED
  BY <1>3, StackReturns, Zenon

\* The function on top calls another one.
LEMMA StackPush ==
  ASSUME StackInv, stack # <<>>, NEW f \in Frames, NEW g \in Frames,
         stack' = Append([stack EXCEPT ![Len(stack)] = f], g), ret' = "ok",
         Replaces(Top, f), FrameOK(f), FrameOK(g), Waits(f, g), g.at = "start",
         UNCHANGED <<mem, file, disk, cacheVars, pending, setup>>,
         FrameFact(f, mem, file, disk, dirty, pending, setup),
         FrameFact(g, mem, file, disk, dirty, pending, setup), PairFact(f, g, dirty)
  PROVE  StackInv' /\ Pushes(stack, stack', f, g)
<1>1. stack \in Seq(Frames)
  BY Zenon DEF StackInv
<1>2. /\ Top = stack[Len(stack)] /\ Top \in Frames /\ stack' \in Seq(Frames)
      /\ Pushes(stack, stack', f, g)
  BY <1>1, StackTop, StackMoves, Zenon DEF Top
<1>3. Shape(stack) /\ Lower(stack, mem, file, disk, dirty, pending, setup)
  BY Zenon DEF StackInv
<1>4. Replaces(stack[Len(stack)], f)
  BY <1>2, Zenon
<1>5. Shape(stack')
  <2> USE <1>1, <1>2, <1>3, <1>4
  <2> DEFINE n == Len(stack)
             e == stack[n]
  <2>1. /\ n \in Nat \ {0} /\ Len(stack') = n + 1 /\ stack' # <<>>
        /\ \A i \in 1 .. n : stack[i] \in Frames /\ stack'[i] \in Frames
        /\ \A i \in 1 .. n : i = n \/ i \in 1 .. n - 1
        /\ \A i \in 1 .. n + 1 : i = n + 1 \/ i \in 1 .. n
        /\ \A i \in 1 .. n - 1 : stack'[i] = stack[i] /\ i \in 1 .. n /\ i + 1 \in 1 .. n
        /\ stack'[n] = f /\ stack'[n + 1] = g
    BY StackElements DEF Pushes
  <2>2. /\ \A w \in Frames : Waits(w, e) => Waits(w, f)
        /\ f.op = e.op /\ f.c = e.c
    BY <2>1, WaitsReplaces, Zenon DEF Replaces
  <2>3. /\ May(f.op, g.op)
        /\ \/ f.op = "update_refcount" /\ f.c < 0
           \/ \A o : May(o, f.op) => May(o, g.op)
        /\ ~(g.op = "update_refcount" /\ g.c < 0)
    BY DEF Waits, May, FrameOK
  <2>4. \A i \in 1 .. n + 1 : FrameOK(stack'[i])
    BY <2>1, Zenon DEF Shape
  <2>5. ASSUME NEW i \in 1 .. n + 1, NEW j \in 1 .. n + 1, i < j
        PROVE  May(stack'[i].op, stack'[j].op)
    <3>1. i \in 1 .. n /\ stack'[i].op = stack[i].op
      BY <2>1, <2>2, <2>5
    <3>2. CASE j = n + 1
      <4>1. i = n \/ (n # 1 /\ stack'[i].op = stack[i].op /\ May(stack[i].op, e.op))
        BY <2>1, <3>1 DEF Shape
      <4>2. f.op = "update_refcount" /\ f.c < 0 => n = 1
        <5>1. n \in 1 .. n
          BY <2>1
        <5>2. stack[n].op = "update_refcount" /\ stack[n].c < 0 => n = 1
          BY <5>1, Zenon DEF Shape
        <5> QED
          BY ONLY <5>2, <2>2, Zenon
      <4>3. stack'[j] = g /\ stack'[n] = f
        BY <2>1, <3>2, Zenon
      <4> QED
        BY ONLY <2>2, <2>3, <4>1, <4>2, <4>3, Zenon
    <3>3. CASE j # n + 1
      <4>1. j \in 1 .. n /\ stack'[j].op = stack[j].op /\ May(stack[i].op, stack[j].op)
        BY <2>1, <2>2, <2>5, <3>1, <3>3, Zenon DEF Shape
      <4> QED
        BY <3>1, <4>1, Zenon
    <3> QED
      BY <3>2, <3>3, Zenon
  <2>6. ASSUME NEW i \in 1 .. n
        PROVE  Waits(stack'[i], stack'[i + 1])
    <3>1. CASE i = n
      BY <2>1, <3>1, Zenon
    <3>2. CASE i # n
      <4>1. Waits(stack[i], stack[i + 1]) /\ stack'[i] = stack[i] /\ stack[i] \in Frames
        BY <2>1, <3>2, Zenon DEF Shape
      <4>2. i + 1 = n \/ stack'[i + 1] = stack[i + 1]
        BY <2>1, <3>2, Zenon
      <4> QED
        BY <2>1, <2>2, <4>1, <4>2, Zenon
    <3> QED
      BY <3>1, <3>2, Zenon
  <2>7. stack'[1].op \in Bottom
    BY <2>1, <2>2 DEF Shape
  <2>8. ASSUME NEW i \in 1 .. n + 1, stack'[i].op = "update_refcount", stack'[i].c < 0
        PROVE  i = 1
    BY <2>1, <2>2, <2>3, <2>8 DEF Shape
  <2>9. Len(stack') - 1 = n
    BY <2>1
  <2> QED
    BY <2>1, <2>4, <2>5, <2>6, <2>7, <2>8, <2>9, Zenon DEF Shape
<1>7. Lower(stack', mem, file, disk, dirty, pending, setup)
  <2> DEFINE n == Len(stack)
  <2>1. /\ n \in Nat \ {0} /\ Len(stack') = n + 1 /\ stack'[n] = f /\ stack'[n + 1] = g
        /\ \A i \in 1 .. n + 1 : i = n + 1 \/ i = n \/ i \in 1 .. n - 1
        /\ \A i \in 1 .. n - 1 : stack'[i] = stack[i] /\ i \in 1 .. n /\ i + 1 \in 1 .. n
    BY <1>1, <1>2, StackElements DEF Pushes
  <2>2. \A i \in 1 .. n + 1 : FrameFact(stack'[i], mem, file, disk, dirty, pending, setup)
    BY <1>3, <2>1, Zenon DEF Lower
  <2>3. ASSUME NEW i \in 1 .. n
        PROVE  PairFact(stack'[i], stack'[i + 1], dirty)
    <3>1. CASE i = n
      BY <2>1, <3>1, Zenon
    <3>2. CASE i # n
      <4>1. /\ i \in 1 .. n - 1 /\ stack'[i] = stack[i] /\ Waits(stack[i], stack[i + 1])
            /\ PairFact(stack[i], stack[i + 1], dirty)
            /\ (i + 1 = n /\ stack[i + 1] = Top) \/ stack'[i + 1] = stack[i + 1]
        BY <1>2, <1>3, <2>1, <3>2 DEF Lower, Shape
      <4>2. stack[i].op = "cache_flush" /\ stack[i + 1] = Top => f.t = Top.t
        BY <4>1, Zenon DEF Waits, Replaces
      <4> QED
        BY <2>1, <4>1, <4>2 DEF PairFact
    <3> QED
      BY <3>1, <3>2, Zenon
  <2>4. Len(stack') - 1 = n
    BY <2>1
  <2> QED
    BY <2>1, <2>2, <2>3, <2>4, Zenon DEF Lower
<1>8. Top' = g
  BY <1>2, Zenon DEF Top, Pushes
<1>9. TopFact(g, "ok", mem, file, disk, cached, dirty, depends, setup)
  BY Zenon DEF TopFact
<1> QED
  BY <1>2, <1>5, <1>7, <1>8, <1>9, Zenon DEF StackInv, cacheVars

-----------------------------------------------------------------------------
(* Steps that change the stack only. *)

Still == UNCHANGED <<mem, file, disk, cacheVars, opened, pending, setup>>

\* While a function is active the image is open.
LEMMA Active ==
  ASSUME Inv, stack # <<>>
  PROVE  /\ opened /\ stack \in Seq(Frames) /\ Shape(stack) /\ Top \in Frames
         /\ Top = stack[Len(stack)] /\ Len(stack) \in Nat \ {0} /\ FrameOK(Top)
         /\ Len(stack) \in 1 .. Len(stack)
         /\ FrameFact(Top, mem, file, disk, dirty, pending, setup)
         /\ TopFact(Top, ret, mem, file, disk, cached, dirty, depends, setup)
         /\ \A i \in 1 .. Len(stack) - 1 : May(stack[i].op, Top.op)
         /\ (Accurate <=> Acc(setup)) /\ (Fails => ~Acc(setup))
<1>1. opened /\ stack \in Seq(Frames) /\ Shape(stack)
  BY Zenon DEF Inv, DataInv, StackInv
<1>2. Top \in Frames /\ Top = stack[Len(stack)] /\ Len(stack) \in Nat \ {0}
  BY <1>1, StackTop, Zenon DEF Top
<1>3. Len(stack) \in 1 .. Len(stack)
  BY <1>2
<1>4. FrameOK(Top) /\ FrameFact(Top, mem, file, disk, dirty, pending, setup)
  BY <1>2, <1>3, Zenon DEF Inv, StackInv, Shape, Lower
<1>5. TopFact(Top, ret, mem, file, disk, cached, dirty, depends, setup)
  BY Zenon DEF Inv, StackInv, Top
<1>6. \A i \in 1 .. Len(stack) - 1 : May(stack[i].op, Top.op)
  <2>1. \A i \in 1 .. Len(stack) - 1 : i \in 1 .. Len(stack) /\ i < Len(stack)
    BY <1>2
  <2> QED
    BY <1>1, <1>2, <1>3, <2>1, Zenon DEF Shape
<1>7. (Accurate <=> Acc(setup)) /\ (Fails => ~Acc(setup))
  BY Zenon DEF Accurate, Acc, Fails
<1> QED
  BY <1>1, <1>2, <1>3, <1>4, <1>5, <1>6, <1>7, SMTT(20)

\* What remains to be shown of a step that changes the stack only.
LEMMA PlainStep ==
  ASSUME Inv, Still, left' \in 0 .. setup.ops, ret' \in {"ok", "err"}, StackInv',
         opened, Acc(setup) => Same(stack, stack')
  PROVE  Inv'
<1>1. TypeOK'
  BY Zenon DEF Inv, DataInv, TypeOK, Still, cacheVars
<1>2. DataInv'
  BY <1>1, ZenonT(30) DEF Inv, DataInv, Still, cacheVars, NoDependencyCycle
<1>3. ASSUME Accurate PROVE Live(mem, file, disk, pending, depends, stack')
  <2>1. Live(mem, file, disk, pending, depends, stack)
    BY <1>3, Zenon DEF Inv, OrderInv
  <2>2. /\ Window(stack) => Window(stack')
        /\ \A g \in Guest : Linking(stack', g) => Linking(stack, g)
    BY <1>3, Zenon DEF Same, Accurate, Acc
  <2> QED
    BY ONLY <2>1, <2>2, OrderDepends, Zenon
<1>4. OrderInv'
  BY <1>3, Zenon DEF Inv, OrderInv, Still, cacheVars, Accurate
<1> QED
  BY <1>2, <1>4, Zenon DEF Inv

\* A function goes on.
LEMMA SetStep ==
  ASSUME Inv, stack # <<>>, NEW f \in Frames, Still, left' = left,
         stack' = [stack EXCEPT ![Len(stack)] = f], ret' \in {"ok", "err"},
         Follows(Top, f), FrameOK(f), Top.op \notin {"link", "discard", "update_refcount"},
         FrameFact(f, mem, file, disk, dirty, pending, setup),
         TopFact(f, ret', mem, file, disk, cached, dirty, depends, setup)
  PROVE  Inv'
<1>1. /\ StackInv /\ stack \in Seq(Frames) /\ Shape(stack) /\ opened
      /\ left \in 0 .. setup.ops /\ Top \in Frames /\ Top = stack[Len(stack)]
  BY Active, Zenon DEF Inv, DataInv, TypeOK
<1>2. Quiet(mem, file, disk, dirty, pending, setup, mem', file', disk', dirty', pending')
  BY Zenon DEF Quiet, Still, cacheVars
<1>3. StackInv' /\ Sets(stack, stack', f)
  <2>1. /\ FrameFact(f, mem', file', disk', dirty', pending', setup)
        /\ TopFact(f, ret', mem', file', disk', cached', dirty', depends', setup)
        /\ setup' = setup
    BY Zenon DEF Still, cacheVars
  <2> QED
    BY <1>1, <1>2, <2>1, StackSet, Zenon
<1>4. Same(stack, stack')
  <2>1. stack' \in Seq(Frames)
    BY <1>3, Zenon DEF StackInv
  <2> QED
    BY <1>1, <1>3, <2>1, SameMoves, Zenon
<1> QED
  BY <1>1, <1>3, <1>4, PlainStep, Zenon

\* A function calls another one.
LEMMA PushStep ==
  ASSUME Inv, stack # <<>>, NEW f \in Frames, NEW g \in Frames, Still, left' = left,
         stack' = Append([stack EXCEPT ![Len(stack)] = f], g), ret' = "ok",
         Replaces(Top, f), FrameOK(f), FrameOK(g), Waits(f, g), g.at = "start",
         FrameFact(f, mem, file, disk, dirty, pending, setup),
         FrameFact(g, mem, file, disk, dirty, pending, setup), PairFact(f, g, dirty),
         Acc(setup) /\ Top.op \in {"link", "discard", "update_refcount"}
           => Same(stack, stack')
  PROVE  Inv'
<1>1. /\ StackInv /\ stack \in Seq(Frames) /\ Shape(stack) /\ opened
      /\ left \in 0 .. setup.ops /\ Top \in Frames /\ Top = stack[Len(stack)]
  BY Active, Zenon DEF Inv, DataInv, TypeOK
<1>2. StackInv' /\ Pushes(stack, stack', f, g)
  <2>1. UNCHANGED <<mem, file, disk, cacheVars, pending, setup>>
    BY Zenon DEF Still
  <2> QED
    BY <1>1, <2>1, StackPush, Zenon
<1>3. Acc(setup) => Same(stack, stack')
  <2>1. stack' \in Seq(Frames)
    BY <1>2, Zenon DEF StackInv
  <2> QED
    BY <1>1, <1>2, <2>1, SameMoves, Zenon
<1> QED
  BY <1>1, <1>2, <1>3, PlainStep, Zenon

\* A function returns.
LEMMA ReturnStep ==
  ASSUME Inv, stack # <<>>, NEW v \in {"ok", "err"}, Return(v), Still, left' = left,
         \A w \in Frames :
           /\ FrameOK(w) /\ FrameFact(w, mem, file, disk, dirty, pending, setup)
           /\ Waits(w, Top) /\ PairFact(w, Top, dirty)
           => TopFact(w, v, mem, file, disk, cached, dirty, depends, setup),
         Acc(setup) /\ Top.op \in {"link", "discard", "update_refcount", "set_dependency"}
           => Same(stack, stack')
  PROVE  Inv'
<1>1. /\ StackInv /\ stack \in Seq(Frames) /\ Shape(stack) /\ opened
      /\ left \in 0 .. setup.ops /\ Top \in Frames /\ Top = stack[Len(stack)]
  BY Active, Zenon DEF Inv, DataInv, TypeOK
<1>2. Quiet(mem, file, disk, dirty, pending, setup, mem', file', disk', dirty', pending')
  BY Zenon DEF Quiet, Still, cacheVars
<1>3. StackInv' /\ Pops(stack, stack')
  <2>1. /\ setup' = setup /\ ret' = v /\ stack' = Below(stack) /\ stack # <<>>
        /\ mem' = mem /\ file' = file /\ disk' = disk /\ cached' = cached /\ dirty' = dirty
        /\ depends' = depends
    BY Zenon DEF Still, cacheVars, Return, Below
  <2>2. \A w \in Frames :
           /\ FrameOK(w) /\ FrameFact(w, mem, file, disk, dirty, pending, setup)
           /\ Waits(w, Top) /\ PairFact(w, Top, dirty)
           => TopFact(w, ret', mem', file', disk', cached', dirty', depends', setup)
    BY <2>1, Zenon
  <2> QED
    BY ONLY <1>1, <1>2, <2>1, <2>2, StackPop, Zenon
<1>4. Acc(setup) => Same(stack, stack')
  <2>1. stack' \in Seq(Frames)
    BY <1>3, Zenon DEF StackInv
  <2> QED
    BY <1>1, <1>3, <2>1, SameMoves, Zenon
<1>5. ret' \in {"ok", "err"}
  BY Zenon DEF Return
<1> QED
  BY <1>1, <1>3, <1>4, <1>5, PlainStep, Zenon

\* A function returns an error.
LEMMA ErrorStep ==
  ASSUME Inv, stack # <<>>, Return("err"), ~Acc(setup), Still, left' = left
  PROVE  Inv'
<1>1. ASSUME NEW w \in Frames, Waits(w, Top)
      PROVE  TopFact(w, "err", mem, file, disk, cached, dirty, depends, setup)
  BY <1>1, Zenon DEF Waits, TopFact
<1>2. "err" \in {"ok", "err"}
  BY Zenon
<1> QED
  BY <1>1, <1>2, ReturnStep, Zenon

\* Goto and Call in terms of frames.
LEMMA StackForms ==
  ASSUME Inv, stack # <<>>, NEW at \in Labels
  PROVE  /\ [Top EXCEPT !.at = at] \in Frames /\ Moved([Top EXCEPT !.at = at], Top, at)
         /\ [stack EXCEPT ![Len(stack)].at = at]
              = [stack EXCEPT ![Len(stack)] = [Top EXCEPT !.at = at]]
<1>1. Top \in Frames /\ Top = stack[Len(stack)]
  BY Active, Zenon
<1>2. [stack EXCEPT ![Len(stack)].at = at]
        = [stack EXCEPT ![Len(stack)] = [stack[Len(stack)] EXCEPT !.at = at]]
  BY Zenon
<1> QED
  BY <1>1, <1>2, FrameForms, Zenon

\* A function calls another one and does nothing else.
LEMMA CallStep ==
  ASSUME Inv, stack # <<>>, NEW op \in Ops, NEW c \in Args, NEW t \in Targets,
         NEW at \in Labels, Call(Frame(op, c, t), at), Still, left' = left,
         Top.op # "cache_flush",
         \A f, g \in Frames : Moved(f, Top, at) /\ Started(g, op, c, t) =>
            /\ FrameOK(f) /\ FrameOK(g) /\ Waits(f, g)
            /\ FrameFact(f, mem, file, disk, dirty, pending, setup)
            /\ FrameFact(g, mem, file, disk, dirty, pending, setup),
         Acc(setup) /\ Top.op \in {"link", "discard", "update_refcount"}
           => Same(stack, stack')
  PROVE  Inv'
<1> DEFINE f == [Top EXCEPT !.at = at]
           g == Frame(op, c, t)
<1>1. /\ f \in Frames /\ Moved(f, Top, at) /\ g \in Frames /\ Started(g, op, c, t)
      /\ stack' = Append([stack EXCEPT ![Len(stack)] = f], g) /\ ret' = "ok"
  BY StackForms, FrameForms, Zenon DEF Call
<1> HIDE DEF f, g
<1>2. /\ FrameOK(f) /\ FrameOK(g) /\ Waits(f, g)
      /\ FrameFact(f, mem, file, disk, dirty, pending, setup)
      /\ FrameFact(g, mem, file, disk, dirty, pending, setup)
  BY <1>1, Zenon
<1>3. Replaces(Top, f) /\ g.at = "start" /\ PairFact(f, g, dirty)
  BY <1>1, Zenon DEF Replaces, Moved, Started, PairFact
<1> QED
  BY <1>1, <1>2, <1>3, PushStep, Zenon

-----------------------------------------------------------------------------
(* Steps that write the file, the disk or the state of the caches. *)

\* The disk takes over tables of the file.
LEMMA DiskStep ==
  ASSUME Inv, UNCHANGED <<mem, file, cached, dirty, depends, opened, pending, setup>>,
         depends_on_flush' \in [Caches -> BOOLEAN], disk' \in Image,
         \A g \in Guest : disk'.l2[g] = disk.l2[g] \/ disk'.l2[g] = file.l2[g],
         \A k \in Cluster : disk'.rc[k] = disk.rc[k] \/ disk'.rc[k] = file.rc[k],
         disk'.hdr["dirty"] = disk.hdr["dirty"] \/ disk'.hdr["dirty"] = file.hdr["dirty"],
         left' = left, ret' \in {"ok", "err"}, StackInv', Acc(setup) => Same(stack, stack'),
         opened \/ (stack' = <<>> /\ ~Accurate)
  PROVE  Inv'
<1>1. TypeOK'
  BY ZenonT(30) DEF Inv, DataInv, TypeOK
<1>2. DataInv'
  BY <1>1, Zenon DEF Inv, DataInv, NoDependencyCycle, Accurate
<1>3. ASSUME Accurate
      PROVE  /\ Cover(file, disk') /\ Apart(file, disk')
             /\ Live(mem, file, disk', pending, depends, stack')
  <2>1. /\ Cover(file, disk) /\ Apart(file, disk)
        /\ Live(mem, file, disk, pending, depends, stack)
    BY <1>3, Zenon DEF Inv, OrderInv
  <2>2. /\ Cover(file, disk') /\ Apart(file, disk')
        /\ Live(mem, file, disk', pending, depends, stack)
    <3> USE <2>1
    <3>1. /\ \A g \in Guest, k \in Cluster : Refers(g, k, file, disk') => Refers(g, k, file, disk)
          /\ \A k \in Cluster : Safe(k, file, disk) => Safe(k, file, disk')
          /\ \A g \in Guest, k \in Cluster : Stale(g, k, mem, file, disk') =>
               Stale(g, k, mem, file, disk)
      BY Zenon DEF Refers, Safe, Stale
    <3>2. Cover(file, disk) => Cover(file, disk')
      BY <3>1, Zenon DEF Cover
    <3>3. Apart(file, disk) => Apart(file, disk')
      BY <3>1, Zenon DEF Apart
    <3>4. Ahead(mem, file, disk, depends) => Ahead(mem, file, disk', depends)
      BY <3>1, Zenon DEF Ahead
    <3>5. Marked(mem, file, disk, pending, depends, stack) =>
            Marked(mem, file, disk', pending, depends, stack)
      BY <3>1, Zenon DEF Marked
    <3> QED
      BY <3>2, <3>3, <3>4, <3>5, Zenon DEF Live
  <2>3. /\ Window(stack) => Window(stack')
        /\ \A g \in Guest : Linking(stack', g) => Linking(stack, g)
    BY <1>3, Zenon DEF Same, Accurate, Acc
  <2>4. Live(mem, file, disk', pending, depends, stack')
    BY ONLY <2>2, <2>3, OrderDepends, Zenon
  <2> QED
    BY <2>2, <2>4, ZenonT(30)
<1>4. OrderInv'
  BY <1>3, ZenonT(30) DEF Inv, OrderInv, Accurate
<1> QED
  BY <1>2, <1>4, Zenon DEF Inv

\* bs->file is flushed.
LEMMA FlushStep ==
  ASSUME Inv, opened, flush_file,
         UNCHANGED <<mem, cached, dirty, depends, opened, pending, left, setup>>,
         depends_on_flush' \in [Caches -> BOOLEAN], ret' \in {"ok", "err"}, StackInv',
         Acc(setup) => Same(stack, stack')
  PROVE  Inv'
<1>1. file \in Image /\ disk' = file /\ file' = file
  BY Zenon DEF flush_file, Inv, DataInv, TypeOK
<1> QED
  BY <1>1, DiskStep, Zenon

\* What a flush of a cache has achieved, in terms of the tables.
LEMMA FlushedTables ==
  ASSUME Inv, opened, NEW c \in Caches, Flushed(c, file, disk, dirty)
  PROVE  /\ c = "l2" => \A g \in Guest : file.l2[g] = mem.l2[g] /\ disk.l2[g] = mem.l2[g]
         /\ c = "rc" => \A k \in Cluster : file.rc[k] = mem.rc[k] /\ disk.rc[k] = mem.rc[k]
<1>1. \A t \in Tables(c) : mem[c][t] = file[c][t] /\ disk = file
  BY Zenon DEF Inv, DataInv, Flushed
<1> QED
  BY <1>1, Zenon DEF Tables

\* The dependencies of the caches change.
LEMMA DependsStep ==
  ASSUME Inv, opened,
         UNCHANGED <<mem, file, disk, cached, dirty, opened, pending, left, setup>>,
         depends' \in [Caches -> BOOLEAN], depends_on_flush' \in [Caches -> BOOLEAN],
         NoDependencyCycle', ret' \in {"ok", "err"}, StackInv',
         depends["l2"] => depends'["l2"] \/ Flushed("rc", file, disk, dirty),
         depends["rc"] => depends'["rc"] \/ Flushed("l2", file, disk, dirty),
         Acc(setup) =>
           /\ Window(stack) => Window(stack') \/ depends'["rc"]
           /\ \A g \in Guest : Linking(stack', g) =>
                \/ Linking(stack, g)
                \/ depends'["l2"] /\ ~depends'["rc"] /\ ~Window(stack)
  PROVE  Inv'
<1>1. TypeOK'
  BY Zenon DEF Inv, DataInv, TypeOK
<1>2. DataInv'
  BY <1>1, Zenon DEF Inv, DataInv
<1>3. ASSUME Accurate PROVE Live(mem, file, disk, pending, depends', stack')
  <2>1. Live(mem, file, disk, pending, depends, stack) /\ Acc(setup)
    BY <1>3, ZenonT(30) DEF Inv, OrderInv, Accurate, Acc
  <2>2. /\ Flushed("l2", file, disk, dirty)
             => \A g \in Guest : file.l2[g] = mem.l2[g] /\ disk.l2[g] = mem.l2[g]
        /\ Flushed("rc", file, disk, dirty)
             => \A k \in Cluster : file.rc[k] = mem.rc[k] /\ disk.rc[k] = mem.rc[k]
    BY FlushedTables, Zenon DEF Caches
  <2>3. /\ depends["l2"] => depends'["l2"]
             \/ \A k \in Cluster : file.rc[k] = mem.rc[k] /\ disk.rc[k] = mem.rc[k]
        /\ depends["rc"] => depends'["rc"]
             \/ \A g \in Guest : file.l2[g] = mem.l2[g] /\ disk.l2[g] = mem.l2[g]
    BY <2>2, Zenon
  <2>4. /\ Window(stack) => Window(stack') \/ depends'["rc"]
        /\ \A g \in Guest : Linking(stack', g) =>
             \/ Linking(stack, g)
             \/ depends'["l2"] /\ (depends["rc"] =>
                  \A h \in Guest : file.l2[h] = mem.l2[h] /\ disk.l2[h] = mem.l2[h])
                /\ ~Window(stack)
    BY <2>1, <2>3, Zenon
  <2> QED
    BY ONLY <2>1, <2>3, <2>4, OrderDepends, Zenon
<1>4. OrderInv'
  BY <1>3, Zenon DEF Inv, OrderInv, Accurate
<1> QED
  BY <1>2, <1>4, Zenon DEF Inv

\* A table that is not dirty is read from the file: it does not change.
LEMMA ImageRead ==
  ASSUME NEW F \in Image, NEW c \in Caches, NEW t \in Tables(c)
  PROVE  [F EXCEPT ![c][t] = F[c][t]] = F
<1>1. CASE c = "l2"
  BY <1>1, Zenon DEF Image, Tables
<1>2. CASE c = "rc"
  BY <1>2, Zenon DEF Image, Tables
<1> QED
  BY <1>1, <1>2, Zenon DEF Caches

\* Tables are read into a cache, or evicted from it.
LEMMA CachedStep ==
  ASSUME Inv, opened,
         UNCHANGED <<mem, file, disk, dirty, depends, depends_on_flush, opened, pending,
                     left, setup>>,
         DOMAIN cached' = Caches, cached'["l2"] \subseteq Guest, cached'["rc"] \subseteq Cluster,
         \A c \in Caches : dirty[c] \subseteq cached'[c],
         ret' \in {"ok", "err"}, StackInv', Acc(setup) => Same(stack, stack')
  PROVE  Inv'
<1>1. TypeOK'
  BY Zenon DEF Inv, DataInv, TypeOK
<1>2. DataInv'
  BY <1>1, Zenon DEF Inv, DataInv, NoDependencyCycle
<1>3. ASSUME Accurate PROVE Live(mem, file, disk, pending, depends, stack')
  <2>1. Live(mem, file, disk, pending, depends, stack)
    BY <1>3, Zenon DEF Inv, OrderInv
  <2>2. /\ Window(stack) => Window(stack')
        /\ \A g \in Guest : Linking(stack', g) => Linking(stack, g)
    BY <1>3, Zenon DEF Same, Accurate, Acc
  <2> QED
    BY ONLY <2>1, <2>2, OrderDepends, Zenon
<1>4. OrderInv'
  BY <1>3, Zenon DEF Inv, OrderInv, Accurate
<1> QED
  BY <1>2, <1>4, Zenon DEF Inv

\* A table is written to the file as it is in the cache.
LEMMA FileStep ==
  ASSUME Inv, opened, NEW c \in Caches, NEW t \in Tables(c),
         UNCHANGED <<mem, disk, cached, depends, depends_on_flush, opened, pending, left, setup>>,
         \/ file' = file /\ dirty' = dirty
         \/ /\ file' = [file EXCEPT ![c][t] = mem[c][t]]
            /\ dirty' = dirty \/ dirty' = [dirty EXCEPT ![c] = @ \ {t}],
         ret' \in {"ok", "err"}, StackInv',
         Acc(setup) => ~depends[c] /\ Same(stack, stack')
  PROVE  Inv'
<1> DEFINE E == [file EXCEPT ![c][t] = mem[c][t]]
<1>1. /\ E \in Image /\ E.hdr = file.hdr /\ TypeOK
      /\ c = "l2" => E.l2 = [file.l2 EXCEPT ![t] = mem.l2[t]] /\ E.rc = file.rc
      /\ c = "rc" => E.rc = [file.rc EXCEPT ![t] = mem.rc[t]] /\ E.l2 = file.l2
  <2>1. /\ c = "l2" => mem[c][t] \in Cluster \cup {None}
        /\ c = "rc" => mem[c][t] \in 0 .. Cardinality(Guest)
        /\ file \in Image /\ TypeOK
    BY Zenon DEF Inv, DataInv, TypeOK, Image, Tables
  <2>2. /\ E \in Image /\ E.hdr = file.hdr
        /\ c = "l2" => E.l2 = [file.l2 EXCEPT ![t] = mem[c][t]] /\ E.rc = file.rc
        /\ c = "rc" => E.rc = [file.rc EXCEPT ![t] = mem[c][t]] /\ E.l2 = file.l2
    <3>1. CASE c = "l2"
      BY <2>1, <3>1, Zenon DEF Image, Tables
    <3>2. CASE c = "rc"
      BY <2>1, <3>2, Zenon DEF Image, Tables
    <3> QED
      BY <3>1, <3>2, Zenon DEF Caches
  <2> HIDE DEF E
  <2> QED
    BY <2>1, <2>2, Zenon
<1> HIDE DEF E
<1>2. (file' = file /\ dirty' = dirty)
        \/ (file' = E /\ (dirty' = dirty \/ dirty' = [dirty EXCEPT ![c] = @ \ {t}]))
  BY Zenon DEF E
<1>3. /\ DOMAIN dirty' = Caches
      /\ \A b \in Caches : dirty'[b] \subseteq dirty[b] /\ (b # c => dirty'[b] = dirty[b])
      /\ dirty[c] \subseteq dirty'[c] \cup {t}
  BY <1>1, <1>2 DEF TypeOK
<1>4. TypeOK'
  BY <1>1, <1>2, <1>3, Zenon DEF TypeOK
<1>5. ASSUME NEW b \in Caches, NEW u \in Tables(b), u \notin dirty'[b]
      PROVE  mem[b][u] = file'[b][u]
  <2>1. CASE u \notin dirty[b]
    <3>1. mem[b][u] = file[b][u] /\ file \in Image
      BY <2>1, Zenon DEF Inv, DataInv, TypeOK
    <3>2. b = "l2" \/ b = "rc"
      BY Zenon DEF Caches
    <3> QED
      BY <1>1, <1>2, <3>1, <3>2, Zenon DEF Image, Tables, Caches
  <2>2. CASE u \in dirty[b]
    <3>1. b = c /\ u = t /\ file' = E
      BY <1>2, <1>3, <1>5, <2>2, Zenon
    <3>2. c = "l2" \/ c = "rc"
      BY Zenon DEF Caches
    <3>3. file \in Image
      BY <1>1, Zenon DEF TypeOK
    <3> QED
      BY <1>1, <3>1, <3>2, <3>3, Zenon DEF Image, Tables
  <2> QED
    BY <2>1, <2>2, Zenon
<1>6. DataInv'
  BY <1>4, <1>5, Zenon DEF Inv, DataInv, NoDependencyCycle
<1>7. ASSUME Accurate
      PROVE  /\ Cover(file', disk) /\ Apart(file', disk)
             /\ Live(mem, file', disk, pending, depends, stack')
  <2>1. /\ Cover(file, disk) /\ Apart(file, disk)
        /\ Live(mem, file, disk, pending, depends, stack)
    BY <1>7, Zenon DEF Inv, OrderInv
  <2>2. Window(stack) => Window(stack')
    BY <1>7, Zenon DEF Same, Accurate, Acc
  <2>3. ~depends[c] /\ \A g \in Guest : Linking(stack', g) => Linking(stack, g)
    BY <1>7, Zenon DEF Same, Accurate, Acc
  <2>4. c = "l2" => Cover(E, disk) /\ Apart(E, disk)
                     /\ Live(mem, E, disk, pending, depends, stack)
    <3>1. SUFFICES ASSUME c = "l2"
                   PROVE  Cover(E, disk) /\ Apart(E, disk)
                          /\ Live(mem, E, disk, pending, depends, stack)
      BY Zenon
    <3>2. /\ t \in Guest /\ E.l2[t] = mem.l2[t] /\ E.rc = file.rc /\ ~depends["l2"]
          /\ \A h \in Guest \ {t} : E.l2[h] = file.l2[h]
      BY <1>1, <2>3, <3>1, Zenon DEF TypeOK, Image, Tables
    <3> QED
      <4> USE <2>1, <3>2
      <4>1. /\ \A h \in Guest, k \in Cluster : Refers(h, k, E, disk) =>
                 Refers(h, k, file, disk) \/ mem.l2[h] = k
            /\ \A k \in Cluster : Safe(k, E, disk) <=> Safe(k, file, disk)
            /\ \A h \in Guest, k \in Cluster : Stale(h, k, mem, E, disk) => Stale(h, k, mem, file, disk)
        BY Zenon DEF Refers, Safe, Stale
      <4>2. /\ \A h \in Guest, k \in Cluster : mem.l2[h] = k => Safe(k, file, disk) /\ mem.rc[k] > 0
            /\ \A h, i \in Guest, k \in Cluster : mem.l2[h] = k /\ Refers(i, k, file, disk) => h = i
            /\ \A h, i \in Guest, k \in Cluster : mem.l2[h] = k /\ mem.l2[i] = k => h = i
        BY Zenon DEF Live, Owned, Ahead
      <4>3. Cover(E, disk)
        BY <4>1, <4>2, Zenon DEF Cover
      <4>4. Apart(E, disk)
        BY <4>1, <4>2, Zenon DEF Apart
      <4>5. Ahead(mem, E, disk, depends)
        BY <4>1, <4>2, Zenon DEF Ahead, Live
      <4>6. Marked(mem, E, disk, pending, depends, stack)
        BY <4>1, Zenon DEF Marked, Live
      <4> QED
        BY <4>3, <4>4, <4>5, <4>6, Zenon DEF Live
  <2>5. c = "rc" => Cover(E, disk) /\ Apart(E, disk)
                     /\ Live(mem, E, disk, pending, depends, stack)
    <3>1. SUFFICES ASSUME c = "rc"
                   PROVE  Cover(E, disk) /\ Apart(E, disk)
                          /\ Live(mem, E, disk, pending, depends, stack)
      BY Zenon
    <3>2. /\ t \in Cluster /\ E.rc[t] = mem.rc[t] /\ E.l2 = file.l2 /\ ~depends["rc"]
          /\ \A j \in Cluster \ {t} : E.rc[j] = file.rc[j]
      BY <1>1, <2>3, <3>1, Zenon DEF TypeOK, Image, Tables
    <3> QED
      <4> USE <2>1, <3>2
      <4>1. /\ \A h \in Guest, j \in Cluster : Refers(h, j, E, disk) <=> Refers(h, j, file, disk)
            /\ \A j \in Cluster : Safe(j, file, disk) /\ mem.rc[j] > 0 => Safe(j, E, disk)
            /\ \A h \in Guest, j \in Cluster : Stale(h, j, mem, E, disk) <=>
                 Stale(h, j, mem, file, disk)
        BY Zenon DEF Refers, Safe, Stale
      <4>2. /\ \A h \in Guest, j \in Cluster : mem.l2[h] = j \/ pending[h] = j => mem.rc[j] > 0
            /\ \A h \in Guest, j \in Cluster : Refers(h, j, file, disk) => mem.rc[j] > 0
        BY Zenon DEF Live, Owned, Ahead
      <4>3. Cover(E, disk)
        BY <4>1, <4>2, Zenon DEF Cover
      <4>4. Apart(E, disk)
        BY <4>1, Zenon DEF Apart
      <4>5. Ahead(mem, E, disk, depends)
        BY <4>1, <4>2, Zenon DEF Ahead, Live
      <4>6. Marked(mem, E, disk, pending, depends, stack)
        BY <4>1, <4>2, Zenon DEF Marked, Live
      <4> QED
        BY <4>3, <4>4, <4>5, <4>6, Zenon DEF Live
  <2>6. /\ Cover(file', disk) /\ Apart(file', disk)
        /\ Live(mem, file', disk, pending, depends, stack)
    BY <1>2, <2>1, <2>4, <2>5, Zenon DEF Caches
  <2>7. /\ Window(stack) => Window(stack')
        /\ \A g \in Guest : Linking(stack', g) => Linking(stack, g)
    BY <2>2, <2>3, Zenon
  <2>8. Live(mem, file', disk, pending, depends, stack')
    BY ONLY <2>6, <2>7, OrderDepends, Zenon
  <2> QED
    BY <2>6, <2>8, Zenon
<1>8. file'.hdr = file.hdr
  BY <1>1, <1>2, Zenon
<1>9. OrderInv'
  BY <1>7, <1>8, Zenon DEF Inv, OrderInv, Accurate
<1> QED
  BY <1>6, <1>9, Zenon DEF Inv

-----------------------------------------------------------------------------
(* block/qcow2-cache.c: the steps of the functions of the caches. *)

\* qcow2_cache_entry_flush, up to the write.
LEMMA EntryFlush ==
  ASSUME Inv, entry_flush, setup' = setup
  PROVE  Inv'
<1>1. /\ stack # <<>> /\ Top.op = "entry_flush" /\ Top.at = "start" /\ opened
      /\ Top \in Frames /\ Top = stack[Len(stack)] /\ stack \in Seq(Frames) /\ Shape(stack)
      /\ Top.c \in Caches /\ Top.t \in Tables(Top.c) /\ left' = left
      /\ FrameFact(Top, mem, file, disk, dirty, pending, setup)
      /\ TopFact(Top, ret, mem, file, disk, cached, dirty, depends, setup)
      /\ mem' = mem /\ opened' = opened /\ pending' = pending /\ (Fails => ~Acc(setup))
  BY Active, Zenon DEF entry_flush, At, FrameOK
<1>2. CASE Top.t \notin dirty[Top.c] /\ Return("ok") /\ UNCHANGED <<file, disk, cacheVars>>
  <2>1. ASSUME NEW w \in Frames, Waits(w, Top), PairFact(w, Top, dirty)
        PROVE  TopFact(w, "ok", mem, file, disk, cached, dirty, depends, setup)
    BY <1>1, <1>2, <2>1, Zenon DEF Waits, TopFact, PairFact
  <2>2. Still
    BY <1>1, <1>2, Zenon DEF Still
  <2> QED
    BY <1>1, <1>2, <2>1, <2>2, ReturnStep, Zenon
<1>3. CASE /\ Top.t \in dirty[Top.c] /\ depends[Top.c]
           /\ Call(Frame("cache_flush", Other(Top.c), None), "depends")
           /\ UNCHANGED <<file, disk, cacheVars>>
  <2>1. /\ "cache_flush" \in Ops /\ Other(Top.c) \in Args /\ None \in Targets
        /\ "depends" \in Labels /\ Other(Top.c) \in Caches
    BY <1>1, Zenon DEF Ops, Args, Targets, Labels, Other, Caches
  <2>2. ASSUME NEW f \in Frames, NEW g \in Frames, Moved(f, Top, "depends"),
               Started(g, "cache_flush", Other(Top.c), None)
        PROVE  /\ FrameOK(f) /\ FrameOK(g) /\ Waits(f, g)
               /\ FrameFact(f, mem, file, disk, dirty, pending, setup)
               /\ FrameFact(g, mem, file, disk, dirty, pending, setup)
    BY <1>1, <2>1, <2>2, Zenon DEF Moved, Started, FrameOK, Waits, FrameFact
  <2>3. Still
    BY <1>1, <1>3, Zenon DEF Still
  <2> QED
    BY <1>1, <1>3, <2>1, <2>2, <2>3, CallStep, Zenon

<1>4. ASSUME Top.t \in dirty[Top.c], ~depends[Top.c], Goto("write"), ret' = ret
      PROVE  \E f \in Frames : /\ stack' = [stack EXCEPT ![Len(stack)] = f]
                               /\ Moved(f, Top, "write") /\ Replaces(Top, f) /\ FrameOK(f)
                               /\ \A D : FrameFact(f, mem, file, D, dirty, pending, setup)
                               /\ \A D : TopFact(f, ret', mem, file, D, cached, dirty, depends, setup)
  <2> DEFINE f == [Top EXCEPT !.at = "write"]
  <2>1. /\ f \in Frames /\ Moved(f, Top, "write")
        /\ stack' = [stack EXCEPT ![Len(stack)] = f]
    BY <1>1, <1>4, StackForms, Zenon DEF Goto, Labels
  <2> HIDE DEF f
  <2>2. Replaces(Top, f) /\ FrameOK(f)
    BY <1>1, <2>1, Zenon DEF Moved, Replaces, FrameOK
  <2>3. \A D : FrameFact(f, mem, file, D, dirty, pending, setup)
    BY <1>1, <2>1, Zenon DEF Moved, FrameFact
  <2>4. \A D : TopFact(f, ret', mem, file, D, cached, dirty, depends, setup)
    BY <1>1, <1>4, <2>1, Zenon DEF Moved, TopFact
  <2> QED
    BY <2>1, <2>2, <2>3, <2>4, ZenonT(30)
<1>5. CASE /\ Top.t \in dirty[Top.c] /\ ~depends[Top.c] /\ flush_file /\ Goto("write")
           /\ ret' = ret
           /\ depends_on_flush' = [depends_on_flush EXCEPT ![Top.c] = FALSE]
           /\ UNCHANGED <<cached, dirty, depends>>
  <2>1. PICK f \in Frames : /\ stack' = [stack EXCEPT ![Len(stack)] = f]
                            /\ Moved(f, Top, "write") /\ Replaces(Top, f) /\ FrameOK(f)
                            /\ FrameFact(f, mem, file, disk', dirty, pending, setup)
                            /\ TopFact(f, ret', mem, file, disk', cached, dirty, depends, setup)
    BY <1>4, <1>5, ZenonT(30)
  <2>2. /\ Quiet(mem, file, disk, dirty, pending, setup, mem', file', disk', dirty', pending')
        /\ FrameFact(f, mem', file', disk', dirty', pending', setup)
        /\ TopFact(f, ret', mem', file', disk', cached', dirty', depends', setup)
    BY <1>1, <1>5, <2>1, Zenon DEF flush_file, Quiet
  <2>3. Follows(Top, f)
    BY <2>1, Zenon DEF Follows
  <2>4. StackInv' /\ Sets(stack, stack', f)
    <3>1. StackInv /\ setup' = setup
      BY Zenon DEF Inv
    <3> QED
      BY <1>1, <2>1, <2>2, <2>3, <3>1, StackSet, Zenon
  <2>5. Same(stack, stack')
    <3>1. stack' \in Seq(Frames)
      BY <2>4, Zenon DEF StackInv
    <3> QED
      BY <1>1, <2>3, <2>4, <3>1, SameMoves, Zenon
  <2>6. depends_on_flush' \in [Caches -> BOOLEAN] /\ ret' \in {"ok", "err"}
    BY <1>5, Zenon DEF Inv, DataInv, TypeOK
  <2> QED
    BY <1>1, <1>5, <2>4, <2>5, <2>6, FlushStep, Zenon
<1>6. CASE Fails /\ Return("err") /\ UNCHANGED <<file, disk, cacheVars>>
  BY <1>1, <1>6, ErrorStep, Zenon DEF Still
<1>7. CASE /\ Top.t \in dirty[Top.c] /\ ~depends[Top.c] /\ Goto("write")
           /\ UNCHANGED <<ret, file, disk, cacheVars>>
  <2>1. PICK f \in Frames : /\ stack' = [stack EXCEPT ![Len(stack)] = f]
                            /\ Moved(f, Top, "write") /\ Replaces(Top, f) /\ FrameOK(f)
                            /\ FrameFact(f, mem, file, disk, dirty, pending, setup)
                            /\ TopFact(f, ret', mem, file, disk, cached, dirty, depends, setup)
    BY <1>4, <1>7, Zenon
  <2>2. Still /\ Follows(Top, f) /\ ret' \in {"ok", "err"}
    BY <1>1, <1>7, <2>1, Zenon DEF Still, Follows, Inv, DataInv, TypeOK
  <2> QED
    BY <1>1, <2>1, <2>2, SetStep, Zenon
<1> QED
  BY <1>1, <1>2, <1>3, <1>5, <1>6, <1>7, Zenon DEF entry_flush, cacheVars

\* qcow2_cache_entry_flush, when the dependency was flushed.
LEMMA EntryFlushDepended ==
  ASSUME Inv, entry_flush_depended, setup' = setup
  PROVE  Inv'
<1>1. /\ stack # <<>> /\ Top.op = "entry_flush" /\ Top.at = "depends" /\ opened
      /\ Top \in Frames /\ Top = stack[Len(stack)] /\ stack \in Seq(Frames) /\ Shape(stack)
      /\ Top.c \in Caches /\ Top.t \in Tables(Top.c)
      /\ FrameFact(Top, mem, file, disk, dirty, pending, setup)
      /\ TopFact(Top, ret, mem, file, disk, cached, dirty, depends, setup)
      /\ UNCHANGED <<mem, file, disk, cached, dirty, opened, pending, left, setup>>
  BY Active, Zenon DEF entry_flush_depended, At, FrameOK
<1>2. CASE ret = "err" /\ Return("err") /\ UNCHANGED <<depends, depends_on_flush>>
  <2>1. ~Acc(setup)
    BY <1>1, <1>2, Zenon DEF TopFact
  <2> QED
    BY <1>1, <1>2, <2>1, ErrorStep, ZenonT(30) DEF Still, cacheVars
<1>3. CASE ret = "ok" /\ dependency_met(Top.c) /\ Goto("write") /\ ret' = ret
  <2> DEFINE f == [Top EXCEPT !.at = "write"]
  <2>1. /\ f \in Frames /\ Moved(f, Top, "write")
        /\ stack' = [stack EXCEPT ![Len(stack)] = f]
    BY <1>1, <1>3, StackForms, Zenon DEF Goto, Labels
  <2> HIDE DEF f
  <2>2. /\ depends' \in [Caches -> BOOLEAN] /\ depends_on_flush' \in [Caches -> BOOLEAN]
        /\ ~depends'[Top.c] /\ \A c \in Caches \ {Top.c} : depends'[c] = depends[c]
        /\ ret' = "ok"
    BY <1>1, <1>3, Zenon DEF dependency_met, Inv, DataInv, TypeOK
  <2>3. Follows(Top, f) /\ FrameOK(f)
    BY <1>1, <2>1, Zenon DEF Moved, Follows, Replaces, FrameOK
  <2>4. FrameFact(f, mem', file', disk', dirty', pending', setup)
    BY <1>1, <2>1, Zenon DEF Moved, FrameFact
  <2>5. TopFact(f, ret', mem', file', disk', cached', dirty', depends', setup)
    BY <2>1, <2>2, <1>1, Zenon DEF Moved, TopFact
  <2>6. Quiet(mem, file, disk, dirty, pending, setup, mem', file', disk', dirty', pending')
    BY <1>1, Zenon DEF Quiet
  <2>7. StackInv' /\ Sets(stack, stack', f)
    <3>1. StackInv /\ setup' = setup
      BY Zenon DEF Inv
    <3> QED
      BY <1>1, <2>1, <2>3, <2>4, <2>5, <2>6, <3>1, StackSet, Zenon
  <2>8. Same(stack, stack')
    <3>1. stack' \in Seq(Frames)
      BY <2>7, Zenon DEF StackInv
    <3> QED
      BY <1>1, <2>1, <2>3, <2>7, <3>1, SameMoves, Zenon
  <2>9. Flushed(Other(Top.c), file, disk, dirty)
    BY <1>1, <1>3, Zenon DEF TopFact
  <2>10. /\ NoDependencyCycle'
         /\ depends["l2"] => depends'["l2"] \/ Flushed("rc", file, disk, dirty)
         /\ depends["rc"] => depends'["rc"] \/ Flushed("l2", file, disk, dirty)
    BY <1>1, <2>2, <2>9, Zenon DEF NoDependencyCycle, Other, Caches, Inv, DataInv
  <2>11. /\ Window(stack) => Window(stack') \/ depends'["rc"]
         /\ \A g \in Guest : Linking(stack', g) =>
                \/ Linking(stack, g)
                \/ depends'["l2"] /\ ~depends'["rc"] /\ ~Window(stack)
    BY <2>8, Zenon DEF Same
  <2>12. ret' \in {"ok", "err"}
    BY <2>2, Zenon
  <2> QED
    BY <1>1, <2>2, <2>7, <2>10, <2>11, <2>12, DependsStep, Zenon
<1> QED
  BY <1>2, <1>3, Zenon DEF entry_flush_depended

\* qcow2_cache_entry_flush, the write.
LEMMA EntryFlushWrite ==
  ASSUME Inv, entry_flush_write, setup' = setup
  PROVE  Inv'
<1> DEFINE c == Top.c
           t == Top.t
           E == [file EXCEPT ![c][t] = mem[c][t]]
<1>1. /\ stack # <<>> /\ Top.op = "entry_flush" /\ Top.at = "write" /\ opened
      /\ Top \in Frames /\ Top = stack[Len(stack)] /\ stack \in Seq(Frames) /\ Shape(stack)
      /\ c \in Caches /\ t \in Tables(c) /\ ~depends[c] /\ (Fails => ~Acc(setup))
      /\ UNCHANGED <<mem, disk, cached, depends, depends_on_flush, opened, pending, left, setup>>
  BY Active, Zenon DEF entry_flush_write, At, FrameOK, TopFact, write_file, write_file_fails
<1>2. \/ /\ file' = E /\ dirty' = [dirty EXCEPT ![c] = @ \ {t}] /\ Return("ok")
      \/ Fails /\ (file' = file \/ file' = E) /\ dirty' = dirty /\ Return("err")
  BY Zenon DEF entry_flush_write, write_file, write_file_fails, unwritten
<1>3. /\ \A b \in Caches : dirty'[b] \subseteq dirty[b]
      /\ ret' = "ok" => dirty'[c] = dirty[c] \ {t}
      /\ ret' \in {"ok", "err"} /\ (Acc(setup) => ret' = "ok")
      /\ stack' = Below(stack)
  BY <1>1, <1>2 DEF Return, Below, Inv, DataInv, TypeOK
<1>4. dirty["l2"] = {} => file'.l2 = file.l2
  <2>1. file \in Image
    BY Zenon DEF Inv, DataInv, TypeOK
  <2>2. dirty["l2"] = {} /\ c = "l2" => mem[c][t] = file[c][t]
    BY <1>1, Zenon DEF Inv, DataInv
  <2>3. dirty["l2"] = {} /\ c = "l2" => E = file
    BY <1>1, <2>1, <2>2, ImageRead
  <2>4. c = "rc" => E.l2 = file.l2
    BY <2>1, Zenon DEF Image
  <2> QED
    BY <1>1, <1>2, <2>3, <2>4, Zenon DEF Caches
<1>5. Quiet(mem, file, disk, dirty, pending, setup, mem', file', disk', dirty', pending')
  BY <1>1, <1>3, <1>4, Zenon DEF Quiet
<1>6. ASSUME NEW w \in Frames, Waits(w, Top), PairFact(w, Top, dirty)
      PROVE  TopFact(w, ret', mem', file', disk', cached', dirty', depends', setup)
  BY <1>1, <1>3, <1>6, Zenon DEF Waits, TopFact, PairFact
<1>7. StackInv' /\ Pops(stack, stack')
  <2>1. StackInv /\ setup' = setup
    BY Zenon DEF Inv
  <2> QED
    BY <1>1, <1>3, <1>5, <1>6, <2>1, StackPop, Zenon
<1>8. Same(stack, stack')
  <2>1. stack' \in Seq(Frames)
    BY <1>7, Zenon DEF StackInv
  <2> QED
    BY <1>1, <1>7, <2>1, SameMoves, Zenon
<1>9. \/ file' = file /\ dirty' = dirty
      \/ file' = E /\ (dirty' = dirty \/ dirty' = [dirty EXCEPT ![c] = @ \ {t}])
  BY <1>2, Zenon
<1> QED
  BY <1>1, <1>3, <1>7, <1>8, <1>9, FileStep, Zenon

\* A frame with new values for some of its locals.
Edited(f, e, at, t, todo, failed) ==
  /\ f.op = e.op /\ f.at = at /\ f.c = e.c /\ f.t = t /\ f.todo = todo /\ f.failed = failed

\* The set of tables left to visit is such a value.
LEMMA FrameTodo ==
  ASSUME NEW e \in Frames, NEW at \in Labels, NEW T \in SUBSET (Guest \cup Cluster)
  PROVE  /\ [e EXCEPT !.at = at, !.todo = T] \in Frames
         /\ Edited([e EXCEPT !.at = at, !.todo = T], e, at, e.t, T, e.failed)
  BY Zenon DEF Frames, Edited

\* The same for the steps of a loop.
LEMMA FrameEdits ==
  ASSUME NEW e \in Frames, NEW at \in Labels, NEW k \in Targets, NEW b \in BOOLEAN
  PROVE  /\ [e EXCEPT !.todo = @ \ {k}, !.failed = @ \/ b] \in Frames
         /\ Edited([e EXCEPT !.todo = @ \ {k}, !.failed = @ \/ b],
                   e, e.at, e.t, e.todo \ {k}, e.failed \/ b)
         /\ [e EXCEPT !.at = at, !.t = k, !.todo = @ \ {k}] \in Frames
         /\ Edited([e EXCEPT !.at = at, !.t = k, !.todo = @ \ {k}],
                   e, at, k, e.todo \ {k}, e.failed)
         /\ [e EXCEPT !.at = at, !.t = k, !.todo = @ \ {k}, !.failed = @ \/ b] \in Frames
         /\ Edited([e EXCEPT !.at = at, !.t = k, !.todo = @ \ {k}, !.failed = @ \/ b],
                   e, at, k, e.todo \ {k}, e.failed \/ b)
  BY Zenon DEF Frames, Edited

\* qcow2_cache_flush begins.
LEMMA CacheFlush ==
  ASSUME Inv, cache_flush, setup' = setup
  PROVE  Inv'
<1>1. /\ stack # <<>> /\ Top.op = "cache_flush" /\ Top.at = "start" /\ opened
      /\ Top \in Frames /\ Top.c \in Caches /\ left' = left /\ Still /\ ret' = ret
      /\ FrameFact(Top, mem, file, disk, dirty, pending, setup)
      /\ TopFact(Top, ret, mem, file, disk, cached, dirty, depends, setup)
  BY Active, Zenon DEF cache_flush, At, FrameOK, Still
<1>2. /\ cached[Top.c] \subseteq Tables(Top.c) /\ dirty[Top.c] \subseteq cached[Top.c]
      /\ cached[Top.c] \in SUBSET (Guest \cup Cluster) /\ ret \in {"ok", "err"}
  BY <1>1, Zenon DEF Inv, DataInv, TypeOK, Tables, Caches
<1>3. PICK f : /\ stack' = [stack EXCEPT ![Len(stack)] = f]
               /\ f = [Top EXCEPT !.at = "loop", !.todo = cached[Top.c]]
  BY Zenon DEF cache_flush
<1>4. f \in Frames /\ Edited(f, Top, "loop", Top.t, cached[Top.c], Top.failed)
  <2>1. "loop" \in Labels
    BY Zenon DEF Labels
  <2> QED
    BY <1>1, <1>2, <1>3, <2>1, FrameTodo, Zenon
<1>5. /\ Follows(Top, f) /\ FrameOK(f)
      /\ FrameFact(f, mem, file, disk, dirty, pending, setup)
      /\ TopFact(f, ret', mem, file, disk, cached, dirty, depends, setup)
  BY <1>1, <1>2, <1>4, Zenon DEF Edited, Follows, Replaces, FrameOK, FrameFact, TopFact
<1> QED
  BY <1>1, <1>2, <1>3, <1>4, <1>5, SetStep, Zenon

\* qcow2_cache_flush looks at an entry.
LEMMA CacheFlushEntry ==
  ASSUME Inv, cache_flush_entry, setup' = setup
  PROVE  Inv'
<1>1. /\ stack # <<>> /\ Top.op = "cache_flush" /\ Top.at = "loop" /\ opened
      /\ Top \in Frames /\ Top.c \in Caches /\ left' = left /\ Still /\ ret' = "ok"
      /\ Top.todo \subseteq Tables(Top.c)
      /\ FrameFact(Top, mem, file, disk, dirty, pending, setup)
      /\ TopFact(Top, ret, mem, file, disk, cached, dirty, depends, setup)
  BY Active, Zenon DEF cache_flush_entry, At, FrameOK, Still
<1>2. PICK t \in Top.todo :
        stack' = Append([stack EXCEPT ![Len(stack)] =
                          [Top EXCEPT !.todo = @ \ {t}, !.failed = @ \/ ret = "err"]],
                        Frame("entry_flush", Top.c, t))
  BY Zenon DEF cache_flush_entry
<1>3. PICK f, g : /\ stack' = Append([stack EXCEPT ![Len(stack)] = f], g)
                  /\ f = [Top EXCEPT !.todo = @ \ {t}, !.failed = @ \/ ret = "err"]
                  /\ g = Frame("entry_flush", Top.c, t)
  BY <1>2, Zenon
<1>4. /\ f \in Frames
      /\ Edited(f, Top, "loop", Top.t, Top.todo \ {t}, Top.failed \/ ret = "err")
      /\ g \in Frames /\ Started(g, "entry_flush", Top.c, t) /\ t \in Tables(Top.c)
  <2>1. /\ "entry_flush" \in Ops /\ Top.c \in Args /\ t \in Targets /\ (ret = "err") \in BOOLEAN
        /\ t \in Tables(Top.c) /\ Top.at \in Labels
    BY <1>1, Zenon DEF Ops, Args, Targets, Tables, Caches, Frames
  <2> QED
    BY <1>1, <1>3, <2>1, FrameEdits, FrameForms, Zenon
<1>5. /\ Replaces(Top, f) /\ FrameOK(f) /\ FrameOK(g) /\ Waits(f, g) /\ g.at = "start"
  BY <1>1, <1>4, Zenon DEF Edited, Started, Replaces, FrameOK, Waits
<1>6. /\ FrameFact(f, mem, file, disk, dirty, pending, setup)
      /\ FrameFact(g, mem, file, disk, dirty, pending, setup)
  BY <1>1, <1>4, Zenon DEF Edited, Started, FrameFact, TopFact
<1>7. PairFact(f, g, dirty)
  <2>1. ret \in {"ok", "err"}
    BY Zenon DEF Inv, DataInv, TypeOK
  <2> QED
    BY <1>1, <1>4, <2>1, Zenon DEF Edited, Started, PairFact, TopFact
<1> QED
  BY <1>1, <1>3, <1>4, <1>5, <1>6, <1>7, PushStep, Zenon

\* qcow2_cache_flush has looked at every entry.
LEMMA CacheFlushEnd ==
  ASSUME Inv, cache_flush_end, setup' = setup
  PROVE  Inv'
<1>1. /\ stack # <<>> /\ Top.op = "cache_flush" /\ Top.at = "loop" /\ opened
      /\ Top \in Frames /\ Top = stack[Len(stack)] /\ stack \in Seq(Frames) /\ Shape(stack)
      /\ Top.c \in Caches /\ Top.todo = {} /\ (Fails => ~Acc(setup))
      /\ FrameFact(Top, mem, file, disk, dirty, pending, setup)
      /\ TopFact(Top, ret, mem, file, disk, cached, dirty, depends, setup)
      /\ UNCHANGED <<mem, cacheVars, opened, pending, left, setup>>
  BY Active, Zenon DEF cache_flush_end, At, FrameOK
<1>2. CASE Return("err") /\ UNCHANGED <<file, disk>> /\ (Top.failed \/ ret = "err" \/ Fails)
  <2>1. ~Acc(setup) /\ Still
    BY <1>1, <1>2, Zenon DEF Still, FrameFact, TopFact
  <2> QED
    BY <1>1, <1>2, <2>1, ErrorStep, Zenon
<1>3. CASE flush_file /\ Return("ok") /\ ~Top.failed /\ ret # "err"
  <2>1. /\ disk' = file /\ file' = file /\ ret' = "ok" /\ stack' = Below(stack)
        /\ UNCHANGED <<cached, dirty, depends, depends_on_flush>>
    BY <1>1, <1>3, Zenon DEF flush_file, Return, Below, cacheVars
  <2>2. Flushed(Top.c, file', disk', dirty')
    <3>1. ret = "ok"
      BY <1>3, Zenon DEF Inv, DataInv, TypeOK
    <3> QED
      BY <1>1, <1>3, <2>1, <3>1, Zenon DEF TopFact, Flushed
  <2>3. ASSUME NEW w \in Frames, Waits(w, Top)
        PROVE  TopFact(w, ret', mem', file', disk', cached', dirty', depends', setup)
    BY <1>1, <2>1, <2>2, <2>3, Zenon DEF Waits, TopFact
  <2>4. Quiet(mem, file, disk, dirty, pending, setup, mem', file', disk', dirty', pending')
    BY <1>1, <2>1, Zenon DEF Quiet
  <2>5. StackInv' /\ Pops(stack, stack')
    <3>1. StackInv /\ setup' = setup
      BY Zenon DEF Inv
    <3> QED
      BY <1>1, <2>1, <2>3, <2>4, <3>1, StackPop, Zenon
  <2>6. Same(stack, stack')
    <3>1. stack' \in Seq(Frames)
      BY <2>5, Zenon DEF StackInv
    <3> QED
      BY <1>1, <2>5, <3>1, SameMoves, Zenon
  <2>7. depends_on_flush' \in [Caches -> BOOLEAN]
    BY <2>1, Zenon DEF Inv, DataInv, TypeOK
  <2> QED
    BY <1>1, <1>3, <2>1, <2>5, <2>6, <2>7, FlushStep, Zenon
<1> QED
  BY <1>2, <1>3, Zenon DEF cache_flush_end

\* qcow2_cache_set_dependency is called for a discard or for the linking of an
\* allocation, at the bottom of the stack.
LEMMA DependencyCaller ==
  ASSUME Inv, stack # <<>>, Top.op = "set_dependency"
  PROVE  /\ Len(stack) = 2 /\ stack[1].at = "ordered"
         /\ \/ stack[1].op = "update_refcount" /\ stack[1].c < 0 /\ Top.c = "rc"
            \/ stack[1].op = "link" /\ Top.c = "l2"
<1> DEFINE n == Len(stack)
<1>1. /\ Shape(stack) /\ n \in Nat \ {0} /\ Top = stack[n]
  BY Active, Zenon
<1>2. n # 1
  BY <1>1, Zenon DEF Shape, Bottom
<1>3. n - 1 \in 1 .. n - 1 /\ n - 1 \in 1 .. n /\ (n - 1) + 1 = n
  BY <1>1, <1>2
<1>4. Waits(stack[n - 1], stack[n])
  BY <1>1, <1>3, Zenon DEF Shape
<1>5. /\ stack[n - 1].at = "ordered"
      /\ \/ stack[n - 1].op = "update_refcount" /\ stack[n - 1].c < 0 /\ Top.c = "rc"
         \/ stack[n - 1].op = "link" /\ Top.c = "l2"
  BY <1>1, <1>4, Zenon DEF Waits
<1>6. ASSUME stack[n - 1].op = "update_refcount", stack[n - 1].c < 0
      PROVE  n - 1 = 1
  BY <1>1, <1>3, <1>6, Zenon DEF Shape
<1>7. ASSUME stack[n - 1].op = "link"
      PROVE  n - 1 = 1
  <2>1. n - 1 = 1 \/ (1 \in 1 .. n /\ 1 < n - 1)
    <3>1. \A m \in Nat : m # 0 /\ m # 1 => m - 1 = 1 \/ (1 \in 1 .. m /\ 1 < m - 1)
      OBVIOUS
    <3> QED
      BY <1>1, <1>2, <3>1, Zenon
  <2>2. ~May(stack[1].op, "link")
    BY Zenon DEF May
  <2>3. 1 \in 1 .. n /\ 1 < n - 1 => May(stack[1].op, stack[n - 1].op)
    BY <1>1, <1>3, Zenon DEF Shape
  <2> QED
    BY <1>7, <2>1, <2>2, <2>3, Zenon
<1> QED
  BY <1>1, <1>2, <1>3, <1>5, <1>6, <1>7

\* qcow2_cache_set_dependency returns, with the dependency in place.
LEMMA DependencyReturns ==
  ASSUME Inv, stack # <<>>, Top.op = "set_dependency", Return("ok"), opened,
         depends'[Top.c], ~depends'[Other(Top.c)],
         depends' \in [Caches -> BOOLEAN], depends_on_flush' \in [Caches -> BOOLEAN],
         depends[Other(Top.c)] => Flushed(Top.c, file, disk, dirty),
         UNCHANGED <<mem, file, disk, cached, dirty, opened, pending, left, setup>>
  PROVE  Inv'
<1>1. /\ StackInv /\ stack \in Seq(Frames) /\ Top \in Frames /\ Top.c \in Caches
  BY Active, Zenon DEF Inv, FrameOK, StackInv
<1>2. stack' = Below(stack) /\ ret' = "ok" /\ ret' \in {"ok", "err"}
  BY Zenon DEF Return, Below
<1>3. Quiet(mem, file, disk, dirty, pending, setup, mem', file', disk', dirty', pending')
  BY Zenon DEF Quiet
<1>4. ASSUME NEW w \in Frames, Waits(w, Top)
      PROVE  TopFact(w, ret', mem', file', disk', cached', dirty', depends', setup)
  BY <1>2, <1>4, Zenon DEF Waits, TopFact
<1>5. StackInv' /\ Pops(stack, stack')
  BY <1>1, <1>2, <1>3, <1>4, StackPop, Zenon
<1>6. /\ NoDependencyCycle'
      /\ depends["l2"] => depends'["l2"] \/ Flushed("rc", file, disk, dirty)
      /\ depends["rc"] => depends'["rc"] \/ Flushed("l2", file, disk, dirty)
  BY <1>1, Zenon DEF NoDependencyCycle, Other, Caches
<1>7. /\ Window(stack) => depends'["rc"]
      /\ \A g \in Guest : Linking(stack', g) =>
           depends'["l2"] /\ ~depends'["rc"] /\ ~Window(stack)
  <2>1. stack' \in Seq(Frames) /\ Len(stack') = 1 /\ stack'[1] = stack[1]
    <3>1. Len(stack) = 2
      BY DependencyCaller, Zenon
    <3>2. 1 \in 1 .. 2 - 1 /\ 2 - 1 = 1
      OBVIOUS
    <3> QED
      BY <1>5, <3>1, <3>2, Zenon DEF StackInv, Pops
  <2>2. CASE stack[1].op = "update_refcount" /\ Top.c = "rc"
    BY <2>1, <2>2, Zenon DEF Window, Linking
  <2>3. CASE stack[1].op = "link" /\ Top.c = "l2"
    BY <2>1, <2>3, Zenon DEF Window, Linking, Other
  <2> QED
    BY <2>2, <2>3, DependencyCaller, Zenon
<1> QED
  BY <1>2, <1>5, <1>6, <1>7, DependsStep, Zenon

\* qcow2_cache_set_dependency
LEMMA SetDependency ==
  ASSUME Inv, set_dependency, setup' = setup
  PROVE  Inv'
<1>1. /\ stack # <<>> /\ Top.op = "set_dependency" /\ Top.at = "start" /\ opened
      /\ Top \in Frames /\ Top.c \in Caches
      /\ FrameFact(Top, mem, file, disk, dirty, pending, setup)
      /\ UNCHANGED <<mem, file, disk, cached, dirty, depends_on_flush, opened, pending, left, setup>>
  BY Active, Zenon DEF set_dependency, At, FrameOK
<1>2. CASE Call(Frame("cache_flush", Top.c, None), "flushed") /\ UNCHANGED depends
  <2>1. /\ "cache_flush" \in Ops /\ Top.c \in Args /\ None \in Targets
        /\ "flushed" \in Labels
    BY <1>1, Zenon DEF Ops, Args, Targets, Labels
  <2>2. ASSUME NEW f \in Frames, NEW g \in Frames, Moved(f, Top, "flushed"),
               Started(g, "cache_flush", Top.c, None)
        PROVE  /\ FrameOK(f) /\ FrameOK(g) /\ Waits(f, g)
               /\ FrameFact(f, mem, file, disk, dirty, pending, setup)
               /\ FrameFact(g, mem, file, disk, dirty, pending, setup)
    BY <1>1, <2>1, <2>2, Zenon DEF Moved, Started, FrameOK, Waits, FrameFact
  <2>3. Still
    BY <1>1, <1>2, Zenon DEF Still, cacheVars
  <2> QED
    BY <1>1, <1>2, <2>1, <2>2, <2>3, CallStep, Zenon
<1>3. CASE /\ ~must_flush_first(Top.c)
           /\ depends' = [depends EXCEPT ![Top.c] = TRUE] /\ Return("ok")
  <2>1. /\ depends' \in [Caches -> BOOLEAN] /\ depends_on_flush' \in [Caches -> BOOLEAN]
        /\ depends'[Top.c] /\ ~depends'[Other(Top.c)] /\ ~depends[Other(Top.c)]
    BY <1>1, <1>3, Zenon DEF must_flush_first, Other, Caches, Inv, DataInv, TypeOK
  <2> QED
    BY <1>1, <1>3, <2>1, DependencyReturns, Zenon
<1> QED
  BY <1>2, <1>3, Zenon DEF set_dependency

\* qcow2_cache_set_dependency, when the cache was flushed.
LEMMA SetDependencyFlushed ==
  ASSUME Inv, set_dependency_flushed, setup' = setup
  PROVE  Inv'
<1>1. /\ stack # <<>> /\ Top.op = "set_dependency" /\ Top.at = "flushed" /\ opened
      /\ Top \in Frames /\ Top.c \in Caches
      /\ TopFact(Top, ret, mem, file, disk, cached, dirty, depends, setup)
      /\ UNCHANGED <<mem, file, disk, cached, dirty, opened, pending, left, setup>>
  BY Active, Zenon DEF set_dependency_flushed, At, FrameOK
<1>2. CASE ret = "err" /\ Return("err") /\ UNCHANGED <<depends, depends_on_flush>>
  <2>1. ~Acc(setup) /\ Still
    BY <1>1, <1>2, Zenon DEF TopFact, Still, cacheVars
  <2> QED
    BY <1>1, <1>2, <2>1, ErrorStep, Zenon
<1>3. CASE /\ ret = "ok" /\ Return("ok")
           /\ depends' = [depends EXCEPT ![Other(Top.c)] = FALSE, ![Top.c] = TRUE]
           /\ depends_on_flush' = [depends_on_flush EXCEPT ![Other(Top.c)] = FALSE]
  <2>1. /\ depends' \in [Caches -> BOOLEAN] /\ depends_on_flush' \in [Caches -> BOOLEAN]
        /\ depends'[Top.c] /\ ~depends'[Other(Top.c)]
    BY <1>1, <1>3, Zenon DEF Other, Caches, Inv, DataInv, TypeOK
  <2>2. Flushed(Top.c, file, disk, dirty)
    BY <1>1, <1>3, Zenon DEF TopFact
  <2> QED
    BY <1>1, <1>3, <2>1, <2>2, DependencyReturns, Zenon
<1> QED
  BY <1>2, <1>3, Zenon DEF set_dependency_flushed

\* A cache is read into, or a table is evicted from it, and qcow2_cache_get returns.
LEMMA GetStep ==
  ASSUME Inv, stack # <<>>, Top.op = "cache_get", NEW v \in {"ok", "err"}, Return(v),
         mem' = mem, Acc(setup) => v = "ok", NEW ca, cached' = [cached EXCEPT ![Top.c] = ca],
         dirty[Top.c] \subseteq ca, ca \subseteq Tables(Top.c), v = "ok" => Top.t \in ca,
         UNCHANGED <<file, disk, dirty, depends, depends_on_flush, opened, pending, left, setup>>
  PROVE  Inv'
<1>1. /\ StackInv /\ stack \in Seq(Frames) /\ Top \in Frames /\ Top.c \in Caches /\ opened
      /\ Top = stack[Len(stack)] /\ Shape(stack)
  BY Active, Zenon DEF Inv, FrameOK, StackInv
<1>2. stack' = Below(stack) /\ ret' = v
  BY Zenon DEF Return, Below
<1>3. /\ DOMAIN cached' = Caches /\ cached'["l2"] \subseteq Guest
      /\ cached'["rc"] \subseteq Cluster /\ cached'[Top.c] = ca
      /\ \A c \in Caches : dirty[c] \subseteq cached'[c]
  BY <1>1, Zenon DEF Inv, DataInv, TypeOK, Caches, Tables
<1>4. Quiet(mem, file, disk, dirty, pending, setup, mem', file', disk', dirty', pending')
  BY Zenon DEF Quiet
<1>5. ASSUME NEW w \in Frames, Waits(w, Top)
      PROVE  TopFact(w, ret', mem', file', disk', cached', dirty', depends', setup)
  BY <1>1, <1>2, <1>3, <1>5, Zenon DEF Waits, TopFact
<1>6. StackInv' /\ Pops(stack, stack')
  BY <1>1, <1>2, <1>4, <1>5, StackPop, Zenon
<1>7. Same(stack, stack')
  <2>1. stack' \in Seq(Frames)
    BY <1>6, Zenon DEF StackInv
  <2> QED
    BY <1>1, <1>6, <2>1, SameMoves, Zenon
<1> QED
  BY <1>1, <1>2, <1>3, <1>6, <1>7, CachedStep, Zenon

\* qcow2_cache_get, up to the eviction of another table.
LEMMA CacheGet ==
  ASSUME Inv, cache_get, setup' = setup
  PROVE  Inv'
<1>1. /\ stack # <<>> /\ Top.op = "cache_get" /\ Top.at = "start" /\ opened
      /\ Top \in Frames /\ Top.c \in Caches /\ Top.t \in Tables(Top.c) /\ (Fails => ~Acc(setup))
      /\ FrameFact(Top, mem, file, disk, dirty, pending, setup)
      /\ UNCHANGED <<file, disk, dirty, depends, depends_on_flush, opened, pending, left, setup>>
  BY Active, Zenon DEF cache_get, At, FrameOK
<1>2. /\ DOMAIN cached = Caches /\ cached[Top.c] \subseteq Tables(Top.c)
      /\ dirty[Top.c] \subseteq cached[Top.c] /\ mem \in Image
      /\ Top.t \notin dirty[Top.c] => mem[Top.c][Top.t] = file[Top.c][Top.t]
  BY <1>1, Zenon DEF Inv, DataInv, TypeOK, Caches, Tables
<1>3. CASE Top.t \in cached[Top.c] /\ Return("ok") /\ UNCHANGED <<mem, cached>>
  <2>1. Still
    BY <1>1, <1>3, Zenon DEF Still, cacheVars
  <2>2. ASSUME NEW w \in Frames, Waits(w, Top)
        PROVE  TopFact(w, "ok", mem, file, disk, cached, dirty, depends, setup)
    BY <1>1, <1>3, <2>2, Zenon DEF Waits, TopFact
  <2> QED
    BY <1>1, <1>3, <2>1, <2>2, ReturnStep, Zenon
<1>4. CASE Top.t \notin cached[Top.c] /\ read_table(Top.c, Top.t) /\ Return("ok")
  <2> DEFINE ca == cached[Top.c] \cup {Top.t}
  <2>1. /\ cached' = [cached EXCEPT ![Top.c] = ca] /\ dirty[Top.c] \subseteq ca
        /\ ca \subseteq Tables(Top.c) /\ Top.t \in ca
    BY <1>1, <1>2, <1>4, Zenon DEF read_table
  <2>2. mem' = mem
    <3>1. mem' = [mem EXCEPT ![Top.c][Top.t] = mem[Top.c][Top.t]]
      BY <1>2, <1>4, Zenon DEF read_table
    <3> QED
      BY <1>1, <1>2, <3>1, ImageRead, Zenon
  <2> HIDE DEF ca
  <2> QED
    BY <1>1, <1>4, <2>1, <2>2, GetStep, Zenon
<1>5. CASE Fails /\ Return("err") /\ UNCHANGED <<mem, cached>>
  BY <1>1, <1>5, ErrorStep, Zenon DEF Still, cacheVars
<1>6. ASSUME NEW victim \in cached[Top.c], Top.t \notin cached[Top.c], ret' = "ok",
             UNCHANGED <<mem, cached>>,
             stack' = Append([stack EXCEPT ![Len(stack)] =
                                [Top EXCEPT !.at = "evicted", !.todo = {victim}]],
                             Frame("entry_flush", Top.c, victim))
      PROVE  Inv'
  <2>1. PICK f, g : /\ stack' = Append([stack EXCEPT ![Len(stack)] = f], g)
                    /\ f = [Top EXCEPT !.at = "evicted", !.todo = {victim}]
                    /\ g = Frame("entry_flush", Top.c, victim)
    BY <1>6, Zenon
  <2>2. /\ f \in Frames /\ Edited(f, Top, "evicted", Top.t, {victim}, Top.failed)
        /\ g \in Frames /\ Started(g, "entry_flush", Top.c, victim)
        /\ victim \in Tables(Top.c)
    <3>1. /\ "entry_flush" \in Ops /\ Top.c \in Args /\ victim \in Targets
          /\ victim \in Tables(Top.c) /\ "evicted" \in Labels
          /\ {victim} \in SUBSET (Guest \cup Cluster)
      BY <1>1, <1>2, Zenon DEF Ops, Args, Targets, Tables, Caches, Labels
    <3> QED
      BY <1>1, <2>1, <3>1, FrameTodo, FrameForms, Zenon
  <2>3. /\ Replaces(Top, f) /\ FrameOK(f) /\ FrameOK(g) /\ Waits(f, g) /\ g.at = "start"
    BY <1>1, <2>2, Zenon DEF Edited, Started, Replaces, FrameOK, Waits
  <2>4. /\ FrameFact(f, mem, file, disk, dirty, pending, setup)
        /\ FrameFact(g, mem, file, disk, dirty, pending, setup)
        /\ PairFact(f, g, dirty)
    BY <1>1, <1>2, <1>6, <2>2, Zenon DEF Edited, Started, FrameFact, PairFact
  <2>5. Still
    BY <1>1, <1>6, Zenon DEF Still, cacheVars
  <2> QED
    BY <1>1, <1>6, <2>1, <2>2, <2>3, <2>4, <2>5, PushStep, Zenon
<1> QED
  BY <1>1, <1>3, <1>4, <1>5, <1>6, Zenon DEF cache_get

\* qcow2_cache_get, when another table was evicted.
LEMMA CacheGetEvicted ==
  ASSUME Inv, cache_get_evicted, setup' = setup
  PROVE  Inv'
<1>1. /\ stack # <<>> /\ Top.op = "cache_get" /\ Top.at = "evicted" /\ opened
      /\ Top \in Frames /\ Top.c \in Caches /\ Top.t \in Tables(Top.c) /\ (Fails => ~Acc(setup))
      /\ FrameFact(Top, mem, file, disk, dirty, pending, setup)
      /\ TopFact(Top, ret, mem, file, disk, cached, dirty, depends, setup)
      /\ UNCHANGED <<file, disk, dirty, depends, depends_on_flush, opened, pending, left, setup>>
  BY Active, Zenon DEF cache_get_evicted, At, FrameOK
<1>2. /\ DOMAIN cached = Caches /\ cached[Top.c] \subseteq Tables(Top.c)
      /\ dirty[Top.c] \subseteq cached[Top.c] /\ mem \in Image /\ ret \in {"ok", "err"}
      /\ mem[Top.c][Top.t] = file[Top.c][Top.t]
  BY <1>1, Zenon DEF Inv, DataInv, TypeOK, Caches, Tables, FrameFact
<1>3. CASE evict_failed /\ Return("err") /\ UNCHANGED <<mem, cached>>
  <2>1. ~Acc(setup) /\ Still
    BY <1>1, <1>3, Zenon DEF evict_failed, TopFact, Still, cacheVars
  <2> QED
    BY <1>1, <1>3, <2>1, ErrorStep, Zenon
<1>4. CASE ~evict_failed
  <2>1. Top.todo \cap dirty[Top.c] = {}
    BY <1>1, <1>2, <1>4, Zenon DEF evict_failed, TopFact
  <2>2. CASE /\ Return("ok")
             /\ cached' = [cached EXCEPT ![Top.c] = (@ \ Top.todo) \cup {Top.t}]
             /\ mem' = [mem EXCEPT ![Top.c][Top.t] = file[Top.c][Top.t]]
    <3> DEFINE ca == (cached[Top.c] \ Top.todo) \cup {Top.t}
    <3>1. /\ cached' = [cached EXCEPT ![Top.c] = ca] /\ dirty[Top.c] \subseteq ca
          /\ ca \subseteq Tables(Top.c) /\ Top.t \in ca
      BY <1>1, <1>2, <2>1, <2>2, Zenon
    <3>2. mem' = mem
      <4>1. mem' = [mem EXCEPT ![Top.c][Top.t] = mem[Top.c][Top.t]]
        BY <1>2, <2>2, Zenon
      <4> QED
        BY <1>1, <1>2, <4>1, ImageRead
    <3> HIDE DEF ca
    <3> QED
      BY <1>1, <2>2, <3>1, <3>2, GetStep, Zenon
  <2>3. CASE /\ Fails /\ Return("err")
             /\ cached' = [cached EXCEPT ![Top.c] = @ \ Top.todo] /\ UNCHANGED mem
    <3> DEFINE ca == cached[Top.c] \ Top.todo
    <3>1. /\ cached' = [cached EXCEPT ![Top.c] = ca] /\ dirty[Top.c] \subseteq ca
          /\ ca \subseteq Tables(Top.c) /\ "err" \in {"ok", "err"} /\ "err" # "ok"
      BY <1>1, <1>2, <2>1, <2>3, Zenon
    <3> HIDE DEF ca
    <3> QED
      BY <1>1, <2>3, <3>1, GetStep, Zenon
  <2> QED
    BY <1>4, <2>2, <2>3, Zenon DEF cache_get_evicted
<1> QED
  BY <1>3, <1>4, Zenon DEF cache_get_evicted
=============================================================================
