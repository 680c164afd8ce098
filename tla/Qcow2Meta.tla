------------------------------ MODULE Qcow2Meta ------------------------------
(***************************************************************************)
(* The metadata of a qcow2 image: L2 tables and refcount blocks, the two   *)
(* caches of block/qcow2-cache.c with their ordering dependencies, and     *)
(* what a crash leaves on the disk.                                        *)
(*                                                                         *)
(* An operation runs under s->lock, one file request at a time: `stack'    *)
(* holds the C functions it is in.  A write reaches the file at once and   *)
(* the disk when bs->file is flushed, or earlier: disks write back in any  *)
(* order.  A table is abstracted to one entry: an L2 table maps one guest  *)
(* cluster, a refcount block counts the references to one host cluster.    *)
(* There are no snapshots and no compressed clusters, so every L2 entry    *)
(* has QCOW_OFLAG_COPIED and a mapped cluster is written in place.         *)
(***************************************************************************)
EXTENDS Integers, Sequences, FiniteSets

CONSTANTS Guest,      \* guest clusters, each with its L2 table
          Cluster,    \* host clusters, each with its refcount block
          None,       \* no cluster
          CacheSize,  \* entries in each cache
          Setups      \* images and hosts to look at

\* lazy: QCOW2_COMPAT_LAZY_REFCOUNTS; fails: requests to bs->file can fail;
\* crashes: the host can crash; ops: bound on the operations in a behaviour.
ASSUME ConstantsAssumption ==
  /\ IsFiniteSet(Guest) /\ None \notin Cluster /\ CacheSize \in Nat \ {0}
  /\ Setups \subseteq [lazy : BOOLEAN, fails : BOOLEAN, crashes : BOOLEAN, ops : Nat]

VARIABLES
  mem,       \* tables as the caches hold them, and s->incompatible_features
  file,      \* what was written to bs->file
  disk,      \* what a crash would leave of it
  cached,    \* tables in each cache
  dirty,     \* Qcow2CachedTable.dirty
  depends, depends_on_flush,   \* of each Qcow2Cache
  opened,
  pending,   \* clusters allocated for writes whose data is in flight
  stack, ret,
  left,      \* operations left
  setup      \* never changes

cacheVars == <<cached, dirty, depends, depends_on_flush>>
callVars  == <<stack, ret>>
vars == <<mem, file, disk, cacheVars, opened, pending, callVars, left, setup>>

Caches == {"l2", "rc"}
Other(c) == IF c = "l2" THEN "rc" ELSE "l2"

Blank == [l2 |-> [g \in Guest |-> None], rc |-> [k \in Cluster |-> 0],
          hdr |-> [bit \in {"dirty"} |-> FALSE]]

Init ==
  /\ mem = Blank /\ file = Blank /\ disk = Blank
  /\ cached = [c \in Caches |-> {}] /\ dirty = [c \in Caches |-> {}]
  /\ depends = [c \in Caches |-> FALSE]
  /\ depends_on_flush = [c \in Caches |-> FALSE]
  /\ opened = TRUE /\ pending = [g \in Guest |-> None]
  /\ stack = <<>> /\ ret = "ok"
  /\ setup \in Setups /\ left = setup.ops

-----------------------------------------------------------------------------
(* Calls *)

Frame(op, c, t) == [op |-> op, at |-> "start", c |-> c, t |-> t, todo |-> {},
                    failed |-> FALSE]

Top == stack[Len(stack)]
At(op, at) == stack # <<>> /\ Top.op = op /\ Top.at = at
Goto(at) == stack' = [stack EXCEPT ![Len(stack)].at = at]
\* Call a function and continue at label `at' when it returns.
Call(frame, at) ==
  /\ stack' = Append([stack EXCEPT ![Len(stack)].at = at], frame)
  /\ ret' = "ok"
TailCall(frame) == stack' = [stack EXCEPT ![Len(stack)] = frame] /\ ret' = "ok"
Return(r) == stack' = SubSeq(stack, 1, Len(stack) - 1) /\ ret' = r

(* Requests to bs->file *)

Fails == setup.fails
flush_file == disk' = file /\ UNCHANGED file
write_file(c, t, v) == file' = [file EXCEPT ![c][t] = v] /\ UNCHANGED disk
\* A write that fails may have reached the file or not.
write_file_fails(c, t, v) ==
  /\ Fails /\ (file' = file \/ file' = [file EXCEPT ![c][t] = v])
  /\ UNCHANGED disk

\* The disk writes one table back.
write_back(c, t) ==
  /\ disk[c][t] # file[c][t]
  /\ disk' = [disk EXCEPT ![c][t] = file[c][t]]
  /\ UNCHANGED <<mem, file, cacheVars, opened, pending, callVars, left>>

-----------------------------------------------------------------------------
(* block/qcow2-cache.c *)

\* qcow2_cache_entry_flush and, through it, qcow2_cache_flush_dependency.
entry_flush ==
  /\ At("entry_flush", "start")
  /\ LET c == Top.c
     IN \/ Top.t \notin dirty[c] /\ Return("ok") /\ UNCHANGED <<file, disk, cacheVars>>
        \/ /\ Top.t \in dirty[c] /\ depends[c]
           /\ Call(Frame("cache_flush", Other(c), None), "depends")
           /\ UNCHANGED <<file, disk, cacheVars>>
        \/ /\ Top.t \in dirty[c] /\ ~depends[c] /\ depends_on_flush[c]
           /\ \/ /\ flush_file /\ Goto("write") /\ UNCHANGED ret
                 /\ depends_on_flush' = [depends_on_flush EXCEPT ![c] = FALSE]
                 /\ UNCHANGED <<cached, dirty, depends>>
              \/ Fails /\ Return("err") /\ UNCHANGED <<file, disk, cacheVars>>
        \/ /\ Top.t \in dirty[c] /\ ~depends[c] /\ ~depends_on_flush[c]
           /\ Goto("write") /\ UNCHANGED <<ret, file, disk, cacheVars>>
  /\ UNCHANGED <<mem, opened, pending, left>>

\* The dependency of cache c has been flushed.
dependency_met(c) ==
  /\ depends' = [depends EXCEPT ![c] = FALSE]
  /\ depends_on_flush' = [depends_on_flush EXCEPT ![c] = FALSE]

entry_flush_depended ==
  /\ At("entry_flush", "depends")
  /\ \/ ret = "err" /\ Return("err") /\ UNCHANGED <<depends, depends_on_flush>>
     \/ ret = "ok" /\ dependency_met(Top.c) /\ Goto("write") /\ UNCHANGED ret
  /\ UNCHANGED <<mem, file, disk, cached, dirty, opened, pending, left>>

\* After a failed write the entry stays dirty.
unwritten(c, t) == UNCHANGED dirty

entry_flush_write ==
  /\ At("entry_flush", "write")
  /\ LET c == Top.c  t == Top.t
     IN \/ /\ write_file(c, t, mem[c][t]) /\ Return("ok")
           /\ dirty' = [dirty EXCEPT ![c] = @ \ {t}]
        \/ write_file_fails(c, t, mem[c][t]) /\ Return("err") /\ unwritten(c, t)
  /\ UNCHANGED <<mem, cached, depends, depends_on_flush, opened, pending, left>>

\* qcow2_cache_flush: every entry, then bs->file.
cache_flush ==
  /\ At("cache_flush", "start")
  /\ stack' = [stack EXCEPT ![Len(stack)] = [Top EXCEPT !.at = "loop", !.todo = cached[Top.c]]]
  /\ UNCHANGED <<mem, file, disk, cacheVars, opened, pending, ret, left>>

cache_flush_entry ==
  /\ At("cache_flush", "loop")
  /\ \E t \in Top.todo :
       stack' = Append([stack EXCEPT ![Len(stack)] =
                          [Top EXCEPT !.todo = @ \ {t}, !.failed = @ \/ ret = "err"]],
                       Frame("entry_flush", Top.c, t))
  /\ ret' = "ok"
  /\ UNCHANGED <<mem, file, disk, cacheVars, opened, pending, left>>

cache_flush_end ==
  /\ At("cache_flush", "loop") /\ Top.todo = {}
  /\ IF Top.failed \/ ret = "err"
     THEN Return("err") /\ UNCHANGED <<file, disk>>
     ELSE \/ flush_file /\ Return("ok")
          \/ Fails /\ Return("err") /\ UNCHANGED <<file, disk>>
  /\ UNCHANGED <<mem, cacheVars, opened, pending, left>>

\* Mutation: the dependency of the other cache is kept.
Mut_must_flush_first(c) == FALSE

\* `if (dependency->depends)'
must_flush_first(c) == depends[Other(c)]

\* qcow2_cache_set_dependency(c, the other cache).  With two caches the second
\* condition of the function is never true.
set_dependency ==
  /\ At("set_dependency", "start")
  /\ IF must_flush_first(Top.c)
     THEN Call(Frame("cache_flush", Top.c, None), "flushed") /\ UNCHANGED depends
     ELSE depends' = [depends EXCEPT ![Top.c] = TRUE] /\ Return("ok")
  /\ UNCHANGED <<mem, file, disk, cached, dirty, depends_on_flush, opened, pending, left>>

set_dependency_flushed ==
  /\ At("set_dependency", "flushed")
  /\ LET c == Top.c
     IN \/ ret = "err" /\ Return("err") /\ UNCHANGED <<depends, depends_on_flush>>
        \/ /\ ret = "ok" /\ Return("ok")
           /\ depends' = [depends EXCEPT ![Other(c)] = FALSE, ![c] = TRUE]
           /\ depends_on_flush' = [depends_on_flush EXCEPT ![Other(c)] = FALSE]
  /\ UNCHANGED <<mem, file, disk, cached, dirty, opened, pending, left>>

\* qcow2_cache_do_get reads a table that is not cached.
read_table(c, t) ==
  /\ cached' = [cached EXCEPT ![c] = @ \cup {t}]
  /\ mem' = [mem EXCEPT ![c][t] = file[c][t]]

\* qcow2_cache_do_get: a hit, or an entry to reuse: one that holds no table, or
\* a victim to write back first.  Which one cache_hits selects is left open.
cache_get ==
  /\ At("cache_get", "start")
  /\ LET c == Top.c  t == Top.t
     IN \/ t \in cached[c] /\ Return("ok") /\ UNCHANGED <<mem, cached>>
        \/ /\ t \notin cached[c] /\ Cardinality(cached[c]) < CacheSize
           /\ \/ read_table(c, t) /\ Return("ok")
              \/ Fails /\ Return("err") /\ UNCHANGED <<mem, cached>>
        \/ /\ t \notin cached[c]
           /\ \E victim \in cached[c] :
                stack' = Append([stack EXCEPT ![Len(stack)] =
                                   [Top EXCEPT !.at = "evicted", !.todo = {victim}]],
                                Frame("entry_flush", c, victim))
           /\ ret' = "ok" /\ UNCHANGED <<mem, cached>>
  /\ UNCHANGED <<file, disk, dirty, depends, depends_on_flush, opened, pending, left>>

\* Mutation: an entry is reused although it could not be written back.
Mut_evict_failed == FALSE

evict_failed == ret = "err"

cache_get_evicted ==
  /\ At("cache_get", "evicted")
  /\ LET c == Top.c  t == Top.t
     IN \/ evict_failed /\ Return("err") /\ UNCHANGED <<mem, cached>>
        \/ ~evict_failed /\ Return("ok")
           /\ cached' = [cached EXCEPT ![c] = (@ \ Top.todo) \cup {t}]
           /\ mem' = [mem EXCEPT ![c][t] = file[c][t]]
        \/ ~evict_failed /\ Fails /\ Return("err")
           /\ cached' = [cached EXCEPT ![c] = @ \ Top.todo] /\ UNCHANGED mem
  /\ UNCHANGED <<file, disk, dirty, depends, depends_on_flush, opened, pending, left>>

-----------------------------------------------------------------------------
(* block/qcow2-refcount.c: update_refcount of cluster t by n *)

Update(k, n) == Frame("update_refcount", n, k)

update_refcount ==
  /\ At("update_refcount", "start")
  /\ IF Top.c < 0
     THEN Call(Frame("set_dependency", "rc", None), "ordered")
     ELSE Call(Frame("cache_get", "rc", Top.t), "got")
  /\ UNCHANGED <<mem, file, disk, cacheVars, opened, pending, left>>

\* The result of qcow2_cache_set_dependency is not looked at.
update_refcount_ordered ==
  /\ At("update_refcount", "ordered")
  /\ Call(Frame("cache_get", "rc", Top.t), "got")
  /\ UNCHANGED <<mem, file, disk, cacheVars, opened, pending, left>>

update_refcount_got ==
  /\ At("update_refcount", "got")
  /\ \/ ret = "err" /\ Return("err") /\ UNCHANGED <<mem, dirty>>
     \/ /\ ret = "ok"
        /\ dirty' = [dirty EXCEPT !["rc"] = @ \cup {Top.t}]
        /\ LET refcount == mem.rc[Top.t] + Top.c
           IN /\ Return(IF refcount < 0 THEN "err" ELSE "ok")
              /\ mem' = [mem EXCEPT !.rc[Top.t] = IF refcount < 0 THEN @ ELSE refcount]
  /\ UNCHANGED <<file, disk, cached, depends, depends_on_flush, opened, pending, left>>

-----------------------------------------------------------------------------
(* Operations of block/qcow2.c and block/qcow2-cluster.c.  s->lock is taken  *)
(* when the stack is empty.                                                  *)

Begin(frame) ==
  /\ opened /\ stack = <<>> /\ left > 0
  /\ stack' = <<frame>> /\ ret' = "ok" /\ left' = left - 1

need_accurate_refcounts == ~mem.hdr["dirty"]

\* qcow2_co_writev, first part: map guest cluster g, allocating if needed.  A
\* write to a cluster that is being allocated waits (do_alloc_cluster_offset).
writev(g) ==
  /\ pending[g] = None
  /\ Begin([Frame("writev", g, None) EXCEPT !.todo = Cluster])
  /\ UNCHANGED <<mem, file, disk, cacheVars, opened, pending>>

\* Mutation: a cluster is taken without a look at its refcount.
Mut_is_free(k) == TRUE

\* `refcount != 0' makes alloc_clusters_noref retry.
is_free(k) == mem.rc[k] = 0

\* alloc_clusters_noref: read the refcount of a cluster that was not looked at.
\* Where free_cluster_index starts is left open; with all clusters in use the
\* write fails.
scan ==
  \/ \E k \in Top.todo :
       /\ stack' = Append([stack EXCEPT ![Len(stack)] =
                             [Top EXCEPT !.at = "scanned", !.t = k, !.todo = @ \ {k}]],
                          Frame("cache_get", "rc", k))
       /\ ret' = "ok"
  \/ Top.todo = {} /\ Return("err")

writev_steps ==
  /\ \/ /\ \/ At("writev", "start") /\ Call(Frame("cache_get", "l2", Top.c), "l2")
           \/ At("writev", "l2") /\ ret = "ok" /\ mem.l2[Top.c] # None /\ Return("ok")
           \/ At("writev", "l2") /\ ret = "ok" /\ mem.l2[Top.c] = None /\ scan
           \/ At("writev", "scanned") /\ ret = "ok" /\ ~is_free(Top.t) /\ scan
           \/ At("writev", "scanned") /\ ret = "ok" /\ is_free(Top.t)
              /\ Call(Update(Top.t, 1), "counted")
           \/ /\ At("writev", "counted") /\ ret = "ok" /\ setup.lazy /\ need_accurate_refcounts
              /\ Call(Frame("mark_dirty", None, None), "allocated")
           \/ /\ At("writev", "l2") \/ At("writev", "scanned") \/ At("writev", "counted")
              /\ ret = "err" /\ Return("err")
        /\ UNCHANGED pending
     \/ /\ \/ At("writev", "counted") /\ ret = "ok" /\ ~(setup.lazy /\ need_accurate_refcounts)
           \/ At("writev", "allocated")   \* qcow2_mark_dirty may have failed
        /\ pending' = [pending EXCEPT ![Top.c] = Top.t] /\ Return("ok")
  /\ UNCHANGED <<mem, file, disk, cacheVars, opened, left>>

\* Writing the data, or copying the rest of the cluster, fails: it leaks.
write_fails(g) ==
  /\ opened /\ Fails /\ pending[g] # None
  /\ pending' = [pending EXCEPT ![g] = None]
  /\ UNCHANGED <<mem, file, disk, cacheVars, opened, callVars, left>>

\* Mutation: the L2 table is not ordered after the refcounts.
Mut_link_depends == FALSE

\* `if (qcow2_need_accurate_refcounts(s))'
link_depends == need_accurate_refcounts

\* The data is written: qcow2_alloc_cluster_link_l2, after copy-on-write or not.
link(g, cow) ==
  /\ opened /\ stack = <<>> /\ pending[g] # None
  /\ depends_on_flush' = [depends_on_flush EXCEPT !["l2"] = @ \/ cow]
  /\ stack' = IF link_depends
              THEN <<[Frame("link", g, None) EXCEPT !.at = "ordered"],
                     Frame("set_dependency", "l2", None)>>
              ELSE <<[Frame("link", g, None) EXCEPT !.at = "ordered"]>>
  /\ ret' = "ok"
  /\ UNCHANGED <<mem, file, disk, cached, dirty, depends, opened, pending, left>>

\* The result of qcow2_cache_set_dependency is not looked at.
link_ordered ==
  /\ At("link", "ordered")
  /\ Call(Frame("cache_get", "l2", Top.c), "got")
  /\ UNCHANGED <<mem, file, disk, cacheVars, opened, pending, left>>

\* The entry was empty: a mapped cluster is written in place, and a second
\* allocation for the same guest cluster waits.
link_got ==
  /\ At("link", "got") /\ Return(ret)
  /\ \/ ret = "err" /\ UNCHANGED <<mem, dirty>>
     \/ /\ ret = "ok"
        /\ dirty' = [dirty EXCEPT !["l2"] = @ \cup {Top.c}]
        /\ mem' = [mem EXCEPT !.l2[Top.c] = pending[Top.c]]
  /\ pending' = [pending EXCEPT ![Top.c] = None]
  /\ UNCHANGED <<file, disk, cached, depends, depends_on_flush, opened, left>>

\* `First remove L2 entries'
discarded(g) == None

\* qcow2_co_discard: discard_single_l2
discard(g) ==
  /\ Begin(Frame("discard", g, None))
  /\ UNCHANGED <<mem, file, disk, cacheVars, opened, pending>>

discard_steps ==
  /\ \/ At("discard", "start") /\ Call(Frame("cache_get", "l2", Top.c), "got")
        /\ UNCHANGED <<mem, dirty>>
     \/ /\ At("discard", "got") /\ ret = "ok" /\ mem.l2[Top.c] # None
        /\ dirty' = [dirty EXCEPT !["l2"] = @ \cup {Top.c}]
        /\ mem' = [mem EXCEPT !.l2[Top.c] = discarded(Top.c)]
        /\ TailCall(Update(mem.l2[Top.c], -1))
     \/ /\ At("discard", "got") /\ (ret = "err" \/ mem.l2[Top.c] = None)
        /\ Return(ret) /\ UNCHANGED <<mem, dirty>>
  /\ UNCHANGED <<file, disk, cached, depends, depends_on_flush, opened, pending, left>>

\* Mutation: a guest flush writes the refcount blocks only.
Mut_sync_first == "rc"

sync_first == "l2"

\* bdrv_co_flush: qcow2_co_flush_to_os, then bs->file.
sync ==
  /\ Begin(Frame("sync", None, None))
  /\ UNCHANGED <<mem, file, disk, cacheVars, opened, pending>>

sync_steps ==
  /\ \/ At("sync", "start") /\ Call(Frame("cache_flush", sync_first, None), "l2")
        /\ UNCHANGED <<file, disk>>
     \/ /\ At("sync", "l2") /\ ret = "ok" /\ need_accurate_refcounts
        /\ Call(Frame("cache_flush", "rc", None), "rc") /\ UNCHANGED <<file, disk>>
     \/ /\ ret = "ok"
        /\ (At("sync", "l2") /\ ~need_accurate_refcounts) \/ At("sync", "rc")
        /\ \/ flush_file /\ Return("ok")
           \/ Fails /\ Return("err") /\ UNCHANGED <<file, disk>>
     \/ /\ At("sync", "l2") \/ At("sync", "rc")
        /\ ret = "err" /\ Return("err") /\ UNCHANGED <<file, disk>>
  /\ UNCHANGED <<mem, cacheVars, opened, pending, left>>

-----------------------------------------------------------------------------
(* The dirty bit, closing and opening *)

SetDirty(b) == [mem EXCEPT !.hdr["dirty"] = b]

mark_dirty ==
  /\ \/ /\ At("mark_dirty", "start") /\ write_file("hdr", "dirty", TRUE)
        /\ Goto("flush") /\ UNCHANGED <<mem, ret>>
     \/ At("mark_dirty", "start") /\ write_file_fails("hdr", "dirty", TRUE)
        /\ Return("err") /\ UNCHANGED mem
     \/ At("mark_dirty", "flush") /\ flush_file /\ mem' = SetDirty(TRUE) /\ Return("ok")
     \/ At("mark_dirty", "flush") /\ Fails /\ Return("err") /\ UNCHANGED <<mem, file, disk>>
  /\ UNCHANGED <<cacheVars, opened, pending, left>>

mark_clean ==
  /\ \/ At("mark_clean", "start") /\ need_accurate_refcounts /\ Return("ok")
        /\ UNCHANGED <<mem, file, disk>>
     \/ At("mark_clean", "start") /\ ~need_accurate_refcounts
        /\ Call(Frame("sync", None, None), "flushed") /\ UNCHANGED <<mem, file, disk>>
     \/ At("mark_clean", "flushed") /\ ret = "err" /\ Return("err")
        /\ UNCHANGED <<mem, file, disk>>
     \/ At("mark_clean", "flushed") /\ ret = "ok" /\ mem' = SetDirty(FALSE)
        /\ \/ write_file("hdr", "dirty", FALSE) /\ Return("ok")
           \/ write_file_fails("hdr", "dirty", FALSE) /\ Return("err")
  /\ UNCHANGED <<cacheVars, opened, pending, left>>

\* bdrv_close, when no request is in flight.
close ==
  /\ pending = [g \in Guest |-> None]
  /\ Begin(Frame("close", None, None))
  /\ UNCHANGED <<mem, file, disk, cacheVars, opened, pending>>

\* The caches are forgotten.
Forget ==
  /\ cached' = [c \in Caches |-> {}] /\ dirty' = [c \in Caches |-> {}]
  /\ depends' = [c \in Caches |-> FALSE]
  /\ depends_on_flush' = [c \in Caches |-> FALSE]
  /\ opened' = FALSE /\ pending' = [g \in Guest |-> None] /\ mem' = Blank

\* qcow2_close and, last, the close of bs->file, which flushes it.  Errors are
\* not looked at.
close_steps ==
  /\ \/ /\ \/ At("close", "start") /\ Call(Frame("sync", None, None), "l2")
           \/ At("close", "l2") /\ Call(Frame("cache_flush", "l2", None), "rc")
           \/ At("close", "rc") /\ Call(Frame("cache_flush", "rc", None), "clean")
           \/ At("close", "clean") /\ Call(Frame("mark_clean", None, None), "end")
        /\ UNCHANGED <<mem, file, disk, cacheVars, opened, pending>>
     \/ /\ At("close", "end") /\ Return("ok") /\ Forget
        /\ flush_file \/ (Fails /\ UNCHANGED <<file, disk>>)
  /\ UNCHANGED left

\* The host goes down; the program is gone with what it had not flushed.
crash ==
  /\ setup.crashes /\ opened
  /\ Forget /\ file' = disk /\ stack' = <<>> /\ ret' = "ok"
  /\ UNCHANGED <<disk, left>>

\* qcow2_open: a dirty image is checked and repaired (qcow2_check).
open ==
  /\ ~opened /\ opened' = TRUE /\ mem' = file /\ ret' = "ok"
  /\ stack' = IF file.hdr["dirty"]
              THEN <<[Frame("open", None, None) EXCEPT !.at = "checked"],
                     [Frame("check", None, None) EXCEPT !.todo = Cluster]>>
              ELSE <<>>
  /\ UNCHANGED <<file, disk, cacheVars, pending, left>>

open_checked ==
  /\ At("open", "checked") /\ Return("ok")
  /\ \/ ret = "ok" /\ UNCHANGED <<mem, cacheVars, opened, pending>>
     \/ ret = "err" /\ Forget
  /\ UNCHANGED <<file, disk, left>>

References(k) == Cardinality({g \in Guest : mem.l2[g] = k})

\* `refcount1 < refcount2'
corrupt(k) == mem.rc[k] < References(k)

\* qcow2_check_refcounts with BDRV_FIX_ERRORS: the refcount of each cluster is
\* read and raised if it is too small; leaks stay.  Reading the L2 tables may
\* fail.  If nothing else failed the image is marked clean.
check_refcounts ==
  /\ \/ At("check", "start") /\ Goto("next") /\ UNCHANGED ret
     \/ At("check", "start") /\ Fails /\ Return("err")
     \/ \E k \in Cluster :
          /\ At("check", "next") /\ k \in Top.todo /\ ret' = "ok"
          /\ stack' = Append([stack EXCEPT ![Len(stack)] =
                                [Top EXCEPT !.at = "got", !.t = k, !.todo = @ \ {k},
                                            !.failed = @ \/ ret = "err"]],
                             Frame("cache_get", "rc", k))
     \/ /\ At("check", "got") /\ ret = "ok" /\ corrupt(Top.t)
        /\ Call(Update(Top.t, References(Top.t) - mem.rc[Top.t]), "next")
     \/ /\ At("check", "got") /\ (ret = "err" \/ ~corrupt(Top.t))
        /\ Goto("next") /\ UNCHANGED ret
     \/ At("check", "next") /\ Top.todo = {}
        /\ IF Top.failed \/ ret = "err"
           THEN Return("ok") ELSE TailCall(Frame("mark_clean", None, None))
  /\ UNCHANGED <<mem, file, disk, cacheVars, opened, pending, left>>

-----------------------------------------------------------------------------
Cache == \/ entry_flush \/ entry_flush_depended \/ entry_flush_write
         \/ cache_flush \/ cache_flush_entry \/ cache_flush_end
         \/ set_dependency \/ set_dependency_flushed
         \/ cache_get \/ cache_get_evicted

Request == \/ \E g \in Guest : writev(g) \/ write_fails(g) \/ discard(g)
           \/ \E g \in Guest, cow \in BOOLEAN : link(g, cow)
           \/ sync \/ close \/ open

Step == \/ Cache \/ update_refcount \/ update_refcount_ordered \/ update_refcount_got
        \/ writev_steps \/ link_ordered \/ link_got \/ discard_steps \/ sync_steps
        \/ mark_dirty \/ mark_clean \/ close_steps \/ open_checked
        \/ check_refcounts

Device == \/ \E c \in {"l2", "rc", "hdr"} : \E t \in DOMAIN disk[c] : write_back(c, t)
          \/ crash

Next == (Request \/ Step \/ Device) /\ UNCHANGED setup

Spec == Init /\ [][Next]_vars

-----------------------------------------------------------------------------
(* Properties *)

Image == [l2 : [Guest -> Cluster \cup {None}], rc : [Cluster -> 0 .. Cardinality(Guest)],
          hdr : [{"dirty"} -> BOOLEAN]]

\* Every variable has a value of its C type, a refcount never goes below zero,
\* and only cached tables are dirty.
TypeOK ==
  /\ mem \in Image /\ file \in Image /\ disk \in Image
  /\ DOMAIN cached = Caches /\ cached["l2"] \subseteq Guest /\ cached["rc"] \subseteq Cluster
  /\ DOMAIN dirty = Caches /\ \A c \in Caches : dirty[c] \subseteq cached[c]
  /\ depends \in [Caches -> BOOLEAN] /\ depends_on_flush \in [Caches -> BOOLEAN]
  /\ opened \in BOOLEAN /\ pending \in [Guest -> Cluster \cup {None}]
  /\ ret \in {"ok", "err"} /\ setup \in Setups /\ left \in 0 .. setup.ops

\* A cluster that an L2 table on the disk refers to has a refcount of at least
\* one, unless the dirty bit says that refcounts cannot be trusted: the order
\* that the dependencies between the caches are there to keep.
RefcountsCoverDisk ==
  \A g \in Guest : disk.l2[g] # None => disk.rc[disk.l2[g]] > 0 \/ disk.hdr["dirty"]

\* Refcounts are kept up to date, and requests to the file succeed.
Accurate == ~setup.lazy /\ ~setup.fails

\* Without lazy refcounts and failed requests the caches do keep that order:
\* whatever a crash leaves, and after any number of crashes and restarts.
OrderIsKept == Accurate => RefcountsCoverDisk

\* Whatever a crash leaves, no two guest clusters are mapped to one host
\* cluster, also when the cluster was freed and allocated again at once: both
\* entries have QCOW_OFLAG_COPIED, so a write through one would change the other.
NoSharedCluster ==
  Accurate => \A g, h \in Guest : disk.l2[g] # None /\ disk.l2[g] = disk.l2[h] => g = h

\* The two caches never depend on each other, which would make
\* qcow2_cache_flush recurse for ever.
NoDependencyCycle == ~(depends["l2"] /\ depends["rc"])

\* When a guest flush succeeds, all the mappings made before it are on the disk.
SyncIsDurable ==
  [][stack # <<>> /\ Top.op = "sync" /\ Len(stack') < Len(stack) /\ opened' /\ ret' = "ok"
     => disk.l2 = mem.l2]_vars
=============================================================================
