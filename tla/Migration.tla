----------------------------- MODULE Migration -----------------------------
(***************************************************************************)
(* Outgoing live migration of guest RAM.                                   *)
(*                                                                         *)
(* Three actors share the state: the migration thread (migration.c), which *)
(* runs arch_init.c's RAM handlers; the main loop, which runs the monitor  *)
(* commands, the cleanup bottom half and device emulation; and the virtual *)
(* CPUs, which write memory at any time.  The global mutex is held by the  *)
(* main loop whenever it acts and taken by the thread only where the code  *)
(* takes it, so RAM is saved while monitor commands and guest writes run.  *)
(*                                                                         *)
(* A page is a pair of words: it is "uniform" (is_dup_page) when the words *)
(* are equal, and an XBZRLE delta is the set of words that changed.        *)
(***************************************************************************)
EXTENDS Integers, FiniteSets, Sequences, SequencesExt

CONSTANTS NPages,      \* pages of guest RAM, one RAMBlock
          MaxEvents,   \* bound: writes to RAM and changes of the capability
          MaxMig,      \* bound: migrate commands
          MaxIov,      \* MAX_IOV_SIZE: entries queued in a QEMUFile
          CacheSlots,  \* XBZRLE cache size in pages
          MayFail      \* the network may fail

ASSUME MigrationConstants ==
  /\ NPages \in Nat \ {0}
  /\ MaxIov \in Nat \ {0}
  /\ CacheSlots \in Nat \ {0}
  /\ {MaxEvents, MaxMig} \subseteq Nat
  /\ MayFail \in BOOLEAN

Page == 0 .. NPages - 1
Word == {0, 1}
Content == Word \X Word
NoPage == -1
States == {"setup", "active", "cancelled", "error", "completed"}

VARIABLES
  state,      \* s->state
  file,       \* s->file is open
  file_err,   \* s->file has last_error set
  connecting, \* a connect started by migrate has not completed yet
  bh,         \* s->cleanup_bh is scheduled
  pc,         \* the migration thread
  first_time, old_vm_running,   \* its locals
  bql,        \* the global mutex is held by the migration thread
  running,    \* the source's virtual CPUs run
  halt,       \* "no", "assert" (abort) or "wiped" (state reset under a thread)
  xbzrle,     \* the capability
  ram, phys_dirty, log_on,      \* guest memory and its dirty log
  bitmap, dirty_pages,          \* migration_bitmap, migration_dirty_pages
  last_offset,                  \* where the last scan stopped
  cur,        \* page found by the scan, and whether it was uniform then
  cache,      \* XBZRLE.cache
  broken,     \* its connection has failed, whether the file knows it or not
  queue,      \* iovecs of s->file not yet sent
  eof,        \* device state and QEMU_VM_EOF: "no", "queued" or "sent"
  dest,       \* RAM of the destination
  dma,        \* a device's pending write into guest RAM
  events, migs,                 \* for the bounds
  exempt      \* pages outside NoPageLost (see there); history only

thread == <<pc, first_time, old_vm_running, bql>>
control == <<state, file, connecting, bh, halt>>
guest == <<ram, phys_dirty, running, dma>>
saving == <<log_on, bitmap, dirty_pages, last_offset, cur, cache>>
stream == <<file_err, broken, queue, eof, dest>>
counts == <<xbzrle, migs, events>>
vars == <<thread, control, guest, saving, stream, counts, exempt>>
-----------------------------------------------------------------------------
(* Pages, deltas and the XBZRLE cache.                                     *)

is_dup_page(c) == c[1] = c[2]

(* xbzrle_encode_buffer and xbzrle_decode_buffer: the words that differ    *)
(* carry their new value, the others keep what the receiver already has.   *)
Decode(have, old, new) ==
  [i \in 1 .. 2 |-> IF old[i] = new[i] THEN have[i] ELSE new[i]]

NoItem == [addr |-> NoPage, data |-> <<0, 0>>]
NullCache == <<>>
cache_init == [i \in 1 .. CacheSlots |-> NoItem]
cache_pos(p) == (p % CacheSlots) + 1
cache_is_cached(p) == cache[cache_pos(p)].addr = p

(* What one queued entry makes of the receiver's page.  A page queued with *)
(* qemu_put_buffer_no_copy is read from its buffer when it is sent: guest  *)
(* memory ("ram") as it is then, a cache buffer ("cache") as it is then.   *)
ram_load(d, e) ==
  [d EXCEPT ![e.page] = CASE e.buf = "ram"   -> ram[e.page]
                          [] e.buf = "delta" -> Decode(@, e.old, e.data)
                          [] OTHER           -> e.data]

Arrived(k) == FoldLeft(ram_load, dest, SubSeq(queue, 1, k))
Received == Arrived(Len(queue))

(* Queued entries that point into the cache buffer of page p see what is   *)
(* copied over it; those of an evicted page keep its last content, since   *)
(* cache_insert drops the buffer without freeing it.                       *)
Rewrite(q, p, c) == [i \in DOMAIN q |->
  IF q[i].buf = "cache" /\ q[i].page = p THEN [q[i] EXCEPT !.data = c] ELSE q[i]]
Detach(q, a) == [i \in DOMAIN q |->
  IF q[i].buf = "cache" /\ q[i].page = a THEN [q[i] EXCEPT !.buf = "copy"] ELSE q[i]]

Entry(p, b, old, c) == [page |-> p, buf |-> b, old |-> old, data |-> c]
-----------------------------------------------------------------------------
Init ==
  /\ state = "setup" /\ file = FALSE /\ file_err = FALSE /\ broken = FALSE
  /\ connecting = FALSE /\ bh = FALSE
  /\ pc = "none" /\ first_time = TRUE /\ old_vm_running = FALSE /\ bql = FALSE
  /\ running = TRUE /\ halt = "no" /\ xbzrle \in BOOLEAN
  /\ ram = [p \in Page |-> <<0, 1>>]
  /\ phys_dirty = Page      \* qemu_ram_alloc marks new RAM dirty
  /\ log_on = FALSE /\ bitmap = {} /\ dirty_pages = 0 /\ last_offset = 0
  /\ cur = <<NoPage, FALSE>> /\ cache = NullCache /\ queue = <<>>
  /\ eof = "no" /\ dest = [p \in Page |-> <<0, 0>>] /\ dma = NoPage
  /\ events = 0 /\ migs = 0 /\ exempt = {}
-----------------------------------------------------------------------------
(* Monitor commands, run by the main loop with the global mutex held.      *)

Main == ~bql /\ halt = "no"

(* qmp_migrate and migrate_init.  The only guard is s->state: when the     *)
(* previous thread, its bottom half or a connect is still there, memset()  *)
(* resets the state under it, and what follows is not modelled.            *)
qmp_migrate ==
  /\ Main /\ state # "active" /\ migs < MaxMig
  /\ migs' = migs + 1
  /\ halt' = IF pc # "none" \/ bh \/ file \/ connecting THEN "wiped" ELSE "no"
  /\ state' = "setup" /\ connecting' = TRUE
  /\ UNCHANGED <<thread, file, bh, guest, saving, stream, xbzrle, events, exempt>>

(* tcp_wait_for_connect, migrate_fd_connect and migrate_fd_error.  A new   *)
(* connection reaches a new destination process.                           *)
tcp_wait_for_connect ==
  /\ Main /\ connecting
  /\ connecting' = FALSE
  /\ \/ /\ state' = "active" /\ file' = TRUE /\ file_err' = FALSE /\ broken' = FALSE
        /\ pc' = "loop" /\ first_time' = TRUE /\ old_vm_running' = FALSE
        /\ queue' = <<>> /\ eof' = "no" /\ dest' = [p \in Page |-> <<0, 0>>]
        /\ exempt' = {}
        /\ UNCHANGED <<bql, bh, halt>>
     \/ /\ MayFail
        /\ state' = "error"
        /\ UNCHANGED <<thread, file, bh, halt, stream, exempt>>
  /\ UNCHANGED <<guest, saving, counts>>

(* qmp_migrate_cancel, migrate_fd_cancel. *)
migrate_fd_cancel ==
  /\ Main /\ state = "active"
  /\ state' = "cancelled"
  /\ UNCHANGED <<thread, file, connecting, bh, halt, guest, saving, stream, counts, exempt>>

(* qmp_migrate_set_capabilities: refused only while ACTIVE, so the thread  *)
(* of a cancelled migration may see the capability change.                 *)
qmp_migrate_set_capabilities ==
  /\ Main /\ state # "active" /\ events < MaxEvents
  /\ xbzrle' = ~xbzrle /\ events' = events + 1
  /\ exempt' = IF pc # "none" THEN Page ELSE exempt
  /\ UNCHANGED <<thread, control, guest, saving, stream, migs>>
-----------------------------------------------------------------------------
(* Sending.  socket_flush sends the queue, buffer by buffer.  An error is  *)
(* one of the file only if nothing was sent before it; else the rest of    *)
(* the queue is dropped and nobody knows.  Once the connection has failed  *)
(* every send fails, and after an error of its own the file accepts and    *)
(* sends nothing more.                                                     *)

Sends == queue # <<>> \/ eof = "queued"

Flushed ==
  /\ queue' = <<>>
  /\ \/ /\ ~(broken /\ Sends)
        /\ dest' = Received /\ eof' = IF eof = "queued" THEN "sent" ELSE eof
        /\ UNCHANGED <<file_err, broken>>
     \/ /\ Sends /\ (MayFail \/ broken)
        /\ broken' = TRUE /\ UNCHANGED eof
        /\ \/ file_err' = TRUE /\ UNCHANGED dest
           \/ /\ ~broken /\ UNCHANGED file_err
              /\ \E k \in 0 .. Len(queue) :
                   (k < Len(queue) \/ eof = "queued") /\ dest' = Arrived(k)

(* qemu_put_buffer is a no-op once the file has an error. *)
Put(q, e) == IF file_err THEN q ELSE Append(q, e)

(* qemu_savevm_state_cancel -> ram_migration_cancel -> migration_end.      *)
migration_end ==
  /\ log_on' = FALSE
  /\ IF xbzrle THEN /\ cache' = NullCache
                    /\ halt' = IF cache = NullCache THEN "assert" ELSE halt
               ELSE UNCHANGED <<cache, halt>>
-----------------------------------------------------------------------------
(* The migration thread.                                                   *)

Thread(at) == pc = at /\ halt = "no"

(* while (s->state == MIG_STATE_ACTIVE); qemu_ftell flushes every          *)
(* BUFFER_DELAY, which MaybeFlush stands for.                              *)
LoopTest ==
  /\ Thread("loop")
  /\ pc' = IF state = "active" THEN "body" ELSE "exit"
  /\ UNCHANGED <<first_time, old_vm_running, bql, control, guest, saving, stream, counts, exempt>>

MaybeFlush ==
  /\ pc \in {"body", "iter", "emit", "final", "femit"} /\ halt = "no"
  /\ ~file_err /\ queue # <<>>
  /\ Flushed
  /\ UNCHANGED <<thread, control, guest, saving, counts, exempt>>

(* Mutant: the error of the file is not looked at. *)
Mut_Body ==
  /\ Thread("body")
  /\ pc' \in {"loop", IF first_time THEN "begin" ELSE "pending"}
  /\ UNCHANGED <<first_time, old_vm_running, bql, control,
                 guest, saving, stream, counts, exempt>>

(* The error test (s->state is written without the mutex), the rate limit  *)
(* and the choice of the next call.                                        *)
Body ==
  /\ Thread("body")
  /\ \/ file_err /\ state' = "error" /\ pc' = "loop"
     \/ /\ ~file_err /\ UNCHANGED state
        /\ pc' \in {"loop", IF first_time THEN "begin" ELSE "pending"}
  /\ UNCHANGED <<first_time, old_vm_running, bql, file, connecting, bh, halt,
                 guest, saving, stream, counts, exempt>>

(* Mutant: the dirty log replaces the pages still to be sent. *)
Mut_migration_bitmap_sync(bm, dp, ph) ==
  /\ bitmap' = ph
  /\ dirty_pages' = dp + Cardinality(ph \ bm)
  /\ phys_dirty' = {}

(* migration_bitmap_sync. *)
migration_bitmap_sync(bm, dp, ph) ==
  /\ bitmap' = bm \cup ph
  /\ dirty_pages' = dp + Cardinality(ph \ bm)
  /\ phys_dirty' = {}

(* qemu_savevm_state_begin under the global mutex; ram_save_setup.  The    *)
(* bitmap is filled from bit 1, so page 0 is in it only if the dirty log   *)
(* has it.  The headers it sends may be lost unnoticed.                    *)
ram_save_setup ==
  /\ Thread("begin")
  /\ first_time' = FALSE /\ pc' = "pending0"
  /\ migration_bitmap_sync(Page \ {0}, NPages, phys_dirty)
  /\ cache' = IF xbzrle THEN cache_init ELSE cache
  /\ last_offset' = 0 /\ log_on' = TRUE
  /\ exempt' = {0} \ phys_dirty
  /\ broken' \in {FALSE, MayFail}
  /\ UNCHANGED <<old_vm_running, bql, control, ram, running, dma, cur,
                 file_err, queue, eof, dest, counts>>

(* An error while the setup is sent cancels the handlers at once; the      *)
(* thread does not look at the result and goes on to its next error test.  *)
SetupFails ==
  /\ Thread("begin") /\ MayFail
  /\ first_time' = FALSE /\ pc' = "pending0"
  /\ migration_bitmap_sync(Page \ {0}, NPages, phys_dirty)
  /\ cache' = IF xbzrle THEN NullCache ELSE cache
  /\ last_offset' = 0 /\ log_on' = FALSE
  /\ file_err' = TRUE /\ broken' = TRUE
  /\ UNCHANGED <<old_vm_running, bql, control, ram, running, dma, cur,
                 queue, eof, dest, counts, exempt>>

(* A cache size below a page makes no cache: ram_save_setup fails, and the *)
(* handlers are cancelled without the cache that cache_fini asserts.       *)
NoCache ==
  /\ Thread("begin") /\ xbzrle
  /\ bitmap' = Page \ {0} /\ dirty_pages' = NPages
  /\ cache' = NullCache /\ log_on' = FALSE /\ halt' = "assert"
  /\ UNCHANGED <<thread, state, file, connecting, bh, guest, last_offset, cur, stream,
                 counts, exempt>>

(* qemu_savevm_state_pending and the comparison with max_size, which       *)
(* follows the measured bandwidth; it is 0 until something was measured.   *)
(* qemu_savevm_state_iterate does nothing on a file that has an error.     *)
ram_save_pending ==
  /\ pc \in {"pending0", "pending"} /\ halt = "no"
  /\ \E max_size \in IF pc = "pending0" THEN {0} ELSE 0 .. NPages + 2 :
       /\ IF dirty_pages < max_size
          THEN migration_bitmap_sync(bitmap, dirty_pages, phys_dirty)
          ELSE UNCHANGED <<bitmap, dirty_pages, phys_dirty>>
       /\ pc' = CASE dirty_pages' < max_size -> "stop"
                  [] file_err                -> "loop"
                  [] OTHER                   -> "iter"
  /\ UNCHANGED <<first_time, old_vm_running, bql, control, ram, running, dma,
                 log_on, last_offset, cur, cache, stream, counts, exempt>>

(* migration_bitmap_find_and_reset_dirty from last_offset on, then from 0. *)
NextDirty ==
  LET ahead == {p \in bitmap : p >= last_offset}
      S == IF ahead # {} THEN ahead ELSE bitmap
  IN CHOOSE p \in S : \A q \in S : p <= q

FindDirty(from, to) ==
  /\ Thread(from)
  /\ bitmap # {}
  /\ bitmap' = bitmap \ {NextDirty} /\ dirty_pages' = dirty_pages - 1
  /\ cur' = <<NextDirty, is_dup_page(ram[NextDirty])>>
  /\ last_offset' = NextDirty
  /\ pc' = to
  /\ UNCHANGED <<first_time, old_vm_running, bql, control, guest, log_on, cache,
                 stream, counts, exempt>>

(* The page found is sent: its first byte when it was uniform at the test, *)
(* else through XBZRLE, else whole.                                        *)
SendUniform(p) ==
  /\ queue' = Put(queue, Entry(p, "copy", <<0, 0>>, <<ram[p][1], ram[p][1]>>))
  /\ exempt' = IF xbzrle /\ cache # NullCache /\ cache_is_cached(p)
               THEN exempt \cup {p} ELSE exempt \ {p}
  /\ UNCHANGED <<cache, halt>>

SendPlain(p) ==
  /\ queue' = Put(queue, Entry(p, "ram", <<0, 0>>, <<0, 0>>))
  /\ exempt' = exempt \ {p}
  /\ UNCHANGED <<cache, halt>>

(* Mutant: a delta does not update the cache. *)
Mut_save_xbzrle_page(p, last_stage) ==
  IF cache = NullCache
  THEN halt' = "assert" /\ UNCHANGED <<queue, cache, exempt>>
  ELSE /\ UNCHANGED halt
       /\ IF ~cache_is_cached(p)
          THEN /\ cache' = [cache EXCEPT ![cache_pos(p)] = [addr |-> p, data |-> ram[p]]]
               /\ queue' = Put(Detach(queue, cache[cache_pos(p)].addr),
                               Entry(p, "cache", <<0, 0>>, ram[p]))
          ELSE /\ queue' = Put(queue, Entry(p, "delta", cache[cache_pos(p)].data, ram[p]))
               /\ UNCHANGED cache
       /\ exempt' = exempt \ {p}

(* save_xbzrle_page, and the whole page from the cache when it returns -1. *)
save_xbzrle_page(p, last_stage) ==
  IF cache = NullCache
  THEN halt' = "assert" /\ UNCHANGED <<queue, cache, exempt>>
  ELSE LET pos == cache_pos(p)
           prev == cache[pos].data
           new == ram[p]
           update == [cache EXCEPT ![pos].data = new]
           whole == IF last_stage THEN Entry(p, "ram", <<0, 0>>, <<0, 0>>)
                                  ELSE Entry(p, "cache", <<0, 0>>, new)
       IN /\ UNCHANGED halt
          /\ IF ~cache_is_cached(p)
             THEN /\ IF last_stage THEN UNCHANGED cache
                     ELSE cache' = [cache EXCEPT ![pos] = [addr |-> p, data |-> new]]
                  /\ queue' = Put(Detach(queue, cache[pos].addr), whole)
                  /\ exempt' = exempt \ {p}
             ELSE IF prev = new
             THEN UNCHANGED <<cache, queue, exempt>>
             ELSE \/ /\ cache' = update                              \* overflow
                     /\ queue' = Put(Rewrite(queue, p, new), whole)
                     /\ exempt' = exempt \ {p}
                  \/ /\ cache' = IF last_stage THEN cache ELSE update
                     /\ queue' = Put(IF last_stage THEN queue ELSE Rewrite(queue, p, new),
                                     Entry(p, "delta", prev, new))
                     /\ UNCHANGED exempt

(* Mutant: the queue is not sent when it is full. *)
Mut_ram_save_block(from, to, last_stage) ==
  /\ Thread(from)
  /\ pc' = to /\ cur' = <<NoPage, FALSE>>
  /\ IF cur[2] THEN SendUniform(cur[1])
     ELSE IF xbzrle THEN save_xbzrle_page(cur[1], last_stage)
     ELSE SendPlain(cur[1])
  /\ UNCHANGED <<first_time, old_vm_running, bql, state, file, connecting, bh, guest,
                 log_on, bitmap, dirty_pages, last_offset, file_err, broken, eof, dest, counts>>

ram_save_block(from, to, last_stage) ==
  /\ Thread(from)
  /\ Len(queue) < MaxIov
  /\ pc' = to /\ cur' = <<NoPage, FALSE>>
  /\ IF cur[2] THEN SendUniform(cur[1])
     ELSE IF xbzrle THEN save_xbzrle_page(cur[1], last_stage)
     ELSE SendPlain(cur[1])
  /\ UNCHANGED <<first_time, old_vm_running, bql, state, file, connecting, bh, guest,
                 log_on, bitmap, dirty_pages, last_offset, file_err, broken, eof, dest, counts>>

(* ram_save_iterate under the RAM list lock only; it ends when nothing is  *)
(* dirty, at the rate limit or after MAX_WAIT.  When an error comes before *)
(* the first page is done, the handlers are cancelled.                     *)
IterateFind == ~file_err /\ FindDirty("iter", "emit")

IterateEnd ==
  /\ Thread("iter")
  /\ pc' = "loop"
  /\ \/ UNCHANGED <<log_on, cache, halt>>
     \/ file_err /\ migration_end
  /\ UNCHANGED <<first_time, old_vm_running, bql, state, file, connecting, bh, guest,
                 bitmap, dirty_pages, last_offset, cur, stream, counts, exempt>>

(* The end of the loop: the mutex is taken, the machine stopped, its       *)
(* pending device requests drained, and the rest of RAM sent.              *)
StopVm ==
  /\ Thread("stop")
  /\ bql' = TRUE
  /\ old_vm_running' = running /\ running' = FALSE
  /\ pc' = "drain"
  /\ UNCHANGED <<first_time, control, ram, phys_dirty, dma, saving, stream, counts, exempt>>

(* Mutant: device writes under way are not waited for. *)
Mut_Drained ==
  /\ Thread("drain")
  /\ migration_bitmap_sync(bitmap, dirty_pages, phys_dirty)
  /\ pc' = "final"
  /\ UNCHANGED <<first_time, old_vm_running, bql, control, ram, running, dma,
                 log_on, last_offset, cur, cache, stream, counts, exempt>>

Drained ==
  /\ Thread("drain")
  /\ dma = NoPage
  /\ migration_bitmap_sync(bitmap, dirty_pages, phys_dirty)
  /\ pc' = "final"
  /\ UNCHANGED <<first_time, old_vm_running, bql, control, ram, running, dma,
                 log_on, last_offset, cur, cache, stream, counts, exempt>>

CompleteFind == FindDirty("final", "femit")

(* ram_save_complete flushes; the device state and the end mark that       *)
(* follow go to a buffer on top of the file and stay queued in the file.   *)
ram_save_complete ==
  /\ Thread("final")
  /\ bitmap = {} /\ (queue = <<>> \/ file_err)
  /\ log_on' = FALSE
  /\ IF file_err THEN state' = "error" /\ UNCHANGED eof
                 ELSE state' = "completed" /\ eof' = "queued"
  /\ pc' = "loop" /\ bql' = FALSE
  /\ UNCHANGED <<first_time, old_vm_running, file, connecting, bh, halt, guest, bitmap,
                 dirty_pages, last_offset, cur, cache, file_err, broken, queue, dest, counts, exempt>>

(* Mutant: the machine is given back only by a cancelled migration. *)
Mut_ThreadExit ==
  /\ Thread("exit")
  /\ running' = (running \/ (state = "cancelled" /\ old_vm_running))
  /\ bh' = TRUE /\ pc' = "none"
  /\ UNCHANGED <<first_time, old_vm_running, bql, state, file, connecting, halt, ram,
                 phys_dirty, dma, saving, stream, counts, exempt>>

(* After the loop, under the mutex. *)
ThreadExit ==
  /\ Thread("exit")
  /\ running' = IF state # "completed" /\ old_vm_running THEN TRUE ELSE running
  /\ bh' = TRUE /\ pc' = "none"
  /\ UNCHANGED <<first_time, old_vm_running, bql, state, file, connecting, halt, ram,
                 phys_dirty, dma, saving, stream, counts, exempt>>

(* The cleanup bottom half: the handlers are cancelled only in the state   *)
(* CANCELLED; qemu_fclose flushes what is queued and its result is not     *)
(* looked at.                                                              *)
migrate_fd_cleanup ==
  /\ Main /\ bh
  /\ bh' = FALSE
  /\ IF state = "cancelled" THEN migration_end ELSE UNCHANGED <<log_on, cache, halt>>
  /\ file' = FALSE
  /\ IF file_err THEN UNCHANGED stream ELSE Flushed
  /\ UNCHANGED <<thread, state, connecting, guest, bitmap, dirty_pages, last_offset, cur,
                 counts, exempt>>
-----------------------------------------------------------------------------
(* The guest.  A virtual CPU's store is caught by the dirty log while it   *)
(* is on; a device writes into mapped memory first and marks it dirty when *)
(* it unmaps it, which vm_stop's bdrv_drain_all waits for.                 *)

Store(p, i, w) == ram' = [ram EXCEPT ![p][i] = w]

GuestWrite ==
  /\ halt = "no" /\ running /\ events < MaxEvents
  /\ events' = events + 1
  /\ \E p \in Page, i \in 1 .. 2, w \in Word : ram[p][i] # w /\ Store(p, i, w)
       /\ phys_dirty' = IF log_on THEN phys_dirty \cup {p} ELSE phys_dirty
  /\ UNCHANGED <<thread, control, running, dma, saving, stream, xbzrle, migs, exempt>>

DmaMap ==
  /\ Main /\ running /\ dma = NoPage /\ events < MaxEvents
  /\ events' = events + 1
  /\ \E p \in Page : dma' = p
  /\ UNCHANGED <<thread, control, ram, phys_dirty, running, saving, stream, xbzrle, migs, exempt>>

DmaData ==
  /\ halt = "no" /\ dma # NoPage /\ dma < NPages
  /\ \E i \in 1 .. 2, w \in Word : ram[dma][i] # w /\ Store(dma, i, w)
  /\ dma' = dma + NPages      \* the data is there, the unmap is not
  /\ UNCHANGED <<thread, control, phys_dirty, running, saving, stream, counts, exempt>>

DmaUnmap ==
  /\ halt = "no" /\ dma >= NPages /\ (~bql \/ pc = "drain")
  /\ phys_dirty' = phys_dirty \cup {dma - NPages}
  /\ dma' = NoPage
  /\ UNCHANGED <<thread, control, ram, running, saving, stream, counts, exempt>>
-----------------------------------------------------------------------------
Emit == ram_save_block("emit", "iter", FALSE)
FinalEmit == ram_save_block("femit", "final", TRUE)

ThreadStep ==
  \/ LoopTest \/ Body \/ ram_save_setup \/ SetupFails \/ NoCache \/ ram_save_pending
  \/ IterateFind \/ Emit \/ IterateEnd \/ StopVm \/ Drained \/ CompleteFind \/ FinalEmit
  \/ ram_save_complete \/ ThreadExit

MainStep == qmp_migrate \/ migrate_fd_cancel \/ qmp_migrate_set_capabilities

GuestStep == GuestWrite \/ DmaMap \/ DmaData \/ DmaUnmap

Next == ThreadStep \/ MaybeFlush \/ MainStep \/ tcp_wait_for_connect \/ migrate_fd_cleanup \/ GuestStep

Spec == Init /\ [][Next]_vars

(* The thread is scheduled and the main loop runs its handlers; the mutex  *)
(* is released by whoever holds it.  Nothing obliges the user to act, nor  *)
(* a send() to return: the sockets block while the receiver does not read. *)
FairSpec ==
  /\ Spec
  /\ WF_vars(ThreadStep) /\ WF_vars(tcp_wait_for_connect)
  /\ WF_vars((file_err \/ ~Sends) /\ migrate_fd_cleanup)
  /\ WF_vars(DmaData) /\ WF_vars(DmaUnmap)
-----------------------------------------------------------------------------
(* Properties.                                                             *)

(* Every variable has its type. *)
TypeOK ==
  /\ state \in States
  /\ {file, file_err, broken, connecting, bh, first_time, old_vm_running, bql,
      running, xbzrle, log_on} \subseteq BOOLEAN
  /\ pc \in {"none", "loop", "body", "begin", "pending0", "pending", "iter", "emit",
             "stop", "drain", "final", "femit", "exit"}
  /\ halt \in {"no", "assert", "wiped"}
  /\ ram \in [Page -> Content] /\ dest \in [Page -> Content]
  /\ phys_dirty \subseteq Page /\ bitmap \subseteq Page /\ exempt \subseteq Page
  /\ dirty_pages \in 0 .. NPages + 1 /\ last_offset \in Page
  /\ cur \in (Page \cup {NoPage}) \X BOOLEAN
  /\ cache = NullCache \/ cache \in [1 .. CacheSlots ->
                                     [addr : Page \cup {NoPage}, data : Content]]
  /\ Len(queue) <= MaxIov /\ eof \in {"no", "queued", "sent"}
  /\ dma \in NoPage .. 2 * NPages - 1

Saving == pc \in {"pending0", "pending", "iter", "emit", "stop", "drain", "final", "femit"}
          /\ halt = "no" /\ ~broken

(* Once the set-up is done and while the connection holds, a page whose    *)
(* content the receiver will not have after what is queued is still marked *)
(* somewhere: in the dirty log, in the migration bitmap, as the page being *)
(* sent, or as the target of a device write that is not yet unmapped.      *)
(* Exempt are page 0 when set-up did not mark it, a page sent as uniform   *)
(* past its cache entry, and every page when the capability changes under  *)
(* a thread.                                                               *)
NoDirtyForgotten ==
  Saving => \A p \in Page \ exempt :
    Received[p] # ram[p] => p \in phys_dirty \cup bitmap \cup {cur[1], dma - NPages}

(* When the destination starts, its RAM is the source's, page for page,    *)
(* but for the exempt ones.                                                *)
NoPageLost == eof = "sent" => \A p \in Page \ exempt : dest[p] = ram[p]

(* While the migration is active and the connection holds, and until the   *)
(* last stage, a page in the XBZRLE cache is the one the receiver has once *)
(* everything queued has arrived, so that a delta decodes to the page it   *)
(* was made from.                                                          *)
CacheIsReceivers ==
  Saving /\ state = "active" /\ pc \notin {"final", "femit"} /\ xbzrle /\ cache # NullCache =>
    \A i \in DOMAIN cache : LET p == cache[i].addr IN
      p # NoPage /\ p \notin exempt => Received[p] = cache[i].data

(* The same without the exemptions: all of RAM arrives. *)
RamArrives == eof = "sent" => dest = ram

(* The machine is on one side: it never runs on both, and a first          *)
(* migration that does not complete leaves it running on the source.       *)
OneSideRuns ==
  /\ eof = "sent" => ~running
  /\ migs = 1 /\ pc = "none" /\ state # "completed" /\ halt = "no" => running

(* A migration that is cancelled, or whose file has an error, ends if the  *)
(* receiver lets every send() return: the thread exits, the file is closed *)
(* and, if no error has overwritten the cancellation, the dirty log is     *)
(* off.  Two things keep it from that: another migrate command that resets *)
(* the state under the thread and, with XBZRLE only, the failure of an     *)
(* assertion that there is a cache, which ends QEMU.                       *)
SendsReturn == WF_vars(MaybeFlush) /\ WF_vars(migrate_fd_cleanup)
Ended == pc = "none" /\ ~file /\ (state = "cancelled" => ~log_on)
MigrationEnds ==
  SendsReturn =>
    (state = "cancelled" \/ (file_err /\ pc # "none")
       ~> Ended \/ halt = "wiped" \/ (halt = "assert" /\ xbzrle))
=============================================================================
