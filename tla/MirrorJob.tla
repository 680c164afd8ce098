------------------------------ MODULE MirrorJob ------------------------------
(***************************************************************************)
(* drive-mirror: the job of block/mirror.c on top of blockjob.c, the dirty *)
(* bitmap of block.c, and guest writes in flight on the source meanwhile.  *)
(*                                                                         *)
(* Everything runs under the global mutex, so a step is what happens from  *)
(* one point where the mirror coroutine yields to the next one; guest      *)
(* requests and monitor commands run in between.  Data is abstracted to    *)
(* one fact per dirty chunk: does the target hold what the source holds?   *)
(*                                                                         *)
(* The backing file of the target is open or absent when the monitor asks  *)
(* for completion, so bdrv_open_backing_file in mirror_complete does not   *)
(* poll.                                                                   *)
(***************************************************************************)
EXTENDS Integers, FiniteSets

CONSTANTS NChunk,        \* length of the device in dirty chunks
          Writer,        \* guest writes that can be in flight together
          MaxWrites,     \* bound: guest writes in a behaviour
          Policies       \* BlockdevOnError values the user may pick

Chunk == 0 .. NChunk - 1

ASSUME ConstantsAssumption ==
  /\ NChunk \in Nat \ {0} /\ MaxWrites \in Nat
  /\ Policies \subseteq {"report", "ignore", "enospc", "stop"}

VARIABLES
  \* the device
  stale,            \* chunks whose contents on the target are not the source's
  tracking,         \* bs->dirty_bitmap # NULL
  dirty,            \* the bits set in it
  wr,               \* guest writes in flight: state and chunk
  budget,           \* guest writes left
  \* BlockJob
  paused, cancelled, busy, iostatus,
  \* MirrorBlockJob and the locals of mirror_run
  pc, on_source_error, on_target_error, synced, should_complete,
  sector_num,       \* chunk being copied (or scanned, in the first phase)
  buf,              \* what the bounce buffer holds of it
  \* history
  exit,             \* why mirror_run left its loop
  pivoted,          \* bdrv_swap was called
  event             \* the event block_job_cb emitted

deviceVars == <<stale, tracking, dirty, wr, budget>>
userVars   == <<paused, cancelled, iostatus>>
mirrorVars == <<on_source_error, on_target_error>>
runVars    == <<pc, busy, synced, should_complete, sector_num, buf>>
exitVars   == <<exit, pivoted, event>>
vars == <<deviceVars, userVars, mirrorVars, runVars, exitVars>>

Idle == [st |-> "idle", chunk |-> 0]
Quiet == \A w \in Writer : wr[w].st = "idle"   \* tracked_requests is empty

Init ==
  /\ stale = {} /\ tracking = FALSE /\ dirty = {}
  /\ wr = [w \in Writer |-> Idle] /\ budget = MaxWrites
  /\ paused = FALSE /\ cancelled = FALSE /\ busy = TRUE /\ iostatus = "ok"
  /\ pc = "none" /\ synced = FALSE /\ should_complete = FALSE
  /\ on_source_error = "report" /\ on_target_error = "report"
  /\ sector_num = 0 /\ buf = "empty"
  /\ exit = "none" /\ pivoted = FALSE /\ event = "none"

-----------------------------------------------------------------------------
(* Guest writes: bdrv_co_do_writev.  The bitmap is updated when the driver's *)
(* write is over, whatever its result.                                       *)

guest_submit(w, c) ==
  /\ wr[w].st = "idle" /\ budget > 0
  /\ wr' = [wr EXCEPT ![w] = [st |-> "pending", chunk |-> c]]
  /\ budget' = budget - 1
  /\ UNCHANGED <<stale, tracking, dirty, userVars, mirrorVars, runVars, exitVars>>

\* The data reaches the image the device uses now.
guest_land(w) ==
  /\ wr[w].st = "pending"
  /\ wr' = [wr EXCEPT ![w].st = "landed"]
  /\ stale' = IF pc # "none" /\ ~pivoted THEN stale \cup {wr[w].chunk} ELSE stale
  /\ buf' = IF buf = "current" /\ sector_num = wr[w].chunk THEN "outdated" ELSE buf
  /\ UNCHANGED <<tracking, dirty, budget, userVars, mirrorVars, pc, busy, synced,
                 should_complete, sector_num, exitVars>>

\* Mutation: bits are set although there is no bitmap.
Mut_set_dirty(w) == dirty \cup {wr[w].chunk}

\* `if (bs->dirty_bitmap) bdrv_set_dirty(...)'
set_dirty(w) == IF tracking THEN dirty \cup {wr[w].chunk} ELSE dirty

\* The write ends, possibly in error and without having reached the image.
guest_complete(w) ==
  /\ wr[w].st # "idle"
  /\ dirty' = set_dirty(w)
  /\ wr' = [wr EXCEPT ![w] = Idle]
  /\ UNCHANGED <<stale, tracking, budget, userVars, mirrorVars, runVars, exitVars>>

-----------------------------------------------------------------------------
(* Pieces of mirror_run between two yields *)

\* bdrv_get_next_dirty: the first dirty chunk after c, wrapping around.
next_dirty(c, bits) ==
  IF \E d \in bits : d > c
  THEN CHOOSE d \in bits : d > c /\ \A e \in bits : e > c => d <= e
  ELSE CHOOSE d \in bits : \A e \in bits : d <= e

\* Mutation: the dirty bit is left set until the copy is done.
Mut_iteration_begin(c, bits) ==
  /\ sector_num' = next_dirty(c, bits) /\ dirty' = bits
  /\ buf' = "empty" /\ pc' = "read"

\* mirror_iteration up to bdrv_co_readv.
iteration_begin(c, bits) ==
  /\ sector_num' = next_dirty(c, bits)
  /\ dirty' = bits \ {next_dirty(c, bits)}
  /\ buf' = "empty" /\ pc' = "read"

\* The top of the for loop, with sector_num = c and the dirty bits `bits'.
loop_top(c, bits) ==
  /\ busy' = TRUE
  /\ IF bits # {}
     THEN iteration_begin(c, bits)
     ELSE /\ pc' = "flush"
          /\ sector_num' = c /\ dirty' = bits /\ buf' = "empty"
  /\ UNCHANGED <<tracking, exitVars>>


\* From immediate_exit on, with ret = 0 (ok) or ret < 0, up to the next yield:
\* that of bdrv_reopen, if the open flags of the two devices differ, or that of
\* bdrv_close.
immediate_exit(why, ok) ==
  /\ exit' = why
  /\ tracking' = FALSE /\ dirty' = {}
  /\ pc' \in IF should_complete /\ ok THEN {"reopen", "close"} ELSE {"close"}
  /\ pivoted' = (should_complete /\ ok /\ pc' = "close")
  /\ busy' = TRUE /\ buf' = "empty"
  /\ UNCHANGED <<sector_num, event>>

\* block_job_sleep_ns returns without yielding.
sleep_returns == cancelled

\* block_job_sleep_ns yields, waiting for a timer or for block_job_resume.
sleep ==
  /\ busy' = FALSE
  /\ pc' = IF paused' THEN "paused" ELSE "sleep"
  /\ buf' = "empty"
  /\ UNCHANGED <<tracking, sector_num, exitVars>>

\* After block_job_sleep_ns, with job->cancelled = c.
after_sleep(c, bits) ==
  IF ~synced' /\ c
  THEN immediate_exit("cancelled", TRUE)
  ELSE loop_top(sector_num, bits)

\* The end of the loop body, from `ret = 0' on.  complete is the local
\* should_complete, bits the bitmap.
loop_end(bits, complete) ==
  IF synced' /\ complete
  THEN IF bits = {}
       THEN cancelled' = FALSE /\ immediate_exit("insync", TRUE)
       ELSE UNCHANGED cancelled /\ loop_top(sector_num, bits)
  ELSE /\ UNCHANGED cancelled
       /\ IF sleep_returns THEN after_sleep(cancelled, bits)
          ELSE dirty' = bits /\ sleep

-----------------------------------------------------------------------------
(* Errors *)

\* block_job_error_action: the action that policy p asks for.
error_action(p, error) ==
  IF p = "enospc" THEN (IF error = "ENOSPC" THEN "stop" ELSE "report") ELSE p

mirror_error_action(p, error) ==
  /\ synced' = FALSE
  /\ IF error_action(p, error) = "stop"
     THEN /\ paused' = TRUE
          /\ iostatus' = IF iostatus # "ok" THEN iostatus
                         ELSE IF error = "ENOSPC" THEN "nospace" ELSE "failed"
     ELSE UNCHANGED <<paused, iostatus>>

\* What mirror_run does after an error: bits is the bitmap by then.
fail(p, error, bits) ==
  /\ mirror_error_action(p, error)
  /\ IF error_action(p, error) = "report"
     THEN UNCHANGED cancelled /\ immediate_exit("error", FALSE)
     ELSE loop_end(bits, FALSE)

Errors == {"EIO", "ENOSPC"}

-----------------------------------------------------------------------------
(* mirror_start and the steps of mirror_run *)

Landed == {wr[w].chunk : w \in {v \in Writer : wr[v].st = "landed"}}

\* The target is blank: what differs is what the mode says to copy, alloc.
mirror_start(m, src, tgt, alloc) ==
  /\ pc = "none" /\ Landed \subseteq alloc
  /\ on_source_error' = src /\ on_target_error' = tgt
  /\ paused' = FALSE /\ cancelled' = FALSE /\ iostatus' = "ok" /\ busy' = TRUE
  /\ synced' = FALSE /\ should_complete' = FALSE
  /\ tracking' = TRUE /\ dirty' = {}
  /\ stale' = IF m = "none" THEN {} ELSE alloc
  /\ exit' = "none" /\ pivoted' = FALSE /\ event' = "none" /\ buf' = "empty"
  /\ IF m = "none" THEN pc' = "flush" /\ sector_num' = -1
                   ELSE pc' = "populate" /\ sector_num' = 0
  /\ UNCHANGED <<wr, budget>>

\* One chunk of the first loop: bdrv_co_is_allocated_above found it allocated
\* if it has to be copied.
populate ==
  /\ pc = "populate"
  /\ UNCHANGED <<stale, wr, budget, userVars, mirrorVars, synced, should_complete>>
  /\ LET bits == dirty \cup (stale \cap {sector_num})
     IN IF sector_num + 1 < NChunk
        THEN /\ dirty' = bits /\ sector_num' = sector_num + 1
             /\ UNCHANGED <<tracking, pc, busy, buf, exitVars>>
        ELSE loop_top(-1, bits)

populate_fails ==
  /\ pc = "populate"
  /\ immediate_exit("error", FALSE)
  /\ UNCHANGED <<stale, wr, budget, userVars, mirrorVars, synced, should_complete>>

\* The read takes its data from the source some time before it completes.
read_data ==
  /\ pc = "read" /\ buf = "empty"
  /\ buf' = "current"
  /\ UNCHANGED <<deviceVars, userVars, mirrorVars, pc, busy, synced,
                 should_complete, sector_num, exitVars>>

read_done ==
  /\ pc = "read" /\ buf # "empty"
  /\ pc' = "write"
  /\ UNCHANGED <<deviceVars, userVars, mirrorVars, busy, synced,
                 should_complete, sector_num, buf, exitVars>>

\* Mutation: a failed copy is not tried again.
Mut_retry == dirty

\* The bitmap after the label fail of mirror_iteration.
retry == dirty \cup {sector_num}

read_fails(error) ==
  /\ pc = "read"
  /\ fail(on_source_error, error, retry)
  /\ UNCHANGED <<stale, wr, budget, mirrorVars, should_complete>>

write_done ==
  /\ pc = "write"
  /\ stale' = IF buf = "current" THEN stale \ {sector_num} ELSE stale \cup {sector_num}
  /\ UNCHANGED <<wr, budget, paused, iostatus, mirrorVars, synced, should_complete>>
  /\ IF dirty = {}
     THEN /\ pc' = "flush" /\ buf' = "empty"
          /\ UNCHANGED <<cancelled, tracking, dirty, busy, sector_num, exitVars>>
     ELSE loop_end(dirty, FALSE)

\* The target may have been overwritten in part.
write_fails(error) ==
  /\ pc = "write"
  /\ stale' = stale \cup {sector_num}
  /\ fail(on_target_error, error, retry)
  /\ UNCHANGED <<wr, budget, mirrorVars, should_complete>>

\* Mutation: exit without waiting for the requests in flight.
Mut_drain_needed(complete) == FALSE

\* `if (cnt == 0 && should_complete)': drain before the last look at the bitmap.
drain_needed(complete) == dirty = {} /\ complete

\* Mutation: block-job-complete is forgotten.
Mut_complete_asked == cancelled

complete_asked == should_complete \/ cancelled

flush_done ==
  /\ pc = "flush"
  /\ synced' = TRUE
  /\ UNCHANGED <<stale, wr, budget, paused, iostatus, mirrorVars, should_complete>>
  /\ IF drain_needed(complete_asked)
     THEN /\ pc' = "drain"
          /\ UNCHANGED <<cancelled, tracking, dirty, busy, sector_num, buf, exitVars>>
     ELSE loop_end(dirty, complete_asked)

flush_fails(error) ==
  /\ pc = "flush"
  /\ fail(on_target_error, error, dirty)
  /\ UNCHANGED <<stale, wr, budget, mirrorVars, should_complete>>

\* bdrv_drain_all returns.
drain_done ==
  /\ pc = "drain" /\ Quiet
  /\ UNCHANGED <<stale, wr, budget, paused, iostatus, mirrorVars, synced, should_complete>>
  /\ loop_end(dirty, TRUE)

\* The timer of co_sleep_ns fires.
wakeup ==
  /\ pc = "sleep"
  /\ UNCHANGED <<stale, wr, budget, userVars, mirrorVars, synced, should_complete>>
  /\ after_sleep(cancelled, dirty)

\* bdrv_reopen ends, whatever its result, and bdrv_swap is called.
reopen_done ==
  /\ pc = "reopen"
  /\ pivoted' = TRUE /\ pc' = "close"
  /\ UNCHANGED <<deviceVars, userVars, mirrorVars, busy, synced, should_complete,
                 sector_num, buf, exit, event>>

\* block_job_cb: the event and, for COMPLETED, whether it carries an error.
block_job_cb ==
  IF cancelled THEN "CANCELLED" ELSE IF exit = "error" THEN "ERROR" ELSE "COMPLETED"

\* bdrv_close of the target returns; block_job_completed.
completed ==
  /\ pc = "close" /\ Quiet
  /\ pc' = "none" /\ event' = block_job_cb
  /\ UNCHANGED <<deviceVars, userVars, mirrorVars, busy, synced, should_complete,
                 sector_num, buf, exit, pivoted>>

-----------------------------------------------------------------------------
(* Monitor commands.  bdrv_drain_all does not return to the main loop. *)

Monitor == pc \notin {"none", "drain"}

qmp_block_job_pause ==
  /\ Monitor /\ paused' = TRUE
  /\ UNCHANGED <<deviceVars, cancelled, iostatus, mirrorVars, runVars, exitVars>>

\* block_job_iostatus_reset.
iostatus_reset == "ok"

\* block_job_resume, with job->cancelled = c.
block_job_resume(c) ==
  /\ paused' = FALSE /\ iostatus' = iostatus_reset
  /\ UNCHANGED <<stale, wr, budget, mirrorVars, synced>>
  /\ IF busy
     THEN UNCHANGED <<pc, busy, sector_num, buf, tracking, dirty, exitVars>>
     ELSE after_sleep(c, dirty)

qmp_block_job_resume ==
  /\ Monitor /\ block_job_resume(cancelled)
  /\ UNCHANGED <<cancelled, should_complete>>

\* Mutation: cancelling a paused job does not resume it.
Mut_qmp_block_job_cancel ==
  /\ Monitor /\ cancelled' = TRUE
  /\ UNCHANGED <<deviceVars, paused, iostatus, mirrorVars, runVars, exitVars>>

\* A paused job needs force = true, which the user may give.
qmp_block_job_cancel ==
  /\ Monitor /\ cancelled' = TRUE
  /\ block_job_resume(TRUE)
  /\ UNCHANGED should_complete

can_complete == ~paused /\ ~cancelled /\ synced

qmp_block_job_complete ==
  /\ Monitor /\ can_complete
  /\ should_complete' = TRUE
  /\ block_job_resume(cancelled)
  /\ UNCHANGED cancelled

-----------------------------------------------------------------------------
(* The specification *)

Guest == \E w \in Writer : \/ \E c \in Chunk : guest_submit(w, c)
                           \/ guest_land(w)
                           \/ guest_complete(w)

Job == \/ populate \/ populate_fails
       \/ read_data \/ read_done \/ write_done \/ flush_done
       \/ \E error \in Errors : \/ read_fails(error)
                                \/ write_fails(error)
                                \/ flush_fails(error)
       \/ drain_done \/ wakeup \/ reopen_done \/ completed

User == \/ \E m \in {"full", "top", "none"}, src, tgt \in Policies, alloc \in SUBSET Chunk :
             mirror_start(m, src, tgt, alloc)
        \/ qmp_block_job_pause \/ qmp_block_job_resume
        \/ qmp_block_job_cancel \/ qmp_block_job_complete

Next == Guest \/ Job \/ User

Spec == Init /\ [][Next]_vars

\* Requests in flight and timers end: a step of the job, and of every guest
\* write, that is due is taken.  Users and guests need not do anything.
FairSpec ==
  /\ Spec /\ WF_vars(Job)
  /\ WF_vars(\E w \in Writer : guest_complete(w))

-----------------------------------------------------------------------------
(* Properties *)

\* Every variable has a value of its C type, and the bitmap is only used
\* while it exists.
TypeOK ==
  /\ stale \subseteq Chunk /\ dirty \subseteq Chunk /\ tracking \in BOOLEAN
  /\ wr \in [Writer -> [st : {"idle", "pending", "landed"}, chunk : Chunk]]
  /\ budget \in 0 .. MaxWrites
  /\ paused \in BOOLEAN /\ cancelled \in BOOLEAN /\ busy \in BOOLEAN
  /\ iostatus \in {"ok", "failed", "nospace"}
  /\ pc \in {"none", "populate", "read", "write", "flush", "drain", "sleep",
             "paused", "reopen", "close"}
  /\ on_source_error \in Policies \cup {"report"}
  /\ on_target_error \in Policies \cup {"report"}
  /\ synced \in BOOLEAN /\ should_complete \in BOOLEAN
  /\ sector_num \in Chunk \cup {-1}
  /\ buf \in {"empty", "current", "outdated"}
  /\ exit \in {"none", "insync", "cancelled", "error"}
  /\ pivoted \in BOOLEAN /\ event \in {"none", "CANCELLED", "ERROR", "COMPLETED"}
  /\ ~tracking => dirty = {}

\* The job is going to copy chunk c, or bdrv_co_do_writev to set its bit.
Accounted(c) ==
  \/ c \in dirty
  \/ c \in Landed
  \/ pc \in {"read", "write"} /\ sector_num = c /\ buf # "outdated"
  \/ pc = "populate" /\ c >= sector_num

\* While the job runs no change of the source is forgotten: a chunk that the
\* target lacks has its dirty bit, or a guest write over it has yet to end, or
\* mirror_iteration is copying it from a read no write has overtaken, or the
\* first loop of mirror_run has not come to it.
NoChangeForgotten == tracking => \A c \in stale : Accounted(c)

\* The job stops at the first error.
Reports == on_source_error = "report" /\ on_target_error = "report"

\* bdrv_swap gives the guest a device that holds all it wrote, if the user chose
\* not to ignore errors and the target need not be reopened first.
PivotIsClean == [][~pivoted /\ pivoted' /\ pc # "reopen" /\ Reports => stale' = {}]_vars

\* So it does when bdrv_reopen comes between the exit from the loop, "The two
\* disks are in sync", and bdrv_swap.
ReopenedPivotIsClean == [][~pivoted /\ pivoted' /\ Reports => stale' = {}]_vars

\* bdrv_swap is for jobs that are "ready to complete", a status that every
\* I/O error of the job resets (QMP/qmp-events.txt).
ReadyAtPivot == [][~pivoted /\ pivoted' => synced]_vars

\* A cancelled job ends, whatever errors it meets (block_job_cancel).
CancelEnds == cancelled ~> pc = "none"

\* No error is ignored.
Heeds == "ignore" \notin {on_source_error, on_target_error}

\* Unless errors are ignored the job becomes ready, ends, or is parked by the
\* user or by an error: mirror_iteration catches up with a guest that stops writing.
Converges == pc = "populate" /\ Heeds ~> synced \/ pc \in {"none", "paused"}

\* Unless errors are ignored an accepted block-job-complete is carried out, or
\* the job is parked.
CompleteEnds == should_complete /\ pc # "none" /\ Heeds ~> pc \in {"none", "paused"}
=============================================================================
