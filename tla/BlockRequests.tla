--------------------------- MODULE BlockRequests ---------------------------
(***************************************************************************)
(* The requests of one BlockDriverState in block.c: I/O throttling, the    *)
(* serialisation of copy-on-read against everything that touches the same  *)
(* cluster, and bdrv_drain_all.                                            *)
(*                                                                         *)
(* A request is a coroutine.  It runs from one yield to the next in one    *)
(* step: it yields in the throttle queue, in the wait queue of another     *)
(* request, or while the driver does I/O.  Queues wake their coroutines    *)
(* through the bottom half of qemu-coroutine-lock.c.                       *)
(***************************************************************************)
EXTENDS Integers, FiniteSets, Sequences

CONSTANTS Req,        \* requests
          NSectors,   \* sectors of the device
          Cluster,    \* sectors of a cluster
          Setups,     \* what the requests may be
          MaxAdmin    \* bound: monitor commands and drains

ASSUME BlockConstants ==
  /\ IsFiniteSet(Req)
  /\ {NSectors, Cluster} \subseteq Nat \ {0} /\ MaxAdmin \in Nat
  /\ {"main", "drain", "abort"} \cap Req = {}

Sector == 0 .. NSectors - 1

ASSUME SetupsAssumption ==
  Setups \subseteq [Req -> [kind : {"read", "cor", "write"}, region : SUBSET Sector]]

Main == "main"
Drain == "drain"
Abort == "abort"   \* an assertion of bdrv_drain_all has failed
Old == "old"       \* content of the backing file

VARIABLES
  pc,         \* where each request is
  kind,       \* what it will be: "read", "cor" (with copy-on-read) or "write"
  region,     \* and on which sectors
  bounce,     \* what a copy-on-read has read
  throttled,  \* bs->throttled_reqs
  unlock,     \* unlock_bh_queue
  inbh,       \* qemu_co_queue_next_bh is emptying it
  waitq,      \* for each request, the requests in its wait_queue
  tracked,    \* bs->tracked_requests
  cor,        \* bs->copy_on_read_in_flight
  disk, alloc,        \* what the guest reads, and the sectors the image has
  enabled, limits,    \* bs->io_limits_enabled; bs->io_limits is not all 0
  timer,      \* bs->block_timer: "none", "idle" or "armed"
  loop,       \* the main loop, a drain, or the synchronous request waited for
  crash,      \* a timer that was freed has been used
  clock,      \* vm_clock runs
  admin       \* for the bound

request == <<pc, kind, region, bounce>>
queues == <<throttled, unlock, inbh, waitq>>
data == <<disk, alloc>>
throttle == <<enabled, limits, timer, crash>>
vars == <<request, queues, tracked, cor, data, throttle, clock, loop, admin>>
-----------------------------------------------------------------------------
(* Regions.                                                                *)

ClusterOf(s) == {t \in Sector : t \div Cluster = s \div Cluster}
round_to_clusters(S) == UNION {ClusterOf(s) : s \in S}

tracked_request_overlaps(r, S) == region[r] \cap S # {}

(* Mutant: requests are compared sector by sector. *)
Mut_Overlapping(r) == {q \in tracked : tracked_request_overlaps(q, region[r])}

Overlapping(r) == {q \in tracked : tracked_request_overlaps(q, round_to_clusters(region[r]))}
-----------------------------------------------------------------------------
Init ==
  /\ pc = [r \in Req |-> "idle"]
  /\ \E setup \in Setups : /\ kind = [r \in Req |-> setup[r].kind]
                           /\ region = [r \in Req |-> setup[r].region]
  /\ bounce = [r \in Req |-> [s \in Sector |-> Old]]
  /\ throttled = <<>> /\ unlock = <<>> /\ inbh = FALSE /\ waitq = [r \in Req |-> <<>>]
  /\ tracked = {} /\ cor = 0
  /\ disk = [s \in Sector |-> Old] /\ alloc = {}
  /\ limits \in BOOLEAN /\ enabled = limits
  /\ timer = IF limits THEN "idle" ELSE "none"
  /\ loop = Main /\ crash = FALSE /\ clock = TRUE /\ admin = 0
-----------------------------------------------------------------------------
(* The coroutine, from the end of throttling on: wait, or track and start. *)
(* u is the bottom half's queue, the coroutine itself removed.             *)

(* Mutant: a request that was woken does not look again. *)
Mut_wait_for_overlapping_requests(r, u) ==
  /\ unlock' = u
  /\ IF cor' > 0 /\ Overlapping(r) # {} /\ pc[r] # "overlap"
     THEN /\ \E q \in Overlapping(r) : waitq' = [waitq EXCEPT ![q] = Append(@, r)]
          /\ pc' = [pc EXCEPT ![r] = "overlap"]
          /\ UNCHANGED tracked
     ELSE /\ tracked' = tracked \cup {r}
          /\ pc' = [pc EXCEPT ![r] = "io"]
          /\ UNCHANGED waitq

(* Once a request waits it looks at all the tracked ones after each wakeup, *)
(* whether copy-on-reads are still in flight or not.                       *)
wait_for_overlapping_requests(r, u) ==
  /\ unlock' = u
  /\ IF (cor' > 0 \/ pc[r] = "overlap") /\ Overlapping(r) # {}
     THEN /\ \E q \in Overlapping(r) : waitq' = [waitq EXCEPT ![q] = Append(@, r)]
          /\ pc' = [pc EXCEPT ![r] = "overlap"]
          /\ UNCHANGED tracked
     ELSE /\ tracked' = tracked \cup {r}
          /\ pc' = [pc EXCEPT ![r] = "io"]
          /\ UNCHANGED waitq

(* bdrv_co_do_readv and bdrv_co_do_writev after the throttle. *)
Proceed(r, u) ==
  /\ cor' = IF kind[r] = "cor" THEN cor + 1 ELSE cor
  /\ wait_for_overlapping_requests(r, u)

(* bdrv_io_limits_intercept's loop.  bdrv_exceed_io_limits depends on      *)
(* clocks and statistics and is left open, but without limits it is false. *)
Exceeds(r, u) ==
  /\ limits
  /\ crash' = (timer = "none") /\ timer' = "armed"
  /\ throttled' = <<r>> \o throttled /\ unlock' = u
  /\ pc' = [pc EXCEPT ![r] = "throttle"]
  /\ UNCHANGED <<waitq, tracked, cor>>

(* Mutant: a request that passes does not wake the next one. *)
Mut_Passes(r, u) ==
  /\ Proceed(r, u)
  /\ UNCHANGED <<throttled, timer, crash>>

Passes(r, u) ==
  /\ IF throttled = <<>> THEN Proceed(r, u) /\ UNCHANGED throttled
     ELSE Proceed(r, Append(u, Head(throttled))) /\ throttled' = Tail(throttled)
  /\ UNCHANGED <<timer, crash>>

bdrv_io_limits_intercept(r) ==
  IF throttled # <<>>
  THEN /\ throttled' = Append(throttled, r)
       /\ pc' = [pc EXCEPT ![r] = "throttle"]
       /\ UNCHANGED <<unlock, waitq, tracked, cor, timer, crash>>
  ELSE Exceeds(r, unlock) \/ Passes(r, unlock)

Free == ~inbh /\ ~crash /\ loop # Abort

(* A new request from the guest or from a job. *)
Submit(r) ==
  /\ Free /\ loop = Main /\ pc[r] = "idle"
  /\ IF enabled THEN bdrv_io_limits_intercept(r)
     ELSE Proceed(r, unlock) /\ UNCHANGED <<throttled, timer, crash>>
  /\ UNCHANGED <<kind, region, bounce, inbh, data, enabled, limits, clock, loop, admin>>

(* qemu_co_queue_next_bh: the first coroutine of the queue is entered and  *)
(* goes on where it yielded; the bottom half runs until the queue is empty.*)
Resume(r) ==
  /\ ~crash /\ unlock # <<>> /\ r = Head(unlock)
  /\ \/ /\ pc[r] = "throttle"
        /\ Exceeds(r, Tail(unlock)) \/ Passes(r, Tail(unlock))
     \/ /\ pc[r] = "overlap"
        /\ cor' = cor /\ wait_for_overlapping_requests(r, Tail(unlock))
        /\ UNCHANGED <<throttled, timer, crash>>
  /\ inbh' = (unlock' # <<>>)
  /\ UNCHANGED <<kind, region, bounce, data, enabled, limits, clock, loop, admin>>
-----------------------------------------------------------------------------
(* I/O.  tracked_request_end wakes those that wait for the request.        *)

(* Mutant: only the first of those that wait is woken. *)
Mut_tracked_request_end(r) ==
  /\ tracked' = tracked \ {r}
  /\ unlock' = IF waitq[r] = <<>> THEN unlock ELSE Append(unlock, Head(waitq[r]))
  /\ waitq' = [waitq EXCEPT ![r] = <<>>]

tracked_request_end(r) ==
  /\ tracked' = tracked \ {r}
  /\ unlock' = unlock \o waitq[r]
  /\ waitq' = [waitq EXCEPT ![r] = <<>>]

(* Mutant: the counter is dropped by every request. *)
Mut_End(r) ==
  /\ tracked_request_end(r)
  /\ cor' = cor - 1
  /\ pc' = [pc EXCEPT ![r] = "done"]
  /\ loop' = IF loop = r THEN Main ELSE loop
  /\ UNCHANGED <<kind, region, throttled, inbh, throttle, clock, admin>>

End(r) ==
  /\ tracked_request_end(r)
  /\ cor' = IF kind[r] = "cor" THEN cor - 1 ELSE cor
  /\ pc' = [pc EXCEPT ![r] = "done"]
  /\ loop' = IF loop = r THEN Main ELSE loop
  /\ UNCHANGED <<kind, region, throttled, inbh, throttle, clock, admin>>

(* A read, or a copy-on-read of a region that is allocated, is over. *)
ReadDone(r) ==
  /\ Free /\ pc[r] = "io"
  /\ kind[r] = "read" \/ (kind[r] = "cor" /\ region[r] \subseteq alloc)
  /\ End(r)
  /\ UNCHANGED <<bounce, data>>

(* bdrv_co_do_copy_on_readv: the whole clusters are read, then written. *)
CorRead(r) ==
  /\ Free /\ pc[r] = "io" /\ kind[r] = "cor" /\ ~(region[r] \subseteq alloc)
  /\ bounce' = [bounce EXCEPT ![r] = disk]
  /\ pc' = [pc EXCEPT ![r] = "cow"]
  /\ UNCHANGED <<kind, region, queues, tracked, cor, data, throttle, clock, loop, admin>>

CorWrite(r) ==
  LET S == round_to_clusters(region[r]) IN
  /\ Free /\ pc[r] = "cow"
  /\ disk' = [s \in Sector |-> IF s \in S THEN bounce[r][s] ELSE disk[s]]
  /\ alloc' = alloc \cup S
  /\ bounce' = [bounce EXCEPT ![r] = [s \in Sector |-> Old]]
  /\ End(r)

(* A guest write reaches the image, which allocates whole clusters, and    *)
(* ends after the flush of a write-through device.                         *)
WriteData(r) ==
  /\ Free /\ pc[r] = "io" /\ kind[r] = "write"
  /\ disk' = [s \in Sector |-> IF s \in region[r] THEN r ELSE disk[s]]
  /\ alloc' = alloc \cup round_to_clusters(region[r])
  /\ pc' = [pc EXCEPT ![r] = "flush"]
  /\ UNCHANGED <<kind, region, bounce, queues, tracked, cor, throttle, clock, loop, admin>>

WriteDone(r) ==
  /\ Free /\ pc[r] = "flush"
  /\ End(r)
  /\ UNCHANGED <<bounce, data>>

(* The driver returns an error. *)
IoError(r) ==
  /\ Free /\ pc[r] \in {"io", "cow"}
  /\ bounce' = [bounce EXCEPT ![r] = [s \in Sector |-> Old]]
  /\ End(r)
  /\ UNCHANGED data
-----------------------------------------------------------------------------
(* Throttling is switched on and off.                                      *)

bdrv_block_timer ==
  /\ Free /\ loop = Main /\ timer = "armed"
  /\ timer' = "idle"
  /\ IF throttled = <<>> THEN UNCHANGED <<throttled, unlock>>
     ELSE throttled' = Tail(throttled) /\ unlock' = Append(unlock, Head(throttled))
  /\ UNCHANGED <<request, inbh, waitq, tracked, cor, data, enabled, limits, crash, clock, loop, admin>>

(* Mutant: the timer is not created. *)
Mut_bdrv_io_limits_enable ==
  /\ throttled' = <<>>
  /\ enabled' = TRUE
  /\ UNCHANGED <<unlock, timer>>

bdrv_io_limits_enable ==
  /\ throttled' = <<>>        \* qemu_co_queue_init
  /\ timer' = "idle" /\ enabled' = TRUE
  /\ UNCHANGED unlock

bdrv_io_limits_disable ==
  /\ enabled' = FALSE /\ timer' = "none"
  /\ unlock' = unlock \o throttled /\ throttled' = <<>>

qmp_block_set_io_throttle ==
  /\ Free /\ loop = Main /\ admin < MaxAdmin
  /\ admin' = admin + 1
  /\ limits' \in BOOLEAN
  /\ IF ~enabled /\ limits' THEN bdrv_io_limits_enable
     ELSE IF enabled /\ ~limits' THEN bdrv_io_limits_disable
     ELSE /\ timer' = IF timer = "none" THEN timer ELSE "armed"
          /\ UNCHANGED <<enabled, throttled, unlock>>
  /\ UNCHANGED <<request, inbh, waitq, tracked, cor, data, crash, clock, loop>>

(* bdrv_rw_co: a synchronous request switches throttling off, starts, and  *)
(* waits in qemu_aio_wait, where timers do not run.                        *)
bdrv_rw_co(r) ==
  /\ Free /\ loop = Main /\ pc[r] = "idle" /\ admin < MaxAdmin
  /\ admin' = admin + 1 /\ loop' = r
  /\ IF enabled THEN /\ Proceed(r, unlock \o throttled)
                     /\ throttled' = <<>> /\ timer' = "none" /\ enabled' = FALSE
                ELSE Proceed(r, unlock) /\ UNCHANGED <<throttled, timer, enabled>>
  /\ UNCHANGED <<kind, region, bounce, inbh, data, limits, crash, clock>>

(* bdrv_drain_all: qemu_aio_wait and a restart of every throttled request  *)
(* until a poll returns false with no request throttled.  do_vm_stop stops *)
(* vm_clock before it drains.                                              *)
Drains ==
  /\ Free /\ loop = Main /\ admin < MaxAdmin
  /\ loop' = Drain /\ admin' = admin + 1
  /\ UNCHANGED <<request, queues, tracked, cor, data, throttle>>

DrainStart == Drains /\ UNCHANGED clock

do_vm_stop == Drains /\ clock /\ clock' = FALSE

vm_start ==
  /\ Free /\ loop = Main /\ ~clock /\ clock' = TRUE
  /\ UNCHANGED <<request, queues, tracked, cor, data, throttle, loop, admin>>

DrainRestart ==
  /\ Free /\ loop = Drain /\ throttled # <<>>
  /\ unlock' = unlock \o throttled /\ throttled' = <<>>
  /\ UNCHANGED <<request, inbh, waitq, tracked, cor, data, throttle, clock, loop, admin>>

InFlight == {r \in Req : pc[r] \in {"io", "cow", "flush"}}

(* The loop is over, and the assertions on the device's requests follow. *)
DrainAsserts ==
  /\ Free /\ loop = Drain /\ throttled = <<>>
  /\ loop' = IF tracked = {} THEN Main ELSE Abort
  /\ UNCHANGED <<request, queues, tracked, cor, data, throttle, clock, admin>>

(* Mutant: the bottom half's queue does not count as work to do. *)
Mut_DrainEnd == InFlight = {} /\ DrainAsserts

(* A poll returns false when it ran no bottom half and nothing is in flight, *)
DrainEnd == unlock = <<>> /\ InFlight = {} /\ DrainAsserts

(* or when a signal interrupted select. *)
Interrupted == unlock = <<>> /\ InFlight # {} /\ DrainAsserts
-----------------------------------------------------------------------------
Io(r) == ReadDone(r) \/ CorRead(r) \/ CorWrite(r) \/ WriteData(r) \/ WriteDone(r) \/ IoError(r)

Next == \/ \E r \in Req : Submit(r) \/ Resume(r) \/ Io(r) \/ bdrv_rw_co(r)
        \/ bdrv_block_timer \/ qmp_block_set_io_throttle
        \/ DrainStart \/ do_vm_stop \/ vm_start \/ DrainRestart \/ DrainEnd \/ Interrupted

Spec == Init /\ [][Next]_vars

(* The loop runs its handlers and the driver answers.  While vm_clock runs *)
(* its timers fire, and a request that is tested again and again passes in *)
(* the end: a test that fails extends the slice beyond the time to wait.   *)
(* With the clock stopped each test may give the same answer, for ever.    *)
Throttled(r) == \E i \in DOMAIN throttled : throttled[i] = r
FairSpec ==
  /\ Spec
  /\ WF_vars(\E r \in Req : Resume(r))
  /\ SF_vars(clock /\ \E r \in Req : Resume(r) /\ ~Throttled(r)')
  /\ WF_vars(\E r \in Req : Io(r))
  /\ WF_vars(clock /\ bdrv_block_timer) /\ WF_vars(DrainRestart) /\ WF_vars(DrainEnd)
-----------------------------------------------------------------------------
(* Properties.                                                             *)

Pcs == {"idle", "throttle", "overlap", "io", "cow", "flush", "done"}

(* Every variable has its type. *)
TypeOK ==
  /\ pc \in [Req -> Pcs] /\ kind \in [Req -> {"read", "cor", "write"}]
  /\ region \in [Req -> SUBSET Sector]
  /\ bounce \in [Req -> [Sector -> Req \cup {Old}]] /\ disk \in [Sector -> Req \cup {Old}]
  /\ throttled \in Seq(Req) /\ unlock \in Seq(Req) /\ waitq \in [Req -> Seq(Req)]
  /\ {inbh, enabled, limits, crash, clock} \subseteq BOOLEAN
  /\ tracked \subseteq Req /\ cor \in Nat /\ alloc \subseteq Sector
  /\ timer \in {"none", "idle", "armed"} /\ loop \in {Main, Drain, Abort} \cup Req
  /\ admin \in 0 .. MaxAdmin

(* A copy-on-read holds its clusters alone from its first read to its      *)
(* write: nothing else that is tracked touches them.                       *)
CorIsAlone ==
  \A r, q \in tracked : r # q /\ kind[r] = "cor" =>
    round_to_clusters(region[r]) \cap region[q] = {}

(* So its write never changes what the guest reads. *)
CorWriteIsInvisible == [][\A r \in Req : CorWrite(r) => disk' = disk]_vars

(* Every request that has yielded to a queue is in exactly one of them,    *)
(* and one that waits for another waits for a request that is running.     *)
Count(q, r) == Cardinality({i \in DOMAIN q : q[i] = r})
NoneLost ==
  \A r \in Req :
    /\ Count(throttled, r) + Count(unlock, r)
         + Cardinality({q \in Req : Count(waitq[q], r) > 0})
       = IF pc[r] \in {"throttle", "overlap"} THEN 1 ELSE 0
    /\ waitq[r] # <<>> => r \in tracked

Quiet == \A r \in Req : pc[r] \in {"idle", "done"}

(* bdrv_drain_all's assertions hold, and more: when its loop is over no    *)
(* request is left anywhere, unless a signal interrupted its last poll.    *)
DrainIsComplete ==
  [][loop = Drain /\ loop' # Drain => Interrupted \/ (tracked = {} /\ Quiet)]_vars

(* The timer is used only while it exists, but for requests that were      *)
(* throttled when a synchronous one freed it and kept the limits.          *)
TimerIsThere == crash => ~enabled

(* Requests do not hang: the device becomes quiet again and again, whatever *)
(* was throttled, waiting or drained.  Only a request that is throttled    *)
(* while vm_clock is stopped can keep it, or a drain, from that, and a     *)
(* failure ends everything.                                                *)
Frozen == ~clock /\ \E r \in Req : pc[r] = "throttle"
RequestsEnd == []<>(crash \/ loop = Abort \/ Frozen \/ (Quiet /\ loop = Main))
=============================================================================
